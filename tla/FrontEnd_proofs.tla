-------------------------- MODULE FrontEnd_proofs --------------------------
(***************************************************************************)
(* Proofs about FrontEnd, for any number of index generations, any indexes *)
(* and any requests that satisfy the assumptions on the constants.         *)
(***************************************************************************)
EXTENDS FrontEnd, FiniteSetTheorems, WellFoundedInduction, TLAPS

-----------------------------------------------------------------------------
(* The nearest of a set of points, and the order of postcode features. *)

\* Every non-empty set of naturals has a least element.
LEMMA NatLeast ==
    ASSUME NEW T, T \subseteq Nat, T # {}
    PROVE  \E x \in T : \A y \in T : x <= y
<1> DEFINE R == OpToRel(<, Nat)
<1>1. IsWellFoundedOn(R, Nat)
  BY NatLessThanWellFounded
<1> HIDE DEF R
<1>2. PICK x \in T : \A y \in T : ~ (<<y, x>> \in R)
  BY <1>1, WFMin
<1>3. \A y \in T : ~(y < x)
  BY <1>2 DEF R, OpToRel
<1> QED
  BY <1>2, <1>3

\* Of some points one is the nearest, and of those that are equally near one
\* has the least number.
LEMMA NearestIsOne ==
    ASSUME NEW points, points # {}, NEW near \in Int,
           \A p \in points : p.pos \in Int /\ p.id \in Nat
    PROVE  Nearest(points, near) \in points
<1> DEFINE D(p) == Apart(p.pos, near)
<1>1. \A p \in points : D(p) \in Nat
  BY DEF Apart
<1> HIDE DEF D
<1>2. PICK x \in {D(p) : p \in points} : \A y \in {D(p) : p \in points} : x <= y
  <2>1. {D(p) : p \in points} \subseteq Nat /\ {D(p) : p \in points} # {}
    BY <1>1
  <2> QED
    BY <2>1, NatLeast
<1>3. PICK i \in {p.id : p \in {q \in points : D(q) = x}} :
         \A j \in {p.id : p \in {q \in points : D(q) = x}} : i <= j
  <2>1. {p.id : p \in {q \in points : D(q) = x}} \subseteq Nat
    OBVIOUS
  <2>2. {p.id : p \in {q \in points : D(q) = x}} # {}
    BY <1>2
  <2> QED
    BY <2>1, <2>2, NatLeast
<1>4. PICK p \in points : D(p) = x /\ p.id = i
  BY <1>3
<1>5. \A q \in points : D(p) < D(q) \/ (D(p) = D(q) /\ p.id <= q.id)
  <2> TAKE q \in points
  <2>1. D(p) <= D(q) /\ D(p) \in Nat /\ D(q) \in Nat
    BY <1>1, <1>2, <1>4
  <2>2. CASE D(q) = x
    BY <1>3, <1>4, <2>2
  <2> QED
    BY <1>4, <2>1, <2>2
<1> QED
  BY <1>5 DEF Nearest, D

\* The pairs of R put the elements of S in a strict order.
IsOrder(R, S) ==
    /\ \A a \in S : <<a, a>> \notin R
    /\ \A a, b \in S : a # b => <<a, b>> \in R \/ <<b, a>> \in R
    /\ \A a, b, c \in S : <<a, b>> \in R /\ <<b, c>> \in R => <<a, c>> \in R

\* The number of elements of S before one of them.
RankOf(R, S, f) == Cardinality({g \in S : <<g, f>> \in R})

\* A strict order on a finite set has an element at each rank: ranks are
\* different, and there are as many as elements.
LEMMA RankExists ==
    ASSUME NEW S, IsFiniteSet(S), NEW R, IsOrder(R, S),
           NEW i \in 1..Cardinality(S)
    PROVE  \E f \in S : RankOf(R, S, f) = i - 1
<1> USE DEF IsOrder
<1> DEFINE Before(f) == {g \in S : <<g, f>> \in R}
           n == Cardinality(S)
           rank == [f \in S |-> Cardinality(Before(f))]
<1>1. n \in Nat
  BY FS_CardinalityType
<1>2. \A f \in S : /\ IsFiniteSet(Before(f)) /\ rank[f] \in Nat /\ rank[f] < n
  <2> TAKE f \in S
  <2>1. IsFiniteSet(Before(f)) /\ Cardinality(Before(f)) <= n
        /\ (n = Cardinality(Before(f)) => S = Before(f))
    BY FS_Subset
  <2>2. S # Before(f)
    OBVIOUS
  <2>3. Cardinality(Before(f)) \in Nat
    BY <2>1, FS_CardinalityType
  <2> QED
    BY <1>1, <2>1, <2>2, <2>3
<1>3. \A f, g \in S : <<f, g>> \in R => rank[f] # rank[g]
  <2> SUFFICES ASSUME NEW f \in S, NEW g \in S, <<f, g>> \in R PROVE rank[f] # rank[g]
    OBVIOUS
  <2>1. Before(f) \in SUBSET Before(g) /\ Before(f) # Before(g)
    OBVIOUS
  <2> QED
    BY <1>2, <2>1, FS_Subset
<1>4. rank \in Injection(S, 0..(n - 1))
  <2>1. rank \in [S -> 0..(n - 1)]
    BY <1>1, <1>2
  <2>2. IsInjective(rank)
    BY <1>3 DEF IsInjective
  <2> QED
    BY <2>1, <2>2 DEF Injection
<1>5. IsFiniteSet(0..(n - 1)) /\ Cardinality(0..(n - 1)) = n
  <2>1. 0 \in Int /\ n - 1 \in Int
    BY <1>1
  <2> QED
    BY <1>1, <2>1, FS_Interval
<1>6. rank \in Surjection(S, 0..(n - 1))
  BY <1>4, <1>5, FS_Injection
<1>7. i - 1 \in 0..(n - 1)
  BY <1>1
<1>8. \E f \in S : rank[f] = i - 1
  BY <1>6, <1>7 DEF Surjection
<1>9. \A f \in S : rank[f] = RankOf(R, S, f)
  BY Zenon DEF RankOf
<1> QED
  BY <1>8, <1>9

-----------------------------------------------------------------------------
(* A house on a street. *)

\* Who is asked for a house does not find "no house".
LEMMA HouseIsOne ==
    ASSUME NEW hn, hn # NoHouse, NEW stored, HousenumberMatches(hn, stored)
    PROVE  stored # NoHouse
<1>1. hn = stored \/ stored.word = ""
  BY DEF HousenumberMatches
<1>2. NoHouse.word # ""
  BY DEF NoHouse, Word, None
<1> QED
  BY <1>1, <1>2

\* A point found by house number has the number, the street and the unit asked for.
LEMMA HouseFound ==
    ASSUME NEW points, \A p \in points : p.pos \in Int /\ p.id \in Nat,
           NEW hn, NEW street, NEW unit, NEW near \in Int,
           FindByHousenumber(points, hn, street, unit, near) # NoPoint
    PROVE  LET m == FindByHousenumber(points, hn, street, unit, near)
           IN  /\ m \in points /\ HousenumberMatches(hn, m.hn) /\ m.street \in Inside[street]
               /\ Trimmed(unit) # None => m.unit \in {Trimmed(unit), None}
<1> DEFINE found == {p \in points : /\ InReach(p.pos, near) /\ HousenumberMatches(hn, p.hn)
                                    /\ p.street \in Inside[street]}
           first == {p \in found : Trimmed(unit) = None \/ p.unit = Trimmed(unit)}
           pick == IF first # {} THEN first ELSE {p \in found : p.unit = None}
           m == FindByHousenumber(points, hn, street, unit, near)
<1>1. m = Nearest(pick, near) /\ pick # {}
  BY DEF FindByHousenumber, Nearest
<1>2. pick \subseteq points
  OBVIOUS
<1>3. m \in pick
  BY <1>1, <1>2, NearestIsOne
<1> QED
  BY <1>3

\* The same of the point that is found over all databases of a generation.
LEMMA AddrPointFound ==
    ASSUME NEW g \in 1..MaxGen, NEW hn, NEW street, NEW unit, NEW near \in Int, NEW cc,
           FindAddrPoint(Sources[g], hn, street, unit, near, cc) # NoPoint
    PROVE  LET m == FindAddrPoint(Sources[g], hn, street, unit, near, cc)
           IN  /\ m \in AllPoints(Sources[g])
               /\ HousenumberMatches(hn, m.hn) /\ m.street \in Inside[street]
               /\ Trimmed(unit) # None => m.unit \in {Trimmed(unit), None}
<1> DEFINE ix == Sources[g]
           m == FindAddrPoint(ix, hn, street, unit, near, cc)
<1>1. \/ m = FindByHousenumber(ix.gnaf, hn, street, unit, near)
      \/ cc \in DOMAIN ix.oa /\ m = FindByHousenumber(ix.oa[cc], hn, street, unit, near)
      \/ m = FindByHousenumber(ix.osm, hn, street, unit, near)
  BY DEF FindAddrPoint, OaPoint, OsmPoint
<1>2. /\ ix.gnaf \subseteq AllPoints(ix) /\ ix.osm \subseteq AllPoints(ix)
      /\ cc \in DOMAIN ix.oa => ix.oa[cc] \subseteq AllPoints(ix)
  BY DEF AllPoints
<1>3. \A s \in AllPoints(ix) : s.pos \in Int /\ s.id \in Nat
  BY IndexAssumption
<1> HIDE DEF ix, m
<1>4. m # NoPoint
  BY DEF m, ix
<1>5. CASE m = FindByHousenumber(ix.gnaf, hn, street, unit, near)
  BY <1>2, <1>3, <1>4, <1>5, HouseFound DEF m, ix
<1>6. CASE cc \in DOMAIN ix.oa /\ m = FindByHousenumber(ix.oa[cc], hn, street, unit, near)
  BY <1>2, <1>3, <1>4, <1>6, HouseFound DEF m, ix
<1>7. CASE m = FindByHousenumber(ix.osm, hn, street, unit, near)
  BY <1>2, <1>3, <1>4, <1>7, HouseFound DEF m, ix
<1> QED
  BY <1>1, <1>5, <1>6, <1>7

-----------------------------------------------------------------------------
(* What a request may find. *)

\* A hit of one of the readings of a request.
Found(h, p) == \E street \in Readings(p) : Findable(h, p, street)

\* The records an answer may be made of.
Lookups(p) ==
    {h \in ForwardHits : NeedsForward(p.op) /\ Found(h, p)}
      \cup (IF p.op = "search" THEN FstHits ELSE {})
      \cup (IF p.op \in {"reverse", "ip"} THEN {[at |-> 0]} ELSE {})

\* A request asks for at most 50 hits.
LEMMA LimitIsSmall ==
    ASSUME NEW p \in Requests
    PROVE  Limit(p) \in Nat /\ Limit(p) <= 50
BY RequestAssumption DEF Limit

\* The postcode features come from the autocomplete index, as many as asked for.
LEMMA PostalHitsFound ==
    ASSUME NEW p \in Requests
    PROVE  PostalHits(p) \in Seq(FstHits) /\ Len(PostalHits(p)) <= 50
<1> DEFINE code == Or(p.pc, p.q)
           S == {f \in FstHits : /\ f.kind = "postcode" /\ f.name = code
                                 /\ p.cc # <<>> => f.cc \in ToSet(p.cc) \cap TwoLetter}
           Key(f) == IF p.bias >= 0 THEN Apart(f.pos, p.bias) ELSE 0
           Before(f, g) == Key(f) < Key(g) \/ (Key(f) = Key(g) /\ f.id < g.id)
           ordered == [i \in 1 .. Cardinality(S) |->
                         CHOOSE f \in S : Cardinality({g \in S : Before(g, f)}) = i - 1]
           top == IF Len(ordered) < Limit(p) THEN Len(ordered) ELSE Limit(p)
<1>1. PostalHits(p) \in {SubSeq(ordered, 1, top), <<>>}
  BY DEF PostalHits
<1>2. S \subseteq FstHits /\ IsFiniteSet(S) /\ Cardinality(S) \in Nat
  <2>1. S \in SUBSET FstHits
    OBVIOUS
  <2> QED
    BY <2>1, IndexAssumption, FS_Subset, FS_CardinalityType
<1>3. ordered \in [1..Cardinality(S) -> S]
  <2> SUFFICES ASSUME NEW i \in 1..Cardinality(S)
               PROVE  \E f \in S : Cardinality({g \in S : Before(g, f)}) = i - 1
    OBVIOUS
  <2> DEFINE R == {ab \in S \X S : Before(ab[1], ab[2])}
  <2>1. \A f \in S : Key(f) \in Int /\ f.id \in Int
    BY <1>2, IndexAssumption, RequestAssumption DEF Apart
  <2> HIDE DEF Key
  <2>2. \A a, b \in S : <<a, b>> \in R <=> Before(a, b)
    OBVIOUS
  <2>3. IsOrder(R, S)
    <3>1. \A a \in S : <<a, a>> \notin R
      BY <2>1, <2>2
    <3>2. \A a, b \in S : a # b => <<a, b>> \in R \/ <<b, a>> \in R
      <4>1. \A a, b \in S : a # b => a.id # b.id
        BY <1>2, IndexAssumption
      <4> QED
        BY <2>1, <2>2, <4>1
    <3>3. \A a, b, c \in S : <<a, b>> \in R /\ <<b, c>> \in R => <<a, c>> \in R
      BY <2>1, <2>2
    <3> HIDE DEF R, S
    <3> QED
      BY <3>1, <3>2, <3>3 DEF IsOrder
  <2> HIDE DEF R, S
  <2>4. PICK f \in S : RankOf(R, S, f) = i - 1
    BY <1>2, <2>3, RankExists
  <2>5. {g \in S : <<g, f>> \in R} = {g \in S : Before(g, f)}
    BY <2>2
  <2> QED
    BY <2>4, <2>5 DEF RankOf
<1> HIDE DEF ordered, S
<1>4. ordered \in Seq(FstHits) /\ Len(ordered) = Cardinality(S)
  BY <1>2, <1>3
<1>5. top \in Nat /\ top <= Len(ordered) /\ top <= 50
  BY <1>2, <1>4, LimitIsSmall
<1>6. SubSeq(ordered, 1, top) \in Seq(FstHits) /\ Len(SubSeq(ordered, 1, top)) = top
  BY <1>4, <1>5
<1>7. <<>> \in Seq(FstHits) /\ Len(<<>>) <= 50
  OBVIOUS
<1> QED
  BY <1>1, <1>5, <1>6, <1>7

\* The autocomplete answer is short, and only a search has one.
LEMMA FstAnswerFound ==
    ASSUME NEW p \in Requests, NEW have
    PROVE  /\ FstAnswer(p, have) \in Seq(FstHits) /\ Len(FstAnswer(p, have)) <= 50
           /\ FstAnswer(p, have) # <<>> => p.op = "search"
<1>1. FastPathHit(p) \in Seq(FstHits) /\ Len(FastPathHit(p)) <= 50
  <2> DEFINE S == {f \in FstHits : f.cc = CountryCode(p.cc) /\ f.name = p.q /\ p.kind \in {None, f.kind}}
  <2>1. FastPathHit(p) = <<>> \/ (S # {} /\ FastPathHit(p) = <<CHOOSE f \in S : TRUE>>)
    BY DEF FastPathHit
  <2>2. S # {} => (CHOOSE f \in S : TRUE) \in FstHits
    OBVIOUS
  <2> HIDE DEF S
  <2>3. <<>> \in Seq(FstHits) /\ Len(<<>>) <= 50
    OBVIOUS
  <2>4. \A f \in FstHits : <<f>> \in Seq(FstHits) /\ Len(<<f>>) <= 50
    OBVIOUS
  <2> QED
    BY <2>1, <2>2, <2>3, <2>4
<1>2. <<>> \in Seq(FstHits) /\ Len(<<>>) <= 50
  OBVIOUS
<1> QED
  BY <1>1, <1>2, PostalHitsFound DEF FstAnswer

\* A forward answer is a short list of hits that the request can find.
LEMMA ForwardAnswersFound ==
    ASSUME NEW p \in Requests, NEW s \in ForwardAnswers(p)
    PROVE  /\ s \in Seq({h \in ForwardHits : Found(h, p)})
           /\ Len(s) <= 50
<1> DEFINE n == IF Limit(p) < MaxHits THEN Limit(p) ELSE MaxHits
           S == {h \in ForwardHits : Found(h, p)}
           Hits(street) == {h \in ForwardHits : /\ Findable(h, p, street)
                                                /\ \/ street \in {p.street} \cup Corrected(p)
                                                   \/ h.kind = "address"}
<1>1. PICK street \in Readings(p), k \in 0..n : s \in [1..k -> Hits(street)]
  BY DEF ForwardAnswers
<1>2. n \in Nat /\ n <= 50
  BY LimitIsSmall, FrontAssumption
<1>3. Hits(street) \subseteq S
  BY DEF Found
<1> HIDE DEF n, S, Hits
<1>4. k \in Nat /\ k <= 50
  BY <1>2
<1>5. s \in Seq(S) /\ Len(s) = k
  BY <1>1, <1>3, <1>4
<1> QED
  BY <1>4, <1>5 DEF S

-----------------------------------------------------------------------------
(* What one hit of an answer says. *)

\* The hit that is made of a record.
Given(h, p, g) == IF p.op = "validate" THEN Validate(h, p, g).hit ELSE AnswerHit(h, p, g)

\* Its context is that of the index at the position it answers.
InContext(o, g) ==
    /\ o.county = QueryAt[g][o.pos].county /\ o.country = QueryAt[g][o.pos].country
    /\ o.h3 \in {-1, o.pos}

\* The house, unit, road and postcode it carries are its own.
OwnHouse(o, p, g) ==
    /\ o.kind \in {"place", "poi", "postcode"} =>
         o.hn = NoHouse /\ o.unit = None /\ o.road = None /\ o.pc \in {None, o.name}
    /\ o.kind = "street" /\ o.hn # NoHouse =>
         /\ \E s \in AllPoints(Sources[g]) :
              /\ s.pos = o.pos /\ s.hn = o.hn /\ s.street \in Inside[o.name]
              /\ p.api = "rest" => s.unit = o.unit
         /\ Trimmed(Unit(p)) # None => o.unit \in {Trimmed(Unit(p)), None}
    /\ o.kind = "street" /\ o.hn = NoHouse /\ o.pc # None =>
         o.pc \in HasDigit /\ o.city = QueryAt[g][o.pos].city

\* A reverse hit is made of one generation, at its position.
LEMMA ReverseHitFacts ==
    ASSUME NEW p, NEW kind, NEW name, NEW pos, NEW g
    PROVE  /\ InContext(ReverseHit(p, kind, name, pos, g), g)
           /\ ReverseHit(p, kind, name, pos, g).pos = pos
BY DEF ReverseHit, InContext, H3At

\* An autocomplete hit is made of one generation, with a house of its own.
LEMMA FstHitFacts ==
    ASSUME NEW f, NEW p, NEW g
    PROVE  InContext(EnrichFstHit(f, p, g), g) /\ OwnHouse(EnrichFstHit(f, p, g), p, g)
<1> DEFINE o == EnrichFstHit(f, p, g)
<1>1. /\ o.pos = f.pos /\ o.kind = f.kind /\ o.name = f.name /\ o.hn = NoHouse /\ o.unit = None
      /\ o.road = IF f.kind = "street" THEN f.name ELSE None
      /\ o.pc = IF f.kind = "postcode" THEN f.name ELSE None
      /\ o.county = QueryAt[g][f.pos].county /\ o.country = QueryAt[g][f.pos].country
      /\ o.h3 = H3At(p, f.pos)
  BY DEF EnrichFstHit
<1> HIDE DEF o
<1> QED
  BY <1>1 DEF InContext, OwnHouse, H3At, o

\* An enriched hit is made of one generation and keeps its position unless it is a
\* street.
LEMMA EnrichHitFacts ==
    ASSUME NEW p, NEW g \in 1..MaxGen, NEW h, h.pos \in Int
    PROVE  /\ InContext(EnrichHit(h, p, g), g)
           /\ p.api = "rest" => OwnHouse(EnrichHit(h, p, g), p, g)
           /\ h.kind # "street" => EnrichHit(h, p, g).pos = h.pos
<1> DEFINE o == EnrichHit(h, p, g)
           asked == h.kind = "street" /\ House(p) # NoHouse /\ p.op # "nearby"
           found == FindAddrPoint(Sources[g], House(p), h.name, Unit(p), h.pos, CountryCode(<<h.cc>>))
           m == IF asked THEN found ELSE NoPoint
           pos == IF m # NoPoint THEN m.pos ELSE h.pos
           d == QueryAt[g][pos]
           same == h.kind = "street" /\ h.suburb # None /\ h.suburb = d.city
<1>1. /\ o.pos = pos /\ o.kind = h.kind /\ o.name = h.name
      /\ o.hn = (IF h.kind = "address" THEN h.hn ELSE m.hn)
      /\ o.unit = (IF h.kind = "address" THEN h.unit ELSE m.unit)
      /\ o.road = (IF h.kind = "address" \/ h.kind = "street" THEN h.name ELSE None)
      /\ o.city = Or(h.suburb, d.city)
      /\ o.pc = (IF h.kind = "address" THEN Or(h.pc, d.pc)
                 ELSE IF m # NoPoint \/ (same /\ d.pc \in HasDigit) THEN d.pc ELSE None)
      /\ o.county = d.county /\ o.country = d.country /\ o.h3 = H3At(p, pos)
  BY DEF EnrichHit
<1>2. NoPoint.hn = NoHouse /\ NoPoint.unit = None
  BY DEF NoPoint
<1>3. m # NoPoint =>
        /\ h.kind = "street" /\ m.hn # NoHouse /\ m \in AllPoints(Sources[g])
        /\ m.street \in Inside[h.name]
        /\ Trimmed(Unit(p)) # None => m.unit \in {Trimmed(Unit(p)), None}
  <2> SUFFICES ASSUME m # NoPoint
               PROVE  /\ h.kind = "street" /\ m.hn # NoHouse /\ m \in AllPoints(Sources[g])
                      /\ m.street \in Inside[h.name]
                      /\ Trimmed(Unit(p)) # None => m.unit \in {Trimmed(Unit(p)), None}
    OBVIOUS
  <2>1. asked /\ m = found /\ found # NoPoint
    OBVIOUS
  <2>2. /\ found \in AllPoints(Sources[g])
        /\ HousenumberMatches(House(p), found.hn) /\ found.street \in Inside[h.name]
        /\ Trimmed(Unit(p)) # None => found.unit \in {Trimmed(Unit(p)), None}
    BY <2>1, AddrPointFound
  <2> QED
    BY <2>1, <2>2, HouseIsOne
<1> HIDE DEF o, m
<1>4. InContext(o, g)
  BY <1>1 DEF InContext, H3At
<1>5. OwnHouse(o, p, g)
  <2>1. CASE h.kind = "street" /\ m # NoPoint
    BY <1>1, <1>3, <2>1 DEF OwnHouse
  <2>2. CASE h.kind = "street" /\ m = NoPoint
    BY <1>1, <1>2, <2>2 DEF OwnHouse, Or
  <2>3. CASE h.kind # "street"
    BY <1>1, <1>2, <1>3, <2>3 DEF OwnHouse
  <2> QED
    BY <2>1, <2>2, <2>3
<1>6. h.kind # "street" => o.pos = h.pos
  BY <1>1, <1>3
<1> QED
  BY <1>4, <1>5, <1>6 DEF o

\* A hit of the gRPC surface is made of one generation, with a house of its own.
LEMMA GrpcHitFacts ==
    ASSUME NEW p, p.api = "grpc", NEW g \in 1..MaxGen, NEW h, h.pos \in Int
    PROVE  InContext(GrpcHit(h, p, g), g) /\ OwnHouse(GrpcHit(h, p, g), p, g)
<1> DEFINE o == GrpcHit(h, p, g)
           asked == h.kind = "street" /\ House(p) # NoHouse
           found == FindAddrPoint(Sources[g], House(p), h.name, None, h.pos, CountryCode(p.cc))
           m == IF asked THEN found ELSE NoPoint
           pos == IF m # NoPoint THEN m.pos ELSE h.pos
           d == QueryAt[g][pos]
<1>1. /\ o.pos = pos /\ o.kind = h.kind /\ o.name = h.name
      /\ o.hn = (IF h.kind = "address" THEN h.hn ELSE m.hn) /\ o.unit = None
      /\ o.road = (IF h.kind = "address" \/ h.kind = "street" THEN h.name ELSE None)
      /\ o.pc = (IF h.kind = "address" THEN Or(h.pc, d.pc) ELSE IF m # NoPoint THEN d.pc ELSE None)
      /\ o.county = d.county /\ o.country = d.country /\ o.h3 = H3At(p, pos)
  BY DEF GrpcHit
<1>2. NoPoint.hn = NoHouse /\ Trimmed(Unit(p)) = None
  BY DEF NoPoint, Unit, Trimmed
<1>3. m # NoPoint => /\ h.kind = "street" /\ m.hn # NoHouse /\ m \in AllPoints(Sources[g])
                     /\ m.street \in Inside[h.name]
  <2> SUFFICES ASSUME m # NoPoint
               PROVE  /\ h.kind = "street" /\ m.hn # NoHouse /\ m \in AllPoints(Sources[g])
                      /\ m.street \in Inside[h.name]
    OBVIOUS
  <2>1. asked /\ m = found /\ found # NoPoint
    OBVIOUS
  <2>2. /\ found \in AllPoints(Sources[g])
        /\ HousenumberMatches(House(p), found.hn) /\ found.street \in Inside[h.name]
    BY <2>1, AddrPointFound
  <2> QED
    BY <2>1, <2>2, HouseIsOne
<1> HIDE DEF o, m
<1>4. InContext(o, g)
  BY <1>1 DEF InContext, H3At
<1>5. OwnHouse(o, p, g)
  <2>1. CASE m # NoPoint
    BY <1>1, <1>2, <1>3, <2>1 DEF OwnHouse
  <2>2. CASE m = NoPoint
    BY <1>1, <1>2, <2>2 DEF OwnHouse
  <2> QED
    BY <2>1, <2>2
<1> QED
  BY <1>4, <1>5 DEF o

\* Whatever record of whatever index a hit is made of, it says only what is true
\* of it in that index; an enriched one carries no house but its own.
LEMMA GivenFacts ==
    ASSUME NEW p \in Requests, NEW g \in 1..MaxGen, NEW h \in Lookups(p)
    PROVE  /\ InContext(Given(h, p, g), g)
           /\ Enriched(p) => OwnHouse(Given(h, p, g), p, g)
<1>1. p.api \in {"rest", "grpc"}
  BY RequestAssumption
<1>2. p.op \notin {"reverse", "ip"} => \/ h \in ForwardHits /\ h.pos \in Int
                                       \/ h \in FstHits /\ "id" \in DOMAIN h /\ p.op = "search"
  BY IndexAssumption DEF Lookups
<1>3. CASE p.op = "validate"
  <2>1. ~Enriched(p)
    BY <1>3 DEF Enriched
  <2>2. \E kind, name, pos : Given(h, p, g) \in {EnrichHit(h, p, g), ReverseHit(p, kind, name, pos, g)}
    BY <1>3 DEF Given, Validate, RestValidate, GrpcValidate
  <2> QED
    BY <1>2, <1>3, <2>1, <2>2, EnrichHitFacts, ReverseHitFacts
<1>4. CASE p.op \in {"reverse", "ip"}
  <2>1. ~Enriched(p)
    BY <1>4 DEF Enriched
  <2> QED
    BY <1>4, <2>1, ReverseHitFacts DEF Given, AnswerHit
<1>5. CASE p.op = "nearby"
  <2>1. CASE p.api = "grpc"
    <3>1. ~Enriched(p)
      BY <1>5, <2>1 DEF Enriched
    <3> QED
      BY <1>5, <2>1, <3>1, ReverseHitFacts DEF Given, AnswerHit
  <2>2. CASE p.api = "rest"
    BY <1>2, <1>5, <2>2, EnrichHitFacts DEF Given, AnswerHit
  <2> QED
    BY <1>1, <2>1, <2>2
<1>6. CASE p.op \notin {"validate", "reverse", "ip", "nearby"}
  <2>1. Given(h, p, g) = IF p.op = "search" /\ "id" \in DOMAIN h THEN EnrichFstHit(h, p, g)
                         ELSE IF p.api = "grpc" THEN GrpcHit(h, p, g) ELSE EnrichHit(h, p, g)
    BY <1>6 DEF Given, AnswerHit
  <2> QED
    BY <1>1, <1>2, <1>6, <2>1, FstHitFacts, GrpcHitFacts, EnrichHitFacts
<1> QED
  BY <1>3, <1>4, <1>5, <1>6

-----------------------------------------------------------------------------
(* What "verified" says. *)

OfRequest(p, hn, street, unit, pc) ==
    /\ HousenumberMatches(p.hn, hn) /\ \E r \in Readings(p) : street \in Inside[r]
    /\ p.api = "rest" => UnitMatches(p.unit, unit) /\ PostcodeMatches(p.pc, pc)

Stored(o, p, g) ==
    \/ \E s \in AllPoints(Sources[g]) :
         s.pos = o.pos /\ OfRequest(p, s.hn, s.street, s.unit, QueryAt[g][s.pos].pc)
    \/ \E h \in ForwardHits :
         h.kind = "address" /\ h.pos = o.pos /\ OfRequest(p, h.hn, h.name, h.unit, h.pc)

\* An address that is verified is stored.
LEMMA VerifiedFacts ==
    ASSUME NEW p \in Requests, p.op = "validate", p.street # None, p.hn # BlankHouse,
           NEW g \in 1..MaxGen, NEW h \in Lookups(p), Validate(h, p, g).verified
    PROVE  Stored(Given(h, p, g), p, g)
<1>1. p.api \in {"rest", "grpc"} /\ p.qhn = NoHouse
  BY RequestAssumption
<1>2. PICK r \in Readings(p) : h \in ForwardHits /\ Findable(h, p, r) /\ h.pos \in Int
  BY IndexAssumption DEF Lookups, Found
<1>3. h.name \in Inside[r] /\ \A name \in Inside[h.name] : \E q \in Readings(p) : name \in Inside[q]
  <2>1. r # None /\ r \in DOMAIN Inside
    BY RequestAssumption, IndexAssumption DEF Readings, Corrected, Repaired
  <2>2. h.name \in Inside[r]
    BY <1>2, <2>1 DEF Findable
  <2>3. Inside[h.name] \subseteq Inside[r]
    BY <2>1, <2>2, IndexAssumption
  <2> QED
    BY <2>2, <2>3
<1>4. CASE p.api = "rest" /\ h.kind = "address"
  <2>1. p.hn # NoHouse
    BY <1>2, <1>4 DEF Findable, KindAsked, None
  <2>2. h.hn = p.hn
    BY <1>2, <1>4, <2>1 DEF Findable, House
  <2>3. HousenumberMatches(p.hn, h.hn)
    BY <2>2 DEF HousenumberMatches
  <2>4. /\ UnitMatches(p.unit, h.unit) /\ PostcodeMatches(p.pc, h.pc)
        /\ Given(h, p, g) = EnrichHit(h, p, g)
    BY <1>4 DEF Given, Validate, RestValidate
  <2>5. Given(h, p, g).pos = h.pos
    BY <1>2, <1>4, <2>4, EnrichHitFacts
  <2> QED
    BY <1>2, <1>3, <1>4, <2>3, <2>4, <2>5 DEF Stored, OfRequest
<1>5. CASE p.api = "rest" /\ h.kind # "address"
  <2> DEFINE found == FindAddrPoint(Sources[g], p.hn, h.name, p.unit, h.pos, CountryCode(p.cc))
  <2>1. /\ found # NoPoint /\ UnitMatches(p.unit, found.unit)
        /\ PostcodeMatches(p.pc, QueryAt[g][found.pos].pc)
        /\ Given(h, p, g) = ReverseHit(p, h.kind, h.name, found.pos, g)
    BY <1>5 DEF Given, Validate, RestValidate
  <2>2. /\ found \in AllPoints(Sources[g]) /\ HousenumberMatches(p.hn, found.hn)
        /\ found.street \in Inside[h.name]
    BY <1>2, <2>1, AddrPointFound
  <2> HIDE DEF found
  <2>3. Given(h, p, g).pos = found.pos
    BY <2>1, ReverseHitFacts
  <2> QED
    BY <1>3, <2>1, <2>2, <2>3 DEF Stored, OfRequest
<1>6. CASE p.api = "grpc"
  <2> DEFINE found == FindAddrPoint(Sources[g], p.hn, h.name, None, h.pos, CountryCode(p.cc))
  <2>1. found # NoPoint /\ Given(h, p, g) = ReverseHit(p, h.kind, h.name, found.pos, g)
    BY <1>6 DEF Given, Validate, GrpcValidate
  <2>2. /\ found \in AllPoints(Sources[g]) /\ HousenumberMatches(p.hn, found.hn)
        /\ found.street \in Inside[h.name]
    BY <1>2, <2>1, AddrPointFound
  <2> HIDE DEF found
  <2>3. Given(h, p, g).pos = found.pos
    BY <2>1, ReverseHitFacts
  <2> QED
    BY <1>3, <1>6, <2>2, <2>3 DEF Stored, OfRequest
<1> QED
  BY <1>1, <1>4, <1>5, <1>6

-----------------------------------------------------------------------------
(* The checks of the two surfaces. *)

\* Where no token is empty, parse_h3_res and validate_h3_res accept the same.
LEMMA ResolutionsAgree ==
    ASSUME NEW raw \in Seq(Int), \A r \in ToSet(raw) : r >= 0
    PROVE  /\ H3ResOk(raw) <=> ValidateH3Res(raw)
           /\ ParseH3Res(raw) = {} <=> raw = <<>>
<1>1. Len(raw) \in Nat /\ DOMAIN raw = 1..Len(raw)
  OBVIOUS
<1>2. \A i \in DOMAIN raw : raw[i] \in Int /\ raw[i] >= 0
  BY DEF ToSet
<1>3. ParseH3Res(raw) = 1..Len(raw)
  BY <1>1, <1>2 DEF ParseH3Res, EmptyToken
<1>4. Cardinality(1..Len(raw)) = Len(raw)
  <2>1. PICK n \in Nat : n = Len(raw)
    BY <1>1
  <2>2. Cardinality(1..n) = n
    BY FS_Interval
  <2> QED
    BY <2>1, <2>2, Zenon
<1>5. (\A i \in 1..Len(raw) : raw[i] \in 0..15) <=> (\A r \in ToSet(raw) : r \in 0..15)
  BY <1>1 DEF ToSet
<1>6. ParseH3Res(raw) = {} <=> raw = <<>>
  <2>1. raw = <<>> <=> Len(raw) = 0
    OBVIOUS
  <2>2. 1..Len(raw) = {} <=> Len(raw) = 0
    <3>1. Len(raw) # 0 => 1 \in 1..Len(raw)
      BY <1>1
    <3>2. Len(raw) = 0 => 1..Len(raw) = {}
      BY <1>1
    <3> QED
      BY <3>1, <3>2
  <2> QED
    BY <1>3, <2>1, <2>2
<1>7. H3ResOk(raw) <=> ValidateH3Res(raw)
  BY <1>3, <1>4, <1>5 DEF H3ResOk, ValidateH3Res
<1> QED
  BY <1>6, <1>7

\* The two surfaces accept the same requests.
LEMMA VerdictsAgree ==
    ASSUME NEW p \in Requests, Expressible(p), NEW have
    PROVE  (RestVerdict(p, have) = 200) = (GrpcVerdict(p, have) = 200)
<1>1. p.op \in Ops /\ p.h3 \in Seq(Int)
  BY RequestAssumption
<1>2. TooLong(p, RestChecked(p.op)) <=> TooLong(p, GrpcChecked(p.op))
  <2>1. RestChecked(p.op) \cap DOMAIN p.len = GrpcChecked(p.op) \cap DOMAIN p.len
    <3>1. "unit" \notin DOMAIN p.len /\ ("postcode" \in DOMAIN p.len => p.op = "validate")
      BY DEF Expressible
    <3>2. CASE p.op = "validate"
      <4>1. RestChecked(p.op) = GrpcChecked(p.op) \cup {"unit"}
        BY <3>2 DEF RestChecked, GrpcChecked
      <4> QED
        BY <3>1, <4>1
    <3>3. CASE p.op # "validate"
      <4>1. RestChecked(p.op) \subseteq GrpcChecked(p.op) \cup {"postcode"}
        BY <1>1, <3>3 DEF Ops, RestChecked, GrpcChecked
      <4>2. GrpcChecked(p.op) \subseteq RestChecked(p.op)
        BY <1>1, <3>3 DEF Ops, RestChecked, GrpcChecked
      <4> QED
        BY <3>1, <3>3, <4>1, <4>2
    <3> QED
      BY <3>2, <3>3
  <2> QED
    BY <2>1 DEF TooLong
<1>3. /\ H3ResOk(p.h3) <=> ValidateH3Res(p.h3)
      /\ ParseH3Res(p.h3) = {} <=> p.h3 = <<>>
  BY <1>1, ResolutionsAgree DEF Expressible
<1>4. p.kind # "postcode" /\ (p.op = "validate" => p.street # None /\ p.city # None /\ p.cc # <<>>)
  BY DEF Expressible
<1>5. \A a \in BOOLEAN, b \in BOOLEAN : (a <=> b) => a = b
  OBVIOUS
<1>6. (RestVerdict(p, have) = 200) <=> (GrpcVerdict(p, have) = 200)
  BY <1>2, <1>3, <1>4 DEF RestVerdict, GrpcVerdict
<1> QED
  BY <1>5, <1>6

\* A verdict is one of the statuses that the handlers give.
LEMMA VerdictRange ==
    ASSUME NEW p \in Requests, NEW have
    PROVE  Verdict(p, have) \in {200, 400, 404, 501, 503}
BY DEF Verdict, RestVerdict, GrpcVerdict, IpStatus

-----------------------------------------------------------------------------
(* House numbers. *)

\* housenumber_matches decides whether a stored number has a door that is asked
\* for, whatever the numbers, ranges and suffixes.
LEMMA DoorsMatch ==
    ASSUME NEW q \in Numbers, NEW s \in Numbers
    PROVE  HousenumberMatches(q, s) <=>
             q = s \/ (q.word = "" /\ s.word = "" /\ AskedDoors(q) \cap StoredDoors(s) # {})
<1> DEFINE Q == ParseHn(q)
           S == ParseHn(s)
           asked == IF Q.suffix = "" THEN DoorSuffixes ELSE {Q.suffix}
           stored == IF S.suffix = "" /\ S.first # S.last THEN DoorSuffixes ELSE {S.suffix}
<1>1. /\ Q.first \in Int /\ Q.last \in Int /\ Q.first <= Q.last /\ Q.suffix = q.sfx
      /\ S.first \in Int /\ S.last \in Int /\ S.first <= S.last /\ S.suffix = s.sfx
  BY IndexAssumption DEF ParseHn
<1>2. q.sfx \in DoorSuffixes /\ s.sfx \in DoorSuffixes /\ "" \in DoorSuffixes
  BY DEF DoorSuffixes
<1> HIDE DEF Q, S
<1>3. AskedDoors(q) = (Q.first .. Q.last) \X asked /\ StoredDoors(s) = (S.first .. S.last) \X stored
  BY DEF AskedDoors, StoredDoors, Q, S
<1>4. RangesOverlap(Q, S) <=> \E n \in Int : n \in Q.first .. Q.last /\ n \in S.first .. S.last
  <2>1. ASSUME RangesOverlap(Q, S)
        PROVE  \E n \in Int : n \in Q.first .. Q.last /\ n \in S.first .. S.last
    <3>1. CASE Q.first <= S.first
      BY <1>1, <2>1, <3>1 DEF RangesOverlap
    <3>2. CASE S.first <= Q.first
      BY <1>1, <2>1, <3>2 DEF RangesOverlap
    <3> QED
      BY <1>1, <3>1, <3>2
  <2>2. ASSUME NEW n \in Int, n \in Q.first .. Q.last, n \in S.first .. S.last
        PROVE  RangesOverlap(Q, S)
    BY <1>1, <2>2 DEF RangesOverlap
  <2> QED
    BY <2>1, <2>2
<1>5. (Q.suffix # "" => IF S.suffix # "" THEN Q.suffix = S.suffix ELSE S.first # S.last)
        <=> asked \cap stored # {}
  BY <1>1, <1>2
<1>6. AskedDoors(q) \cap StoredDoors(s) # {} <=> RangesOverlap(Q, S) /\ asked \cap stored # {}
  <2> HIDE DEF asked, stored
  <2>1. ASSUME NEW e, e \in AskedDoors(q), e \in StoredDoors(s)
        PROVE  RangesOverlap(Q, S) /\ asked \cap stored # {}
    <3>1. /\ e[1] \in Q.first .. Q.last /\ e[1] \in S.first .. S.last
          /\ e[2] \in asked /\ e[2] \in stored
      BY <1>3, <2>1
    <3>2. e[1] \in Int
      BY <1>1, <3>1
    <3> QED
      BY <1>4, <3>1, <3>2
  <2>2. ASSUME RangesOverlap(Q, S), NEW x \in asked \cap stored
        PROVE  AskedDoors(q) \cap StoredDoors(s) # {}
    <3>1. PICK n \in Int : n \in Q.first .. Q.last /\ n \in S.first .. S.last
      BY <1>4, <2>2
    <3>2. <<n, x>> \in AskedDoors(q) /\ <<n, x>> \in StoredDoors(s)
      BY <1>3, <3>1
    <3> QED
      BY <3>2
  <2> QED
    BY <2>1, <2>2
<1>7. HousenumberMatches(q, s) <=>
        \/ q = s
        \/ /\ q.word = "" /\ s.word = ""
           /\ Q.suffix # "" => IF S.suffix # "" THEN Q.suffix = S.suffix ELSE S.first # S.last
           /\ RangesOverlap(Q, S)
  BY DEF HousenumberMatches, Q, S
<1> QED
  BY <1>5, <1>6, <1>7

-----------------------------------------------------------------------------
(* The inductive invariant. *)

\* The hits an answer may hold.
GivenHits(p, g) == {Given(h, p, g) : h \in Lookups(p)}

\* Nobody is served before there is an index, or after the process has ended.
ServerOK ==
    /\ phase \in {"start", "loaded", "optional", "grpc", "bind", "serving", "exited"}
    /\ parts \in Deployments \cup {{}} /\ grpc \in BOOLEAN
    /\ phase = "start" => live = 0
    /\ phase \in {"start", "loaded"} => rel = "down"
    /\ phase \notin {"start", "exited"} => live >= 1
    /\ rel # "down" => live >= 1
    /\ grpc => phase \in {"bind", "serving"}
    /\ req.pc # "idle" => phase \in {"bind", "serving"}

\* The reloader never holds an index older than the live one, and what it has
\* handled, last, is in the live index unless an update was missed.
ReloaderOK ==
    /\ disk \in 1..MaxGen /\ marker \in 1..disk /\ live \in 0..disk
    /\ rel \in {"down", "spawned", "poll", "load", "store"}
    /\ last \in 0..MaxGen /\ cur \in 0..MaxGen /\ got \in 0..MaxGen /\ missed \in BOOLEAN
    /\ rel = "load" => cur <= marker
    /\ rel = "store" => cur <= got /\ live <= got /\ got <= disk
    /\ live # 0 /\ rel \in {"down", "spawned"} /\ ~missed => marker <= live
    /\ rel \in {"poll", "load", "store"} /\ ~missed => last <= live

\* A request has the fields of a request; what it has yet to answer are records
\* it may find, and what it has answered is made of such records and of the one
\* index it holds.
Fields == {"pc", "p", "floor", "snap", "todo", "out", "status", "verified", "label", "shadow"}

RequestTyped(r) ==
    /\ DOMAIN r = Fields
    /\ r.pc \in {"idle", "check", "find", "snap", "enrich", "done"}
    /\ r.floor \in Nat /\ r.snap \in Nat /\ r.verified \in BOOLEAN
    /\ r.label \in TwoLetter \cup {"unknown", None}
    /\ r.todo \in Seq(Lookups(r.p)) /\ (r.out = <<>> \/ r.out \in Seq(GivenHits(r.p, r.snap)))
    /\ Len(r.out) + Len(r.todo) <= 50

RequestStaged(r) ==
    /\ r.pc # "idle" => r.p \in Requests
    /\ r.pc \in {"idle", "check", "find", "snap"} => r.out = <<>>
    /\ r.pc \in {"idle", "check", "find"} => r.todo = <<>>
    /\ r.pc # "done" => r.status = 0 /\ r.verified = FALSE
    /\ r.pc = "done" => r.status \in {200, 400, 404, 500, 501, 503}
    /\ r.pc = "find" => NeedsForward(r.p.op)
    /\ r.pc \in {"find", "snap", "enrich"} /\ r.p.op = "validate" => r.p.street # None

RequestVerified(r) ==
    r.verified = TRUE =>
      /\ r.p.op = "validate" /\ r.p.street # None
      /\ \E h \in Lookups(r.p) : /\ r.out = <<Given(h, r.p, r.snap)>>
                                 /\ Validate(h, r.p, r.snap).verified

RequestHolds(r, g) ==
    /\ r.floor <= g
    /\ r.pc = "enrich" \/ r.out # <<>> => 1 <= r.snap /\ r.floor <= r.snap /\ r.snap <= g

RequestOK(r, g) == RequestTyped(r) /\ RequestStaged(r) /\ RequestVerified(r) /\ RequestHolds(r, g)

IInv == ServerOK /\ ReloaderOK /\ RequestOK(req, live)

-----------------------------------------------------------------------------
(* The steps of a request. *)

\* No request at all is in order.
LEMMA IdleOK ==
    ASSUME NEW g \in Nat
    PROVE  RequestOK(Idle, g) /\ Idle.pc = "idle"
<1>1. /\ DOMAIN Idle = Fields /\ Idle.pc = "idle" /\ Idle.floor = 0 /\ Idle.snap = 0
      /\ Idle.todo = <<>> /\ Idle.out = <<>> /\ Idle.status = 0 /\ Idle.verified = FALSE
      /\ Idle.label = None
  BY DEF Idle, Fields
<1>2. <<>> \in Seq(Lookups(Idle.p)) /\ Len(<<>>) = 0
  OBVIOUS
<1>3. RequestTyped(Idle)
  <2>1. Len(Idle.out) + Len(Idle.todo) <= 50
    BY <1>1, <1>2
  <2>2. Idle.todo \in Seq(Lookups(Idle.p))
    BY <1>1, <1>2
  <2>3. Idle.verified \in BOOLEAN 
    BY <1>1
  <2>4. Idle.floor \in Nat /\ Idle.snap \in Nat
    BY <1>1
  <2>5. Idle.label \in TwoLetter \cup {"unknown", None}
    BY <1>1
  <2> QED
  BY <1>1, <2>1, <2>2, <2>3, <2>4, <2>5 DEF RequestTyped
<1>4. RequestStaged(Idle)
  BY <1>1 DEF RequestStaged
<1>5. RequestVerified(Idle)
  BY <1>1 DEF RequestVerified
<1>6. RequestHolds(Idle, g)
  BY <1>1 DEF RequestHolds
<1> QED
  BY <1>1, <1>3, <1>4, <1>5, <1>6 DEF RequestOK

\* The invariant holds at the start.
LEMMA InitOK == Init => IInv
<1> SUFFICES ASSUME Init PROVE IInv
  OBVIOUS
<1>1. ServerOK
  <2>1. Idle.pc = "idle"
    BY DEF Idle
  <2> QED
    BY <2>1 DEF Init, ServerOK
<1>3. ReloaderOK
  <2>1. missed \in BOOLEAN
    BY DEF Init
  <2> QED
    BY <2>1, FrontAssumption DEF Init, ReloaderOK
<1>2. RequestOK(req, live)
  BY IdleOK DEF Init
<1> QED
  BY <1>1, <1>2, <1>3 DEF IInv

\* What giving an answer changes in a request.
LEMMA AnswerFields ==
    ASSUME NEW r, DOMAIN r = Fields, NEW out, NEW v
    PROVE  LET a == Answer(r, out, v)
           IN  /\ DOMAIN a = Fields /\ a.pc = "done" /\ a.p = r.p /\ a.floor = r.floor
               /\ a.snap = r.snap /\ a.todo = <<>> /\ a.out = out /\ a.status = 200
               /\ a.verified = v /\ a.label \in TwoLetter \cup {"unknown", None}
<1>1. Label(r.p, out) \in TwoLetter \cup {"unknown", None}
  BY DEF Label, RecordedCountry, CanonicalCountry
<1> QED
  BY <1>1 DEF Answer, Fields

\* A refusal sets the status and drops what was still to do.
LEMMA RefuseFields ==
    ASSUME NEW r, DOMAIN r = Fields, NEW status
    PROVE  LET a == Refuse(r, status)
           IN  /\ DOMAIN a = Fields /\ a.pc = "done" /\ a.p = r.p /\ a.floor = r.floor
               /\ a.snap = r.snap /\ a.todo = <<>> /\ a.out = r.out /\ a.status = status
               /\ a.verified = r.verified /\ a.label = r.label
BY DEF Refuse, Fields

\* A request that has not looked at the index yet, or was refused.
Empty(r, g) ==
    /\ DOMAIN r = Fields /\ r.pc \in {"check", "find", "snap", "done"} /\ r.p \in Requests
    /\ r.floor \in Nat /\ r.snap \in Nat /\ r.floor <= g
    /\ r.todo \in Seq(Lookups(r.p)) /\ Len(r.todo) <= 50 /\ r.out = <<>>
    /\ r.pc \in {"check", "find"} => r.todo = <<>>
    /\ r.pc # "done" => r.status = 0
    /\ r.pc = "done" => r.status \in {200, 400, 404, 500, 501, 503}
    /\ r.pc = "find" => NeedsForward(r.p.op)
    /\ r.pc \in {"find", "snap"} /\ r.p.op = "validate" => r.p.street # None
    /\ r.verified = FALSE /\ r.label \in TwoLetter \cup {"unknown", None}

\* A request that has not looked at the index, or was refused, is in order.
LEMMA EmptyOK ==
    ASSUME NEW r, NEW g \in Nat, Empty(r, g)
    PROVE  RequestOK(r, g)
<1>1. RequestTyped(r)
  <2>1. Len(<<>>) = 0 /\ Len(r.todo) \in Nat
    BY DEF Empty
  <2>2. Len(r.out) + Len(r.todo) <= 50
    BY <2>1 DEF Empty
  <2>3. r.verified \in BOOLEAN
    BY DEF Empty
  <2> QED
    BY <2>2, <2>3 DEF Empty, RequestTyped
<1>2. RequestStaged(r)
  BY DEF Empty, RequestStaged
<1>3. RequestVerified(r)
  BY DEF Empty, RequestVerified
<1>4. RequestHolds(r, g)
  BY DEF Empty, RequestHolds
<1> QED
  BY <1>1, <1>2, <1>3, <1>4 DEF RequestOK

\* A request that arrives is in order.
LEMMA ArriveOK ==
    ASSUME IInv, Arrive
    PROVE  RequestOK(req', live) /\ (req'.pc # "idle" => phase \in {"bind", "serving"})
<1>1. PICK p \in Requests :
         /\ IF p.api = "rest" THEN phase = "serving" ELSE grpc
         /\ req' = [Idle EXCEPT !.pc = "check", !.p = p, !.floor = live]
  BY DEF Arrive
<1>2. /\ DOMAIN req' = Fields /\ req'.pc = "check" /\ req'.p = p /\ req'.floor = live /\ req'.snap = 0
      /\ req'.todo = <<>> /\ req'.out = <<>> /\ req'.status = 0 /\ req'.verified = FALSE
      /\ req'.label = None
  BY <1>1 DEF Idle, Fields
<1>3. <<>> \in Seq(Lookups(p)) /\ Len(<<>>) = 0
  OBVIOUS
<1>4. live \in Nat
  BY DEF IInv, ReloaderOK
<1>5. Empty(req', live)
  BY <1>2, <1>3, <1>4 DEF Empty
<1>6. RequestOK(req', live)
  BY <1>4, <1>5, EmptyOK
<1> QED
  BY <1>1, <1>6 DEF IInv, ServerOK

\* A request that was checked is in order.
LEMMA CheckOK ==
    ASSUME IInv, Check
    PROVE  RequestOK(req', live)
<1> DEFINE p == req.p
           v == Verdict(p, parts)
<1>1. /\ DOMAIN req = Fields /\ req.pc = "check" /\ p \in Requests /\ live \in Nat
      /\ req.out = <<>> /\ req.todo = <<>> /\ req.status = 0 /\ req.verified = FALSE
      /\ req.label \in TwoLetter \cup {"unknown", None}
      /\ req.floor \in Nat /\ req.snap \in Nat /\ req.floor <= live
  BY DEF Check, IInv, ReloaderOK, RequestOK, RequestTyped, RequestStaged, RequestHolds
<1>2. v \in {200, 400, 404, 501, 503}
  BY <1>1, VerdictRange
<1>3. <<>> \in Seq(Lookups(p)) /\ Len(<<>>) = 0
  OBVIOUS
<1> SUFFICES Empty(req', live)
  BY <1>1, EmptyOK
<1> HIDE DEF v
<1>4. CASE v # 200 /\ req' = Refuse(req, v)
  <2>1. /\ DOMAIN req' = Fields /\ req'.pc = "done" /\ req'.p = p /\ req'.floor = req.floor
        /\ req'.snap = req.snap /\ req'.todo = <<>> /\ req'.out = <<>> /\ req'.status = v
        /\ req'.verified = FALSE /\ req'.label = req.label
    BY <1>1, <1>4, RefuseFields
  <2> QED
    BY <1>1, <1>2, <1>3, <2>1 DEF Empty
<1>5. CASE req' = Answer(req, <<>>, FALSE)
  <2>1. /\ DOMAIN req' = Fields /\ req'.pc = "done" /\ req'.p = p /\ req'.floor = req.floor
        /\ req'.snap = req.snap /\ req'.todo = <<>> /\ req'.out = <<>> /\ req'.status = 200
        /\ req'.verified = FALSE /\ req'.label \in TwoLetter \cup {"unknown", None}
    <3>1. Label(p, <<>>) \in TwoLetter \cup {"unknown", None}
      BY DEF Label, RecordedCountry, CanonicalCountry
    <3>2. req'.verified = FALSE
      BY <1>1, <1>5 DEF Answer, Fields
    <3> QED
      BY <1>1, <1>5, <3>1, <3>2 DEF Answer, Fields
  <2> QED
    BY <1>1, <1>3, <2>1 DEF Empty
<1>6. CASE p.op \in {"reverse", "ip"} /\ req' = [req EXCEPT !.pc = "snap", !.todo = <<[at |-> 0]>>]
  <2>1. /\ DOMAIN req' = Fields /\ req'.pc = "snap" /\ req'.p = p /\ req'.todo = <<[at |-> 0]>>
        /\ req'.floor = req.floor /\ req'.snap = req.snap /\ req'.out = req.out
        /\ req'.status = req.status /\ req'.verified = req.verified /\ req'.label = req.label
    BY <1>1, <1>6 DEF Fields
  <2> DEFINE a == [at |-> 0]
  <2>2. a \in Lookups(p)
    BY <1>6 DEF Lookups
  <2> HIDE DEF a
  <2>3. <<a>> \in Seq(Lookups(p)) /\ Len(<<a>>) = 1 /\ Len(<<>>) = 0
    BY <2>2
  <2>4. req'.todo = <<a>>
    BY <2>1 DEF a
  <2> QED
    BY <1>1, <1>6, <2>1, <2>3, <2>4 DEF Empty
<1>7. CASE v = 200 /\ NeedsForward(p.op) /\ req' = [req EXCEPT !.pc = "find"]
  <2>1. /\ DOMAIN req' = Fields /\ req'.pc = "find" /\ req'.p = p /\ req'.todo = req.todo
        /\ req'.floor = req.floor /\ req'.snap = req.snap /\ req'.out = req.out
        /\ req'.status = req.status /\ req'.verified = req.verified /\ req'.label = req.label
    BY <1>1, <1>7 DEF Fields
  <2>2. p.op = "validate" => p.street # None
    BY <1>1, <1>7, RequestAssumption DEF v, Verdict, GrpcVerdict
  <2> QED
    <3>1. req'.todo = <<>> /\ req'.out = <<>> /\ req'.status = 0 /\ req'.verified = FALSE
      BY <1>1, <2>1
    <3>2. NeedsForward(req'.p.op) /\ (req'.p.op = "validate" => req'.p.street # None)
      BY <1>7, <2>1, <2>2
    <3>3. /\ req'.p \in Requests /\ req'.floor \in Nat /\ req'.snap \in Nat /\ req'.floor <= live
          /\ req'.label \in TwoLetter \cup {"unknown", None}
      BY <1>1, <2>1
    <3>4. req'.todo \in Seq(Lookups(req'.p)) /\ Len(req'.todo) <= 50
      BY <1>3, <2>1, <3>1
    <3> QED
      BY <2>1, <3>1, <3>2, <3>3, <3>4 DEF Empty
<1> QED
  BY <1>4, <1>5, <1>6, <1>7 DEF Check, v

\* A request whose hits were found is in order.
LEMMA FindOK ==
    ASSUME IInv, Find
    PROVE  RequestOK(req', live)
<1> DEFINE p == req.p
           fst == FstAnswer(p, parts)
<1>1. PICK hits \in (IF fst # <<>> THEN {fst} ELSE ForwardAnswers(p)) :
         req' = IF p.op = "validate" /\ hits = <<>>
                THEN [Refuse(req, 200) EXCEPT !.verified = FALSE]
                ELSE [req EXCEPT !.pc = "snap", !.todo = hits]
  BY DEF Find
<1>2. /\ DOMAIN req = Fields /\ req.pc = "find" /\ p \in Requests /\ live \in Nat
      /\ req.out = <<>> /\ req.todo = <<>> /\ req.status = 0 /\ req.verified = FALSE
      /\ req.label \in TwoLetter \cup {"unknown", None}
      /\ p.op = "validate" => p.street # None
      /\ NeedsForward(p.op)
      /\ req.floor \in Nat /\ req.snap \in Nat /\ req.floor <= live
  BY DEF Find, IInv, ReloaderOK, RequestOK, RequestTyped, RequestStaged, RequestHolds
<1>3. <<>> \in Seq(Lookups(p)) /\ Len(<<>>) = 0
  OBVIOUS
<1> SUFFICES Empty(req', live)
  BY <1>2, EmptyOK
<1>4. CASE req' = [Refuse(req, 200) EXCEPT !.verified = FALSE]
  <2> DEFINE r == Refuse(req, 200)
  <2>1. /\ DOMAIN r = Fields /\ r.pc = "done" /\ r.p = p /\ r.floor = req.floor
        /\ r.snap = req.snap /\ r.todo = <<>> /\ r.out = <<>> /\ r.status = 200
        /\ r.label = req.label
    BY <1>2, RefuseFields
  <2> HIDE DEF r
  <2>2. /\ DOMAIN req' = Fields /\ req'.pc = "done" /\ req'.p = p /\ req'.floor = req.floor
        /\ req'.snap = req.snap /\ req'.todo = <<>> /\ req'.out = <<>> /\ req'.status = 200
        /\ req'.label = req.label /\ req'.verified = FALSE
    BY <1>4, <2>1 DEF Fields, r
  <2> QED
    BY <1>2, <1>3, <2>2 DEF Empty
<1>5. CASE req' = [req EXCEPT !.pc = "snap", !.todo = hits]
  <2>1. /\ DOMAIN req' = Fields /\ req'.pc = "snap" /\ req'.p = p /\ req'.todo = hits
        /\ req'.floor = req.floor /\ req'.snap = req.snap /\ req'.out = req.out
        /\ req'.status = req.status /\ req'.verified = req.verified /\ req'.label = req.label
    BY <1>2, <1>5 DEF Fields
  <2>2. hits \in Seq(Lookups(p)) /\ Len(hits) <= 50
    <3>1. CASE fst # <<>>
      <4>1. hits \in Seq(FstHits) /\ Len(hits) <= 50 /\ p.op = "search"
        BY <1>1, <1>2, <3>1, FstAnswerFound
      <4>2. FstHits \subseteq Lookups(p)
        BY <4>1 DEF Lookups
      <4> QED
        BY <4>1, <4>2
    <3>2. CASE fst = <<>>
      <4> DEFINE S == {h \in ForwardHits : Found(h, p)}
      <4>1. hits \in Seq(S) /\ Len(hits) <= 50
        BY <1>1, <1>2, <3>2, ForwardAnswersFound
      <4>2. NeedsForward(p.op)
        BY <1>2
      <4>3. S \subseteq Lookups(p)
        BY <4>2 DEF Lookups
      <4> HIDE DEF S
      <4> QED
        BY <4>1, <4>3
    <3> QED
      BY <3>1, <3>2
  <2> QED
    BY <1>2, <2>1, <2>2 DEF Empty
<1> QED
  BY <1>1, <1>4, <1>5

\* A request whose search failed is in order.
LEMMA FindFailsOK ==
    ASSUME IInv, FindFails
    PROVE  RequestOK(req', live)
<1>1. /\ DOMAIN req = Fields /\ req.pc = "find" /\ req.p \in Requests /\ live \in Nat
      /\ req.out = <<>> /\ req.verified = FALSE /\ req.label \in TwoLetter \cup {"unknown", None}
      /\ req.floor \in Nat /\ req.snap \in Nat /\ req.floor <= live
  BY DEF FindFails, IInv, ReloaderOK, RequestOK, RequestTyped, RequestStaged, RequestHolds
<1>2. /\ DOMAIN req' = Fields /\ req'.pc = "done" /\ req'.p = req.p /\ req'.floor = req.floor
      /\ req'.snap = req.snap /\ req'.todo = <<>> /\ req'.out = <<>> /\ req'.status = 500
      /\ req'.verified = FALSE /\ req'.label = req.label
  BY <1>1, RefuseFields DEF FindFails
<1>3. <<>> \in Seq(Lookups(req.p)) /\ Len(<<>>) = 0
  OBVIOUS
<1>4. Empty(req', live)
  BY <1>1, <1>2, <1>3 DEF Empty
<1> QED
  BY <1>1, <1>4, EmptyOK

\* A request that holds an index.
Holding(r, g) ==
    /\ DOMAIN r = Fields /\ r.pc \in {"enrich", "done"} /\ r.p \in Requests
    /\ r.floor \in Nat /\ r.snap \in Nat
    /\ 1 <= r.snap /\ r.floor <= r.snap /\ r.snap <= g
    /\ r.todo \in Seq(Lookups(r.p)) /\ r.out \in Seq(GivenHits(r.p, r.snap))
    /\ Len(r.out) + Len(r.todo) <= 50
    /\ r.pc = "enrich" => r.status = 0 /\ r.verified = FALSE
    /\ r.pc = "done" => r.status = 200
    /\ r.pc = "enrich" /\ r.p.op = "validate" => r.p.street # None
    /\ r.verified \in BOOLEAN /\ r.label \in TwoLetter \cup {"unknown", None}

\* A request that holds an index, and is verified by it if at all, is in order.
LEMMA HoldingOK ==
    ASSUME NEW r, NEW g \in Nat, Holding(r, g), RequestVerified(r)
    PROVE  RequestOK(r, g)
<1>1. RequestTyped(r)
  BY DEF Holding, RequestTyped
<1>2. RequestStaged(r)
  BY DEF Holding, RequestStaged
<1>3. RequestHolds(r, g)
  BY DEF Holding, RequestHolds
<1> QED
  BY <1>1, <1>2, <1>3 DEF RequestOK

\* A request in the middle of its answer.
LEMMA EnrichingHolds ==
    ASSUME IInv, req.pc = "enrich"
    PROVE  Holding(req, live) /\ live \in Nat /\ req.snap \in 1..MaxGen
<1>1. live \in Nat /\ live <= MaxGen
  BY FrontAssumption DEF IInv, ReloaderOK
<1>2. RequestTyped(req) /\ RequestStaged(req) /\ RequestHolds(req, live)
  BY DEF IInv, RequestOK
<1>3. req.out \in Seq(GivenHits(req.p, req.snap))
  <2>1. <<>> \in Seq(GivenHits(req.p, req.snap))
    OBVIOUS
  <2> QED
    BY <1>2, <2>1 DEF RequestTyped
<1>4. Holding(req, live)
  BY <1>2, <1>3 DEF Holding, RequestTyped, RequestStaged, RequestHolds
<1>5. req.snap \in Nat /\ 1 <= req.snap /\ req.snap <= live
  BY <1>4 DEF Holding
<1>6. req.snap \in 1..MaxGen
  BY <1>1, <1>5, FrontAssumption
<1> QED
  BY <1>1, <1>4, <1>6

\* A request that has taken its snapshot is in order.
LEMMA SnapshotOK ==
    ASSUME IInv, Snapshot
    PROVE  RequestOK(req', live)
<1>1. /\ DOMAIN req = Fields /\ req.pc = "snap" /\ req.p \in Requests
      /\ req.out = <<>> /\ req.status = 0 /\ req.verified = FALSE
      /\ req.todo \in Seq(Lookups(req.p)) /\ Len(req.out) + Len(req.todo) <= 50
      /\ req.label \in TwoLetter \cup {"unknown", None}
      /\ req.p.op = "validate" => req.p.street # None
      /\ req.floor \in Nat /\ req.floor <= live
  BY DEF Snapshot, IInv, RequestOK, RequestTyped, RequestStaged, RequestHolds
<1>2. live \in Nat /\ live >= 1
  BY <1>1 DEF IInv, ServerOK, ReloaderOK
<1>3. /\ DOMAIN req' = Fields /\ req'.pc = "enrich" /\ req'.p = req.p /\ req'.floor = req.floor
      /\ req'.snap = live /\ req'.todo = req.todo /\ req'.out = req.out /\ req'.status = req.status
      /\ req'.verified = req.verified /\ req'.label = req.label
  BY <1>1 DEF Snapshot, Fields
<1>4. <<>> \in Seq(GivenHits(req.p, live))
  OBVIOUS
<1>5. req'.verified = FALSE /\ req'.verified \in BOOLEAN
  BY <1>1, <1>3
<1>6. Holding(req', live)
  BY <1>1, <1>2, <1>3, <1>4, <1>5 DEF Holding
<1>7. RequestVerified(req')
  BY <1>5 DEF RequestVerified
<1> QED
  BY <1>2, <1>6, <1>7, HoldingOK

\* A request with one more hit enriched is in order.
LEMMA EnrichOneOK ==
    ASSUME IInv, EnrichOne
    PROVE  RequestOK(req', live)
<1> DEFINE p == req.p
           g == req.snap
           h == Head(req.todo)
<1>1. Holding(req, live) /\ live \in Nat /\ g \in 1..MaxGen /\ req.pc = "enrich" /\ req.todo # <<>>
  BY EnrichingHolds DEF EnrichOne
<1>2. /\ req.todo \in Seq(Lookups(p)) /\ req.out \in Seq(GivenHits(p, g)) /\ DOMAIN req = Fields
      /\ Len(req.out) + Len(req.todo) <= 50
  BY <1>1 DEF Holding
<1>3. /\ h \in Lookups(p) /\ Tail(req.todo) \in Seq(Lookups(p))
      /\ Len(Tail(req.todo)) = Len(req.todo) - 1 /\ Len(req.todo) \in Nat /\ Len(req.out) \in Nat
  <2>1. \A S : \A s \in Seq(S) : s # <<>> =>
          /\ Head(s) \in S /\ Tail(s) \in Seq(S) /\ Len(Tail(s)) = Len(s) - 1 /\ Len(s) \in Nat
    OBVIOUS
  <2>2. \A S : \A s \in Seq(S) : Len(s) \in Nat
    OBVIOUS
  <2> QED
    BY <1>1, <1>2, <2>1, <2>2
<1>4. Given(h, p, g) \in GivenHits(p, g)
  BY <1>3 DEF GivenHits
<1>5. CASE p.op = "validate"
  <2> DEFINE v == Validate(h, p, g)
             a == Answer(req, <<v.hit>>, v.verified)
  <2>1. req' = a
    BY <1>5 DEF EnrichOne
  <2>2. /\ DOMAIN a = Fields /\ a.pc = "done" /\ a.p = p /\ a.floor = req.floor
        /\ a.snap = g /\ a.todo = <<>> /\ a.out = <<v.hit>> /\ a.status = 200
        /\ a.verified = v.verified /\ a.label \in TwoLetter \cup {"unknown", None}
    BY <1>2, AnswerFields
  <2>3. v.hit = Given(h, p, g)
    BY <1>5 DEF Given
  <2>4. v.verified \in BOOLEAN
    BY DEF Validate, RestValidate, GrpcValidate
  <2> HIDE DEF v, a
  <2>5. /\ <<v.hit>> \in Seq(GivenHits(p, g)) /\ Len(<<v.hit>>) = 1
        /\ <<>> \in Seq(Lookups(p)) /\ Len(<<>>) = 0
    BY <1>4, <2>3
  <2>6. Holding(a, live)
    BY <1>1, <2>2, <2>4, <2>5 DEF Holding
  <2>7. RequestVerified(a)
    <3>1. p.street # None
      BY <1>1, <1>5 DEF Holding
    <3>2. a.out = <<Given(h, p, g)>> /\ (a.verified = TRUE => Validate(h, p, g).verified)
      BY <2>2, <2>3 DEF v
    <3> QED
      BY <1>3, <1>5, <2>2, <3>1, <3>2 DEF RequestVerified
  <2> QED
    BY <1>1, <2>1, <2>6, <2>7, HoldingOK
<1>6. CASE p.op # "validate"
  <2> DEFINE o == AnswerHit(h, p, g)
  <2>1. req' = [req EXCEPT !.todo = Tail(req.todo), !.out = Append(req.out, o)]
    BY <1>6 DEF EnrichOne
  <2>2. o \in GivenHits(p, g)
    BY <1>4, <1>6 DEF Given
  <2> HIDE DEF o
  <2>3. Append(req.out, o) \in Seq(GivenHits(p, g)) /\ Len(Append(req.out, o)) = Len(req.out) + 1
    BY <1>2, <2>2
  <2>4. /\ DOMAIN req' = Fields /\ req'.pc = req.pc /\ req'.p = p /\ req'.floor = req.floor
        /\ req'.snap = g /\ req'.todo = Tail(req.todo) /\ req'.out = Append(req.out, o)
        /\ req'.status = req.status /\ req'.verified = req.verified /\ req'.label = req.label
    BY <1>2, <2>1 DEF Fields
  <2>5. Holding(req', live)
    <3>1. Len(req'.out) + Len(req'.todo) <= 50
      <4> DEFINE a == Len(req.out)
                 b == Len(req.todo)
      <4>1. a \in Int /\ b \in Int
        BY <1>3
      <4>3. a + b <= 50
        BY <1>2, Zenon
      <4>2. Len(req'.out) = a + 1 /\ Len(req'.todo) = b - 1
        BY <1>3, <2>3, <2>4
      <4> HIDE DEF a, b
      <4>4. (a + 1) + (b - 1) <= 50
        BY <4>1, <4>3
      <4> QED
        BY <4>2, <4>4
    <3> HIDE DEF p, g, h
    <3> QED
      BY <1>1, <1>3, <2>3, <2>4, <3>1 DEF Holding, p, g
  <2>6. RequestVerified(req')
    <3>1. req'.verified = FALSE
      BY <1>1, <2>4 DEF Holding
    <3> QED
      BY <3>1 DEF RequestVerified
  <2> QED
    BY <1>1, <2>5, <2>6, HoldingOK
<1> QED
  BY <1>5, <1>6

\* A request that is answered is in order.
LEMMA RespondOK ==
    ASSUME IInv, Respond
    PROVE  RequestOK(req', live)
<1>1. Holding(req, live) /\ live \in Nat /\ req.pc = "enrich" /\ req.todo = <<>>
  BY EnrichingHolds DEF Respond
<1>2. DOMAIN req = Fields
  BY <1>1 DEF Holding
<1>3. req'.verified = FALSE
  BY <1>2 DEF Respond, Answer, Fields
<1>4. Label(req.p, req.out) \in TwoLetter \cup {"unknown", None}
  BY DEF Label, RecordedCountry, CanonicalCountry
<1>5. /\ DOMAIN req' = Fields /\ req'.pc = "done" /\ req'.p = req.p /\ req'.floor = req.floor
      /\ req'.snap = req.snap /\ req'.todo = req.todo /\ req'.out = req.out /\ req'.status = 200
      /\ req'.label \in TwoLetter \cup {"unknown", None}
  BY <1>1, <1>2, <1>4 DEF Respond, Answer, Fields
<1>6. req'.verified \in BOOLEAN
  BY <1>3
<1>7. Holding(req', live)
  BY <1>1, <1>5, <1>6 DEF Holding
<1>8. RequestVerified(req')
  BY <1>3 DEF RequestVerified
<1> QED
  BY <1>1, <1>7, <1>8, HoldingOK

-----------------------------------------------------------------------------
(* The steps of the server and of the reloader. *)

\* A newer live index disturbs no request.
LEMMA NewerIsFine ==
    ASSUME NEW r, NEW g \in Nat, NEW k \in Nat, g <= k, RequestOK(r, g)
    PROVE  RequestOK(r, k)
<1>1. r.floor \in Nat /\ r.snap \in Nat
  BY DEF RequestOK, RequestTyped
<1>2. RequestHolds(r, k)
  BY <1>1 DEF RequestOK, RequestHolds
<1> QED
  BY <1>2 DEF RequestOK

\* Startup brings the server up on an index, and ends it with its requests.
LEMMA BootOK ==
    ASSUME IInv, Boot
    PROVE  IInv'
<1>1. live \in Nat /\ disk \in Nat /\ live <= disk /\ disk >= 1
  BY FrontAssumption DEF IInv, ReloaderOK
<1>2. CASE LoadIndex
  <2>1. ServerOK'
    BY <1>1, <1>2 DEF LoadIndex, IInv, ServerOK
  <2>2. ReloaderOK'
    <3>1. live' \in 0..disk /\ (live' # 0 => live' = disk)
      BY <1>1, <1>2 DEF LoadIndex, IInv, ServerOK
    <3>2. missed' \in BOOLEAN
      BY <1>2 DEF LoadIndex, IInv, ReloaderOK
    <3>3. rel = "down"
      BY <1>2 DEF LoadIndex, IInv, ServerOK
    <3> QED
      BY <1>1, <1>2, <3>1, <3>2, <3>3 DEF LoadIndex, IInv, ReloaderOK
  <2>3. RequestOK(req, live')
    BY <1>1, <1>2, NewerIsFine DEF LoadIndex, IInv
  <2>4. req' = req
    BY <1>2 DEF LoadIndex
  <2> QED
    BY <2>1, <2>2, <2>3, <2>4 DEF IInv
<1>3. CASE SpawnReloader
  <2>1. ServerOK'
    BY <1>3 DEF SpawnReloader, IInv, ServerOK
  <2>2. ReloaderOK'
    BY <1>3 DEF SpawnReloader, IInv, ServerOK, ReloaderOK
  <2>3. req' = req /\ live' = live
    BY <1>3 DEF SpawnReloader
  <2> QED
    BY <2>1, <2>2, <2>3 DEF IInv
<1>4. CASE OpenOptional
  <2>1. ServerOK'
    BY <1>4 DEF OpenOptional, reloader, IInv, ServerOK
  <2>2. ReloaderOK'
    BY <1>4 DEF OpenOptional, reloader, IInv, ReloaderOK
  <2>3. req' = req /\ live' = live
    BY <1>4 DEF OpenOptional, reloader
  <2> QED
    BY <2>1, <2>2, <2>3 DEF IInv
<1>5. CASE SpawnGrpc
  <2>1. ServerOK'
    BY <1>5 DEF SpawnGrpc, reloader, IInv, ServerOK
  <2>2. ReloaderOK'
    BY <1>5 DEF SpawnGrpc, reloader, IInv, ReloaderOK
  <2>3. req' = req /\ live' = live
    BY <1>5 DEF SpawnGrpc, reloader
  <2> QED
    BY <2>1, <2>2, <2>3 DEF IInv
<1>6. CASE BindHttp
  <2>1. ServerOK'
    BY <1>1, <1>6, IdleOK DEF BindHttp, reloader, IInv, ServerOK
  <2>2. ReloaderOK'
    BY <1>6 DEF BindHttp, reloader, IInv, ReloaderOK
  <2>3. live' = live /\ req' \in {req, Idle}
    BY <1>6 DEF BindHttp, reloader
  <2>4. RequestOK(req', live')
    BY <1>1, <2>3, IdleOK DEF IInv
  <2> QED
    BY <2>1, <2>2, <2>4 DEF IInv
<1> QED
  BY <1>2, <1>3, <1>4, <1>5, <1>6 DEF Boot

\* Updates and the reloader move the live index forward only.
LEMMA ReloadOK ==
    ASSUME IInv, Update \/ Reload
    PROVE  ReloaderOK' /\ live' \in Nat /\ live <= live' /\ server' = server /\ req' = req
           /\ (rel' = "down" <=> rel = "down")
<1>1. /\ disk \in Int /\ marker \in Int /\ live \in Int /\ last \in Int /\ cur \in Int /\ got \in Int
      /\ missed \in BOOLEAN /\ MaxGen \in Int
  BY FrontAssumption DEF IInv, ReloaderOK
<1>2. CASE Publish
  BY <1>1, <1>2 DEF Publish, IInv, ReloaderOK
<1>3. CASE Touch
  <2>1. missed' \in BOOLEAN /\ (~missed' => ~missed /\ ~(live # 0 /\ rel \in {"down", "spawned"}))
    BY <1>1, <1>3 DEF Touch
  <2> QED
    BY <1>1, <1>3, <2>1 DEF Touch, IInv, ReloaderOK
<1>4. CASE ReadMarker
  BY <1>1, <1>4 DEF ReadMarker, IInv, ServerOK, ReloaderOK
<1>5. CASE Poll
  BY <1>1, <1>5 DEF Poll, IInv, ReloaderOK
<1>6. CASE ReloadOk
  BY <1>1, <1>6 DEF ReloadOk, IInv, ReloaderOK
<1>7. CASE ReloadFails
  BY <1>1, <1>7 DEF ReloadFails, IInv, ReloaderOK
<1>8. CASE Store
  <2>1. missed' \in BOOLEAN
    BY <1>8 DEF Store
  <2> QED
    BY <1>1, <1>8, <2>1 DEF Store, IInv, ReloaderOK
<1> QED
  BY <1>2, <1>3, <1>4, <1>5, <1>6, <1>7, <1>8 DEF Update, Reload

\* Every step keeps the invariant.
LEMMA NextOK == IInv /\ [Next]_vars => IInv'
<1> SUFFICES ASSUME IInv, [Next]_vars PROVE IInv'
  OBVIOUS
<1>1. CASE Boot
  BY <1>1, BootOK
<1>2. CASE Update \/ Reload
  <2>1. /\ ReloaderOK' /\ live' \in Nat /\ live <= live' /\ server' = server /\ req' = req
        /\ rel' = "down" <=> rel = "down"
    BY <1>2, ReloadOK
  <2>2. live \in Nat
    BY DEF IInv, ReloaderOK
  <2>3. RequestOK(req', live')
    BY <2>1, <2>2, NewerIsFine DEF IInv
  <2>4. phase = "start" => live' = live
    BY <1>2 DEF IInv, ServerOK, Update, Reload, Publish, Touch, ReadMarker, Poll, ReloadOk, ReloadFails, Store
  <2>5. ServerOK'
    BY <2>1, <2>2, <2>4 DEF IInv, ServerOK, server
  <2> QED
    BY <2>1, <2>3, <2>5 DEF IInv
<1>3. CASE Arrive \/ Handle \/ Leave
  <2>1. server' = server /\ reloader' = reloader
    BY <1>3 DEF Arrive, Handle, Leave, Check, Find, FindFails, Snapshot, EnrichOne, Respond
  <2>2. RequestOK(req', live)
    <3>1. CASE Leave
      BY <3>1, IdleOK DEF Leave, IInv, ReloaderOK
    <3> QED
      BY <1>3, <3>1, ArriveOK, CheckOK, FindOK, FindFailsOK, SnapshotOK, EnrichOneOK, RespondOK DEF Handle
  <2>3. req'.pc # "idle" => phase \in {"bind", "serving"}
    <3>1. CASE Arrive
      BY <3>1, ArriveOK
    <3>2. CASE ~Arrive
      <4>1. req.pc # "idle"
        BY <1>3, <3>2 DEF Handle, Leave, Check, Find, FindFails, Snapshot, EnrichOne, Respond
      <4> QED
        BY <4>1 DEF IInv, ServerOK
    <3> QED
      BY <3>1, <3>2
  <2>4. ServerOK'
    BY <2>1, <2>3 DEF IInv, ServerOK, server, reloader
  <2>5. ReloaderOK'
    BY <2>1 DEF IInv, ReloaderOK, reloader
  <2>6. RequestOK(req', live')
    BY <2>1, <2>2 DEF reloader
  <2> QED
    BY <2>4, <2>5, <2>6 DEF IInv
<1>4. CASE UNCHANGED vars
  <2>1. server' = server /\ reloader' = reloader /\ req' = req
    BY <1>4 DEF vars
  <2>2. ServerOK'
    BY <2>1 DEF IInv, ServerOK, server, reloader
  <2>3. ReloaderOK'
    BY <2>1 DEF IInv, ReloaderOK, reloader
  <2>4. RequestOK(req', live')
    BY <2>1 DEF IInv, reloader
  <2> QED
    BY <2>2, <2>3, <2>4 DEF IInv
<1> QED
  BY <1>1, <1>2, <1>3, <1>4 DEF Next

\* The invariant holds at every step.
LEMMA Inductive == Spec => []IInv
BY InitOK, NextOK, PTL DEF Spec

-----------------------------------------------------------------------------
(* Theorems. *)

\* A hit that is answered was made of a record the request may find and of the
\* index it holds.
LEMMA AnsweredIsGiven ==
    ASSUME IInv, NEW o \in ToSet(req.out)
    PROVE  /\ req.p \in Requests /\ req.snap \in 1..MaxGen
           /\ req.snap \in req.floor..live /\ req.floor \in Nat
           /\ \E h \in Lookups(req.p) : o = Given(h, req.p, req.snap)
<1>1. /\ RequestTyped(req) /\ RequestStaged(req) /\ RequestHolds(req, live)
      /\ live \in Nat /\ live <= MaxGen
  BY FrontAssumption DEF IInv, RequestOK, ReloaderOK
<1>2. req.out # <<>>
  <2>1. ToSet(<<>>) = {}
    BY DEF ToSet
  <2> QED
    BY <2>1
<1>3. req.p \in Requests
  BY <1>1, <1>2 DEF RequestStaged, RequestTyped
<1>4. /\ req.snap \in Nat /\ req.floor \in Nat
      /\ 1 <= req.snap /\ req.floor <= req.snap /\ req.snap <= live
  BY <1>1, <1>2 DEF RequestTyped, RequestHolds
<1>5. req.out \in Seq(GivenHits(req.p, req.snap))
  BY <1>1, <1>2 DEF RequestTyped
<1>6. o \in GivenHits(req.p, req.snap)
  <2>1. \A S : \A s \in Seq(S) : ToSet(s) \subseteq S
    BY DEF ToSet
  <2> QED
    BY <1>5, <2>1
<1> QED
  BY <1>1, <1>3, <1>4, <1>6, FrontAssumption DEF GivenHits

\* The server, the reloader and the request keep their types; no answer has more
\* than 50 hits, nothing is looked up without an index, and no text of a client
\* becomes a label of the request metrics.
THEOREM TypeCorrect == Spec => []TypeOK
<1>1. IInv => TypeOK
  <2> SUFFICES ASSUME IInv PROVE TypeOK
    OBVIOUS
  <2>1. /\ disk \in 1..MaxGen /\ marker \in 1..MaxGen /\ live \in 0..MaxGen
        /\ rel \in {"down", "spawned", "poll", "load", "store"}
        /\ last \in 0..MaxGen /\ cur \in 0..MaxGen /\ got \in 0..MaxGen
    BY FrontAssumption DEF IInv, ReloaderOK
  <2>2. missed \in BOOLEAN /\ grpc \in BOOLEAN
    BY DEF IInv, ReloaderOK, ServerOK
  <2>3. /\ phase \in {"start", "loaded", "optional", "grpc", "bind", "serving", "exited"}
        /\ parts \in Deployments \cup {{}}
    BY DEF IInv, ServerOK
  <2>4. RequestTyped(req) /\ RequestStaged(req)
    BY DEF IInv, RequestOK
  <2>5. req.pc \in {"snap", "enrich"} => req.status = 0 /\ live # 0
    <3>1. req.pc \in {"snap", "enrich"} => live >= 1
      BY DEF IInv, ServerOK
    <3> QED
      BY <2>4, <3>1 DEF RequestStaged
  <2> QED
    BY <2>1, <2>2, <2>3, <2>4, <2>5 DEF TypeOK, RequestTyped, RequestStaged
<1> QED
  BY <1>1, Inductive, PTL

\* A reload in the middle of a request mixes nothing: every hit of an answer has
\* the context of one index, which was live while the request was handled.
THEOREM AnswersAreOneSnapshot == Spec => []OneSnapshot
<1>1. IInv => OneSnapshot
  <2> SUFFICES ASSUME IInv, req.out # <<>>
               PROVE  \E g \in req.floor .. live : \A o \in ToSet(req.out) : InContext(o, g)
    BY DEF OneSnapshot, InContext
  <2>1. \A o \in ToSet(req.out) : InContext(o, req.snap)
    <3> TAKE o \in ToSet(req.out)
    <3> QED
      BY AnsweredIsGiven, GivenFacts
  <2>2. req.snap \in req.floor .. live
    <3>1. RequestTyped(req) /\ RequestHolds(req, live) /\ live \in Nat
      BY DEF IInv, RequestOK, ReloaderOK
    <3> QED
      BY <3>1 DEF RequestTyped, RequestHolds
  <2> QED
    BY <2>1, <2>2
<1> QED
  BY <1>1, Inductive, PTL

\* In the answers of both searches and of REST nearby, a place, POI or postcode
\* never carries the house, unit, road or postcode of what is nearby, and a street
\* only a house that is stored on it.
THEOREM HousesAreTheirOwn == Spec => []OnlyOwnHouse
<1>1. IInv => OnlyOwnHouse
  <2> SUFFICES ASSUME IInv, Enriched(req.p), NEW o \in ToSet(req.out)
               PROVE  OwnHouse(o, req.p, req.snap)
    BY DEF OnlyOwnHouse, OwnHouse
  <2> QED
    BY AnsweredIsGiven, GivenFacts
<1> QED
  BY <1>1, Inductive, PTL

\* "verified" is only said of an address that is stored, with the number and, for
\* REST, the unit and the postcode of the request, on its street or on the one that
\* street was corrected or repaired to.
THEOREM VerifiedMeansStored == Spec => []VerifiedIsStored
<1>1. IInv => VerifiedIsStored
  <2> SUFFICES ASSUME IInv PROVE VerifiedIsStored
    OBVIOUS
  <2> SUFFICES ASSUME req.pc = "done", req.verified = TRUE, req.p.hn # BlankHouse
               PROVE  Stored(req.out[1], req.p, req.snap)
    <3>1. RequestTyped(req)
      BY DEF IInv, RequestOK
    <3>2. req.verified \in BOOLEAN
      BY <3>1, Zenon DEF RequestTyped
    <3> QED
      BY <3>2 DEF VerifiedIsStored, Stored, OfRequest
  <2>1. PICK h \in Lookups(req.p) : /\ req.out = <<Given(h, req.p, req.snap)>>
                                    /\ Validate(h, req.p, req.snap).verified
    BY DEF IInv, RequestOK, RequestVerified
  <2>2. req.p.op = "validate" /\ req.p.street # None
    BY DEF IInv, RequestOK, RequestVerified
  <2> DEFINE o == Given(h, req.p, req.snap)
  <2>3. o \in ToSet(req.out)
    BY <2>1 DEF ToSet
  <2>4. req.p \in Requests /\ req.snap \in 1..MaxGen
    BY <2>3, AnsweredIsGiven
  <2>5. Stored(o, req.p, req.snap)
    BY <2>1, <2>2, <2>4, VerifiedFacts
  <2>6. req.out[1] = o
    BY <2>1
  <2> QED
    BY <2>5, <2>6
<1> QED
  BY <1>1, Inductive, PTL

\* The checks of the REST and the gRPC handlers let the same requests through,
\* for every request that both can express.
THEOREM SurfacesDoNotDrift == Spec => []SurfacesAgree
<1>1. IInv => SurfacesAgree
  BY VerdictsAgree DEF SurfacesAgree, IInv, RequestOK, RequestStaged
<1> QED
  BY <1>1, Inductive, PTL

\* The reloader never rests on an index that is not the one announced, unless the
\* announcement came between the first load and its first look.
THEOREM StaleIsAlwaysNoticed == Spec => []StaleIsNoticed
<1>1. IInv => StaleIsNoticed
  BY DEF StaleIsNoticed, IInv, ReloaderOK
<1> QED
  BY <1>1, Inductive, PTL

\* housenumber_matches accepts a stored number exactly if it has a door that is
\* asked for.
THEOREM NumbersMatchOverDoors == Spec => []MatchesOverDoors
<1>1. MatchesOverDoors
  BY DoorsMatch DEF MatchesOverDoors
<1> QED
  BY <1>1, PTL

\* The live index only moves forward: no reload puts an older one back.
LiveAdvances == [][live <= live']_vars

\* No reload puts an older index in place of a newer one (hot reload, main).
THEOREM LiveOnlyAdvances == Spec => LiveAdvances
<1>1. IInv /\ [Next]_vars => [live <= live']_vars
  <2> SUFFICES ASSUME IInv, Next PROVE live <= live'
    BY DEF Next
  <2>1. live \in Nat /\ disk \in Nat /\ live <= disk
    BY FrontAssumption DEF IInv, ReloaderOK
  <2>2. CASE Boot
    BY <2>1, <2>2 DEF Boot, LoadIndex, SpawnReloader, OpenOptional, SpawnGrpc, BindHttp, reloader
  <2>3. CASE Update \/ Reload
    BY <2>3, ReloadOK
  <2>4. CASE Arrive \/ Handle \/ Leave
    <3>1. live' = live
      BY <2>4 DEF Arrive, Handle, Leave, Check, Find, FindFails, Snapshot, EnrichOne, Respond, reloader
    <3> QED
      BY <2>1, <3>1
  <2> QED
    BY <2>2, <2>3, <2>4 DEF Next
<1> QED
  BY <1>1, Inductive, PTL DEF Spec, LiveAdvances
=============================================================================
