------------------------------ MODULE FrontEnd ------------------------------
(***************************************************************************)
(* The query server as its clients see it (server/src/main.rs and          *)
(* server/src/grpc_service.rs): startup, the REST and gRPC handlers from   *)
(* their checks to the answer, and the reloader that replaces the reverse  *)
(* index under a request.                                                  *)
(*                                                                         *)
(* A handler has no await, but it runs on a thread of its own beside the   *)
(* reloader, so each look at the live index and each enriched hit is a     *)
(* step.  Handlers share nothing but indexes that they only read: one      *)
(* request in flight stands for any number.  What the forward index finds  *)
(* is in ForwardQuery and what a reverse query answers in ReverseQuery;    *)
(* here the one is any list of hits it can return and the other a table    *)
(* for each generation of the index.                                       *)
(***************************************************************************)
EXTENDS AddressLookup, Sequences, SequencesExt

CONSTANTS
    MaxGen,       \* bound: the last generation of the reverse index
    QueryAt,      \* generation -> position -> what query() answers there
    Sources,      \* generation -> its address points
    ForwardHits,  \* documents of the forward index
    FstHits,      \* entries of the autocomplete index
    Respelt,      \* street -> what correct_spelling makes of it, if anything
    Respaced,     \* street -> what joining and splitting its words makes of it
    IpDb,         \* address -> position, or -1
    Requests,     \* what clients may ask
    Deployments,  \* sets of optional indexes a data directory may hold
    TwoLetter,    \* the texts that are two letters
    PostalTexts,  \* the texts that look like a postcode
    NormalForm,   \* postcode -> normalize_postcode
    HasDigit,     \* the postcodes with a digit
    LondonBoroughs, \* cities that are a "London Borough of ..."
    Numbers,      \* house numbers to compare
    MaxHits       \* bound: hits of one search

ASSUME FrontAssumption == MaxGen \in Nat \ {0} /\ MaxHits \in Nat \ {0}

Ops == {"search", "nearby", "validate", "autocomplete", "reverse", "ip", "h3"}
AllPoints(ix) == ix.gnaf \cup ix.osm \cup UNION {ix.oa[c] : c \in DOMAIN ix.oa}

\* What the extractors of a handler let through: a REST validation has a street
\* (an empty one, which finds nothing, is left out), no validation has a text, and
\* a gRPC limit is a number.
ASSUME RequestAssumption ==
    \A p \in Requests :
      /\ p.api \in {"rest", "grpc"} /\ p.op \in Ops
      /\ p.limit \in Nat \cup (IF p.api = "rest" THEN {-1} ELSE {})
      /\ p.h3 \in Seq(Int) /\ p.bias \in Int
      /\ p.street # None => /\ p.street \in DOMAIN Respelt \cap DOMAIN Respaced
                            /\ {p.street} \cup Respelt[p.street] \cup Respaced[p.street]
                                 \subseteq DOMAIN Inside
      /\ p.op = "validate" => p.qhn = NoHouse /\ (p.api = "rest" => p.street # None)

\* Records of the indexes are numbered and have a position; the names that
\* contain a name contain what it contains.
ASSUME IndexAssumption ==
    /\ \A h \in ForwardHits : h.pos \in Int /\ "id" \notin DOMAIN h
    /\ IsFiniteSet(FstHits)
    /\ \A f \in FstHits : f.pos \in Int /\ f.id \in Nat /\ "id" \in DOMAIN f
    /\ \A f, g \in FstHits : f.id = g.id => f = g
    /\ \A g \in 1 .. MaxGen : \A s \in AllPoints(Sources[g]) : s.pos \in Int /\ s.id \in Nat
    /\ \A n \in Numbers : n.a \in Int /\ n.b \in Int
    /\ None \notin DOMAIN Inside
    /\ \A a \in DOMAIN Inside : \A b \in Inside[a] : b \in DOMAIN Inside /\ Inside[b] \subseteq Inside[a]

Half == -2          \* a bias with one coordinate
OutOfRange == -3    \* a coordinate that is not one
NotANumber == -1    \* a resolution that does not parse
EmptyToken == -2    \* nothing between two commas

VARIABLES
    phase,    \* how far main() has come
    parts,    \* the optional indexes that were opened
    grpc,     \* does the gRPC server accept calls?
    disk,     \* generation in the data directory
    marker,   \* generation whose publication the marker announces
    live,     \* generation behind the ArcSwap, 0 before the first load
    rel,      \* where the reloader is
    last,     \* last_mtime
    cur,      \* the mtime read before a reload
    got,      \* the generation a reload has opened
    missed,   \* an update was announced between the load and the first look
    req       \* the request in flight

server == <<phase, parts, grpc>>
reloader == <<disk, marker, live, rel, last, cur, got, missed>>
vars == <<server, reloader, req>>

NoReq == [api |-> "rest", op |-> "none", len |-> <<>>, bias |-> -1, h3 |-> <<>>, kind |-> None,
          q |-> None, qhn |-> NoHouse, qunit |-> None, street |-> None, city |-> None,
          state |-> None, hn |-> NoHouse, unit |-> None, pc |-> None, cc |-> <<>>,
          limit |-> -1, pos |-> 0, radius |-> 1, ip |-> None]
Idle == [pc |-> "idle", p |-> NoReq, floor |-> 0, snap |-> 0, todo |-> <<>>, out |-> <<>>,
         status |-> 0, verified |-> FALSE, label |-> None, shadow |-> <<>>]

Init ==
    /\ phase = "start" /\ parts = {} /\ grpc = FALSE
    /\ disk = 1 /\ marker = 1 /\ live = 0
    /\ rel = "down" /\ last = 0 /\ cur = 0 /\ got = 0 /\ missed = FALSE
    /\ req = Idle

-----------------------------------------------------------------------------
(* Startup. *)

\* Without an index there is no server.
LoadIndex ==
    /\ phase = "start"
    /\ \/ phase' = "loaded" /\ live' = disk
       \/ phase' = "exited" /\ UNCHANGED live
    /\ UNCHANGED <<parts, grpc, disk, marker, rel, last, cur, got, missed, req>>

SpawnReloader ==
    /\ phase = "loaded"
    /\ phase' = "optional" /\ rel' = "spawned"
    /\ UNCHANGED <<parts, grpc, disk, marker, live, last, cur, got, missed, req>>

\* IpGeo, Autocomplete and Forward: what is absent or broken is done without.
OpenOptional ==
    /\ phase = "optional"
    /\ parts' \in Deployments
    /\ phase' = "grpc"
    /\ UNCHANGED <<grpc, reloader, req>>

\* No gRPC behind --domain or with an address that does not parse.
SpawnGrpc ==
    /\ phase = "grpc"
    /\ grpc' \in BOOLEAN
    /\ phase' = "bind"
    /\ UNCHANGED <<parts, reloader, req>>

\* A failed bind ends the process, and gRPC calls with it.
BindHttp ==
    /\ phase = "bind"
    /\ \/ phase' = "serving" /\ UNCHANGED <<grpc, req>>
       \/ phase' = "exited" /\ grpc' = FALSE /\ req' = Idle
    /\ UNCHANGED <<parts, reloader>>

-----------------------------------------------------------------------------
(* Updates of the index and the reloader (IndexReload has their detail). *)

Publish ==
    /\ disk < MaxGen /\ marker = disk
    /\ disk' = disk + 1
    /\ UNCHANGED <<server, marker, live, rel, last, cur, got, missed, req>>

Touch ==
    /\ marker # disk
    /\ marker' = disk
    /\ missed' = (missed \/ (live # 0 /\ rel \in {"down", "spawned"}))
    /\ UNCHANGED <<server, disk, live, rel, last, cur, got, req>>

ReadMarker ==
    /\ rel = "spawned" /\ phase # "exited"
    /\ last' = marker /\ rel' = "poll"
    /\ UNCHANGED <<server, disk, marker, live, cur, got, missed, req>>

Poll ==
    /\ rel = "poll" /\ phase # "exited" /\ marker # last
    /\ cur' = marker /\ rel' = "load"
    /\ UNCHANGED <<server, disk, marker, live, last, got, missed, req>>

ReloadOk ==
    /\ rel = "load" /\ phase # "exited"
    /\ got' = disk /\ rel' = "store"
    /\ UNCHANGED <<server, disk, marker, live, last, cur, missed, req>>

\* Mutant of ReloadFails: a mtime counts as handled once it was tried.
ReloadFailsAcks ==
    /\ rel = "load" /\ phase # "exited"
    /\ rel' = "poll" /\ last' = cur
    /\ UNCHANGED <<server, disk, marker, live, cur, got, missed, req>>

ReloadFails ==
    /\ rel = "load" /\ phase # "exited"
    /\ rel' = "poll"
    /\ UNCHANGED <<server, disk, marker, live, last, cur, got, missed, req>>

\* Requests that hold the old Arc keep it.
Store ==
    /\ rel = "store" /\ phase # "exited"
    /\ live' = got /\ last' = cur /\ rel' = "poll" /\ missed' = FALSE
    /\ UNCHANGED <<server, disk, marker, cur, got, req>>

-----------------------------------------------------------------------------
(* Checks before a query. *)

\* limits.rs: the most bytes a field may have.
Cap(op, f) ==
    CASE f = "q" -> (IF op = "autocomplete" THEN 128 ELSE 512)
      [] f \in {"street", "city", "state", "unit"} -> 256
      [] f = "postcode" -> 16
      [] f = "housenumber" -> 32
      [] f = "country_code" -> (IF op = "autocomplete" THEN 2 ELSE 64)
      [] f = "lang" -> 16
      [] f = "ip" -> 64

TooLong(p, fields) == \E f \in fields \cap DOMAIN p.len : p.len[f] > Cap(p.op, f)

\* check_text and check_text_opt of each handler.
RestChecked(op) ==
    CASE op = "search" -> {"q", "street", "housenumber", "postcode", "city", "state", "country_code"}
      [] op = "nearby" -> {"q", "country_code"}
      [] op = "validate" -> {"street", "city", "country_code", "housenumber", "unit", "state", "postcode"}
      [] op = "autocomplete" -> {"q", "country_code"}
      [] op = "reverse" -> {"lang"}
      [] op = "ip" -> {"ip"}
      [] OTHER -> {}

GrpcChecked(op) ==
    CASE op = "search" -> {"q", "street", "housenumber", "city", "state", "country_code"}
      [] op = "nearby" -> {"q", "country_code"}
      [] op = "validate" -> {"housenumber", "street", "city", "state", "postcode", "country_code"}
      [] op = "autocomplete" -> {"q", "country_code"}
      [] op = "reverse" -> {"lang"}
      [] op = "ip" -> {"ip"}
      [] OTHER -> {}

\* parse_h3_res: the places of the resolutions; empty tokens do not count.
ParseH3Res(raw) == {i \in DOMAIN raw : raw[i] # EmptyToken}
H3ResOk(raw) == /\ \A i \in ParseH3Res(raw) : raw[i] \in 0 .. 15
                /\ Cardinality(ParseH3Res(raw)) <= 4

\* Mutant of ValidateH3Res: five resolutions.
FiveResolutions(raw) == Len(raw) <= 5 /\ \A r \in ToSet(raw) : r \in 0 .. 15

\* validate_h3_res: the gRPC list has no empty tokens.
ValidateH3Res(raw) == Len(raw) <= 4 /\ \A r \in ToSet(raw) : r \in 0 .. 15

SearchKinds == {None, "place", "street", "address"}
NearbyKinds == {None, "place", "street", "poi"}
BadBias(p) == p.bias \in {Half, OutOfRange}
BadNearby(p) == p.pos = OutOfRange \/ p.radius \notin 1 .. 100
NeedsForward(op) == op \in {"search", "nearby", "validate"}
IpStatus(ip) == IF IpDb[ip] = -1 THEN 404 ELSE 200

\* The status before a query, of the first check that fails; 200 lets the
\* handler go on.
RestVerdict(p, have) ==
    IF \/ TooLong(p, RestChecked(p.op))
       \/ p.op = "search" /\ BadBias(p)
       \/ ~H3ResOk(p.h3)
       \/ p.op = "h3" /\ (ParseH3Res(p.h3) = {} \/ p.pos = OutOfRange)
       \/ p.op = "ip" /\ p.ip \notin DOMAIN IpDb THEN 400
    ELSE IF p.op = "ip" THEN (IF "ip" \notin have THEN 503 ELSE IpStatus(p.ip))
    ELSE IF \/ NeedsForward(p.op) /\ "forward" \notin have
            \/ p.op = "autocomplete" /\ "fst" \notin have THEN 501
    ELSE IF \/ p.op = "search" /\ p.kind \notin SearchKinds \cup {"postcode"}
            \/ p.op = "nearby" /\ (p.kind \notin NearbyKinds \/ BadNearby(p)) THEN 400
    ELSE 200

\* The gRPC codes as the HTTP statuses they stand for.
GrpcVerdict(p, have) ==
    IF \/ TooLong(p, GrpcChecked(p.op))
       \/ p.op = "search" /\ BadBias(p)
       \/ ~ValidateH3Res(p.h3)
       \/ p.op = "h3" /\ (p.h3 = <<>> \/ p.pos = OutOfRange) THEN 400
    ELSE IF p.op = "ip"
    THEN (IF "ip" \notin have THEN 503 ELSE IF p.ip \notin DOMAIN IpDb THEN 400 ELSE IpStatus(p.ip))
    ELSE IF \/ NeedsForward(p.op) /\ "forward" \notin have
            \/ p.op = "autocomplete" /\ "fst" \notin have THEN 501
    ELSE IF \/ p.op = "validate" /\ (p.street = None \/ p.city = None \/ p.cc = <<>>)
            \/ p.op = "search" /\ p.kind \notin SearchKinds
            \/ p.op = "nearby" /\ (p.kind \notin NearbyKinds \/ BadNearby(p)) THEN 400
    ELSE 200

Verdict(p, have) == IF p.api = "rest" THEN RestVerdict(p, have) ELSE GrpcVerdict(p, have)

-----------------------------------------------------------------------------
(* What is looked up. *)

Or(a, b) == IF a # None THEN a ELSE b
Limit(p) == IF p.api = "rest"
            THEN CASE p.limit = -1 -> 10 [] p.limit = 0 -> 1 [] p.limit > 50 -> 50 [] OTHER -> p.limit
            ELSE CASE p.limit = 0 -> 10 [] p.limit > 50 -> 50 [] OTHER -> p.limit

\* Explicit fields come before what the text parses to; gRPC has no unit.
House(p) == IF p.hn # NoHouse THEN p.hn ELSE p.qhn
Unit(p) == IF p.api = "grpc" THEN None ELSE IF p.unit # None THEN p.unit ELSE p.qunit

\* parse_country_code_bytes and parse_cc: one code of two letters.
CountryCode(cc) == IF Len(cc) = 1 /\ cc[1] \in TwoLetter THEN cc[1] ELSE None

Plain(p) == p.street = None /\ p.city = None /\ p.state = None

\* The postcode features of the countries asked for, nearest to the bias or by
\* country; ids are in the order of countries.
PostalHits(p) ==
    LET code == Or(p.pc, p.q)
        S == {f \in FstHits : /\ f.kind = "postcode" /\ f.name = code
                              /\ p.cc # <<>> => f.cc \in ToSet(p.cc) \cap TwoLetter}
        Key(f) == IF p.bias >= 0 THEN Apart(f.pos, p.bias) ELSE 0
        Before(f, g) == Key(f) < Key(g) \/ (Key(f) = Key(g) /\ f.id < g.id)
        ordered == [i \in 1 .. Cardinality(S) |->
                      CHOOSE f \in S : Cardinality({g \in S : Before(g, f)}) = i - 1]
    IN IF /\ Plain(p) /\ p.hn = NoHouse /\ p.unit = None
          /\ p.q = None \/ p.pc = None
          /\ p.kind \in {None, "postcode"}
          /\ code \in PostalTexts
       THEN SubSeq(ordered, 1, IF Len(ordered) < Limit(p) THEN Len(ordered) ELSE Limit(p))
       ELSE <<>>

\* A text that is exactly a key of one country's FST.
FastPathHit(p) ==
    LET S == {f \in FstHits : f.cc = CountryCode(p.cc) /\ f.name = p.q /\ p.kind \in {None, f.kind}}
    IN IF /\ Plain(p) /\ p.pc = None /\ House(p) = NoHouse /\ Unit(p) = None
          /\ Len(p.cc) = 1 /\ Limit(p) = 1 /\ p.bias = -1 /\ p.q # None /\ S # {}
       THEN <<CHOOSE f \in S : TRUE>> ELSE <<>>

FstAnswer(p, have) ==
    IF p.api = "grpc" \/ p.op # "search" \/ "fst" \notin have THEN <<>>
    ELSE IF PostalHits(p) # <<>> THEN PostalHits(p) ELSE FastPathHit(p)

\* The kind search_structured is asked for.
KindAsked(p) == IF p.op # "validate" THEN p.kind
                ELSE IF p.api = "grpc" \/ p.hn = NoHouse THEN "street" ELSE None

\* What the forward index can return for a street as typed, corrected or repaired:
\* an address has the number that was asked for and its unit or none, or without a
\* number the postcode; an explicit postcode is never relaxed.
Findable(h, p, street) ==
    LET given == p.pc \notin {None, Blank}
        code == IF given THEN p.pc ELSE IF p.q \in PostalTexts THEN p.q ELSE None
        unit == Trimmed(Unit(p))
    IN /\ p.cc # <<>> => h.cc \in ToSet(p.cc)
       /\ KindAsked(p) # None => h.kind = KindAsked(p)
       /\ street # None => h.name \in Inside[street]
       /\ p.op = "nearby" => h.kind # "address" /\ Apart(h.pos, p.pos) <= p.radius
       /\ given /\ KindAsked(p) \in {None, "address"} => NormalForm[h.pc] = NormalForm[p.pc]
       /\ h.kind = "address" =>
            IF House(p) \notin {NoHouse, BlankHouse}
            THEN h.hn = House(p) /\ (unit # None => h.unit = unit \/ (h.unit = None /\ ~given))
            ELSE code # None /\ NormalForm[h.pc] = NormalForm[code]

\* The street of a search that found nothing, with its misspelt words corrected.
Corrected(p) == IF p.op = "nearby" \/ p.street = None THEN {} ELSE Respelt[p.street]

\* repair_street_whitespace: only for an address that says where it is.
Repaired(p) ==
    IF \/ p.op = "nearby" \/ p.street = None \/ p.q # None
       \/ KindAsked(p) \notin {None, "address"}
       \/ p.hn \in {NoHouse, BlankHouse} \/ CountryCode(p.cc) = None
       \/ p.city = None /\ p.pc \in {None, Blank}
    THEN {} ELSE Respaced[p.street]

\* The streets an answer may be about.
Readings(p) == {p.street} \cup Corrected(p) \cup Repaired(p)

\* search_structured: the hits of one reading, of a repaired one addresses only.
ForwardAnswers(p) ==
    LET n == IF Limit(p) < MaxHits THEN Limit(p) ELSE MaxHits
        Hits(street) == {h \in ForwardHits : /\ Findable(h, p, street)
                                             /\ \/ street \in {p.street} \cup Corrected(p)
                                                \/ h.kind = "address"}
    IN UNION {UNION {{s \in [1 .. k -> Hits(street)] : IsInjective(s)} : k \in 0 .. n}
                : street \in Readings(p)}

-----------------------------------------------------------------------------
(* Answers. *)

\* build_h3_map at the position that is answered.
H3At(p, pos) == IF ParseH3Res(p.h3) = {} THEN -1 ELSE pos

\* enrich_hit: a street is refined to the house that was asked for; house, unit
\* and postcode are those of the hit or of that house.
EnrichHit(h, p, g) ==
    LET m == IF h.kind = "street" /\ House(p) # NoHouse /\ p.op # "nearby"
             THEN FindAddrPoint(Sources[g], House(p), h.name, Unit(p), h.pos, CountryCode(<<h.cc>>))
             ELSE NoPoint
        exact == h.kind = "address"
        pos == IF m # NoPoint THEN m.pos ELSE h.pos
        d == QueryAt[g][pos]
        sameLocality == h.kind = "street" /\ h.suburb # None /\ h.suburb = d.city
        pc == IF exact THEN Or(h.pc, d.pc)
              ELSE IF m # NoPoint \/ (sameLocality /\ d.pc \in HasDigit) THEN d.pc ELSE None
    IN [kind |-> h.kind, name |-> h.name, pos |-> pos,
        hn |-> IF exact THEN h.hn ELSE m.hn,
        unit |-> IF exact THEN h.unit ELSE m.unit,
        road |-> IF exact \/ h.kind = "street" THEN h.name ELSE None,
        city |-> Or(h.suburb, d.city), state |-> Or(h.state, d.state), county |-> d.county,
        pc |-> pc, country |-> d.country, cc |-> Or(h.cc, d.cc), h3 |-> H3At(p, pos)]

\* enrich_fst_hit: only the administrative context comes from reverse lookup.
EnrichFstHit(f, p, g) ==
    LET d == QueryAt[g][f.pos]
        postal == f.kind = "postcode"
    IN [kind |-> f.kind, name |-> f.name, pos |-> f.pos, hn |-> NoHouse, unit |-> None,
        road |-> IF f.kind = "street" THEN f.name ELSE None,
        city |-> IF postal /\ d.cc = "GB" /\ d.city \in LondonBoroughs THEN "London" ELSE d.city,
        state |-> d.state, county |-> d.county, pc |-> IF postal THEN f.name ELSE None,
        country |-> d.country, cc |-> d.cc, h3 |-> H3At(p, f.pos)]

\* gRPC search: refined in the country of the request, without a unit.
GrpcHit(h, p, g) ==
    LET m == IF h.kind = "street" /\ House(p) # NoHouse
             THEN FindAddrPoint(Sources[g], House(p), h.name, None, h.pos, CountryCode(p.cc))
             ELSE NoPoint
        exact == h.kind = "address"
        pos == IF m # NoPoint THEN m.pos ELSE h.pos
        d == QueryAt[g][pos]
    IN [kind |-> h.kind, name |-> h.name, pos |-> pos,
        hn |-> IF exact THEN h.hn ELSE m.hn, unit |-> None,
        road |-> IF exact \/ h.kind = "street" THEN h.name ELSE None,
        city |-> Or(h.suburb, d.city), state |-> Or(h.state, d.state), county |-> d.county,
        pc |-> IF exact THEN Or(h.pc, d.pc) ELSE IF m # NoPoint THEN d.pc ELSE None,
        country |-> d.country, cc |-> Or(h.cc, d.cc), h3 |-> H3At(p, pos)]

\* A reverse answer, as /reverse, IP geocoding and gRPC nearby give it.
ReverseHit(p, kind, name, pos, g) ==
    LET d == QueryAt[g][pos]
    IN [kind |-> kind, name |-> name, pos |-> pos, hn |-> d.hn, unit |-> None,
        road |-> d.road, city |-> d.city, state |-> d.state, county |-> d.county, pc |-> d.pc,
        country |-> d.country, cc |-> d.cc, h3 |-> H3At(p, pos)]

AnswerHit(h, p, g) ==
    CASE p.op = "reverse" -> ReverseHit(p, None, None, p.pos, g)
      [] p.op = "ip" -> ReverseHit(p, None, None, IpDb[p.ip], g)
      [] p.op = "nearby" -> IF p.api = "grpc" THEN ReverseHit(p, h.kind, h.name, h.pos, g)
                            ELSE EnrichHit(h, p, g)
      [] OTHER -> IF p.op = "search" /\ "id" \in DOMAIN h THEN EnrichFstHit(h, p, g)
                  ELSE IF p.api = "grpc" THEN GrpcHit(h, p, g) ELSE EnrichHit(h, p, g)

-----------------------------------------------------------------------------
(* Validation of an address. *)

UnitMatches(asked, stored) == Trimmed(asked) = None \/ Trimmed(asked) = stored
PostcodeMatches(asked, stored) ==
    asked = None \/ (stored # None /\ NormalForm[asked] = NormalForm[stored])

\* Mutant of RestValidate: a house that is found is verified.
ValidateHouseOnly(h, p, g) ==
    LET m == IF h.kind # "address" /\ p.hn # NoHouse
             THEN FindAddrPoint(Sources[g], p.hn, h.name, p.unit, h.pos, CountryCode(p.cc))
             ELSE NoPoint
        pos == IF m # NoPoint THEN m.pos ELSE h.pos
    IN [hit |-> IF h.kind = "address" THEN EnrichHit(h, p, g) ELSE ReverseHit(p, h.kind, h.name, pos, g),
        verified |-> h.kind = "address" \/ m # NoPoint]

\* validate_address: a house point, or the street refined to one, with the unit
\* and the postcode of the request.
RestValidate(h, p, g) ==
    LET exact == h.kind = "address"
        m == IF ~exact /\ p.hn # NoHouse
             THEN FindAddrPoint(Sources[g], p.hn, h.name, p.unit, h.pos, CountryCode(p.cc))
             ELSE NoPoint
        pos == IF m # NoPoint THEN m.pos ELSE h.pos
    IN [hit |-> IF exact THEN EnrichHit(h, p, g) ELSE ReverseHit(p, h.kind, h.name, pos, g),
        verified |-> IF exact THEN UnitMatches(p.unit, h.unit) /\ PostcodeMatches(p.pc, h.pc)
                     ELSE /\ m # NoPoint /\ UnitMatches(p.unit, m.unit)
                          /\ PostcodeMatches(p.pc, QueryAt[g][m.pos].pc)]

\* The gRPC method looks for the number on the street and at nothing else.
GrpcValidate(h, p, g) ==
    LET m == IF p.hn # NoHouse
             THEN FindAddrPoint(Sources[g], p.hn, h.name, None, h.pos, CountryCode(p.cc))
             ELSE NoPoint
        pos == IF m # NoPoint THEN m.pos ELSE h.pos
    IN [hit |-> ReverseHit(p, h.kind, h.name, pos, g), verified |-> m # NoPoint]

Validate(h, p, g) == IF p.api = "rest" THEN RestValidate(h, p, g) ELSE GrpcValidate(h, p, g)

-----------------------------------------------------------------------------
(* A request. *)

\* Mutant of CanonicalCountry: whatever the client wrote.
RawCountry(cc) == IF cc = None THEN "unknown" ELSE cc

\* canonical_country: the label of the request metrics.
CanonicalCountry(cc) == IF cc \in TwoLetter THEN cc ELSE "unknown"

\* The country a handler records: of its first hit, else of the request.
RecordedCountry(p, out) ==
    LET top == IF out = <<>> \/ p.op \in {"validate", "autocomplete", "h3"} THEN None ELSE out[1].cc
        raw == IF p.cc = <<>> \/ (Len(p.cc) > 1 /\ p.op # "search") THEN None ELSE p.cc[1]
    IN CanonicalCountry(Or(top, raw))

\* record_request; only the REST handlers do.
Label(p, out) == IF p.api = "rest" THEN RecordedCountry(p, out) ELSE None

\* The answer leaves, with the metrics; search and reverse offer it to the
\* shadow, except for a postcode feature.
Answer(r, out, verified) ==
    [r EXCEPT !.pc = "done", !.status = 200, !.out = out, !.verified = verified, !.todo = <<>>,
              !.label = Label(r.p, out),
              !.shadow = IF \/ r.p.api = "grpc" \/ r.p.op \notin {"search", "reverse"}
                            \/ r.p.op = "search" /\ "fst" \in parts /\ PostalHits(r.p) # <<>>
                         THEN <<>> ELSE SubSeq(out, 1, IF out = <<>> THEN 0 ELSE 1)]

Refuse(r, status) == [r EXCEPT !.pc = "done", !.status = status, !.todo = <<>>]

Arrive ==
    /\ req.pc = "idle"
    /\ \E p \in Requests :
         /\ IF p.api = "rest" THEN phase = "serving" ELSE grpc
         /\ req' = [Idle EXCEPT !.pc = "check", !.p = p, !.floor = live]
    /\ UNCHANGED <<server, reloader>>

\* The checks; an answer that needs no reverse index is given at once.
Check ==
    /\ req.pc = "check"
    /\ LET p == req.p
           v == Verdict(p, parts)
       IN \/ v # 200 /\ req' = Refuse(req, v)
          \/ /\ v = 200 /\ p.op \in {"h3", "autocomplete"}
             /\ req' = Answer(req, <<>>, FALSE)
          \/ /\ v = 200 /\ p.op \in {"reverse", "ip"}
             /\ req' = [req EXCEPT !.pc = "snap", !.todo = <<[at |-> 0]>>]
          \/ /\ v = 200 /\ NeedsForward(p.op)
             /\ req' = [req EXCEPT !.pc = "find"]
    /\ UNCHANGED <<server, reloader>>

\* The FST or the forward index; validation of an unknown street ends here.
Find ==
    /\ req.pc = "find"
    /\ LET fst == FstAnswer(req.p, parts)
       IN \E hits \in IF fst # <<>> THEN {fst} ELSE ForwardAnswers(req.p) :
            req' = IF req.p.op = "validate" /\ hits = <<>>
                   THEN [Refuse(req, 200) EXCEPT !.verified = FALSE]
                   ELSE [req EXCEPT !.pc = "snap", !.todo = hits]
    /\ UNCHANGED <<server, reloader>>

\* "search failed": tantivy cannot read its files.
FindFails ==
    /\ req.pc = "find" /\ FstAnswer(req.p, parts) = <<>>
    /\ req' = Refuse(req, 500)
    /\ UNCHANGED <<server, reloader>>

\* index.load(): the Arc of this request.
Snapshot ==
    /\ req.pc = "snap"
    /\ req' = [req EXCEPT !.pc = "enrich", !.snap = live]
    /\ UNCHANGED <<server, reloader>>

\* Mutant of EnrichOne: each hit looks at the live index.
EnrichLive ==
    /\ req.pc = "enrich" /\ req.todo # <<>>
    /\ req' = IF req.p.op = "validate"
              THEN LET v == Validate(Head(req.todo), req.p, live)
                   IN Answer(req, <<v.hit>>, v.verified)
              ELSE [req EXCEPT !.todo = Tail(@), !.out = Append(@, AnswerHit(Head(req.todo), req.p, live))]
    /\ UNCHANGED <<server, reloader>>

\* One hit; validation takes the first.
EnrichOne ==
    /\ req.pc = "enrich" /\ req.todo # <<>>
    /\ req' = IF req.p.op = "validate"
              THEN LET v == Validate(Head(req.todo), req.p, req.snap)
                   IN Answer(req, <<v.hit>>, v.verified)
              ELSE [req EXCEPT !.todo = Tail(@), !.out = Append(@, AnswerHit(Head(req.todo), req.p, req.snap))]
    /\ UNCHANGED <<server, reloader>>

Respond ==
    /\ req.pc = "enrich" /\ req.todo = <<>>
    /\ req' = Answer(req, req.out, FALSE)
    /\ UNCHANGED <<server, reloader>>

\* The client has its answer.
Leave ==
    /\ req.pc = "done"
    /\ req' = Idle
    /\ UNCHANGED <<server, reloader>>

-----------------------------------------------------------------------------
Boot == LoadIndex \/ SpawnReloader \/ OpenOptional \/ SpawnGrpc \/ BindHttp
Update == Publish \/ Touch
Reload == ReadMarker \/ Poll \/ ReloadOk \/ ReloadFails \/ Store
Handle == Check \/ Find \/ FindFails \/ Snapshot \/ EnrichOne \/ Respond

Next == Boot \/ Update \/ Reload \/ Arrive \/ Handle \/ Leave

Spec == Init /\ [][Next]_vars

-----------------------------------------------------------------------------
(* Properties. *)

\* The type invariant of the server, the reloader and the request; no text of a
\* client becomes a label of the request metrics.
TypeOK ==
    /\ phase \in {"start", "loaded", "optional", "grpc", "bind", "serving", "exited"}
    /\ parts \in Deployments \cup {{}} /\ grpc \in BOOLEAN
    /\ disk \in 1 .. MaxGen /\ marker \in 1 .. MaxGen /\ live \in 0 .. MaxGen
    /\ rel \in {"down", "spawned", "poll", "load", "store"}
    /\ last \in 0 .. MaxGen /\ cur \in 0 .. MaxGen /\ got \in 0 .. MaxGen /\ missed \in BOOLEAN
    /\ req.pc \in {"idle", "check", "find", "snap", "enrich", "done"}
    /\ req.pc \in {"snap", "enrich"} => req.status = 0 /\ live # 0
    /\ req.pc = "done" => req.status \in {200, 400, 404, 500, 501, 503}
    /\ Len(req.out) + Len(req.todo) <= 50
    /\ req.label \in TwoLetter \cup {"unknown", None}

\* All hits of an answer come from one index, and from one that was live while
\* the request was handled: a reload in the middle of it mixes nothing, and the
\* H3 cells and the context are those of the coordinate that is answered.
OneSnapshot ==
    req.out # <<>> =>
      \E g \in req.floor .. live : \A o \in ToSet(req.out) :
        /\ o.county = QueryAt[g][o.pos].county /\ o.country = QueryAt[g][o.pos].country
        /\ o.h3 \in {-1, o.pos}

\* The answers made by enrich_hit, enrich_fst_hit and the gRPC search method.
Enriched(p) == p.op = "search" \/ (p.op = "nearby" /\ p.api = "rest")

\* In the answers of both searches and of REST nearby, a place, POI or postcode
\* never carries the house, unit, road or postcode that reverse lookup finds nearby
\* ("must not be presented as attributes of a place, street or POI hit"); a street
\* carries a house only if that point is stored on it in the same index, with the
\* unit asked for or none, and else a postcode only where the locality agrees.  It
\* is not so of gRPC nearby, which gives every hit the whole address that reverse
\* lookup finds at its position (grpc_service.rs:344-356): see the README.
OnlyOwnHouse ==
    Enriched(req.p) => \A o \in ToSet(req.out) :
      /\ o.kind \in {"place", "poi", "postcode"} =>
           o.hn = NoHouse /\ o.unit = None /\ o.road = None /\ o.pc \in {None, o.name}
      /\ o.kind = "street" /\ o.hn # NoHouse =>
           /\ \E s \in AllPoints(Sources[req.snap]) :
                /\ s.pos = o.pos /\ s.hn = o.hn /\ s.street \in Inside[o.name]
                /\ req.p.api = "rest" => s.unit = o.unit
           /\ Trimmed(Unit(req.p)) # None => o.unit \in {Trimmed(Unit(req.p)), None}
      /\ o.kind = "street" /\ o.hn = NoHouse /\ o.pc # None =>
           o.pc \in HasDigit /\ o.city = QueryAt[req.snap][o.pos].city

\* "Confirm whether the address exists in our authoritative sources": verified
\* means that a record with the number is stored at the coordinate answered, for
\* REST with the unit and the postcode of the request, on the street of the request
\* or on the one its misspelt words were corrected or its spaces repaired to.  A
\* number that is given but blank is left out: see the README.
VerifiedIsStored ==
    LET p == req.p
        o == req.out[1]
        OfRequest(hn, street, unit, pc) ==
            /\ HousenumberMatches(p.hn, hn) /\ \E r \in Readings(p) : street \in Inside[r]
            /\ p.api = "rest" => UnitMatches(p.unit, unit) /\ PostcodeMatches(p.pc, pc)
    IN req.pc = "done" /\ req.verified /\ p.hn # BlankHouse =>
         \/ \E s \in AllPoints(Sources[req.snap]) :
              s.pos = o.pos /\ OfRequest(s.hn, s.street, s.unit, QueryAt[req.snap][s.pos].pc)
         \/ \E h \in ForwardHits :
              h.kind = "address" /\ h.pos = o.pos /\ OfRequest(h.hn, h.name, h.unit, h.pc)

\* What both surfaces can be asked: gRPC has no unit, a postcode only to validate,
\* no postcode kind and only numbers as resolutions; and what REST validates without
\* a street, city or country it refuses.
Expressible(p) ==
    /\ p.kind # "postcode" /\ "unit" \notin DOMAIN p.len
    /\ "postcode" \in DOMAIN p.len => p.op = "validate"
    /\ \A r \in ToSet(p.h3) : r >= 0
    /\ p.op = "validate" => p.street # None /\ p.city # None /\ p.cc # <<>>

\* "So the two surfaces can't drift on what they accept": a request that both
\* can express passes the checks of both or of neither, whatever is loaded.
SurfacesAgree ==
    req.pc = "check" /\ Expressible(req.p) =>
      \A have \in Deployments : (RestVerdict(req.p, have) = 200) = (GrpcVerdict(req.p, have) = 200)

\* The reloader rests on an index that is not the one on disk only if that
\* update was announced between the first load and the first look at the
\* marker; a failed reload is never taken for done.
StaleIsNoticed ==
    rel = "poll" /\ marker = disk /\ live # disk => marker # last \/ missed

\* The doors a number stands for, asked and stored: a number without a suffix
\* asks for every door it has, and a stored range has every suffix.
DoorSuffixes == {""} \cup {n.sfx : n \in Numbers}
AskedDoors(h) == LET n == ParseHn(h)
                 IN (n.first .. n.last) \X (IF n.suffix = "" THEN DoorSuffixes ELSE {n.suffix})
StoredDoors(h) == LET n == ParseHn(h)
                  IN (n.first .. n.last) \X (IF n.suffix = "" /\ n.first # n.last
                                            THEN DoorSuffixes ELSE {n.suffix})

\* housenumber_matches says whether a stored number has a door that is asked for.
MatchesOverDoors ==
    phase = "start" =>
      \A q, s \in Numbers :
        HousenumberMatches(q, s) <=>
          q = s \/ (q.word = "" /\ s.word = "" /\ AskedDoors(q) \cap StoredDoors(s) # {})

=============================================================================
