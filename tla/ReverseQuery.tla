---------------------------- MODULE ReverseQuery ----------------------------
(* Reverse geocoding over an index that BuildIndex wrote: the nearest address,
   street and interpolation way around a position, the admin polygons that
   contain it, the fallbacks for city and postcode and the ladder that decides
   what is answered (Index::query_with_lang and what it calls, server/src/lib.rs).
   Distances are differences of positions.                                   *)
EXTENDS BuildIndex

CONSTANTS Positions,     \* where queries are made
          Sides,         \* the side indexes that may be loaded next to the index
          MaxDist,       \* the search distance
          PoiDist,       \* the distance within which a POI is reported
          AdminDefaults, \* admin-mapping.json: level -> field, for every country
          AdminByCountry \* and its overrides for a country

\* Queries are made somewhere, and so are the points of a side index.
ASSUME QueryAssumption ==
    /\ Positions \subseteq Int /\ MaxDist \in Int
    /\ \A s \in Sides : \A cc \in DOMAIN s.oa :
           /\ s.oa[cc] \in Seq(ToSet(s.oa[cc]))
           /\ \A o \in ToSet(s.oa[cc]) : o.pos \in Int

VARIABLES side,    \* the G-NAF, OpenAddresses, WoF and postcode indexes
          answer   \* the last answer and the position asked for

vars == <<buildVars, side, answer>>

NoAnswer == [asked |-> FALSE]

Dist(a, b) == Max({a, b}) - Min({a, b})

-----------------------------------------------------------------------------
(* Scanning cells.                                                           *)

\* The ids a scan meets, in its order.
ScanCells(cell, IdsOf(_)) ==
    LET cells == Neighbourhood(cell)
    IN  FlattenSeq([i \in DOMAIN cells |-> IdsOf(cells[i])])

\* The elements of a sequence that pass a test, in order.
Filter(s, Test(_)) ==
    LET at == Ascending({i \in DOMAIN s : Test(s[i])}) IN [i \in DOMAIN at |-> s[at[i]]]

SegmentDist(p, a, b) == IF p \in Between(a, b) THEN 0 ELSE Min({Dist(p, a), Dist(p, b)})

\* The distance of a position from a way, over the nodes the header counts.
WayDist(p, nodes) ==
    Min({SegmentDist(p, nodes[i], nodes[i + 1]) : i \in 1..Len(nodes) - 1})

\* project_point_on_polyline: how far along the way the nearest point of the
\* first nearest segment is, and how long the way is.
Along(p, nodes) ==
    LET segs   == [i \in 1..Len(nodes) - 1 |-> i]
        best   == FirstMin(segs, LAMBDA i : SegmentDist(p, nodes[i], nodes[i + 1]))
        foot   == CHOOSE x \in Between(nodes[best], nodes[best + 1]) :
                      Dist(p, x) = SegmentDist(p, nodes[best], nodes[best + 1])
        lens   == [i \in 1..Len(nodes) - 1 |-> Dist(nodes[i], nodes[i + 1])]
    IN  [at |-> Total(lens, best - 1) + Dist(nodes[best], foot), total |-> Total(lens, Len(lens))]

\* f64::round followed by "as u32", for the fraction n / d: negatives become 0.
RoundToU32(n, d) == IF n <= 0 THEN 0 ELSE (2 * n + d) \div (2 * d)

\* Mutant of InterpolatedNumber: the side of the street is ignored.
NumberAnySide(iw, t) ==
    RoundToU32(iw.start_number * t.total + t.at * (iw.end_number - iw.start_number), t.total)

\* The house number at t along an interpolation way; even and odd ways count in
\* steps of two from their start.
InterpolatedNumber(iw, t) ==
    IF iw.interpolation \in {1, 2}
    THEN iw.start_number
         + 2 * RoundToU32(t.at * (iw.end_number - iw.start_number), 2 * t.total)
    ELSE RoundToU32(iw.start_number * t.total
                    + t.at * (iw.end_number - iw.start_number), t.total)

\* query_geo: the nearest of each layer, as a sequence of at most one.
First(candidates, Key(_)) == IF candidates = <<>> THEN <<>> ELSE <<FirstMin(candidates, Key)>>

Nearest(p, points) == First(points, LAMBDA a : Dist(p, a.pos))

Fetch(array, ids) == [i \in DOMAIN ids |-> At(array, ids[i])]

\* The ids that two of the street layers list in a cell.
AddrIds(c)   == ForEachEntry(files.addr_entries, LookupGeoCell(files.geo_cells, c).addr)
InterpIds(c) == ForEachEntry(files.interp_entries, LookupGeoCell(files.geo_cells, c).interp)

NearestAddr(p) ==
    Nearest(p, Fetch(files.addr_points, ScanCells(StreetCell(p), AddrIds)))

NearestStreet(p) ==
    First(Fetch(files.street_ways, ScanCells(StreetCell(p), LAMBDA c :
              ForEachEntry(files.street_entries, LookupGeoCell(files.geo_cells, c).street))),
          LAMBDA w : WayDist(p, w.nodes))

NearestInterp(p) ==
    LET met == Fetch(files.interp_ways, ScanCells(StreetCell(p), InterpIds))
    IN  First(Filter(met, LAMBDA w : /\ w.start_number # 0 /\ w.end_number # 0
                                     /\ Along(p, w.nodes).total # 0),
              LAMBDA w : WayDist(p, w.nodes))

\* Lower rank first, then closer.
ByRank(x, p) == x.rank * 1000 + Dist(p, x.pos)

FindPlace(p) ==
    First(Fetch(files.place_points, ScanCells(AdminCell(p), LAMBDA c :
              ForEachEntry(files.place_entries, LookupCell(files.place_cells, c)))),
          LAMBDA x : ByRank(x, p))

FindPoi(p) ==
    LET met == Fetch(files.poi_points, ScanCells(StreetCell(p), LAMBDA c :
                   ForEachEntry(files.poi_entries, LookupCell(files.poi_cells, c))))
    IN  First(Filter(met, LAMBDA x : Dist(p, x.pos) <= PoiDist),
              LAMBDA x : ByRank(x, p))

-----------------------------------------------------------------------------
(* Admin areas.                                                              *)

\* Mutant of ContainsPoint: the interior flag of any visited cell is trusted.
ContainsByFlag(p, e) ==
    e.id >= INTERIOR_FLAG \/ p \in At(files.admin_polygons, e.id % INTERIOR_FLAG).shape

\* The flag proves containment only for the cell that carries it.
ContainsPoint(p, e) ==
    \/ e.id >= INTERIOR_FLAG /\ e.cell = AdminCell(p)
    \/ p \in At(files.admin_polygons, e.id % INTERIOR_FLAG).shape

\* The candidates of the visited cells that contain the position: polygon ids.
Containing(p) ==
    LET met == ScanCells(AdminCell(p), LAMBDA c :
                   LET ids == ForEachEntry(files.admin_entries, LookupCell(files.admin_cells, c))
                   IN  [i \in DOMAIN ids |-> [cell |-> c, id |-> ids[i]]])
        hits == Filter(met, LAMBDA e : ContainsPoint(p, e))
    IN  [i \in DOMAIN hits |-> hits[i].id % INTERIOR_FLAG]

\* best_by_level: of the containing polygons of a level the first smallest.
BestAtLevel(hits, level) ==
    First(Filter(hits, LAMBDA id : At(files.admin_polygons, id).level = level),
          LAMBDA id : At(files.admin_polygons, id).area)

\* WofCountries::find_country: the first country in order of decreasing size.
WofCountry(p) ==
    First(Filter(side.wof, LAMBDA w : p \in w.shape),
          LAMBDA w : Min(w.shape) - Max(w.shape))

AdminLookup(cc, level) ==
    LET table == IF cc \in DOMAIN AdminByCountry /\ level \in DOMAIN AdminByCountry[cc]
                 THEN AdminByCountry[cc] ELSE AdminDefaults
    IN  IF level \in DOMAIN table THEN table[level]
        ELSE [field |-> "ignore", max_area |-> 0]

NoAdmin == [country |-> "", state |-> "", county |-> "", city |-> "", postcode |-> "",
            cc |-> "", polys |-> [f \in {"country", "state", "county", "city"} |-> -1]]

\* Mutant of SetField: the polygon of a field is remembered only once.
SetFieldOnce(r, field, id) ==
    LET name == At(files.admin_polygons, id).name
        keep(f) == IF r.polys[f] = -1 THEN id ELSE r.polys[f]
    IN  CASE field = "state"    -> [r EXCEPT !.state = name, !.polys["state"] = keep("state")]
          [] field = "county"   -> [r EXCEPT !.county = name, !.polys["county"] = keep("county")]
          [] field = "city"     -> [r EXCEPT !.city = name, !.polys["city"] = keep("city")]
          [] field = "postcode" -> [r EXCEPT !.postcode = name]
          [] OTHER -> r

SetField(r, field, id) ==
    LET name == At(files.admin_polygons, id).name
    IN  CASE field = "state"    -> [r EXCEPT !.state = name, !.polys["state"] = id]
          [] field = "county"   -> [r EXCEPT !.county = name, !.polys["county"] = id]
          [] field = "city"     -> [r EXCEPT !.city = name, !.polys["city"] = id]
          [] field = "postcode" -> [r EXCEPT !.postcode = name]
          [] OTHER -> r

\* One level of find_admin's mapping.  max_area 0 stands for no cap; the
\* ..._if_empty fields never replace a name.
ApplyLevel(r, id) ==
    LET poly  == At(files.admin_polygons, id)
        entry == AdminLookup(r.cc, poly.level)
        once(field, name) == IF name = "" THEN SetField(r, field, id) ELSE r
    IN  IF entry.max_area # 0 /\ poly.area > entry.max_area THEN r
        ELSE CASE entry.field = "county_if_empty" -> once("county", r.county)
               [] entry.field = "city_if_empty"   -> once("city", r.city)
               [] OTHER -> SetField(r, entry.field, id)

\* The country of level 2; a Who's on First country when that gives no code.
Country(national, wof) ==
    LET poly == At(files.admin_polygons, national[1])
        osm  == IF national = <<>> THEN NoAdmin
                ELSE [NoAdmin EXCEPT !.country = poly.name, !.cc = poly.cc,
                                     !.polys["country"] = national[1]]
    IN  IF osm.cc # "" \/ wof = <<>> THEN osm
        ELSE [osm EXCEPT !.cc = wof[1].cc,
                         !.country = IF @ = "" THEN wof[1].name ELSE @]

\* The other levels in order, later ones replacing what earlier ones set.
MapLevels(hits, country) ==
    LET upTo[level \in 2..11] ==
            IF level = 2 THEN country
            ELSE IF BestAtLevel(hits, level) = <<>> THEN upTo[level - 1]
            ELSE ApplyLevel(upTo[level - 1], BestAtLevel(hits, level)[1])
    IN  upTo[11]

AdminOf(hits, wof) == MapLevels(hits, Country(BestAtLevel(hits, 2), wof))

FindAdmin(p) == AdminOf(Containing(p), WofCountry(p))

\* Mutant of SamePlace: a place of any country may name the city.
AnyPlace(admin, other) == TRUE

\* Whether a nearby place lies in the same state and country.
SamePlace(admin, other) ==
    /\ admin.state # "" => other.state = admin.state
    /\ admin.cc # "" => other.cc = admin.cc

WithPlace(admin, place) ==
    IF /\ admin.city = "" /\ admin.country # "" /\ place # <<>>
       /\ SamePlace(admin, FindAdmin(place[1].pos))
    THEN [admin EXCEPT !.city = place[1].name]
    ELSE admin

FindAdminWithPlace(p) == WithPlace(FindAdmin(p), FindPlace(p))

-----------------------------------------------------------------------------
(* The side indexes.  Their builders sort the points by cell and write the same
   cell directories, but of a cell only the ids that are counted.            *)

SortByCell(points) ==
    LET cells == Ascending({StreetCell(points[i].pos) : i \in DOMAIN points})
    IN  FlattenSeq([i \in DOMAIN cells |->
            Filter(points, LAMBDA a : StreetCell(a.pos) = cells[i])])

\* The cell map of sorted points; position i of the array holds the id i - 1.
CellsOf(sorted) ==
    LET ids(c) == Ascending({i - 1 : i \in {j \in DOMAIN sorted : StreetCell(sorted[j].pos) = c}})
    IN  [c \in {StreetCell(sorted[i].pos) : i \in DOMAIN sorted} |->
            SubSeq(ids(c), 1, Min({Len(ids(c)), CountCap}))]

NearestIn(sorted, map, p) ==
    Nearest(p, Fetch(sorted, ScanCells(StreetCell(p), LAMBDA c :
                   ForEachEntry(EntriesFile(map), LookupCell(CellIndex(map), c)))))

FindNearest(points, p) ==
    LET sorted == SortByCell(points) IN NearestIn(sorted, CellsOf(sorted), p)

OaMatch(admin, p) ==
    IF admin.cc \in DOMAIN side.oa THEN FindNearest(side.oa[admin.cc], p) ELSE <<>>

\* The postcode ladder: the postal area, then G-NAF, OpenAddresses and the
\* suburb's usual postcode.
GnafMatch(admin, p) == IF admin.cc = "AU" THEN FindNearest(side.gnaf, p) ELSE <<>>

WithPostcode(admin, gnaf, oa) ==
    LET modal == {m \in side.modal : admin.cc = "AU" /\ m.state = admin.state /\ m.city = admin.city}
        known(match) == match # <<>> /\ match[1].postcode # ""
    IN  CASE admin.postcode # "" -> admin
          [] admin.postcode = "" /\ known(gnaf) -> [admin EXCEPT !.postcode = gnaf[1].postcode]
          [] admin.postcode = "" /\ ~known(gnaf) /\ known(oa) ->
                 [admin EXCEPT !.postcode = oa[1].postcode]
          [] OTHER -> IF modal = {} THEN admin
                      ELSE [admin EXCEPT !.postcode = (CHOOSE m \in modal : TRUE).postcode]

-----------------------------------------------------------------------------
(* The answer.                                                               *)

\* Mutant of OaAnswers: OpenAddresses wins whenever it is within reach.
OaAlways(p, oa, addr) ==
    oa # <<>> /\ oa[1].hn # 0 /\ oa[1].street # "" /\ Dist(p, oa[1].pos) < MaxDist

\* An OpenAddresses point answers when it is nearer than the OSM address.
OaAnswers(p, oa, addr) ==
    /\ oa # <<>> /\ oa[1].hn # 0 /\ oa[1].street # ""
    /\ Dist(p, oa[1].pos) < MaxDist
    /\ addr # <<>> => Dist(p, oa[1].pos) < Dist(p, addr[1].pos)

FromOa(admin, oa) ==
    [hn |-> oa.hn, road |-> oa.street, confidence |-> "exact",
     admin |-> [admin EXCEPT !.postcode = IF oa.postcode # "" THEN oa.postcode ELSE @,
                             !.city = IF @ = "" THEN oa.locality ELSE @]]

\* Mutant of FromAddr: the test for addr:place is the wrong way round.
FromAddrInverted(admin, a) ==
    [hn |-> a.hn, road |-> IF a.isPlace THEN a.primary ELSE "", confidence |-> "exact",
     admin |-> [admin EXCEPT !.postcode = IF @ = "" THEN a.postcode ELSE @]]

\* The house number of an addr:place address comes without a road; its place,
\* or the tagged parent, becomes the city when there is none.
FromAddr(admin, a) ==
    [hn |-> a.hn, road |-> IF a.isPlace THEN "" ELSE a.primary, confidence |-> "exact",
     admin |-> [admin EXCEPT !.postcode = IF @ = "" THEN a.postcode ELSE @,
                             !.city = CASE @ # "" -> @
                                        [] @ = "" /\ a.parent # "" -> a.parent
                                        [] OTHER -> IF a.isPlace THEN a.primary ELSE ""]]

\* The nearest address in reach, of either source.
FromNearest(p, admin, oa, addr) ==
    CASE OaAnswers(p, oa, addr) -> FromOa(admin, oa[1])
      [] ~OaAnswers(p, oa, addr) /\ addr # <<>> /\ Dist(p, addr[1].pos) < MaxDist ->
             FromAddr(admin, addr[1])
      [] OTHER -> [hn |-> 0, road |-> "", confidence |-> "", admin |-> admin]

\* An interpolated number, then the nearest street, when there is no road yet.
WithRoad(p, found, interp, street) ==
    LET near(way) == way # <<>> /\ WayDist(p, way[1].nodes) < MaxDist
    IN  CASE found.road # "" -> found
          [] found.road = "" /\ near(interp) ->
                 [found EXCEPT !.hn = InterpolatedNumber(interp[1], Along(p, interp[1].nodes)),
                               !.road = interp[1].street, !.confidence = "interpolated"]
          [] found.road = "" /\ ~near(interp) /\ near(street) ->
                 [found EXCEPT !.road = street[1].name, !.confidence = "fallback"]
          [] OTHER -> found

\* Nothing found is the empty address, whatever was known besides; the admin
\* result is still returned to query_with_lang.
Assembled(found, poi) ==
    IF /\ found.road = "" /\ poi = <<>>
       /\ found.admin.country = "" /\ found.admin.city = ""
    THEN [hn |-> 0, road |-> "", confidence |-> "", poi |-> <<>>,
          admin |-> [NoAdmin EXCEPT !.polys = found.admin.polys]]
    ELSE [hn |-> found.hn, road |-> found.road, poi |-> poi, admin |-> found.admin,
          confidence |-> IF found.confidence = "" THEN "fallback" ELSE found.confidence]

\* query_and_admin, once the admin area and the OpenAddresses point are known.
Ladder(p, admin, oa) ==
    Assembled(WithRoad(p, FromNearest(p, WithPostcode(admin, GnafMatch(admin, p), oa),
                                      oa, NearestAddr(p)),
                       NearestInterp(p), NearestStreet(p)),
              FindPoi(p))

QueryInAdmin(p, admin) == Ladder(p, admin, OaMatch(admin, p))

QueryAndAdmin(p) == QueryInAdmin(p, FindAdminWithPlace(p))

\* query_with_lang: the translation of a field that came from a polygon.
Localised(name, id) ==
    LET names == {n \in files.i18n_names : n[1] = id}
    IN  IF names = {} THEN name ELSE (CHOOSE n \in names : TRUE)[2]

\* Index::load maps what is in the directory.
Load ==
    /\ phase = "written" /\ phase' = "loaded"
    /\ side' \in Sides
    /\ UNCHANGED <<world, todo, file, mem, files, answer>>

Answered(p, r) ==
    [asked |-> TRUE, pos |-> p, hn |-> r.hn, road |-> r.road,
     confidence |-> r.confidence, poi |-> r.poi, admin |-> r.admin,
     local |-> [f \in {"country", "state", "county", "city"} |->
                   Localised(r.admin[f], r.admin.polys[f])]]

\* A query keeps no state, so one on each loaded index is enough.
Query ==
    /\ phase = "loaded" /\ ~answer.asked
    /\ \E p \in Positions : answer' = Answered(p, QueryAndAdmin(p))
    /\ UNCHANGED <<buildVars, side>>

NoSide == [wof |-> <<>>, oa |-> <<>>, gnaf |-> <<>>, modal |-> {}]

InitAll == Init /\ side = NoSide /\ answer = NoAnswer

Next == (BuildNext /\ UNCHANGED <<side, answer>>) \/ Load \/ Query

Spec == InitAll /\ [][Next]_vars

-----------------------------------------------------------------------------
(* Properties.  They compare an answer with the imported objects themselves,
   not with what the builder made of them.                                   *)

Kinds(kind) == {x \in world : x.kind = kind}

\* The addresses of the input: nodes and buildings.
WorldAddrs ==
    {AddressOf(n.pos, n.addr) : n \in {x \in Kinds("node") : HasAddress(x.addr)}}
    \cup {AddressOf(Centroid(w.nodes), w.addr) :
          w \in {x \in Kinds("way") : x.interpolation = "" /\ HasAddress(x.addr)}}

\* No cell has more ids than a count can hold.
WithinCaps == \A map \in Layers(mem) : \A c \in DOMAIN map : Len(map[c]) <= CountCap

\* One type invariant: phases, ids within their arrays, entries within files.
TypeOK ==
    /\ phase \in {"read", "holes", "resolved", "dedup", "sorted", "written", "loaded", "failed"}
    /\ todo \subseteq world /\ file \subseteq world
    /\ \A c \in DOMAIN mem.cell_to_addrs :
           ToSet(mem.cell_to_addrs[c]) \subseteq 0..Len(mem.addr_points) - 1
    /\ \A c \in DOMAIN mem.cell_to_admin :
           {id % INTERIOR_FLAG : id \in ToSet(mem.cell_to_admin[c])}
               \subseteq 0..Len(mem.admin_polygons) - 1
    /\ answer.asked \in BOOLEAN

\* What a reader finds in a cell is what was imported there: sorting the points
\* by cell and renumbering them moves no address to another cell, and a cell with
\* more ids than a u16 can count loses its last ones without disturbing the
\* cells after it (sort_addr_points_by_cell, write_entries, for_each_entry).
CellsReadBack ==
    phase \in {"written", "loaded"} =>
        \A c \in {StreetCell(a.pos) : a \in WorldAddrs} :
            LET ids  == AddrIds(c)
                here == {a \in WorldAddrs : StreetCell(a.pos) = c}
                read == {At(files.addr_points, ids[i]) : i \in DOMAIN ids}
            IN  /\ \A i \in DOMAIN ids : ids[i] < Len(files.addr_points)
                /\ read \subseteq here
                /\ Len(ids) <= CountCap
                /\ Len(ids) < CountCap => read = here

\* The house number of an exact answer is that of the nearest address, whichever
\* cell and source it is in, and the road is of the same address; an address in
\* reach is never passed over (query_geo, find_nearest, query_and_admin).  Only
\* addresses within a cell's width are sure to be in the cells that are visited.
NearestAddressAnswers ==
    answer.asked /\ WithinCaps =>
        LET p     == answer.pos
            shard == IF answer.admin.cc \in DOMAIN side.oa THEN side.oa[answer.admin.cc] ELSE <<>>
            oas   == {[pos |-> o.pos, hn |-> o.hn, road |-> o.street] : o \in ToSet(shard)}
            osm   == {[pos |-> a.pos, hn |-> a.hn,
                       road |-> IF a.isPlace THEN "" ELSE a.primary] : a \in WorldAddrs}
            reach == {a \in osm : Dist(p, a.pos) < MaxDist /\ Dist(p, a.pos) <= StreetWidth}
        IN  /\ reach # {} => answer.hn # 0
            /\ answer.confidence = "exact" =>
                 \E a \in osm \cup oas :
                     /\ a.hn = answer.hn /\ a.road = answer.road
                     /\ \A b \in reach : Dist(p, a.pos) <= Dist(p, b.pos)

\* The rings of a level that hold a position: inside the outer ring and not in a
\* hole, except a hole that a ring of the level fills.  The closed ways of
\* boundary relations are not counted: the relation stands for them.
RefContaining(p, level) ==
    LET areas  == {a \in Kinds("area") : a.level = level /\ a.name # ""
                        /\ \A r \in Kinds("area") :
                               ~(a.way \in r.members /\ r.level = level /\ r.name = a.name)}
        filled == UNION {{r.key : r \in {x \in ToSet(a.rings) : x.outer # {}}} : a \in areas}
        holds(r) == /\ p \in r.outer
                    /\ \A h \in r.holes :
                          p \in h.shape => h.size < MinHole \/ h.key \in filled
    IN  UNION {{[name |-> a.name, cc |-> a.cc, area |-> Cardinality(r.outer)] :
                    r \in {x \in ToSet(a.rings) : holds(x)}} : a \in areas}

Smallest(rings) == {r \in rings : \A o \in rings : r.area <= o.area}

LevelOf == [country |-> 2, state |-> 4]

\* A country or state that is answered holds the position: it is not a neighbour
\* across the border whose cell is flagged as inside, and not the owner of a hole,
\* even when the owner's outer way is in the input as a boundary of its own
\* (find_admin, cover_polygon, boundary_member_ways).
AnsweredAreaHolds ==
    answer.asked /\ answer.confidence # "" =>
        \A f \in DOMAIN LevelOf :
            answer.admin.polys[f] # -1 =>
                \E r \in RefContaining(answer.pos, LevelOf[f]) : r.name = answer.admin[f]

\* The smallest area of a level around a position is the one answered: an enclave
\* and not its owner, and the owner where the two rings were simplified apart
\* (finalize_admin_holes leaves a filled hole uncut, find_admin compares areas).
SmallestAreaAnswers ==
    answer.asked /\ WithinCaps /\ answer.confidence # "" =>
        \A f \in DOMAIN LevelOf :
            LET around == RefContaining(answer.pos, LevelOf[f])
            IN  around # {} => answer.admin[f] \in {r.name : r \in Smallest(around)}

\* A translated name is a translation of the name it replaces (query_with_lang
\* goes by the polygon that find_admin remembered for the field).
TranslationIsOfSameArea ==
    answer.asked /\ answer.confidence # "" =>
        \A f \in {"country", "state", "county", "city"} :
            answer.local[f] # answer.admin[f] =>
                \E a \in Kinds("area") :
                    a.name = answer.admin[f] /\ a.local = answer.local[f]

\* The country codes a position may have: that of the smallest country around it
\* or, without one, that of a Who's on First country.
RefCodes(p) ==
    LET osm == {r.cc : r \in Smallest(RefContaining(p, 2))} \ {""}
    IN  IF osm # {} THEN osm
        ELSE {side.wof[i].cc : i \in {j \in DOMAIN side.wof : p \in side.wof[j].shape}}

\* A city taken from a nearby place is not across a border: the place is in the
\* country and the state that the answer names (find_admin_with_place).
PlaceCityIsDomestic ==
    answer.asked /\ WithinCaps =>
        \A n \in Kinds("node") :
            n.place # 0 /\ n.name = answer.admin.city =>
                /\ answer.admin.cc # "" => answer.admin.cc \in RefCodes(n.pos)
                /\ answer.admin.state # "" =>
                       answer.admin.state \in {r.name : r \in RefContaining(n.pos, 4)}

\* The number an address has or, in place of a number, its name begins with.
NumberOf(a) == IF a.housename THEN {LeadingDigits[x] : x \in {a.hn} \cap DOMAIN LeadingDigits}
               ELSE {a.hn}

\* An interpolated number lies between the numbers at the two ends of a way of
\* that street, on their side of it (query_geo).
InterpolatedInRange ==
    answer.asked /\ answer.confidence = "interpolated" =>
        \E w \in {x \in Kinds("way") : x.addr.street = answer.road} :
            LET at(pos) == UNION {NumberOf(a) : a \in {x \in WorldAddrs : x.pos = pos}}
            IN  \E s \in at(w.nodes[1]), e \in at(Last(w.nodes)) :
                    /\ answer.hn \in Between(s, e)
                    /\ (w.interpolation # "all" /\ s % 2 = e % 2) => answer.hn % 2 = s % 2

\* "fallback" with a house number happens for one reason only: the nearest
\* address belongs to a place and has no road, and the nearest street is added
\* to its number (query_and_admin).
FallbackNumberIsOfPlace ==
    answer.asked /\ answer.confidence = "fallback" /\ answer.hn # 0 =>
        \E a \in WorldAddrs : a.isPlace /\ a.hn = answer.hn /\ Dist(answer.pos, a.pos) < MaxDist

\* The index files read back as what was imported, with every id in its array
\* after deduplication and renumbering (build_index.cpp against lib.rs).
FilesReadBack == TypeOK /\ CellsReadBack

\* An answered house number is the right one: the nearest address's when it is
\* exact, a place's when it comes beside another road (query_and_admin).
AddressIsRight == NearestAddressAnswers /\ FallbackNumberIsOfPlace

\* An answered area is the right one: it holds the position, no smaller one of
\* its level does, its translation is its own, and a city that comes from a
\* nearby place is on this side of the border (find_admin_with_place).
AreasAreRight ==
    /\ AnsweredAreaHolds
    /\ SmallestAreaAnswers
    /\ TranslationIsOfSameArea
    /\ PlaceCityIsDomestic
=============================================================================
