----------------------------- MODULE BuildIndex -----------------------------
(* build-index from the input files to the arrays and cell directories it writes:
   the node, way and area handlers, the deferred holes of admin polygons, the
   end numbers of interpolation ways, the reordering of the address points and
   the directories (builder/src/build_index.cpp).  IndexPublish models how the
   written files are put in place.

   The plane is a line of positions and a cell is an interval of it, one width
   for the street layers and one for the admin layers.  A ring is the set of
   positions inside it after simplification, with a key for its nodes; rings
   with one key have the same nodes, whatever simplification made of each.
   Strings are strings, "" the missing one; house numbers are numbers, 0 the
   missing one.                                                              *)
EXTENDS CellDirectory

CONSTANTS Worlds,        \* the sets of OSM objects that may be imported
          StreetWidth,   \* positions in a street cell
          AdminWidth,    \* positions in an admin cell
          NodeCap,       \* what a u8 node_count can hold (255)
          HoleCap,       \* how many holes fit into a u16 vertex_count
          MinHole,       \* kMinHoleAreaSqDeg
          LeadingDigits  \* the house names that begin with a number -> that number

ASSUME WidthsAssumption == {StreetWidth, AdminWidth} \subseteq Nat \ {0}
ASSUME BuildCapsAssumption == NodeCap \in Nat \ {0, 1} /\ {HoleCap, MinHole} \subseteq Nat
ASSUME DigitsAssumption == \A n \in DOMAIN LeadingDigits : LeadingDigits[n] \in Nat

\* Nodes have positions; a way has at least one node with a position (without one
\* way and the functions it calls add nothing); house numbers are numbers; the
\* rings of an area are a list, each with finitely many positions inside.
ASSUME WorldsAssumption ==
    \A w \in Worlds : \A x \in w :
        /\ x.kind = "node" => x.pos \in Int
        /\ x.kind = "way" => x.nodes \in Seq(Int) \ {<<>>}
        /\ x.kind \in {"node", "way"} => {x.addr.hn, x.addr.housename} \subseteq Nat
        /\ x.kind = "area" =>
               /\ x.rings \in Seq(ToSet(x.rings))
               /\ \A r \in ToSet(x.rings) : r.outer \subseteq Int /\ IsFiniteSet(r.outer)

VARIABLES world,   \* everything that is imported
          todo,    \* the objects of input files not opened yet
          file,    \* the objects of the open file not handled yet
          mem,     \* the builder's arrays and maps
          phase,   \* where run_build is
          files    \* what the written index holds

buildVars == <<world, todo, file, mem, phase, files>>

StreetCell(pos) == pos \div StreetWidth
AdminCell(pos)  == pos \div AdminWidth

\* The arrays are 0-based.
At(array, id) == array[id + 1]

NextId(array) == Len(array)

EmptyMem ==
    [addr_points  |-> <<>>, cell_to_addrs   |-> EmptyMap,
     ways         |-> <<>>, cell_to_ways    |-> EmptyMap,
     interp_ways  |-> <<>>, cell_to_interps |-> EmptyMap,
     place_points |-> <<>>, cell_to_places  |-> EmptyMap,
     poi_points   |-> <<>>, cell_to_pois    |-> EmptyMap,
     admin_polygons |-> <<>>, cell_to_admin |-> EmptyMap,
     i18n_names |-> {},
     pending_admin_holes |-> <<>>, indexed_outer_ring_keys |-> {},
     boundary_member_ways |-> {}]

Init ==
    /\ world \in Worlds
    /\ todo = world
    /\ file = {}
    /\ mem = EmptyMem
    /\ phase = "read"
    /\ files = <<>>

-----------------------------------------------------------------------------
(* Points: places, POIs and addresses.                                       *)

AddPlace(m, pos, rank, name) ==
    IF rank = 0 \/ name = "" THEN m
    ELSE [m EXCEPT
            !.place_points = Append(@, [pos |-> pos, rank |-> rank, name |-> name]),
            !.cell_to_places = PushAll(@, {AdminCell(pos)}, NextId(m.place_points))]

AddPoi(m, pos, rank, name) ==
    IF rank = 0 \/ name = "" THEN m
    ELSE [m EXCEPT
            !.poi_points = Append(@, [pos |-> pos, rank |-> rank, name |-> name]),
            !.cell_to_pois = PushAll(@, {StreetCell(pos)}, NextId(m.poi_points))]

\* process_address_tags: addr:street, then addr:place, then the street of an
\* associatedStreet relation; a house number, then a house name.  Without one of
\* each there is no address point.
AddressOf(pos, tags) ==
    [pos       |-> pos,
     hn        |-> IF tags.hn # 0 THEN tags.hn ELSE tags.housename,
     housename |-> tags.hn = 0,
     primary   |-> CASE tags.street # "" -> tags.street
                     [] tags.street = "" /\ tags.place # "" -> tags.place
                     [] OTHER -> tags.assoc,
     isPlace   |-> tags.street = "" /\ tags.place # "",
     parent    |-> tags.parent,
     postcode  |-> tags.postcode]

HasAddress(tags) ==
    AddressOf(0, tags).primary # "" /\ AddressOf(0, tags).hn # 0

AddAddress(m, pos, tags) ==
    IF ~HasAddress(tags) THEN m
    ELSE [m EXCEPT
            !.addr_points = Append(@, AddressOf(pos, tags)),
            !.cell_to_addrs = PushAll(@, {StreetCell(pos)}, NextId(m.addr_points))]

-----------------------------------------------------------------------------
(* Lines: streets and interpolation ways.                                    *)

Between(a, b) == Min({a, b})..Max({a, b})

\* cover_edge for every edge of a way
EdgeCells(nodes) ==
    UNION {{StreetCell(p) : p \in Between(nodes[i], nodes[i + 1])} :
           i \in 1..Len(nodes) - 1}

\* The nodes a reader sees: node_count is a u8.
Stored(nodes) == SubSeq(nodes, 1, Min({Len(nodes), NodeCap}))

AddStreet(m, way) ==
    IF ~way.highway \/ way.name = "" \/ Len(way.nodes) < 2 THEN m
    ELSE [m EXCEPT
            !.ways = Append(@, [nodes |-> Stored(way.nodes), name |-> way.name]),
            !.cell_to_ways = PushAll(@, EdgeCells(way.nodes), NextId(m.ways))]

InterpolationTypes == [even |-> 1, odd |-> 2, all |-> 0]

AddInterpolation(m, way) ==
    IF \/ Len(way.nodes) < 2
       \/ way.addr.street = ""
       \/ way.interpolation \notin DOMAIN InterpolationTypes
    THEN m
    ELSE [m EXCEPT
            !.interp_ways = Append(@,
                [nodes |-> Stored(way.nodes), street |-> way.addr.street,
                 start_number |-> 0, end_number |-> 0,
                 interpolation |-> InterpolationTypes[way.interpolation]]),
            !.cell_to_interps = PushAll(@, EdgeCells(way.nodes), NextId(m.interp_ways))]

-----------------------------------------------------------------------------
(* Areas: admin polygons and their holes.                                    *)

\* cover_polygon: the cells of a polygon, and whether each lies inside it.  A
\* ring that crosses itself gets the cells of its bounding box, none inside.
CoverPolygon(ring, shape) ==
    IF ring.valid
    THEN {[cell |-> c, interior |-> \A p \in c * AdminWidth..(c + 1) * AdminWidth - 1 :
                                        p \in shape] :
          c \in {AdminCell(p) : p \in shape}}
    ELSE {[cell |-> AdminCell(p), interior |-> FALSE] : p \in Min(ring.outer)..Max(ring.outer)}

AddAdminCells(m, id, ring, shape) ==
    LET cover   == CoverPolygon(ring, shape)
        inside  == {c.cell : c \in {x \in cover : x.interior}}
        outside == {c.cell : c \in cover} \ inside
    IN  [m EXCEPT !.cell_to_admin =
            PushAll(PushAll(@, outside, id), inside, id + INTERIOR_FLAG)]

\* add_admin_polygon.  Rings that collapse are dropped; holes that are not tiny
\* put the shape and the cells off until every polygon is known.
AddAdminPolygon(m, area, ring) ==
    LET id    == NextId(m.admin_polygons)
        holes == {h \in ring.holes : h.size >= MinHole}
        added == [m EXCEPT
            !.admin_polygons = Append(@,
                [level |-> area.level, name |-> area.name, cc |-> area.cc,
                 area |-> Cardinality(ring.outer),
                 shape |-> IF holes = {} THEN ring.outer ELSE {}]),
            !.indexed_outer_ring_keys = @ \cup {<<area.level, ring.key>>},
            !.i18n_names = IF area.local = "" THEN @ ELSE @ \cup {<<id, area.local>>}]
    IN  CASE ring.outer = {} -> m
          [] ring.outer # {} /\ holes = {} -> AddAdminCells(added, id, ring, ring.outer)
          [] OTHER -> [added EXCEPT !.pending_admin_holes =
                           Append(@, [poly_id |-> id, ring |-> ring, holes |-> holes])]

\* A closed way whose boundary relation emits the polygon, with its holes.
IsMemberWay(m, area) == <<area.way, area.level, area.name>> \in m.boundary_member_ways

AddAreaPolygons(m, area) ==
    IF area.level = 0 \/ area.name = "" \/ IsMemberWay(m, area) THEN m
    ELSE LET added[i \in 0..Len(area.rings)] ==
                 IF i = 0 THEN m ELSE AddAdminPolygon(added[i - 1], area, area.rings[i])
         IN  added[Len(area.rings)]

-----------------------------------------------------------------------------
(* Reading the input.  A build reads several files one after the other, each in
   two passes; a file has its nodes first, and areas are assembled while its
   ways are read.                                                            *)

\* Pass 1 of a file: the member ways of its boundary relations.  An extract
\* that holds a way also holds the relations the way is a member of.
OpenFile ==
    /\ phase = "read" /\ file = {}
    /\ \E content \in SUBSET todo \ {{}} :
        /\ \A w \in content : \A r \in todo :
               (w.kind = "area" /\ r.kind = "area" /\ w.way \in r.members) => r \in content
        /\ file' = content
        /\ todo' = todo \ content
        /\ mem' = [mem EXCEPT !.boundary_member_ways = @ \cup
                      UNION {{<<w, r.level, r.name>> : w \in r.members} :
                             r \in {x \in content : x.kind = "area" /\ x.level # 0}}]
    /\ UNCHANGED <<world, phase, files>>

Handled(item) ==
    /\ file' = file \ {item}
    /\ UNCHANGED <<world, todo, phase, files>>

HandleNode ==
    \E n \in {x \in file : x.kind = "node"} :
        /\ mem' = AddAddress(AddPoi(AddPlace(mem, n.pos, n.place, n.name),
                                    n.pos, n.poi, n.name), n.pos, n.addr)
        /\ Handled(n)

\* The sum of the first n elements.
Total(s, n) ==
    LET sum[i \in 0..n] == IF i = 0 THEN 0 ELSE sum[i - 1] + s[i]
    IN  sum[n]

Centroid(nodes) == Total(nodes, Len(nodes)) \div Len(nodes)

HandleWay ==
    /\ \A x \in file : x.kind # "node"
    /\ \E w \in {x \in file : x.kind = "way"} :
        /\ LET c == Centroid(w.nodes)
           IN  mem' = IF w.interpolation # "" THEN AddInterpolation(mem, w)
                      ELSE AddStreet(AddPoi(AddPlace(AddAddress(mem, c, w.addr),
                                                     c, w.place, w.name),
                                            c, w.poi, w.name), w)
        /\ Handled(w)

HandleArea ==
    /\ \A x \in file : x.kind # "node"
    /\ \E a \in {x \in file : x.kind = "area"} :
        /\ mem' = AddAreaPolygons(AddPlace(AddPoi(mem, a.centroid, a.poi, a.name),
                                           a.centroid, a.place, a.name), a)
        /\ Handled(a)

-----------------------------------------------------------------------------
(* After the input.                                                          *)

Advance(from, to) ==
    /\ phase = from /\ phase' = to
    /\ UNCHANGED <<world, todo, file>>

\* Mutant of OpenHoles: holes that an enclave fills are cut as well.
AllHoles(m, p) == p.holes

\* The holes to cut: one that another polygon of the level fills is left, since
\* the smaller area of that polygon decides there.
OpenHoles(m, p) ==
    {h \in p.holes :
        <<At(m.admin_polygons, p.poly_id).level, h.key>> \notin m.indexed_outer_ring_keys}

BySize(holes) ==
    SetToSortSeq(holes, LAMBDA a, b : Cardinality(a.shape) > Cardinality(b.shape)
                                      \/ (Cardinality(a.shape) = Cardinality(b.shape)
                                          /\ a.key < b.key))

\* The largest holes that fit, without those that leave the outer ring or meet
\* a hole kept before.
CutHoles(ring, holes) ==
    LET sorted == BySize({h \in holes : h.shape # {}})
        fit    == SubSeq(sorted, 1, Min({Len(sorted), HoleCap}))
    IN  FoldLeft(LAMBDA cut, h : IF h.shape \subseteq ring.outer /\ h.shape \cap cut = {}
                                 THEN cut \cup h.shape ELSE cut, {}, fit)

FinalizeHole(m, p) ==
    LET shape == p.ring.outer \ CutHoles(p.ring, OpenHoles(m, p))
    IN  [AddAdminCells(m, p.poly_id, p.ring, shape)
            EXCEPT !.admin_polygons[p.poly_id + 1].shape = shape]

\* Every polygon that was put off, in the order they were met.
Finalized(m, pending) ==
    LET done[i \in 0..Len(pending)] ==
            IF i = 0 THEN m ELSE FinalizeHole(done[i - 1], pending[i])
    IN  done[Len(pending)]

FinalizeAdminHoles ==
    /\ todo = {} /\ file = {}
    /\ Advance("read", "holes")
    /\ mem' = [Finalized(mem, mem.pending_admin_holes) EXCEPT !.pending_admin_holes = <<>>]
    /\ UNCHANGED files

\* addr_by_coord and parse_house_number: the number that the last address point of
\* a position begins with.
NumberAt(m, pos) ==
    LET ids == {i \in DOMAIN m.addr_points : m.addr_points[i].pos = pos}
        last == m.addr_points[Max(ids)]
    IN  IF ids = {} THEN 0
        ELSE IF ~last.housename THEN last.hn
        ELSE IF last.hn \in DOMAIN LeadingDigits THEN LeadingDigits[last.hn] ELSE 0

WithNumbers(m, iw) ==
    [iw EXCEPT !.start_number = NumberAt(m, Head(iw.nodes)),
               !.end_number = NumberAt(m, Last(iw.nodes))]

ResolveInterpolation ==
    /\ Advance("holes", "resolved")
    /\ mem' = [mem EXCEPT !.interp_ways = [i \in DOMAIN @ |-> WithNumbers(mem, @[i])]]
    /\ UNCHANGED files

DeduplicateAll ==
    /\ Advance("resolved", "dedup")
    /\ mem' = [mem EXCEPT !.cell_to_ways = Deduplicate(@),
                          !.cell_to_addrs = Deduplicate(@),
                          !.cell_to_interps = Deduplicate(@),
                          !.cell_to_admin = Deduplicate(@),
                          !.cell_to_places = Deduplicate(@)]
    /\ UNCHANGED files

\* The new id of every address point: cells in order, ids in order within one.
Remap(m) ==
    LET cells == Ascending(DOMAIN m.cell_to_addrs)
        order == FlattenSeq([i \in DOMAIN cells |-> m.cell_to_addrs[cells[i]]])
    IN  [old \in ToSet(order) |-> CHOOSE new \in 0..Len(order) - 1 : order[new + 1] = old]

\* Mutant of SortAddrPointsByCell: the cells keep the old ids.
SortPointsOnly(m) ==
    LET remap == Remap(m)
    IN  [m EXCEPT !.addr_points = [i \in DOMAIN @ |->
            @[1 + CHOOSE old \in DOMAIN remap : remap[old] = i - 1]]]

SortAddrPointsByCell(m) ==
    LET remap == Remap(m)
    IN  [m EXCEPT
            !.addr_points = [i \in DOMAIN @ |->
                @[1 + CHOOSE old \in DOMAIN remap : remap[old] = i - 1]],
            !.cell_to_addrs = [c \in DOMAIN @ |->
                Ascending({remap[id] : id \in ToSet(@[c])})]]

SortAddrPoints ==
    /\ Advance("dedup", "sorted")
    /\ mem' = SortAddrPointsByCell(mem)
    /\ UNCHANGED files

Layers(m) == {m.cell_to_ways, m.cell_to_addrs, m.cell_to_interps,
              m.cell_to_admin, m.cell_to_places, m.cell_to_pois}

Written(m) ==
    [geo_cells      |-> GeoCells(m.cell_to_ways, m.cell_to_addrs, m.cell_to_interps),
     street_entries |-> EntriesFile(m.cell_to_ways),
     addr_entries   |-> EntriesFile(m.cell_to_addrs),
     interp_entries |-> EntriesFile(m.cell_to_interps),
     admin_cells    |-> CellIndex(m.cell_to_admin),
     admin_entries  |-> EntriesFile(m.cell_to_admin),
     place_cells    |-> CellIndex(m.cell_to_places),
     place_entries  |-> EntriesFile(m.cell_to_places),
     poi_cells      |-> CellIndex(m.cell_to_pois),
     poi_entries    |-> EntriesFile(m.cell_to_pois),
     addr_points    |-> m.addr_points,  street_ways    |-> m.ways,
     interp_ways    |-> m.interp_ways,  admin_polygons |-> m.admin_polygons,
     place_points   |-> m.place_points, poi_points     |-> m.poi_points,
     i18n_names     |-> m.i18n_names]

\* An offset that does not fit ends the build; nothing is published.
WriteIndex ==
    /\ IF \A map \in Layers(mem) : OffsetsFit(map)
       THEN Advance("sorted", "written") /\ files' = Written(mem)
       ELSE Advance("sorted", "failed") /\ UNCHANGED files
    /\ UNCHANGED mem

BuildNext ==
    \/ OpenFile \/ HandleNode \/ HandleWay \/ HandleArea
    \/ FinalizeAdminHoles \/ ResolveInterpolation
    \/ DeduplicateAll \/ SortAddrPoints \/ WriteIndex

=============================================================================
