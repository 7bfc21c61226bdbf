--------------------------- MODULE MCReverseQuery ---------------------------
EXTENDS ReverseQuery

NoTags == [hn |-> 0, housename |-> 0, street |-> "", place |-> "", assoc |-> "",
           parent |-> "", postcode |-> ""]

Node(pos, name, place, poi, tags) ==
    [kind |-> "node", pos |-> pos, name |-> name, place |-> place, poi |-> poi, addr |-> tags]

House(pos, hn, street) == Node(pos, "", 0, 0, [NoTags EXCEPT !.hn = hn, !.street = street])

Way(nodes, name, highway, interpolation, tags) ==
    [kind |-> "way", nodes |-> nodes, name |-> name, highway |-> highway,
     interpolation |-> interpolation, place |-> 0, poi |-> 0, addr |-> tags]

Area(level, name, local, cc, way, members, rings) ==
    [kind |-> "area", level |-> level, name |-> name, local |-> local, cc |-> cc,
     way |-> way, members |-> members, rings |-> rings, place |-> 0, poi |-> 0, centroid |-> 0]

\* The house name 22 is "17 Mews".
MCLeadingDigits == [n \in {22} |-> 17]

Ring(key, outer, holes) == [key |-> key, outer |-> outer, valid |-> TRUE, holes |-> holes]
Hole(key, shape) == [key |-> key, shape |-> shape, size |-> Cardinality(shape)]

\* Addresses and streets: more houses in a cell than a count holds, an address
\* of a place, a building, a street with more nodes than a header counts, and an
\* interpolation way whose middle is out of reach of the houses at its ends.
Addressed == {
    House(0, 11, "High"), Node(8, "", 0, 0, [NoTags EXCEPT !.housename = 22, !.street = "High"]),
    House(4, 12, "Low"), House(5, 18, "Low"),
    Node(5, "", 0, 0, [NoTags EXCEPT !.hn = 14, !.place = "Hamlet"]),
    Node(4, "Cafe", 0, 15, [NoTags EXCEPT !.hn = 16, !.street = "Low", !.parent = "Town"]),
    Way(<<9, 10>>, "", FALSE, "", [NoTags EXCEPT !.housename = 21, !.assoc = "Low", !.postcode = "P1"]),
    Way(<<0, 3, 6, 9>>, "Long", TRUE, "", NoTags),
    Way(<<0, 8>>, "", FALSE, "odd", [NoTags EXCEPT !.street = "High"])}

\* Areas: two countries beside each other, a country with a hole and its
\* boundary way, an enclave that fills the hole but was simplified to less than
\* it, suburbs, and places on both sides of the border.
Bounded == {
    Area(2, "East", "Ost", "AU", 0, {}, <<Ring(1, 6..11, {})>>),
    Area(2, "West", "", "NZ", 0, {}, <<Ring(2, 0..5, {})>>),
    Area(4, "Owner", "Eigner", "", 0, {51}, <<Ring(3, 2..10, {Hole(4, 5..7)})>>),
    Area(4, "Owner", "Eigner", "", 51, {}, <<Ring(3, 2..10, {})>>),
    Area(4, "Enclave", "Insel", "", 0, {}, <<Ring(4, 5..6, {})>>),
    Area(8, "Shire", "Grafschaft", "", 0, {}, <<Ring(6, 6..11, {})>>),
    Area(9, "Suburb", "Vorort", "", 0, {}, <<Ring(7, 7..8, {})>>),
    [Area(4, "Bowtie", "", "", 0, {}, <<[Ring(8, {0, 1, 10, 11}, {}) EXCEPT !.valid = FALSE]>>)
        EXCEPT !.place = 4, !.centroid = 6],
    Node(4, "Port", 3, 0, NoTags), Node(8, "Mine", 5, 0, NoTags)}

Select(S, n) == {w \in SUBSET S : Cardinality(w) <= n}

\* An address inside a country, with up to two more objects of the second catalog.
Mixed == {w \cup {a} : w \in {v \in Select(Bounded, 3) : \E c \in v : c.kind = "area" /\ c.level = 2},
                       a \in {x \in Addressed : x.kind = "node" /\ x.addr.street # "High"}}

MCWorlds == Select(Addressed, 4) \cup Select(Bounded, 4) \cup Mixed

MCPositions == {0, 2, 4, 6, 7, 9, 11}

Plain == [field |-> "ignore", max_area |-> 0]
Field(f) == [Plain EXCEPT !.field = f]

MCAdminDefaults == (4 :> Field("state")) @@ (6 :> Field("county")) @@ (8 :> Field("city"))
                   @@ (11 :> Field("postcode"))
MCAdminByCountry == [AU |-> (7 :> Field("county_if_empty"))
                            @@ (9 :> [field |-> "city", max_area |-> 3])]

Point(pos, hn, street, postcode) ==
    [pos |-> pos, hn |-> hn, street |-> street, postcode |-> postcode, locality |-> "Bay"]

Modal == {[state |-> "Owner", city |-> "Shire", postcode |-> "P5"]}

MCSides == {
    [NoSide EXCEPT !.modal = Modal],
    [wof |-> <<[shape |-> 0..3, cc |-> "NZ", name |-> "West"],
               [shape |-> 2..11, cc |-> "AU", name |-> "East"]>>,
     oa |-> [AU |-> <<Point(10, 0, "", "P3"), Point(3, 31, "Oak", "P2"), Point(7, 32, "Oak", "")>>],
     gnaf |-> <<Point(6, 41, "Elm", "P4")>>,
     modal |-> Modal]}

=============================================================================
