--------------------------- MODULE MCForwardQuery ---------------------------
\* Two Sydneys, streets and addresses of one name in three countries, a street
\* whose name is written with and without a space, a city with a WoF alias, units
\* in front of a house number, before its slash and behind a "#".
EXTENDS ForwardQuery

NSW == <<"new", "south", "wales">>
MCHouses == {"4", "12", "7", "90210"}
MCPostcodes == {"2000", "90210"}
MCRural == {"90210"}
MCUnitWords == {"unit"}
MCSlashed == [x \in {"4/12", "4/7", "9/7"} |->
                CASE x = "4/12" -> <<"4", "12">> [] x = "4/7" -> <<"4", "7">> [] OTHER -> <<"9", "7">>]
MCHashed == [x \in {"#4"} |-> "4"]
MCStateNames == [AU |-> [nsw |-> NSW], US |-> [CA |-> <<"california">>], CA |-> [ns |-> <<"nova", "scotia">>]]
MCCountryNames == [australia |-> "AU", usa |-> "US", canada |-> "CA"]
MCVariants == [n |-> {"n", "north"}, north |-> {"n", "north"}]
MCStreetTypes == {"street", "road"}
MCNonLatin == {"tokyo_ja"}
MCShortWords == {"n", "nsw", "ns", "CA", "nyc", "usa"}
MCWofAliases == {[alias |-> "nyc", cc |-> "US", name |-> <<"york">>, pos |-> 900]}
MCJoinOf == [p \in {<<"sunny", "side">>, <<"side", "gate">>} |-> IF p[1] = "sunny" THEN "sunnyside" ELSE "sidegate"]
MCMisspelt == [gorge |-> "george", sidney |-> "sydney", george |-> "gorge"]

Doc == [id |-> 0, kind |-> "street", name |-> <<>>, alt |-> {}, suburb |-> <<>>, extra |-> {}, state |-> <<>>,
        cc |-> "AU", hn |-> None, unit |-> None, pc |-> None, rank |-> 26, imp |-> 0, pos |-> 0,
        score |-> 10, ci |-> 0]
Place(i, name, state, cc, imp, pos) ==
  [Doc EXCEPT !.id = i, !.kind = "place", !.name = name, !.state = state, !.cc = cc, !.rank = 16,
              !.imp = imp, !.pos = pos, !.score = 12]
Street(i, name, suburb, state, cc, pos) ==
  [Doc EXCEPT !.id = i, !.name = name, !.suburb = suburb, !.state = state, !.cc = cc, !.pos = pos]
Address(i, hn, name, suburb, state, cc, pc, pos) ==
  [Street(i, name, suburb, state, cc, pos) EXCEPT !.kind = "address", !.hn = hn, !.pc = pc, !.rank = 30]

George == <<"george", "street">>
Australia ==
  {Place(1, <<"sydney">>, NSW, "AU", 200, 0), Street(2, George, <<"sydney">>, NSW, "AU", 0),
   Address(3, "12", George, <<"sydney">>, NSW, "AU", "2000", 0),
   [Address(4, "12", George, <<"sydney">>, NSW, "AU", "2000", 0) EXCEPT !.unit = "4"],
   Address(5, "7", <<"sunnyside", "road">>, <<"sydney">>, NSW, "AU", "2000", 1),
   [Address(13, "7", <<"sunnyside", "road">>, <<"sydney">>, NSW, "AU", "2000", 1) EXCEPT !.unit = "4"],
   [Place(6, <<"george">>, NSW, "AU", 10, 40) EXCEPT !.rank = 20]}
Canada ==
  {Place(11, <<"sydney">>, <<"nova", "scotia">>, "CA", 50, 1500),
   Street(12, George, <<"sydney">>, <<"nova", "scotia">>, "CA", 1500)}
States ==
  {Place(21, <<"york">>, <<"york">>, "US", 255, 900), Place(22, <<"sydney">>, <<"california">>, "US", 20, 700),
   [Doc EXCEPT !.id = 23, !.kind = "poi", !.name = <<"pizza">>, !.suburb = <<"york">>, !.state = <<"york">>,
               !.cc = "US", !.pos = 900, !.rank = 10, !.score = 8],
   Address(24, "12", George, <<"sydney">>, <<"california">>, "US", "90210", 700)}
\* A second street of the joined name, so that a repair is ambiguous.
Twin == Address(7, "7", <<"sunny", "side", "road">>, <<"sydney">>, NSW, "AU", "2000", 3)
Spaced == Address(8, "7", <<"north", "sunnyside">>, <<"sydney">>, NSW, "AU", None, 2)
Gates == {Address(9, "7", <<"sunnyside", "gate">>, <<"sydney">>, NSW, "AU", "2000", 1),
          Address(10, "7", <<"sunny", "sidegate">>, <<"sydney">>, NSW, "AU", "2000", 4)}
\* Streets that outscore two places of one name, one near and important.
Crowd == {[Street(30 + i, <<"sydney", "road">>, <<>>, NSW, "AU", i) EXCEPT !.score = 18] : i \in 1 .. 3}
           \cup {Place(1, <<"sydney">>, NSW, "AU", 200, 9), Place(34, <<"sydney">>, NSW, "AU", 10, 3)}
All == Australia \cup Canada \cup States

Dir(name, docs) == [x \in {name} |-> docs]
Shards == [AU |-> Australia, CA |-> Canada, US |-> States]
\* The default directory, which serves every country, after another commit.
Grown == Dir(Default, All \cup {Place(14, <<"sydney">>, NSW, "AU", 250, 0)})
MCWorlds == {Dir(Default, All), Shards,
             [Shards EXCEPT !.AU = @ \cup {Twin, Spaced}], [Shards EXCEPT !.AU = @ \cup Gates],
             Dir("AU", Crowd), [Shards EXCEPT !.AU = Crowd],
             Grown, [x \in {Default, "AU"} |-> IF x = "AU" THEN Australia \cup {Spaced} ELSE All]}
MCCacheWorlds == {Dir(Default, All), Grown}

Texts == {<<<<"sydney">>>>, <<George>>, <<<<"george", "street", "sydney">>>>, <<George, <<"sydney">>>>,
          <<<<"12", "george", "street">>>>, <<<<"12", "george", "street", "sydney", "2000">>>>,
          <<<<"12", "george", "street">>, <<"sydney">>, <<"CA">>>>, <<<<"sydney">>, <<"CA">>>>,
          <<<<"12", "george", "street">>, <<"sydney", "canada">>>>, <<<<"sydney", "nsw">>>>,
          <<<<"7", "sunny", "side", "road">>, <<"sydney">>>>, <<<<"7", "sunny", "side", "road", "sydney">>>>,
          <<<<"7", "sunny", "side", "road", "2000">>>>, <<<<"7", "sunny", "side", "gate", "sydney">>>>, <<<<"pizza", "nyc">>>>, <<<<"nyc">>>>, <<<<"2000">>>>,
          <<<<"pizza", "90210">>>>, <<<<"gorge", "street", "sidney">>>>, <<<<"sydney", "nova", "scotia">>>>,
          <<<<"12", "george", "street", "tokyo_ja">>>>, <<George, <<"york">>>>, <<<<"georgia">>>>,
          <<<<"unit", "4", "12", "george", "street", "sydney">>>>, <<<<"4/12", "george", "street">>, <<"sydney">>>>,
          <<<<"12", "george", "street", "#4">>>>, <<<<"george", "street", "90210">>>>,
          <<<<"4/7", "sunny", "side", "road">>, <<"sydney">>>>, <<<<"unit", "4">>, <<"7", "sunny", "side", "road">>, <<"sydney">>>>,
          <<<<"unit", "4", "7", "sunny", "side", "road", "sydney">>>>, <<<<"9/7", "sunny", "side", "road", "sydney">>>>,
          <<<<"7", "george", "street">>>>, <<<<"george", "street", "york">>>>}
FreeQuestions ==
  {[NoQuery EXCEPT !.text = t, !.cc = cc, !.bias = b, !.kind = k, !.limit = l] :
     t \in Texts, cc \in {{}, {"AU"}, {"US"}, {"AU", "CA"}}, b \in {-1, 0, 1500},
     k \in {AnyKind, "place", "address"}, l \in {1, 10}}
FieldQuestions ==
  {[NoQuery EXCEPT !.street = s, !.house = h, !.unit = u, !.city = c, !.state = st, !.pc = p, !.cc = cc] :
     s \in {<<>>, George, <<"sunny", "side", "road">>, <<"sunnyside">>, <<"n", "sunnyside">>, <<"sunny", "side", "gate">>, <<"gorge", "street">>},
     h \in {None, "12", "7"}, u \in {None, "4", "9"}, c \in {<<>>, <<"sydney">>, <<"york">>, <<"sidney">>},
     st \in {<<>>, NSW}, p \in {None, "2000", "90210"}, cc \in {{}, {"AU"}, {"US"}, {"AU", "US"}}}
MCQuestions == FreeQuestions \cup FieldQuestions
MCNearbyQuestions ==
  {[NoQuery EXCEPT !.text = t, !.cc = cc, !.bias = b, !.kind = k, !.limit = l] :
     t \in {<<>>, <<<<"george">>>>, <<<<"sydney">>>>}, cc \in {{}, {"AU"}, {"CA"}}, b \in {0, 1, 900, 1500},
     k \in {AnyKind, "place", "address"}, l \in {0, 2, 10}}
MCTails == {[cc |-> cc, tail |-> t] : cc \in {{"AU"}, {"CA"}}, t \in {<<"sydney">>, <<"george">>}}
=============================================================================
