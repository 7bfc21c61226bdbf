--------------------------- MODULE MCForwardIndex ---------------------------
\* A line of positions in two countries and offshore: the city "a" on both
\* sides of the border, "a am x" with a short form.  Most data sets are built
\* once; two of them replace each other under a server.
EXTENDS ForwardIndex

A(city, place, state, county, cc) ==
  [city |-> city, place |-> place, state |-> state, county |-> county, cc |-> cc]
MCAdmin == [p \in 0 .. 8 |->
  CASE p \in {0, 1} -> A("a", None, "NY", "Kings", "US")
    [] p = 2        -> A(None, "a", "NY", None, "US")
    [] p = 3        -> A("a am x", None, None, None, "US")
    [] p \in 4 .. 6 -> A(None, None, "NSW", None, "AU")
    [] p = 7        -> A("a", None, "NSW", None, "AU")
    [] OTHER        -> A(None, None, None, None, None)]
MCTokens == [n \in {"a", "a am x", "x", "nyc", "main"} |->
               IF n = "a am x" THEN <<"a", "am", "x">> ELSE <<n>>]
MCShortForm == [n \in {"a am x"} |-> "a"]
MCBoroughs == [Kings |-> "brooklyn"]
MCCountries == {"US", "AU"}

Empty == [points |-> <<>>, polys |-> <<>>, ways |-> <<>>, pois |-> <<>>, osm |-> <<>>,
          gnaf |-> <<>>, oa |-> <<>>, hasGnaf |-> FALSE, aliases |-> {}, aliasesOk |-> TRUE]
P(n, pos, alts) == [name |-> n, rank |-> 16, pos |-> pos, alts |-> alts]
G(n, l, lo, hi) == [name |-> n, level |-> l, ring |-> lo .. hi, area |-> hi - lo, alts |-> {"nyc"}]
W(n, mid) == [name |-> n, mid |-> mid]
UpTo(S, n) == UNION {[1 .. k -> S] : k \in 0 .. n}

Twins == {[Empty EXCEPT !.points = s] : s \in UpTo({P("a", p, {}) : p \in {0, 1, 2, 3, 7, 8}}, 3)}
Rings == {[Empty EXCEPT !.points = s, !.polys = g] :
            s \in UpTo({P("a", 1, {}), P("a", 6, {})}, 1),
            g \in UpTo({G("a", l, lo, lo + w) : l \in {4, 8}, lo \in {0, 4}, w \in {0, 2}} \cup {G("x", 8, 2, 3)}, 2)}
Alts == {[Empty EXCEPT !.points = <<P("a am x", 3, s)>>, !.aliases = al] :
           s \in SUBSET {"a", "x", "nyc", "a am x"},
           al \in {{}, {[cc |-> "US", name |-> "a am x", pos |-> 3, alias |-> "nyc"]}}}
Streets == {[Empty EXCEPT !.ways = s] : s \in UpTo({W("main", p) : p \in {0, 2, 3, 5, 7, 8}}, 2)}
O(pos, parent, hn) == [street |-> "main", hn |-> hn, housename |-> FALSE, pos |-> pos, parent |-> parent]
Q(pos, cc) == [street |-> "main", hn |-> "9", pos |-> pos, locality |-> None, shard |-> cc]
Addresses == {[Empty EXCEPT !.osm = s, !.oa = t, !.hasGnaf = g,
                            !.gnaf = <<[street |-> "main", hn |-> "7", pos |-> 7, locality |-> "x"]>>] :
                s \in UpTo({O(1, "x", "5"), O(2, None, "5"), O(7, None, None), O(8, None, "5")}, 1),
                t \in UpTo({Q(0, "US"), Q(7, "AU"), Q(7, "US")}, 1), g \in BOOLEAN}
Pois == {[Empty EXCEPT !.pois = <<[name |-> "x", rank |-> 30, pos |-> p, parent |-> q, alts |-> {"nyc"}]>>] :
           p \in {1, 8}, q \in {None, "a"}}

First  == [Empty EXCEPT !.points = <<P("a", 1, {})>>, !.osm = <<O(7, None, "5")>>]
Second == [Empty EXCEPT !.points = <<P("a", 1, {"nyc"})>>, !.ways = <<W("main", 7)>>]
Third  == [First EXCEPT !.osm = <<>>, !.aliasesOk = TRUE]
Broken == [First EXCEPT !.aliasesOk = FALSE]

Once == Twins \cup Rings \cup Alts \cup Streets \cup Addresses \cup Pois
MCDatasets == Once \cup {First}
MCUpdates == [d \in MCDatasets \cup {Second, Third, Broken} |->
                CASE d = First -> {Second, Third, Broken} [] d = Second -> {First} [] OTHER -> {}]
MCMaxBuilds == [d \in MCDatasets \cup {Second, Third, Broken} |-> IF d \in Once THEN 1 ELSE 2]
=============================================================================
