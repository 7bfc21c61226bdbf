----------------------------- MODULE MCFrontEnd -----------------------------
\* FrontEnd on a town with one street, a café and a house with flats.
EXTENDS FrontEnd

Positions == 0 .. 8
Counties == <<"county 1", "county 2", "county 3">>

MCInside == [n \in {"park", "park lane", "newtown", "cafe", "parc", "parklane"} |->
               CASE n = "park" -> {"park", "park lane"}
                 [] n \in {"parc", "parklane"} -> {}
                 [] OTHER -> {n}]

\* A misspelt street, and one whose words were run together.
MCRespelt == [n \in DOMAIN MCInside |-> IF n = "parc" THEN {"park"} ELSE {}]
MCRespaced == [n \in DOMAIN MCInside |-> IF n = "parklane" THEN {"park lane"} ELSE {}]

\* The nearest house everywhere is 99 Elm Road.
MCQueryAt == [g \in 1 .. 3 |-> [x \in Positions |->
  [hn |-> Number(99, 99, ""), road |-> "elm", county |-> Counties[g], state |-> "NSW",
   city |-> IF x = 8 THEN "London Borough of Camden" ELSE IF x < 6 THEN "newtown" ELSE "oldtown",
   pc |-> CASE x = 1 -> "south" [] x \in 2 .. 5 -> "2000" [] x = 8 -> None [] OTHER -> "2001",
   country |-> IF x = 8 THEN "United Kingdom" ELSE "Australia",
   cc |-> IF x = 8 THEN "GB" ELSE "AU"]]]

Point(id, hn, street, unit, pos) ==
  [id |-> id, hn |-> hn, street |-> street, unit |-> unit, pos |-> pos]
House12 == Number(12, 12, "")

\* The flats come with the second generation, and move in the third.
MCSources == [g \in 1 .. 3 |->
  CASE g = 1 -> [gnaf |-> {}, osm |-> {Point(1, House12, "park", None, 3)},
                 oa |-> [c \in {"AU"} |-> {}]]
    [] g = 2 -> [gnaf |-> {Point(1, House12, "park", "4", 3), Point(2, House12, "park", "3", 5)},
                 osm |-> {}, oa |-> [c \in {"AU"} |-> {Point(3, House12, "park", None, 4)}]]
    [] OTHER -> [gnaf |-> {}, osm |-> {Point(1, Number(14, 10, ""), "park lane", None, 7)},
                 oa |-> [c \in {"AU"} |-> {Point(3, House12, "park", "4", 2)}]]]

Doc(kind, name, suburb, pc, hn, unit, pos, cc) ==
  [kind |-> kind, name |-> name, suburb |-> suburb, state |-> None, pc |-> pc, hn |-> hn,
   unit |-> unit, pos |-> pos, cc |-> cc]
MCForwardHits ==
  {Doc("place", "newtown", None, None, NoHouse, None, 1, "AU"),
   Doc("street", "park", "newtown", None, NoHouse, None, 4, "AU"),
   Doc("street", "park lane", "newtown", None, NoHouse, None, 6, None),
   Doc("poi", "cafe", "newtown", None, NoHouse, None, 2, "AU"),
   Doc("address", "park", "newtown", "2000", House12, None, 3, "AU"),
   Doc("address", "park", "newtown", "2000", Number(20, 20, ""), "3", 5, "AU"),
   Doc("address", "park lane", "newtown", "2000", House12, None, 6, "AU")}

MCFstHits == {[id |-> 1, kind |-> "place", name |-> "newtown", cc |-> "AU", pos |-> 1],
              [id |-> 2, kind |-> "postcode", name |-> "2000", cc |-> "AU", pos |-> 3],
              [id |-> 3, kind |-> "postcode", name |-> "2000", cc |-> "GB", pos |-> 8],
              [id |-> 4, kind |-> "street", name |-> "park", cc |-> "AU", pos |-> 4]}

MCIpDb == [a \in {"1.1.1.1", "10.0.0.1"} |-> IF a = "1.1.1.1" THEN 2 ELSE -1]
MCDeployments == {{}, {"forward"}, {"forward", "fst", "ip"}}
MCNormalForm == [c \in {"2000", "20 00", "2001", "south", "newtown", Blank, None} |->
                   IF c = "20 00" THEN "2000" ELSE c]
MCNumbers == {Number(12, 12, ""), Number(12, 12, "a"), Number(12, 12, "b"), Number(14, 10, ""),
              Number(13, 16, "a"), Number(15, 20, ""), Word("lot 5"), BlankHouse}

Rest(op) == [NoReq EXCEPT !.op = op]
Grpc(op) == [NoReq EXCEPT !.op = op, !.api = "grpc", !.limit = 0]
Len1(f, n) == [x \in {f} |-> n]

Plainly == {[Rest("reverse") EXCEPT !.pos = 4, !.h3 = <<9, EmptyToken, 15>>],
            [Rest("reverse") EXCEPT !.pos = 4, !.h3 = <<16>>],
            [Rest("reverse") EXCEPT !.pos = 4, !.len = Len1("lang", 17)],
            [Rest("ip") EXCEPT !.ip = "1.1.1.1"], [Rest("ip") EXCEPT !.ip = "10.0.0.1"],
            [Rest("ip") EXCEPT !.ip = "nonsense"], [Grpc("ip") EXCEPT !.ip = "1.1.1.1"],
            [Rest("h3") EXCEPT !.h3 = <<>>], [Rest("h3") EXCEPT !.h3 = <<0, 5, 10, 15>>],
            [Grpc("h3") EXCEPT !.h3 = <<0, 5, 10, 15, 7>>],
            [Grpc("reverse") EXCEPT !.pos = 1, !.h3 = <<9>>],
            [Rest("autocomplete") EXCEPT !.len = Len1("q", 129)],
            [Rest("autocomplete") EXCEPT !.cc = <<"AU">>]}

Searches ==
  LET Free == {[Rest("search") EXCEPT !.q = "newtown", !.cc = <<"AU">>, !.limit = 1],
               [Rest("search") EXCEPT !.q = "newtown", !.cc = <<"Australia">>, !.limit = 1],
               [Rest("search") EXCEPT !.q = "2000", !.bias = 8],
               [Rest("search") EXCEPT !.pc = "2000", !.cc = <<"GB">>, !.limit = 0],
               [Rest("search") EXCEPT !.q = "2000", !.kind = "address"],
               [Rest("search") EXCEPT !.q = "park", !.bias = Half],
               [Rest("search") EXCEPT !.q = "park", !.len = Len1("q", 512), !.h3 = <<9>>],
               [Rest("search") EXCEPT !.q = "park", !.kind = "poi"]}
      Houses == {[Rest("search") EXCEPT !.street = "park", !.hn = h, !.unit = u] :
                   h \in {House12, Number(11, 11, "")}, u \in {None, "3", "4", Blank}}
  IN Free \cup Houses
       \cup {[Rest("search") EXCEPT !.q = "3/12 park", !.qhn = House12, !.qunit = "3", !.cc = <<"AU">>],
             [Grpc("search") EXCEPT !.q = "12 park", !.qhn = House12, !.cc = <<"AU">>],
             [Grpc("search") EXCEPT !.q = "newtown", !.limit = 1, !.cc = <<"AU", "GB">>],
             [Grpc("search") EXCEPT !.q = "newtown", !.bias = OutOfRange]}

Nearbys == {[a EXCEPT !.pos = 3, !.radius = r, !.kind = k] :
              a \in {Rest("nearby"), Grpc("nearby")}, r \in {0, 2, 101}, k \in {None, "poi", "address"}}

Validations ==
  {[a EXCEPT !.street = "park", !.city = "newtown", !.cc = <<"AU">>, !.hn = h, !.unit = u, !.pc = c] :
     a \in {Rest("validate"), Grpc("validate")},
     h \in {NoHouse, BlankHouse, House12, Number(20, 20, "")},
     u \in {None, "3", "4"}, c \in {None, "20 00", "2001", Blank}}

Misspelt ==
  {[a EXCEPT !.street = s, !.city = "newtown", !.cc = <<"AU">>, !.hn = House12] :
     a \in {Rest("validate"), Grpc("validate"), Rest("search")}, s \in {"parc", "parklane"}}
    \cup {[Rest("validate") EXCEPT !.street = "parklane", !.city = "newtown", !.cc = <<"AU">>],
          [Rest("validate") EXCEPT !.street = "park", !.city = "newtown", !.cc = <<"AU">>,
                                   !.len = Len1("postcode", 17)]}

MCRequests == Misspelt \cup Plainly \cup Searches \cup Nearbys \cup Validations
=============================================================================
