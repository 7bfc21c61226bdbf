--------------------------- MODULE AddressLookup ---------------------------
(***************************************************************************)
(* From a street to one of its houses: find_addr_point_in_country of       *)
(* server/src/lib.rs over the G-NAF, OpenAddresses and OSM address points, *)
(* with the comparison of house numbers (server/src/housenumber.rs).       *)
(*                                                                         *)
(* A house number is what its text is made of: "42a" is 42, 42 and the     *)
(* suffix a, "255-257" is 255 and 257, and "Lot 5" is only a word.         *)
(* Positions are on a line that is cut into cells.                         *)
(***************************************************************************)
EXTENDS Integers, FiniteSets

CONSTANTS Inside,      \* street name -> the stored names that contain it
          CellWidth    \* positions in a cell of the street level

ASSUME LookupAssumption == CellWidth \in Nat \ {0}

None == "none"
Blank == "blank"                     \* a field that is given, but only spaces
Number(a, b, sfx) == [word |-> "", a |-> a, b |-> b, sfx |-> sfx]
Word(w) == [word |-> w, a |-> 0, b |-> 0, sfx |-> ""]
NoHouse == Word(None)
BlankHouse == Word(Blank)
NoPoint == [id |-> 0, hn |-> NoHouse, street |-> None, unit |-> None, pos |-> -1]

\* Trimmed and filtered: a blank unit is no unit.
Trimmed(unit) == IF unit = Blank THEN None ELSE unit

-----------------------------------------------------------------------------
(* House numbers. *)

\* A range may be written from either end.
ParseHn(h) == [first |-> IF h.a < h.b THEN h.a ELSE h.b,
               last  |-> IF h.a < h.b THEN h.b ELSE h.a, suffix |-> h.sfx]
RangesOverlap(q, s) == q.first <= s.last /\ s.first <= q.last

\* Mutant of HousenumberMatches: a suffix that is not stored is no obstacle.
SuffixIsAWish(query, stored) ==
  \/ query = stored
  \/ /\ query.word = "" /\ stored.word = ""
     /\ RangesOverlap(ParseHn(query), ParseHn(stored))

\* A range covers the numbers in it, and their suffixes; a single number has
\* only the suffix it is stored with.
HousenumberMatches(query, stored) ==
  LET q == ParseHn(query)
      s == ParseHn(stored)
  IN \/ query = stored
     \/ /\ query.word = "" /\ stored.word = ""
        /\ q.suffix # "" => IF s.suffix # "" THEN q.suffix = s.suffix ELSE s.first # s.last
        /\ RangesOverlap(q, s)

-----------------------------------------------------------------------------
(* Address points. *)

Apart(i, j) == IF i < j THEN j - i ELSE i - j
InReach(i, j) == Apart(i \div CellWidth, j \div CellWidth) <= 1

\* Of equally near points the build decides which is listed first.
Nearest(points, near) ==
  IF points = {} THEN NoPoint
  ELSE CHOOSE p \in points : \A q \in points :
         \/ Apart(p.pos, near) < Apart(q.pos, near)
         \/ Apart(p.pos, near) = Apart(q.pos, near) /\ p.id <= q.id

\* Mutant of FindByHousenumber: the nearest door of the house answers for the
\* unit that was asked for.
AnyUnit(points, hn, street, unit, near) ==
  Nearest({p \in points : /\ InReach(p.pos, near) /\ HousenumberMatches(hn, p.hn)
                          /\ p.street \in Inside[street]}, near)

\* With a unit the points that record it, else those that record none.  The street
\* of a point is its addr:street or, flagged, the place it belongs to instead.
FindByHousenumber(points, hn, street, unit, near) ==
  LET wanted == Trimmed(unit)
      found == {p \in points : /\ InReach(p.pos, near) /\ HousenumberMatches(hn, p.hn)
                               /\ p.street \in Inside[street]}
      first == {p \in found : wanted = None \/ p.unit = wanted}
  IN IF hn = BlankHouse THEN NoPoint
     ELSE Nearest(IF first # {} THEN first ELSE {p \in found : p.unit = None}, near)

\* OpenAddresses has an index for each country and is not asked without one.
OaPoint(ix, hn, street, unit, near, cc) ==
  IF cc \in DOMAIN ix.oa THEN FindByHousenumber(ix.oa[cc], hn, street, unit, near) ELSE NoPoint

\* The OSM points follow the same discipline.
OsmPoint(ix, hn, street, unit, near) == FindByHousenumber(ix.osm, hn, street, unit, near)

\* The first source that has the house answers.
FindAddrPoint(ix, hn, street, unit, near, cc) ==
  LET gnaf == IF cc \in {None, "AU"} THEN FindByHousenumber(ix.gnaf, hn, street, unit, near)
              ELSE NoPoint
      oa == OaPoint(ix, hn, street, unit, near, cc)
  IN IF gnaf # NoPoint THEN gnaf ELSE IF oa # NoPoint THEN oa
     ELSE OsmPoint(ix, hn, street, unit, near)
=============================================================================
