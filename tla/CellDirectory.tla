--------------------------- MODULE CellDirectory ---------------------------
(* The per-cell lists of ids that the builders write and the readers search: a
   directory of cells sorted by id, each with an offset into an entries file of
   runs "count, id, id, ...".  The address, street, interpolation, admin, place
   and POI layers and the G-NAF and OpenAddresses indexes all use this layout.

   Offsets and lengths count units of 16 bits: a count is one unit, an id two.
   Cells are the integers of a line; the neighbours of a cell are the two beside
   it, which stand for the eight of an S2 cell.                              *)
EXTENDS Integers, Sequences, FiniteSets, TLC, SequencesExt, FiniteSetsExt

CONSTANTS CountCap,   \* what a u16 count can hold (65535)
          OffsetCap   \* what a u32 offset can hold

ASSUME CapsAssumption == CountCap \in Nat \ {0} /\ OffsetCap \in Nat

NO_DATA == -1

\* The high bit of an id marks an admin cell that lies inside its polygon.
\* TLC's integers are 32 bits wide and signed, so the flag is bit 30 here.
INTERIOR_FLAG == 1073741824

-----------------------------------------------------------------------------
(* Building the lists.  A cell map is a function from the cells that have ids
   to the sequence of their ids.                                             *)

EmptyMap == <<>>

\* cell_map[cell].push_back(id), for every cell of a set.
PushAll(map, cells, id) ==
    [c \in DOMAIN map \cup cells |->
        IF c \notin DOMAIN map THEN <<id>>
        ELSE IF c \in cells THEN Append(map[c], id) ELSE map[c]]

\* The elements of a set of integers in ascending order.
Ascending(S) ==
    [i \in 1..Cardinality(S) |->
        CHOOSE x \in S : Cardinality({y \in S : y < x}) = i - 1]

\* deduplicate: every list ascending and without repetitions.
Deduplicate(map) ==
    [c \in DOMAIN map |-> Ascending(ToSet(map[c]))]

-----------------------------------------------------------------------------
(* Writing them.                                                             *)

Units(ids) ==
    [i \in 1..2 * Len(ids) |->
        IF i % 2 = 1 THEN ids[(i + 1) \div 2] % 65536
                     ELSE ids[i \div 2] \div 65536]

\* The run of a cell: the count is capped, the ids are all written.
Run(ids) == <<Min({Len(ids), CountCap})>> \o Units(ids)

EntriesFile(map) ==
    LET cells == Ascending(DOMAIN map)
    IN  FlattenSeq([i \in DOMAIN cells |-> Run(map[cells[i]])])

\* Where the run of a cell starts: after the runs of the cells before it.
Offset(map, cell) == Len(EntriesFile(Restrict(map, {c \in DOMAIN map : c < cell})))

OffsetOrNone(map, cell) ==
    IF cell \in DOMAIN map THEN Offset(map, cell) ELSE NO_DATA

\* checked_u32 throws for an offset that does not fit, and the build fails.
OffsetsFit(map) == \A c \in DOMAIN map : Offset(map, c) <= OffsetCap

\* admin_cells.bin, place_cells.bin, poi_cells.bin and those of the address
\* indexes: one offset for each cell.
CellIndex(map) ==
    LET cells == Ascending(DOMAIN map)
    IN  [i \in DOMAIN cells |->
            [cell |-> cells[i], offset |-> Offset(map, cells[i])]]

\* geo_cells.bin: three offsets for each cell any of the three layers has.
GeoCells(streets, addrs, interps) ==
    LET cells == Ascending(DOMAIN streets \cup DOMAIN addrs \cup DOMAIN interps)
    IN  [i \in DOMAIN cells |->
            [cell   |-> cells[i],
             street |-> OffsetOrNone(streets, cells[i]),
             addr   |-> OffsetOrNone(addrs, cells[i]),
             interp |-> OffsetOrNone(interps, cells[i])]]

-----------------------------------------------------------------------------
(* Reading them.                                                             *)

\* The binary search of the lookups: the position of a cell, 0 when absent.
\* lo and hi are the half-open range of positions still in question.
Search(dir, cell) ==
    LET n == Len(dir)
        find[range \in (0..n) \X (0..n)] ==
            LET lo  == range[1]
                hi  == range[2]
                mid == lo + (hi - lo) \div 2
                id  == dir[mid + 1].cell
            IN  IF lo >= hi THEN 0
                ELSE IF id = cell THEN mid + 1
                ELSE IF id < cell THEN find[<<mid + 1, hi>>]
                ELSE find[<<lo, mid>>]
    IN  find[<<0, n>>]

LookupGeoCell(dir, cell) ==
    LET i == Search(dir, cell)
    IN  IF i = 0 THEN [street |-> NO_DATA, addr |-> NO_DATA, interp |-> NO_DATA]
        ELSE [street |-> dir[i].street, addr |-> dir[i].addr, interp |-> dir[i].interp]

LookupCell(dir, cell) ==
    LET i == Search(dir, cell) IN IF i = 0 THEN NO_DATA ELSE dir[i].offset

\* for_each_entry: the ids of the run at an offset; none when the offset is
\* NO_DATA or the run would leave the file.
ForEachEntry(entries, offset) ==
    IF offset = NO_DATA \/ offset + 1 > Len(entries) THEN <<>>
    ELSE LET count == entries[offset + 1]
         IN  IF offset + 1 + 2 * count > Len(entries) THEN <<>>
             ELSE [i \in 1..count |-> entries[offset + 2 * i]
                                      + 65536 * entries[offset + 2 * i + 1]]

\* The order in which a query visits cells: its own first, then its neighbours.
Neighbourhood(cell) == <<cell, cell - 1, cell + 1>>

-----------------------------------------------------------------------------
(* Scans keep the first candidate with the least key, because they replace it
   only by a strictly smaller one.                                           *)
FirstMin(candidates, Key(_)) ==
    LET keys == {Key(candidates[i]) : i \in DOMAIN candidates}
        at   == {i \in DOMAIN candidates : Key(candidates[i]) = Min(keys)}
    IN  candidates[Min(at)]

=============================================================================
