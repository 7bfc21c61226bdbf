---------------------------- MODULE ForwardIndex ----------------------------
(***************************************************************************)
(* build-forward-index and the readers of its directories: which documents *)
(* a data set gives in the two layouts (server/src/forward.rs, build_with_ *)
(* heap and build_partitioned_with_heap), how each directory is replaced,  *)
(* and what a running server shows of it (Forward::open, OnCommitWithDelay).*)
(*                                                                         *)
(* The plane is a line of positions 10 km apart.  A polygon is a set of    *)
(* them, a name a model string whose tokens the constants give.  A data    *)
(* set is what the reverse index, G-NAF, OpenAddresses and the alias file  *)
(* hold, with Admin, what find_admin answers at each position.             *)
(***************************************************************************)
EXTENDS Integers, Sequences, SequencesExt, FiniteSets

CONSTANTS Datasets,     \* data sets the first build may read
          Updates,      \* data set -> data sets that may replace it
          Admin,        \* position -> [city, place, state, county, cc]
          Tokens,       \* name -> tokens canonicalise_phrase gives it
          ShortForm,    \* name -> leading name before "am", "upon", ...
          Boroughs,     \* county -> borough of New York
          Countries,    \* country codes
          MaxBuilds     \* data set -> bound on the builds before and of it

None == "none"
Default == "default"
Dirs == Countries \cup {Default}
DistM(i, j) == IF i < j THEN j - i ELSE i - j

AllData == DOMAIN Updates
Centroid(ring) == (Min(ring) + Max(ring)) \div 2

ASSUME IndexAssumption ==
  /\ None \notin Countries /\ Default \notin Countries
  /\ \A p \in DOMAIN Admin : Admin[p].cc \in Countries \cup {None}
  /\ Datasets \subseteq AllData /\ \A d \in AllData : Updates[d] \subseteq AllData

\* What the loaders give: lists of records at known positions, polygons with an
\* area, and G-NAF and OpenAddresses files of known countries.
ASSUME DataAssumption ==
  \A d \in AllData :
    /\ MaxBuilds[d] \in Nat
    /\ d.points \in Seq(Range(d.points)) /\ d.polys \in Seq(Range(d.polys))
    /\ d.ways \in Seq(Range(d.ways))
    /\ \A list \in {d.points, d.pois, d.osm} : \A i \in DOMAIN list : list[i].pos \in DOMAIN Admin
    /\ \A i \in DOMAIN d.polys : /\ d.polys[i].area \in Nat
                                 /\ Centroid(d.polys[i].ring) \in DOMAIN Admin
    /\ \A i \in DOMAIN d.ways : d.ways[i].mid \in DOMAIN Admin
    /\ \A x \in ToSet(d.oa) : x.shard \in Countries
    /\ d.hasGnaf \in BOOLEAN /\ (d.hasGnaf => "AU" \in Countries)

VARIABLES data,      \* what the source directory holds
          disk,      \* directory -> [state, build, docs]
          build,     \* the running build
          sources,   \* the data sets of the builds begun
          manifest,  \* build of manifest_forward.json
          server     \* directory -> documents a running server shows
vars == <<data, disk, build, sources, manifest, server>>
builds == Len(sources)

----------------------------------------------------------------------------
\* Places and polygons that are left out.

HomePoint(p) == Admin[p.pos].city = p.name

\* Mutant of MisplacedPlaceTwins: any two of one name within 15 km are twins.
MutualTwins(d) ==
  {i \in DOMAIN d.points :
     \E j \in DOMAIN d.points :
       /\ j # i
       /\ d.points[j].name = d.points[i].name
       /\ DistM(d.points[i].pos, d.points[j].pos) <= 1}

\* misplaced_place_twins: of two points with one name and rank the one outside
\* the city of that name goes (50 km), or the later of two inside it (15 km).
MisplacedPlaceTwins(d) ==
  {i \in DOMAIN d.points :
     \E j \in DOMAIN d.points :
       LET p == d.points[i]
           q == d.points[j]
       IN /\ <<q.name, q.rank>> = <<p.name, p.rank>> /\ HomePoint(q)
          /\ IF HomePoint(p) THEN j < i /\ DistM(p.pos, q.pos) <= 1
             ELSE DistM(p.pos, q.pos) <= 5}

\* coord_bucket (11 km) is the position itself, wide_coord_bucket four of them.
WideCoordBucket(pos) == (pos + 2) \div 4

\* has_same_name_place and the (name, bucket) signature: place points cover the
\* polygon, points that are left out as twins among them.
CoveredByPlace(d, poly) ==
  \E i \in DOMAIN d.points :
    /\ d.points[i].name = poly.name
    /\ \/ d.points[i].pos = Centroid(poly.ring)
       \/ /\ poly.level >= 7
          /\ \/ d.points[i].pos \in poly.ring
             \/ DistM(d.points[i].pos, Centroid(poly.ring)) <= 3

Named(d) == {i \in DOMAIN d.polys : d.polys[i].level \in 4 .. 10}

SameCluster(a, b) ==
  /\ <<a.name, a.level>> = <<b.name, b.level>>
  /\ WideCoordBucket(Centroid(a.ring)) = WideCoordBucket(Centroid(b.ring))

\* build_admin_metro_keep_set: the largest of a cluster, the first of equals.
AdminMetroKeepSet(d) ==
  {i \in Named(d) : \A j \in Named(d) \ {i} :
     SameCluster(d.polys[i], d.polys[j]) =>
       \/ d.polys[j].area < d.polys[i].area
       \/ d.polys[j].area = d.polys[i].area /\ i < j}

----------------------------------------------------------------------------
\* Documents.

\* WofAliases::for_place: aliases of the place of this name and country nearby.
ForPlace(d, cc, name, pos) ==
  {a.alias : a \in {x \in d.aliases : x.cc = cc /\ x.name = name /\ x.pos = pos}}

\* Mutant of AltTokens: a short form is stripped like any other alternate.
AltTokensStripped(name, alternates) ==
  UNION {ToSet(Tokens[alt]) : alt \in alternates} \ ToSet(Tokens[name])

\* The alt_name field of tantivy_doc: tokens the name lacks, and alternates or
\* a synthesised short form of one token even if the name has it.
AltTokens(name, alternates) ==
  LET Short(alt) == IF Len(Tokens[alt]) = 1 THEN ToSet(Tokens[alt]) ELSE {}
  IN UNION {Short(alt) \cup (ToSet(Tokens[alt]) \ ToSet(Tokens[name])) : alt \in alternates}
       \cup (IF name \in DOMAIN ShortForm THEN Short(ShortForm[name]) ELSE {})

Doc(kind, name, alternates, rank, pos, suburb, cc) ==
  [kind |-> kind, name |-> name, alt |-> AltTokens(name, alternates), rank |-> rank,
   pos |-> pos, suburb |-> suburb \ {None}, cc |-> cc, hn |-> None]

BoroughAlias(cc, a) ==
  IF cc = "US" /\ a.state = "NY" /\ a.county \in DOMAIN Boroughs THEN Boroughs[a.county] ELSE None

AddressDoc(street, hn, pos, localities, cc, rank) ==
  [Doc("address", street, {}, rank, pos, localities, cc) EXCEPT !.hn = hn]

\* Translations other than the name itself.
Alternates(p) == p.alts \ {p.name}

PlaceDocs(d) ==
  {LET p == d.points[i] IN
     Doc("place", p.name, Alternates(p) \cup ForPlace(d, Admin[p.pos].cc, p.name, p.pos),
         p.rank, p.pos, {Admin[p.pos].city}, Admin[p.pos].cc) :
   i \in DOMAIN d.points \ MisplacedPlaceTwins(d)}

PolygonDocs(d) ==
  {LET g == d.polys[i]
       pos == Centroid(g.ring)
   IN Doc("place", g.name, Alternates(g) \cup ForPlace(d, Admin[pos].cc, g.name, pos),
          g.level + 8, pos, {Admin[pos].city}, Admin[pos].cc) :
   i \in {k \in AdminMetroKeepSet(d) : ~CoveredByPlace(d, d.polys[k])}}

\* find_admin_with_place: the city of the place when no polygon gives one.
CityWithPlace(a) == IF a.city = None THEN a.place ELSE a.city

\* One street per name and city, the first way of it; the partitioned layout
\* tells countries apart as well.
StreetDocs(d, layout) ==
  LET Key(w) == <<w.name, CityWithPlace(Admin[w.mid]),
                  IF layout = Default THEN None ELSE Admin[w.mid].cc>>
      Offered == {i \in DOMAIN d.ways : layout = Default \/ Admin[d.ways[i].mid].cc # None}
  IN {LET w == d.ways[i] IN Doc("street", w.name, {}, 26, w.mid,
                                {CityWithPlace(Admin[w.mid])}, Admin[w.mid].cc) :
      i \in {k \in Offered : \A j \in Offered : j < k => Key(d.ways[j]) # Key(d.ways[k])}}

PoiDocs(d) ==
  {LET p == d.pois[i] IN
     Doc("poi", p.name, Alternates(p), p.rank, p.pos,
         {IF p.parent # None THEN p.parent ELSE Admin[p.pos].city}, Admin[p.pos].cc) :
   i \in DOMAIN d.pois}

\* G-NAF takes the place of the other Australian addresses.
OsmAddressDocs(d) ==
  {LET p == d.osm[i]
       a == Admin[p.pos]
       city == CityWithPlace(a)
   IN AddressDoc(p.street, p.hn, p.pos,
                 {IF p.parent # None THEN p.parent ELSE city, city, BoroughAlias(a.cc, a)}, a.cc, 26) :
   i \in {k \in DOMAIN d.osm : LET cc == Admin[d.osm[k].pos].cc IN
            /\ ~d.osm[k].housename /\ d.osm[k].hn # None
            /\ cc # None /\ ~(cc = "AU" /\ d.hasGnaf)}}

GnafDocs(d) ==
  {AddressDoc(p.street, p.hn, p.pos, {p.locality, Admin[p.pos].city}, "AU", 24) :
     p \in {x \in ToSet(d.gnaf) : d.hasGnaf /\ x.hn # None}}

OpenAddressesDocs(d) ==
  {LET a == Admin[p.pos] IN
     AddressDoc(p.street, p.hn, p.pos,
                {IF a.city # None THEN a.city ELSE p.locality, p.locality, BoroughAlias(p.shard, a)},
                p.shard, 25) :
     p \in {x \in ToSet(d.oa) : x.hn # None /\ ~(x.shard = "AU" /\ d.hasGnaf)}}

Candidates(d, layout) ==
  PlaceDocs(d) \cup PolygonDocs(d) \cup StreetDocs(d, layout) \cup PoiDocs(d)
    \cup OsmAddressDocs(d) \cup GnafDocs(d) \cup OpenAddressesDocs(d)

\* Mutant of DirDocs: the country of the position decides.
DirDocsByPosition(d, dir) ==
  IF dir = Default THEN Candidates(d, Default)
  ELSE {x \in Candidates(d, "partitioned") : Admin[x.pos].cc = dir}

\* What a build writes into a directory: everything, or the documents of one
\* country; without a country there is no directory.
DirDocs(d, dir) ==
  IF dir = Default THEN Candidates(d, Default)
  ELSE {x \in Candidates(d, "partitioned") : x.cc = dir}

\* The countries of the buckets; G-NAF opens one even when it is empty.
Buckets(d) ==
  ({x.cc : x \in Candidates(d, "partitioned")} \ {None})
    \cup (IF d.hasGnaf THEN {"AU"} ELSE {})
    \cup {x.shard : x \in {y \in ToSet(d.oa) : ~(y.shard = "AU" /\ d.hasGnaf)}}

----------------------------------------------------------------------------
\* Building.

Absent == [state |-> "absent", build |-> 0, docs |-> {}]
NoBuild == [phase |-> "idle", layout |-> Default, todo |-> {}, open |-> {}, ok |-> TRUE]
Down == [up |-> FALSE, shows |-> <<>>]

Init == /\ data \in Datasets
        /\ disk = [d \in Dirs |-> Absent]
        /\ build = NoBuild
        /\ sources = <<>>
        /\ manifest = [layout |-> Default, build |-> 0]
        /\ server = Down

\* The reverse index is replaced under the forward index.
NewData == /\ builds > 0
           /\ \E d \in Updates[data] : data' = d
           /\ UNCHANGED <<disk, build, sources, manifest, server>>

\* Phase 1 reads everything before the first directory is touched; a malformed
\* alias file ends the build there.
StartBuild(layout) ==
  /\ build.phase = "idle" /\ builds < MaxBuilds[data]
  /\ data.aliasesOk
  /\ sources' = Append(sources, data)
  /\ build' = [phase |-> "writing", layout |-> layout, open |-> {}, ok |-> TRUE,
               todo |-> IF layout = Default THEN {Default} ELSE Buckets(data)]
  /\ UNCHANGED <<data, disk, manifest, server>>

\* remove_dir_all
ClearDir(dir) ==
  /\ build.phase = "writing" /\ build.ok
  /\ dir \in build.todo
  /\ build' = [build EXCEPT !.todo = @ \ {dir}, !.open = @ \cup {dir}]
  /\ disk' = [disk EXCEPT ![dir] = [Absent EXCEPT !.build = builds]]
  /\ UNCHANGED <<data, sources, manifest, server>>

\* create_in_dir: an index without documents, which can be opened.
CreateDir(dir) ==
  /\ dir \in build.open /\ disk[dir].state = "absent"
  /\ disk' = [disk EXCEPT ![dir].state = "created"]
  /\ UNCHANGED <<data, build, sources, manifest, server>>

\* Mutant of CommitDir: the source directory is read when a shard is written.
CommitLatest(dir) ==
  /\ dir \in build.open /\ disk[dir].state = "created"
  /\ disk' = [disk EXCEPT ![dir] = [state |-> "committed", build |-> builds,
                                    docs |-> DirDocs(data, dir)]]
  /\ build' = [build EXCEPT !.open = @ \ {dir}]
  /\ UNCHANGED <<data, sources, manifest, server>>

CommitDir(dir) ==
  /\ dir \in build.open /\ disk[dir].state = "created"
  /\ disk' = [disk EXCEPT ![dir] = [state |-> "committed", build |-> builds,
                                    docs |-> DirDocs(sources[builds], dir)]]
  /\ build' = [build EXCEPT !.open = @ \ {dir}]
  /\ UNCHANGED <<data, sources, manifest, server>>

\* A write fails: the other countries in flight end, no further one begins.
DirFails(dir) ==
  /\ dir \in build.open
  /\ build' = [build EXCEPT !.open = @ \ {dir}, !.ok = FALSE]
  /\ UNCHANGED <<data, disk, sources, manifest, server>>

\* Mutant of EndBuild: the manifest is written whatever the shards say.
EndBuildAlways ==
  /\ build.phase = "writing" /\ build.open = {}
  /\ build.ok => build.todo = {}
  /\ manifest' = [layout |-> build.layout, build |-> builds]
  /\ build' = NoBuild
  /\ UNCHANGED <<data, disk, sources, server>>

EndBuild ==
  /\ build.phase = "writing" /\ build.open = {}
  /\ build.ok => build.todo = {}
  /\ manifest' = IF build.ok THEN [layout |-> build.layout, build |-> builds] ELSE manifest
  /\ build' = NoBuild
  /\ UNCHANGED <<data, disk, sources, server>>

KillBuild ==
  /\ build.phase = "writing"
  /\ build' = NoBuild
  /\ UNCHANGED <<data, disk, sources, manifest, server>>

----------------------------------------------------------------------------
\* Serving.

Readable(dir) == disk[dir].state # "absent"

\* Forward::open: every directory that opens, the others are skipped.  A malformed
\* alias file or broken country polygons end it with an error, and the server
\* comes up without a forward index.
Open ==
  /\ ~server.up
  /\ \E dirs \in {{}, {x \in Dirs : Readable(x)}} :
       /\ dirs # {} => data.aliasesOk
       /\ server' = [up |-> TRUE, shows |-> [dir \in dirs |-> disk[dir]]]
  /\ UNCHANGED <<data, disk, build, sources, manifest>>

\* Mutant of Reload: the reader keeps the commit it was opened on.
NeverReload(dir) == FALSE /\ UNCHANGED vars

\* OnCommitWithDelay: a reader follows the meta.json of its directory.
Reload(dir) ==
  /\ server.up /\ dir \in DOMAIN server.shows
  /\ Readable(dir) /\ server.shows[dir] # disk[dir]
  /\ server' = [server EXCEPT !.shows[dir] = disk[dir]]
  /\ UNCHANGED <<data, disk, build, sources, manifest>>

Stop == /\ server.up
        /\ server' = Down
        /\ UNCHANGED <<data, disk, build, sources, manifest>>

Next == \/ NewData \/ EndBuild \/ KillBuild \/ Open \/ Stop
        \/ \E l \in {Default, "partitioned"} : StartBuild(l)
        \/ \E dir \in Dirs : \/ ClearDir(dir) \/ CreateDir(dir) \/ CommitDir(dir)
                             \/ DirFails(dir) \/ Reload(dir)

\* A reader polls its meta.json for as long as the server runs.
Spec == /\ Init /\ [][Next]_vars
        /\ \A dir \in Dirs : WF_vars(Reload(dir))

----------------------------------------------------------------------------
\* The state has its type.
TypeOK ==
  /\ \A dir \in Dirs : disk[dir].build \in 0 .. builds
  /\ manifest.build \in 0 .. builds
  /\ \A dir \in Dirs : /\ disk[dir].state \in {"absent", "created", "committed"}
                       /\ disk[dir].docs # {} => disk[dir].state = "committed"
  /\ build.todo \cap build.open = {} /\ build.todo \cup build.open \subseteq Dirs

\* What a server shows of a directory is empty or what one build gave it,
\* whatever the rebuilds and failures under the running server.
ShownIsOneBuild ==
  server.up => \A dir \in DOMAIN server.shows :
    LET s == server.shows[dir] IN s.docs # {} => s.docs = DirDocs(sources[s.build], dir)

\* manifest_forward.json names a build whose directories are all committed, or
\* cleared since by a later build.
ManifestNotAhead ==
  manifest.build > 0 => \A dir \in Dirs :
    disk[dir].build = manifest.build => disk[dir].state = "committed"

\* The data set of a build that has classified it and touched no directory.
Classified ==
  {sources[b] : b \in {x \in {builds} : /\ build.phase = "writing"
                                        /\ \A dir \in Dirs : disk[dir].build < x}}

\* misplaced_place_twins, build_admin_metro_keep_set and has_same_name_place
\* drop a place only for another one: every name keeps a document.
NoNameLost ==
  \A d \in Classified :
    {d.points[i].name : i \in DOMAIN d.points} \cup {d.polys[i].name : i \in Named(d)}
      \subseteq {x.name : x \in PlaceDocs(d) \cup PolygonDocs(d)}

\* The two layouts hold the same documents of each country; of streets the
\* monolithic one may keep only one of several countries.
LayoutsAgree ==
  \A d \in Classified :
    LET mono == Candidates(d, Default)
        parts == UNION {DirDocs(d, cc) : cc \in Buckets(d)}
    IN /\ {x \in mono : x.kind # "street" /\ x.cc # None} = {x \in parts : x.kind # "street"}
       /\ \A x \in mono : (x.kind = "street" /\ x.cc # None) =>
            \E y \in parts : <<y.kind, y.name, y.suburb, y.cc>> = <<x.kind, x.name, x.suburb, x.cc>>
       /\ \A y \in parts : y.kind = "street" =>
            \E x \in mono : <<x.kind, x.name, x.suburb>> = <<y.kind, y.name, y.suburb>>

\* The document of an entity is found by each of its alternates, and one of a
\* single token is in alt_name.
FoundByAlternates(p, pos, docs) ==
  \A alt \in Alternates(p) : \E x \in docs :
    /\ x.name = p.name /\ x.pos = pos
    /\ ToSet(Tokens[alt]) \subseteq ToSet(Tokens[x.name]) \cup x.alt
    /\ Len(Tokens[alt]) = 1 => ToSet(Tokens[alt]) \subseteq x.alt

\* tantivy_doc: every alternate of a place, polygon or POI that is kept is
\* searchable, and one of a single token ("Frankfurt") is in alt_name, where it
\* is not outweighed.
AlternatesFound ==
  \A d \in Classified :
    /\ \A i \in DOMAIN d.points \ MisplacedPlaceTwins(d) :
         FoundByAlternates(d.points[i], d.points[i].pos, PlaceDocs(d))
    /\ \A i \in AdminMetroKeepSet(d) : ~CoveredByPlace(d, d.polys[i]) =>
         FoundByAlternates(d.polys[i], Centroid(d.polys[i].ring), PolygonDocs(d))
    /\ \A i \in DOMAIN d.pois : FoundByAlternates(d.pois[i], d.pois[i].pos, PoiDocs(d))

\* A server that stays up shows every directory it has opened as it is on disk
\* in the end.
ShowsLastCommit ==
  \A dir \in Dirs :
    []<>(\/ ~server.up
         \/ server.up /\ dir \notin DOMAIN server.shows
         \/ ~Readable(dir)
         \/ server.up /\ dir \in DOMAIN server.shows /\ server.shows[dir] = disk[dir])

\* Builds that overlap a running server, fail or are killed leave whole commits
\* and a manifest that does not run ahead of them.
BuildsAreWhole == TypeOK /\ ShownIsOneBuild /\ ManifestNotAhead

\* Every place stays findable by its names after the three rules that drop
\* duplicates, in both layouts alike.
PlacesStayFindable == NoNameLost /\ AlternatesFound /\ LayoutsAgree
=============================================================================
