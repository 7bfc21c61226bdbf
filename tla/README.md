# TLA+ specifications of the geocoder

This directory models the geocoder from its downloads to its answers: fetching and
installing source files, the import of OSM data into the reverse index and the
queries on it, the publication and hot reload of that index, the forward index and
the queries on it, the HTTP and gRPC surfaces over both, and the shadow-validation
worker. Modules are checked with TLC on small instances; the safety properties of
the protocols that share files, requests or money are proved with TLAPS for every
value of the constants. `PROJECT.json` lists the runs, the map from definitions to source
lines, the hazards and the findings.

## 1. The system

| Part | State | Operations | Interacts with |
|---|---|---|---|
| Fetch core, `server/src/fetcher/http.rs` | `<dest>`, `<dest>.partial` and the sidecar `<dest>.etag` | conditional GET, resume with `If-Range`, md5 check, rename | an HTTP server whose file changes; kills |
| OpenAddresses fetch, `fetcher/sources/openaddresses.rs` | `<dest>`, `.partial`, `.s3meta` for each source | listing, head, ranged GET, full GET, rename; many tasks at once | S3; other tasks with the same destination |
| `fetch-data`, `bin/fetch_data.rs` and `fetcher/{mismatch,region,state}.rs`, `fetcher/sources/{osm,wof,maxmind,gnaf}.rs` | PBFs with `state.txt`, archives, staged and `.refresh` files, databases, `.source`, PSVs, `had_failure` | check the directory, fan out over the fetch core, stage, decode, extract, copy, rename, report | fetch core, cron, the builders that read the files |
| Index builder, `builder/src/build_index.cpp` | cell maps in memory, `.tmp` files, live files, `manifest_reverse.json` | write, remove manifest, rename each file, publish manifest | readers of the directory |
| Side builders, `server/src/bin/build_*` | one file set each | sort by cell, write | run after the C++ builder |
| Update script, `scripts/update-index.sh` | PBF, diffs, `index.next`, `index`, `.reload` | fetch diffs, apply, build, swap, touch | replication server, query server |
| Query server startup and reloader, `server/src/main.rs` | `ArcSwap<Index>`, `last_mtime`, the ready flag | load, poll, reload, swap | index directory |
| Reverse queries, `lib.rs`, `address_points.rs`, `wof_countries.rs`, `i18n.rs` | none: read-only maps | nearest address, street, interpolation; admin areas; translation | the files of the builders |
| Forward text, `forward.rs` | none: tables of abbreviations, ordinals, states | tokenize a query, canonicalise an indexed name, parse free text | index and queries must fold alike |
| Forward index, `forward.rs`, `bin/build_forward_index.rs` | one tantivy directory, or one for each country, `manifest_forward.json`, readers | collect documents, drop duplicates, clear, create, commit in parallel; open, reload | the reverse index it is built from, the running server |
| Forward queries, `forward.rs` | the cache of trailing cities behind a mutex | match, rank, relax, fan out over countries, repair spelling and spaces, `/nearby` | readers, handlers |
| Address lookup, `lib.rs`, `housenumber.rs` | none | point by street, number and unit in G-NAF, OpenAddresses, OSM | handlers |
| Front ends, `main.rs`, `grpc_service.rs` | the index snapshot of a request, the optional parts that were opened | start, check, search, enrich hit by hit, validate, answer | every index, the reloader |
| Shadow worker, `server/src/shadow.rs` | bounded channel, permits, daily counter, auth flag, backoff deadline | enqueue, gate, wait for the rate bucket, wait for a permit, call, record the outcome, reset at midnight | request handlers, the Google API |
| Autocomplete, metrics, telemetry | FST; counters, exporters | observe, flush | every handler |

What is hard in each part, and what makes it correct:

- *Fetch core.* A run may be killed at any step and the server may replace the
  file at any time, so a resume can join bytes of two versions and a sidecar can
  vouch for a file that is not there. Correct means: the final path always holds
  one whole version, it is replaced atomically, "cached" means current, and a
  fetch that is left alone ends with the server's version.
- *OpenAddresses fetch.* The same, without `If-Range` on the partial, with the
  sidecar written before the rename and with concurrent tasks.
- *Index builder and reverse queries.* The builder reads objects in file order and
  puts off what depends on objects still to come; it numbers records, renumbers
  them, and writes counts and offsets of fixed width. The reader sees only the
  files. Correct means: an answer agrees with the imported objects, whatever the
  order and the number of input files.
- *Index publication.* Twenty-one files cannot be renamed at once; the manifest
  is what tells a reader that they belong together.
- *Hot reload.* The script and the server share a directory and an mtime, no
  lock. Correct means: a marker is never taken for done unless its index is
  served, every marker is picked up, and the newest data is served in the end.
- *fetch-data.* A run visits several sources, each of which leaves archives, staging
  files and sidecars when it is killed, and the next run decides from them. Correct
  means: exit status 0 is the truth about PBFs and databases, live files are only
  replaced whole, `--force` refreshes them after any history, and one directory never
  holds overlapping PBFs. Of G-NAF less is true (section 5).
- *Forward text and index.* Words are folded by one function when names are indexed
  and by another when queries are read; three rules drop duplicate places, in one
  copy of the code for each layout; shards are committed in parallel under a running
  server. Correct means: what is indexed can be found, what is shown is one whole
  commit, and both layouts hold the same documents.
- *Forward queries.* A query climbs a ladder of relaxations in every country, with
  repairs at the end, and only a pool of the best by text score is ranked. Correct
  means: explicit filters survive every rung, whole matches come before relaxed ones,
  nearest first where it is promised, and a cache that changes no answer.
- *Front ends.* Two hand-written surfaces check the same requests, and a request
  reads an index that is swapped while it runs. Correct means: one answer, one
  index; no house that is not the feature's own, in searches and REST nearby;
  "verified" means stored, on the street typed or the one it was corrected to.
- *Shadow worker.* Calls cost money: the daily cap, the number of calls in flight,
  the rate and the two gates (auth failure, backoff) hold whatever the order of
  sampling, answers and the midnight reset; every sampled job has an outcome.

## 2. Modules

| Module | Models | Proved in |
|---|---|---|
| `AtomicInstall` | what a fetcher promises: the destination only ever becomes a whole version | |
| `HttpFetch` | one target of the fetch core, the HTTP server, kills | `HttpFetch_proofs` |
| `OaFetch` | the tasks of one OpenAddresses run over several destinations | `OaFetch_proofs` |
| `IndexPublish` | the builder's publication protocol against a loading server | `Server_proofs` |
| `IndexReload` | `update-index.sh` and the server's startup and reload loop | `Server_proofs` |
| `CellDirectory` | the lists of ids for each cell: building, writing, binary search, reading | `ReverseQuery_proofs` |
| `BuildIndex` | `build-index` from the input files to the written arrays (extends `CellDirectory`) | `ReverseQuery_proofs` |
| `ReverseQuery` | loading and `query_with_lang` over what `BuildIndex` wrote, with the side indexes | `ReverseQuery_proofs` |
| `FetchRun` | successive runs of `fetch-data` over all sources, upstream, cron, kills | `FetchRun_proofs` |
| `ForwardText` | `tokenize_user_input`, `canonicalise_phrase`, `parse_freeform_query` | `Forward_proofs` |
| `ForwardIndex` | documents of a build, writing of both layouts, readers of the server | `Forward_proofs` |
| `ForwardQuery` | `search_structured` and `search_nearby` with everything below them; the cache | `ForwardQuery_proofs` |
| `AddressLookup` | `find_addr_point_in_country` and the comparison of house numbers | |
| `FrontEnd` | startup, reloader and one request of either surface (extends `AddressLookup`) | `FrontEnd_proofs` |
| `ShadowWorker` | handlers, worker, calls in flight, midnight reset | `Server_proofs` |

`HttpFetch` and `OaFetch` implement `AtomicInstall` (`INSTANCE ... WITH`, checked
as a property of their runs, and proved). `IndexReload` looks at
a load as two observations of the directory; `IndexPublish` details what a load
does inside one directory; `FrontEnd` puts requests on top of the same reloader.
`FetchRun` takes a download as one step, with the outcomes that `HttpFetch` allows
for it. Each `MC...` module instantiates a specification for
TLC. `BuildIndex` and `ReverseQuery` are one behaviour: import, write, load, ask.
Definitions whose comment begins with "Mutant of" are plausible bugs in the
definition they name; no specification uses them. They show that the properties
can fail.

### How state and actions correspond to the code

*HttpFetch.* A file is the number of its chunks and the set of publications they
came from. Every `await` and every file-system call of `fetch` that another
party can observe is a step: the start with its reading of the sidecars, the
request and the choice between 304, 200 and 206, each chunk, the end of the
body, the md5 check, the rename and the writing of the etag. `Crash` ends a run
between any two.

*OaFetch.* A task per row, with the head, the decision, the ranged or full GET,
chunks, the sidecar, the rename. The rows of a run are a constant, so that rows
with one destination can be asked for (section 5 says what they do). The tasks of
the model are those of one destination; other destinations share nothing with it.

*FetchRun.* An invocation is a record of what cron asks for: a region, the WoF data
sets, the IP database with or without a licence key, G-NAF, `--force`. A file is the
publication it holds, `Partial` when it was cut; archives and their `.etag` are one
record. Each source is the sequence of its file-system steps, so `Kill` falls between
any two, and inside the two that are not atomic: `OsmState` empties `state.txt` before
`OsmWritten` fills it, and a G-NAF copy can end in a cut file. A bzip2 decoder may go on
writing its `.refresh` after the kill, until the next run starts. `Mismatch` has the
list of presets that the code has, and `state.txt` is a sequence of lines that is parsed
and written back.

*ForwardText.* A text is a sequence of chunks between spaces, a chunk a sequence of
words with its comma and its mark (hash, slash, hyphen). A number of components and the
position where the first one ends are kept as the parser counts them, also when a unit
behind a hash has been taken out. The tables of the code are
constants, so that a small vocabulary meets each of them. Characters (accents,
dots, scripts) are below this level.

*ForwardIndex.* A data set is the points, polygons, streets, POIs and addresses of
the sources on a line of positions; a document has the fields that decide what is
found. A build is cleared, created and committed directory by directory, in any
order, as the parallel writers do; `DirFails` and `KillBuild` come at any step. A
server starts with every directory that opens, or with none when its alias file is
malformed or the country polygons do not open; a reader holds the commit it opened or
reloaded last.

*ForwardQuery.* A world gives each layout's directories and documents; BM25 is a
number of the document, since the code uses it as a black box to order by. `Search`
is the whole of `search_structured`: scoping, fan-out, ladder, country suffix,
location hint, spelling, whitespace repairs, truncation. `TakeUnit` and `ReadWords` take
units, the house number, states and the postcode out of a free text. The two critical
sections of `trailing_city` are two actions, so that other requests come between them;
each directory has its own cache, and a reader may reload behind a filled one: `shown`
is the history of what the readers have shown.

*FrontEnd and AddressLookup.* A request passes `Check`, `Find`, `Snapshot`, one
`EnrichOne` for each hit, `Respond`; the index may be swapped between any two. The
reverse index is a table from positions to answers for each generation, forward hits
are a table of their own. `RestVerdict` and `GrpcVerdict` are translated from their
own sources. `ForwardAnswers` is every list of hits that the filters let through, for the
street as typed, as `Respelt` corrects its words, or, of addresses, as `Respaced` repairs
its spaces: more than a search answers, since the ladder and the tables of words are in
`ForwardQuery`. `AddressLookup` keeps the order G-NAF, OpenAddresses, OSM and the ranges
and suffixes of `housenumber.rs`.

*IndexPublish.* A file is the build it comes from; `Size` gives lengths, because
lengths are all `verify_reverse` compares. A reader refuses an empty file where it maps
records, and `Optional` names those that it maps even when empty. The order of the walk
over files is left open on both sides.

*IndexReload.* An index is the version of the OSM data it was built from, which
also stands for the mtime of its marker. One action per command of the script.

*BuildIndex and ReverseQuery.* The plane is a line of positions and a cell an
interval of it, with two neighbours for eight; distances are differences. A street
is a sequence of positions. A ring is the set of positions inside it, with a key
that stands for its node ids: rings with one key have the same nodes, and may have
different sets, which is what simplification does to the two sides of one border.
That abstracts S2 and floating point; kept are the order of handlers, what is put
off, which cells an object is listed in, the interior flag, ids, counts, offsets,
the capped `node_count`, the digits that a house name begins with (an interpolation way
ends there as at a number), and every step of the ladder that makes an answer. A position
stands for the key of five decimals that joins a way to the address at its end. The
files are the sequences of units a reader indexes, so a wrong offset reads wrong
ids. The builder is sequential: one action per handled object and one per stage of
`run_build`. A query keeps no state, so one is asked of each loaded index.

*ShadowWorker.* Time is counted in periods of the rate bucket. The worker's loop
is three steps (receive and gate, wait for the tick, wait for a permit and
spawn); every answer class of `call_google` that changes a gate is an action.

## 3. Runs

Passing runs take seconds to about 80 seconds with two workers. Some sizes in distinct
states: `fetch_run` 484,941, `front_end` 1,045,776, `forward_query` 101,322,
`forward_index` 116,879, `forward_text` 157,656.

| Run | Shows | Properties |
|---|---|---|
| `http_safety` | kills, short bodies, failed requests and new publications in any order, for every kind of server and every option, keep `<dest>` whole, an etag-based "cached" correct and the installation atomic; once the server rests, repeated runs converge | `DestWhole`, `EtagCachedIsCurrent`, `ImplementsAtomicInstall`, `Converges` |
| `oa_safety` | one row for each destination: whole, atomic, and a finished task has installed its own job | `InstalledWhole`, `FinishedIsInstalled`, `ImplementsAtomicInstall` |
| `fetch_run` | any sequence of runs, failing or killed anywhere while upstream publishes: the exit status forgets no failure, PBF or database, a sidecar whose write ended reads back, live files are replaced whole, a forced run that succeeds has refreshed PBFs and databases, planet and continents are not mixed | `ReportsTruthful`, `NoMixedPbf`, `RefreshWorks`, `LiveFilesSurvive` |
| `fetch_mixed` | violation: a country extract is fetched beside the planet file | `NoMixedPbf` |
| `publish_safety` | a manifest never vouches for files of another build; a load that overlaps no publication maps one build | `ManifestVouches`, `QuietLoadIsWhole` |
| `reload_safety` | markers are never falsely acknowledged and always picked up; if the script never dies the newest data is served in the end | `AckIsServed`, `PicksUp`, `UnkilledConverges` |
| `reverse_safety` | every import of up to four objects, in every order the reader allows and split into files in every way, then a query at seven positions: a cell reads back what was imported there; the nearest address answers, with its own road; areas that are answered hold the position and are the smallest, with their own translation; a city from a place is not across a border; interpolated numbers lie in range and on their side | `FilesReadBack`, `AddressIsRight`, `AreasAreRight`, `InterpolatedInRange` |
| `forward_text` | every text of up to three chunks (four over fewer words), in three countries: index and query fold alike, and the parser of free text loses no word | `IndexMatchesQuery`, `ParsedWhole` |
| `forward_index` | builds of both layouts that overlap a server, fail and die: commits and manifest are whole, every name survives the three rules, readers catch up | `BuildsAreWhole`, `PlacesStayFindable`, `ShowsLastCommit` |
| `forward_query` | several thousand queries against seven layouts: filters, own fields and repairs, order of hits, concurrent use of the caches while readers reload | `AnswersAreMeant`, `AddressesAreMeant`, `RankingHolds`, `CacheHolds` |
| `front_end` | one request of every kind on either surface, at any point of startup and of two updates: one index, own houses (gRPC nearby excepted), what is verified, that both surfaces accept the same, that no update is forgotten | `TypeOK`, `OneSnapshot`, `OnlyOwnHouse`, `VerifiedIsStored`, `SurfacesAgree`, `StaleIsNoticed`, `MatchesOverDoors` |
| `shadow_safety` | the daily cap, the one call after a gate closed, `rps_cap + 1` calls a second; every job gets an outcome | `DailyCapHolds`, `LeakAtMostOne`, `RpsWithinOne`, `EveryJobReported` |

Properties such as `AreasAreRight` are conjunctions of named parts, each defined and
explained above them in the module, and most parts have a mutant of their own. The
violation run shows a behaviour of the code that contradicts what the header of
`mismatch.rs` says; `findings` quotes it.

*Bounds.* Two or three versions are enough for a resume across a change, and a
third for a second change during the resume; two or three chunks give a partial that
is neither empty nor complete. Two files and
three builds let a load mix builds, with equal and different lengths and an empty
file. Four versions, two kills and two restarts let a kill, a recovery and a race
follow each other. Three jobs with a queue of one, two permits, a daily cap of
four, two calls a second, a backoff of one period and days of two reach every
limit and the step beyond it (the jobs come back, so that more than four calls are
asked for). For `reverse_safety` cells are two positions wide, a count holds three
ids, an offset thirty units, a way header three nodes, a polygon two holes, the
search distance is four: cells overflow, builds fail, ways lose nodes, and the
search distance exceeds a cell, as in the code (75 m against a level-17 cell). The
catalog of objects has two groups, addresses and areas, that are written to separate
layers; a world takes up to four of one group, or an address, a country and up to
two more objects of the second. `fetch_run` has two publications, two continents, two
G-NAF releases and the crontabs of five deployments: enough for a kill, a
publication and a forced run to follow each other in every source. `forward_text`
has texts of three chunks, and of four over a smaller vocabulary, because each rule of
the tokenizer looks at a word and its neighbours or at the ends of the text.
`forward_index` has two countries and a position in none; most data sets are built
once, and one is replaced by others, so that a build fails or dies over an older one.
`forward_query` has a default index, country indexes or both, two places of one name
in two countries, units in each of their notations, a five-digit number that is a house
or a postcode, a second commit of the default directory, and limits small enough to cut
the pool. `front_end` has three
generations of the index, one more than a request can see change under it, and two
hits for each search. `CHECK_DEADLOCK FALSE`
is set where the system ends: after the answer or a failed build, and when no
update, kill or restart is left.

*Fairness.* `HttpFetch` converges under weak fairness of the steps of a run and of
starting one (cron or the operator runs `fetch-data` again), with kills and new
versions finite. `IndexReload` assumes weak fairness of the script (cron starts
it and nothing in it waits) and of the server (the poll loop never ends, the
service manager restarts it). `ShadowWorker` assumes weak fairness of the worker
task, of time and of the answer of a call, which the client's timeout bounds.
`ForwardIndex` assumes weak fairness of a reader's reload only, which tantivy's
watcher thread runs. No
strong fairness is used.

## 4. Proofs

Every theorem holds for all values of the constants that satisfy the `ASSUME`s of its
module, which TLC evaluates on the instances of the runs. Where a theorem needs more,
the hypothesis is written in its statement.

| Module | Theorems (property) |
|---|---|
| `HttpFetch_proofs` | types, `DestWhole`, `SidecarNotAhead`, `EtagCachedIsCurrent`, refinement of `AtomicInstall` |
| `OaFetch_proofs` | `InstalledIsWhole`, `ReportedIsInstalled` (`FinishedIsInstalled`), `RefinesAtomicInstall` |
| `FetchRun_proofs` | `ReportsHold` (`ReportsTruthful`), `ForceRefreshes` (`RefreshWorks`), `LiveFilesStay` (`LiveFilesSurvive`), `PbfsNeverMixed` (`NoMixedPbf`) |
| `Server_proofs` | of `IndexPublish`: types, `ManifestIsSound` (`ManifestVouches`), `QuietLoads` (`QuietLoadIsWhole`); of `IndexReload`: types, `AcknowledgedIsServed` (`AckIsServed`); of `ShadowWorker`: types, `PermitsAreConserved`, `DailyCapIsKept`, `LeakIsBounded`, `RateIsKept` (`RpsWithinOne`) |
| `ReverseQuery_proofs` | `FilesReadBackHolds` (`FilesReadBack`), `AddressIsRightHolds` (`AddressIsRight`), `PolygonsAreThoseOfTheInput`, `AnsweredAreasAreAround`, `TranslationsAreOfTheSameArea`, `GeoCellsReadBack`, `CellIndexReadsBack`, `Invariance`, `AreaInvariance` |
| `Forward_proofs` | of `ForwardText`: `ParsedWholeHolds` (`ParsedWhole`), `IndexMatchesQueryHolds` (`IndexMatchesQuery`); of `ForwardIndex`: `BuildsStayWhole` (`BuildsAreWhole`), `PlacesAlwaysFindable` (`PlacesStayFindable`) |
| `ForwardQuery_proofs` | `FiltersAreConstraints` (`AnswersAreMeant`), `CacheIsTransparent` (`CacheHolds`), `RepairsAreOneAddress`, `SearchKeepsFilters` |
| `FrontEnd_proofs` | `TypeCorrect`, `AnswersAreOneSnapshot`, `HousesAreTheirOwn`, `VerifiedMeansStored`, `SurfacesDoNotDrift`, `StaleIsAlwaysNoticed`, `NumbersMatchOverDoors`, `LiveOnlyAdvances` |

The arguments:

- *HttpFetch*, for any number of versions and blocks, assuming that the server never
  returns to an old version (`NoRollback`; section 5 says what happens otherwise).
  The inductive invariant orders what is on disk, sidecar <= destination <=
  partial <= server, each from one publication: the saved ETag can match the
  server only when all four are the same, so a 206 completes a partial with bytes
  of its own publication.
- *OaFetch*, for any number of jobs, any sizes and any number of tasks, with the
  hypothesis `OneTaskPerDest`: no two rows of a run name one source. It is a real
  restriction, since the code does not remove duplicate rows (`openaddresses.rs:221`):
  the three results are about the one task of a destination among any number of others,
  and none of them holds for two (section 5). `DestWhole` is not
  inductive, since a 206 appends to whatever the partial holds. The order that saves it
  is sidecar <= job of the partial <= listed job: a sidecar that matches the row vouches
  for the partial, although it was written for the destination. `KnowsPartial` ties what
  a task knows to the file it has open.
- *FetchRun*, for any number of publications, any scopes and any crontabs. Each source
  has a conjunct of its own (`OsmOK`, `WofOK`, `IpOK`, `GnafOK`) that says, for every
  step of the source, which of its files are already in place or fresh; `PassedOK` says
  the same of the sources behind the run, and `ExitOK` draws the conclusion. `Keeps` is
  what every step leaves alone; `LiveFilesSurvive` follows from it. What a forced run
  installs of the IP database is bounded from below because it tries two months and no
  third. The reading back of
  `state.txt` is `WireRoundTrips`: a filtered sequence is numbered by rank, and
  `RankOnto` shows that the numbers have no gaps. `PbfsNeverMixed` has the hypothesis
  `NoUncheckedPreset`: no crontab asks for the United Kingdom or Canada extract, the
  two that the check of the directory does not know (run `fetch_mixed`).
- *IndexPublish*, for any files, builds and lengths. `BuilderInv` records which files
  have been renamed, `ReaderInv` what a load has verified.
- *IndexReload*, for any number of updates, kills and restarts, provided no swap begins
  inside a startup. `Fresh` says that a new marker differs from every mtime the server
  remembers; `LoadInv` that what a load has seen is in place as long as its marker is.
- *CellDirectory*, for every map from finitely many cells to lists of ids. The order of
  the cells is by rank (`AscendingSorted`), an entries file is a concatenation whose
  prefixes are known by length (`PrefixAt`), an offset is the length of the runs of the
  smaller cells, and the binary search ends at the cell, or at nothing when it is not
  there, by the least range for which it would not (`SearchFinds`). So a lookup reads
  the ids of the cell, as many as a count holds, and never those of another.
- *BuildIndex*, for any objects, in any number of input files and any order of
  handling, any cell widths and caps. `FilesReadBack` speaks of written files; what is
  inductive is `IInv`: an object is in a file not opened, in the open one, or handled;
  the address points are the addresses of the handled objects; the list of a cell has
  exactly the ids whose points lie there; the ids of an admin cell, flagged or not, name
  polygons that exist; lists are ascending when the points are sorted; the files are
  those of the memory; the interpolation ways list ids of their own array and have
  numbers. Sorting is the step that could break it: the new order is a
  permutation of the old ids (`OrderIsPermutation`), and the lists follow it
  (`SortKeepsIndex`).
- *ReverseQuery*, for any side indexes, positions, search distances and tables of admin
  levels. `AddressIsRight` needs a second invariant over `IInv`, `AnswerInv`: the loaded
  side index is one of `Sides`, and every answer satisfies the property read with
  the shards and addresses as parameters (`NumberIsRight`, `FallbackIsRight`), so that
  a step that leaves both alone keeps it. The content is in `AnswerOK`, in three parts.
  A position at most a cell's width away lies in a visited cell (`ReachedCell`), so the
  nearest of the scanned points is the nearest address in reach (`NearestAddrIs`); sorting
  and listing keep that true of a side index (`FindNearestIs`). What the ladder does
  with the two is a lemma for each rung (`FromNearestIs`, `WithRoadIs`, `AssembledIs`)
  and one for all of them (`LadderIs`): a road, an interpolated number and the check
  for an empty answer never take the number of an address in reach away. Zero stands
  for "no number", so the parts that must not be zero are followed down to arithmetic:
  sums of lengths (`TotalGrows`) and the number along a way (`InterpolatedIs`).
- *Areas of BuildIndex and ReverseQuery*, for any areas, rings, holes, members and files.
  `AreaInv` says of every step of a build what the admin layer holds: the rings of the
  areas handled so far, one polygon for each (`Holds`); a polygon that waits for
  `finalize_admin_holes` has no shape yet, any other has the final one; a flagged id is
  listed only in a cell that lies inside the shape; and a boundary relation whose member
  ways can still come is in a file that was opened, so `boundary_member_ways` is complete
  when an area that is such a way is handled. The pending list has to be part of it:
  a shape that still counts on the keys of rings not read yet would change with the
  next file. At the end nothing waits, and the polygons are a function of the set of
  objects alone: `PolygonsAreThoseOfTheInput` says that neither the order of the objects
  nor their split into files changes what is written.
  For a query, `AreaAnswerInv` is kept over `AreaInv`. The candidates that `find_admin`
  keeps are polygons that hold the position, by the flag or by the shape, and when no
  cell is over the cap of a count they are all of them (`ContainingIs`); the smallest of
  a level is one of them (`BestIs`); every step that sets a field remembers the polygon
  of the name it sets (`Placed`, `MapLevelsPlaced`), and the steps behind it only fill
  what is empty (`OnlyFills`, `LaterStepsFill`). `AnsweredAreasAreAround`: every area that
  an answer remembers holds the position, and the country is the smallest of the input
  there. That needs an index of at most `INTERIOR_FLAG` polygons, since with more of
  them an id and a flagged id would be the same number. `TranslationsAreOfTheSameArea` needs
  no such bound: a translation goes by the remembered id.
- *ForwardText*, for any texts, countries and tables. The state says little (a text is
  typed or parsed, `TextInv`); the proof is about the operators, along the text.
  `ParsedWhole`: the parts of a query together hold at most the tokens that were read
  (`Total`, `TurnsShape`), every turn of the loop only adds to them (`Grows`), and what
  a turn leaves out is on the short list of the property (`Kept`, `TurnShape`); commas
  and marks neither add nor lose words (`ComponentsShape`, `CutHashShape`,
  `MarksShape`). `IndexMatchesQuery`: the index folds places first and reads ordinals
  afterwards, a query the other way round. `CompoundsFolded` and `OrdinalsFolded` say
  that each reading commutes with the fold, `RoadIs` that both sides write the other
  words alike. The joining of chunks walks the name once; `JoinedAre` says it is the
  fold of the pairs that belong together. To commute needs `TablesAgree`: no table gives a
  word that a later one reads as a place or a bare number, and no place is an ordinal or
  a street type. The tables of the code are so (`forward.rs:110`, `:278`, `:5280`); a
  row that breaks it is one to think about before it is added.
- *ForwardIndex*, for any data sets, countries and number of builds. Half of the proof
  is about one build: the first and the largest of duplicates exist (`LeastExists`,
  `BoundExists`), so each of the three rules that drop a place keeps one that is found
  by the same name (`TwinKept`, `ClusterKept`, `WayHasStreet`), and the parts of the
  partitioned layout together hold what the default layout holds in known countries,
  streets up to their name and suburb (`LayoutFacts`). The other half is the invariant:
  every directory, every reader and every finished build holds a whole commit of a
  numbered source, and the manifest is not ahead of them.
- *ForwardQuery*, for any documents, shards, tables of words and queries. Every rung,
  every reading of a country and every shard of the fan-out searches for a query that
  `Narrows` the one that was asked, so a hit of it `Meets` the filters (`RungFound` and
  one lemma for each rung); what follows only sorts, cuts, merges and picks, or gives a
  document another score (`Versions`, `OrderedHits`, `PickedSome`). A repair does not
  narrow, it changes the street: its lemmas (`Repairs`, `Agrees`) carry the test of
  `requested_address_matches` from the reading back to the query, through all three
  forms. A correction of the spelling keeps every filter but the city, which it
  respells; the property says so. The rung that looks for a place searches again: the
  model passes the answers of that inner search in (`find`), and `FindPlaceOK` ties the
  knot, since the inner text has no comma and never comes to that rung. For the caches
  the inductive invariant is `CacheInv`: every entry is what a commit that was shown
  answers for its key, in whatever order requests looked up, put and cleared and readers
  reloaded.
- *FrontEnd*, for any generations, indexes and requests. `RequestOK(req, live)` says for
  every stage of a request what its parts were made from: the snapshot is a generation
  between the one served on arrival and the live one, and every enriched hit is a
  function of it. It still holds when `live` grows (`NewerIsFine`), which is why a swap
  in the middle of a request is harmless. For any tables of corrections and repairs
  `VerifiedMeansStored` names the readings of the street a search may have followed.
  `VerdictsAgree` compares the two translated checks of the surfaces over all requests;
  `DoorsMatch` is about all pairs of parsed house numbers. `LiveAdvances`, that an older
  index never replaces a newer one, is proved only.
- *ShadowWorker*. Permits are conserved, the daily cap is never exceeded, and the calls
  made after a gate closed are bounded by those already past the gate; the strengthening
  counts the job the worker holds. For the rate, `RateAhead` bounds the calls of the
  last `n` periods together with the one that is ready, by `n + 1`, for every `n` up to
  a second: the bound of a second alone is not inductive, because the window moves.

Assumptions on the constants: sets are what their names say (numbers, records of the
right fields, finite where they are counted), names of databases differ from other
targets, crontabs are sets of invocations, `state.txt` bodies are sequences of keyed
lines, records of the indexes are numbered and lie at known positions, positions and
house numbers are numbers, texts and tables are made of words, `TablesAgree` (above), an
imported way has a node (without one the handlers add nothing), a ring has finitely many
positions inside, and words that are inside a name include what is inside those words.
They describe the shape of the data and, beyond finiteness, not its size.

*What the prover can and cannot do here.* The library's induction theorems take an
operator as a parameter, which the provers cannot instantiate. Two forms replace them:
the least counterexample (`WFMin` with `NatLessThanWellFounded`), and for a recursive
function a proof that its recursion has a solution (`TotalsExist` for `CallsWithin`,
`PrefixesExist` for a concatenation, `TurnsExist` for the parser's loop, `SearchFinds`
for the search). Definitions are written to fit: an `IF` for each `CASE` whose arms
overlap (the prover reads overlapping arms as a choice), sets for alternate names that
are only asked for membership, a numbered filter instead of `SelectSeq`.

Only model-checked:

- liveness: `Converges`, `PicksUp`, `UnkilledConverges`, `ShowsLastCommit`,
  `EveryJobReported` (no rule for fairness or `ENABLED`);
- `AreasAreRight` of `ReverseQuery` as a whole. Proved of it are the translations, and
  that an answered area is a polygon of the input around the position and the country
  the smallest one. The run compares with the rings themselves, and that does not hold
  for every input: `CutHoles` cuts the largest holes that fit, and leaves out one that
  meets another or reaches over the outer ring, so a position in such a hole is still
  in the owner. Which level a state is read from depends on the table of admin levels, and
  `PlaceCityIsDomestic` on the places around;
- `InterpolatedInRange`
  does not hold for every input: the end number of a way with more than 255 nodes is
  that of the last stored one, and an even or odd way from 1 to 4 answers 5 at its end
  (`lib.rs:756` rounds one and a half steps up);
- `AddressesAreMeant` and `RankingHolds` of `ForwardQuery`: they do not hold for every
  index. A pool of 150 documents, or a limit of one, can leave out the address or the
  place that the promise is about, and a country's own tables of states can read a text
  otherwise than the query without a country; within the bounds of the run they hold.
  What a repair answers is proved apart from them (`RepairsAreOneAddress`).

`SidecarNotAhead`, `PermitsConserved`, `LiveAdvances`, `PolygonsAreOfInput` and
`AnsweredIsAround` are proved and not run.

## 5. Known limits and remarks

What the models assume, or show outside the listed runs.

Downloads:

- The partial of a killed first download is never resumed, because there is no sidecar
  yet (`http.rs:142`), though the help says that partial downloads of a killed run
  resume.
- `http.rs:377`: a kill between the rename and the setting of the mtime makes a
  later Last-Modified "cached" stale. `http.rs:219`: when the server returns to
  earlier bytes and there is no md5, a resume can join two publications; `NoRollback`
  excludes it.
- `http.rs` describes 412 as "treat as if 200"; the code fails the run. It also says
  the OpenAddresses GetObject goes through it; it does not.
- OpenAddresses writes its sidecar before the rename (`openaddresses.rs:409`): after a
  kill in between, the next run reports "cached" for the old file. Two rows with one
  source share a partial (`openaddresses.rs:224`, `:393`), and an empty file can be
  installed; `OaFetch` shows it with two tasks.
- WoF: the decoder consumes the archive and leaves its `.etag`, so a refresh is told
  304 for a file that is gone until upstream publishes or `--force` is given.
  `RefreshWorks` is about the forced run. A decoder is not killed with the run
  (`wof.rs:176`); the model lets it write until the next run starts and no longer, so a
  decoder that outlives that start is left out.
- After the remediation of a mismatch the removed PBFs keep their `.etag`: a later run
  finds them "cached" and exits 0 without them (removal by hand is not an action of
  `FetchRun`). `state.txt` may be newer than its PBF, and a kill or an error inside its
  writing leaves it cut (`osm.rs:145`); no program of the repository reads it back, and
  no exit status tells. An extract beside its own continent is not looked for.
- The `.source` of the IP database changes when the licence key appears, though the data
  may still be the fallback's. When the current month cannot be had, the month before is
  installed over whatever is there, so the IP database may go back a month
  (`maxmind.rs:152`); under `--force` too, though never below the month before the run.
- G-NAF leaves PSVs of an earlier release beside new ones. A copy that was cut counts as
  cached, and the run exits 0 (`has_psv_files` looks at names). A forced run over PSV
  files of the release ends in the collision error (`gnaf.rs:122`), though the help of
  `--force` says "Re-download even if local data appears fresh" (`fetch_data.rs:78`): the
  files have to be removed by hand. `ReportsTruthful` and `RefreshWorks` promise no more
  than that.
- `FetchRun` leaves out a panicking task, `--no-resume` and `--no-verify-md5`.

Index and reload:

- A swap of the index between the startup load and the first reading of the marker
  is lost until the next update: with `StartRaces = TRUE` both `AckIsServed` and
  `PicksUp` of `IndexReload` fail, and `StaleIsNoticed` of `FrontEnd` names this as
  the only way to miss one.
- A load that overlaps a publication can map files of two builds (`lib.rs:396` checks
  the manifest once, `build_index.cpp:2766` renames later): `QuietLoadIsWhole` is the
  part that holds.
- A script that dies after replacing the PBF finds no new diffs afterwards, and that
  update waits for the next one (`update-index.sh:59`, `:67`): `UnkilledConverges`.
- `build_index.cpp:2473`: a kill inside `commit_all` leaves files of two builds and
  no manifest, hence no index that loads until the next build.
- `update-index.sh:78`: between its two `mv` there is no index directory, though
  its header says "Atomically" (line 8); and the directory is replaced by the OSM build
  alone, without the side indexes. Autocomplete and IP data are never reloaded.

Shadow worker and reverse queries:

- `rps_cap + 1` calls can fall into one second (`shadow.rs:546`): a call that got its tick
  earlier may have waited for a permit. `RpsWithinOne` is the bound; the comment there
  says "never exceed `rps_cap` over any 1 s window".
- `shadow.rs:595`: a job that is past the gates is sent even after REQUEST_DENIED;
  `LeakAtMostOne` is the bound.
- An even or odd interpolation whose numbers fall along the way always answers its
  start number (`lib.rs:756`, the cast saturates at 0). Ways with more than 255
  nodes lose their tail.
- A number with an added street: an `addr:place` address near a street is answered
  with the label "fallback" although `lib.rs:1427` and ARCHITECTURE.md reserve it for
  answers without an address.
- `?lang=` on an answer that is otherwise empty may still set a translated state.
- Addresses farther than a cell are not sure to be seen even when the search distance
  reaches them; `NearestAddressAnswers` says so.
- `find_country` asks larger countries first; an enclave needs a hole in them.
- The G-NAF and OpenAddresses builders do not check their 32-bit offsets.
- `docs/binary-format.md:319` gives 1 = odd, 2 = even, 3 = all; builder and reader use
  1 = even, 2 = odd, 0 = all.
- The comment at the rate bucket speaks of the default Burst behaviour while the
  code sets Delay.

Forward search:

- Hyphenated names are folded differently for the index and for queries
  (`forward.rs:5303`); `IndexMatchesQuery` is about bare words. Tokenizing twice is not
  the same as tokenizing once ("dr saint n").
- A directory of a country that has vanished from the data stays loaded; one that
  appears after start is not opened. A kill between create and commit leaves an empty
  index that opens, and a rebuild in place shows an empty index for a while.
- The partitioned build drops a place whose position has no country. The default layout
  keeps one street of a name and suburb whatever its country (`LayoutsAgree` says so).
- An unscoped query uses the default index alone when there is one. `/nearby` without a
  country finds nothing on a deployment that has only country directories, treats its
  words as optional beside a country or kind (`forward.rs:2364`), and cuts to
  50 times the limit by text score before it looks at the radius.
- An explicit postcode is ignored for kinds other than address. No cache of trailing
  cities is emptied when a reader reloads (`forward.rs:2555`), so a city may be what an
  earlier commit answered; `CacheHolds` says that it is what some commit answered.
- A search takes its searchers one by one and may see two commits when a reader reloads
  in the middle; the model answers each search from one world.

Front ends:

- HTTP binds after the load, so the 503 of `/healthz/ready` for a missing index is not
  reachable. A failed bind of HTTP ends gRPC too.
- REST `/validate` with `housenumber=` blank and a postcode calls any address of that
  street and postcode verified (`main.rs:547`); `VerifiedIsStored` leaves that request
  out. With a house number an explicit postcode makes the check of the street branch
  unreachable. gRPC ignores postcode and unit in validation.
- A G-NAF point without a unit hides the exact unit of a later source. gRPC refines a
  street with the country of the request, REST with that of the hit. A point
  whose `addr:place` is the name of a street answers for a house in it.
- gRPC `Nearby` gives every hit the whole address, and the label, that reverse lookup
  finds at its position (`grpc_service.rs:344`): a place or POI gets the house, the road
  and the postcode of a neighbour. Two comments say that this must not be
  (`main.rs:721`, `grpc_service.rs:225`), of the hits of a search. `OnlyOwnHouse`
  leaves these answers out; without the conjunct on `Enriched` TLC finds the house of
  the neighbour. `validate` answers with a reverse address as well, on purpose.
- A validation may be verified for a street that is not the one typed: its misspelt words
  are corrected (`forward.rs:2704`), its spaces repaired (`:2960`). `VerifiedIsStored`
  accepts the readings of `Readings`. Corrections of the city, and how far a correction
  may go, are not in the model: `Respelt` is any table.
- `SurfacesAgree` is about requests both surfaces can express: a validation has a
  street, a city and a country, since REST takes an empty street or city (`main.rs:510`)
  that gRPC refuses (`grpc_service.rs:408`). REST search does not cap `unit`; a bad IP
  without a database is 400 on one surface and 503 on the other; repeated country codes
  repeat postal hits; a street that validation does not find is not counted in the
  metrics.

## 6. Plan

1. Proofs: the state as the smallest polygon of its level, for tables of admin levels that
   give it one level, and the side of the border of a city (`PlaceCityIsDomestic`).
2. `DockerBuild`: `entrypoint.sh` and `run-planet-build.sh`, staleness by mtime.
3. `ShadowCompare`: the comparison as operators against a reference.

## 7. Not modelled

Transport (axum, tonic, TLS), search engines and formats from libraries (tantivy,
FST, S2, H3, MaxMind), polygon assembly and floating-point geometry, characters below
the word, wording of logs and metrics, autocomplete (a library's prefix search and one
sort), the container's entrypoint, the comparison of shadow answers, offline tools,
benchmarks and provisioning. `PROJECT.json` gives the reason for each component.
