------------------------------ MODULE FetchRun ------------------------------
(***************************************************************************)
(* fetch-data from its command line to its exit status                     *)
(* (server/src/bin/fetch_data.rs) with the sources it drives in order:     *)
(* OSM PBFs, WhosOnFirst admin and postcode databases, OpenAddresses, the  *)
(* IP database, G-NAF (server/src/fetcher).  Runs follow one another on    *)
(* the same data directory, and a run can be killed anywhere.              *)
(*                                                                         *)
(* One download is one step here: HttpFetch shows that a target is         *)
(* replaced whole or not at all, and that a leftover .partial is harmless. *)
(* What its callers can get wrong is kept: the .etag sidecar outlives a    *)
(* file that its caller has consumed.                                      *)
(*                                                                         *)
(* Every upstream publishes at once: publication p of any URL is the       *)
(* number p, and a file is the number of the publication it holds.  A      *)
(* publication is also a month of the DB-IP database.                      *)
(***************************************************************************)
EXTENDS Integers, Sequences, FiniteSets

CONSTANTS
    LastPub,        \* bound: publications are numbered 0..LastPub
    AllContinents,  \* the continents --region all-continents fans out to
    Scope,          \* per dataset, the databases parse_scope yields for --wof-countries
    Psvs,           \* the PSV files of each G-NAF release
    StateBodies,    \* the state.txt bodies upstream may serve
    Parallel,       \* --parallel
    Crontabs        \* the sets of invocations deployments use

Continents == {"africa", "antarctica", "asia", "australia-oceania",
               "central-america", "europe", "north-america", "russia",
               "south-america"}
SubRegions == {"australia", "new-zealand", "niue", "united-kingdom", "canada",
               "usa"}
Regions == Continents \cup SubRegions \cup {"planet", "all-continents"}

Pubs == 0..LastPub
None == -1
Partial == -2     \* a file cut short by a kill

Datasets == {"admin", "postalcode"}
Dbs == Scope["admin"] \cup Scope["postalcode"]
Pbfs == Continents \cup SubRegions \cup {"planet"}

\* Everything fetch() is asked for: PBFs, .db.bz2, the two IP archives, the zip.
Targets == Pbfs \cup Dbs \cup {"tar", "gz", "zip"}

\* One fetch-data command line with the environment it runs in.
Invocations == [region : STRING, admin : BOOLEAN, postalcode : BOOLEAN,
                oa : BOOLEAN, maxmind : BOOLEAN, gnaf : BOOLEAN,
                force : BOOLEAN, key : BOOLEAN, fallback : BOOLEAN,
                gnafUrl : {"unset", "bad", "good"}]

ASSUME RunAssumption ==
    /\ LastPub \in Nat
    /\ AllContinents \subseteq Continents
    /\ DOMAIN Scope = Datasets /\ \A ds \in Datasets : IsFiniteSet(Scope[ds])
    /\ DOMAIN Psvs = Pubs /\ \A p \in Pubs : Psvs[p] # {}
    /\ StateBodies \subseteq Seq([key : STRING, val : STRING])
    /\ Parallel \in Nat
    /\ Dbs \cap (Pbfs \cup {"tar", "gz", "zip"}) = {}
    /\ {} \notin Crontabs /\ \A c \in Crontabs : c \subseteq Invocations

VARIABLES
    server,   \* the newest publication
    crontab,  \* the invocations this deployment uses; never changes
    web,      \* per target: [file, etag] at its destination
    state,    \* per PBF: the lines of <pbf>.state.txt, <<>> when absent, or Cut
    staged,   \* per database: <db>.refresh.bz2
    refresh,  \* per database: <db>.refresh, the decoder's output
    db,       \* per database: the live file
    mmdb,     \* GeoLite2-City.mmdb: [src, pub], pub None when absent
    source,   \* GeoLite2-City.mmdb.source: the same, as recorded
    psv,      \* gnaf/psv: publication of each PSV file present
    inv,      \* the invocation of the run
    pc,       \* the source the run is at, "idle" between runs
    step,     \* where it is within that source
    task,     \* progress of the spawned tasks; the PSV file being copied
    todo,     \* work left in the source: databases, months or PSV files
    failed,   \* had_failure
    exit,     \* status of the last run, "running" during one
    began     \* the publication current when the run started

files == <<web, state, staged, refresh, db, mmdb, source, psv>>
run   == <<inv, pc, step, task, todo, failed, exit, began>>
vars  == <<server, crontab, files, run>>

NoIp == [src |-> "none", pub |-> None]

Init ==
    /\ server = 0
    /\ crontab \in Crontabs
    /\ web = [t \in Targets |-> [file |-> None, etag |-> None]]
    /\ state = [u \in Pbfs |-> <<>>]
    /\ staged = [d \in Dbs |-> None]
    /\ refresh = [d \in Dbs |-> None]
    /\ db = [d \in Dbs |-> None]
    /\ mmdb = NoIp /\ source = NoIp
    /\ psv = <<>>
    /\ inv = CHOOSE i \in crontab : TRUE
    /\ pc = "idle" /\ step = "start"
    /\ task = <<>> /\ todo = <<>>
    /\ failed = FALSE /\ exit = "none" /\ began = 0

-----------------------------------------------------------------------------
(* fetch(), as HttpFetch lets its callers see it. *)

\* --force wipes the sidecars before anything is sent.
Sidecars(f, force) ==
    IF force THEN [f EXCEPT !.etag = None] ELSE f

\* A 304 is decided on the saved ETag when there is one, whether or not the
\* file is there, and on the mtime of the file otherwise.
NotModified(f, now) ==
    \/ f.etag = now
    \/ f.etag = None /\ f.file # None /\ now <= f.file

\* Mutant of FetchResults: --force does not reach the conditional request.
FetchResultsConditional(saved, now, force) ==
    IF NotModified(saved, now)
    THEN {[outcome |-> "cached", f |-> saved]}
    ELSE {[outcome |-> "downloaded",
           f |-> [file |-> now, etag |-> now]]}

\* Results of fetching publication "now".  Saving the ETag is best
\* effort, and a failure with 412 drops it.
FetchResults(saved, now, force) ==
    LET f == Sidecars(saved, force)
    IN  (IF ~force /\ NotModified(f, now)
         THEN {[outcome |-> "cached", f |-> f]} ELSE {})
        \cup {[outcome |-> "downloaded",
               f |-> [file |-> now, etag |-> e]] :
                 e \in {now, f.etag}}
        \cup {[outcome |-> "failed", f |-> [f EXCEPT !.etag = e]] :
                 e \in {f.etag, None}}

-----------------------------------------------------------------------------
(* main: the sources in order, one exit status. *)

Order == <<"region", "admin", "postalcode", "oa", "maxmind", "gnaf", "exit">>

Selected(i, s) ==
    CASE s = "region" -> i.region # "none"
      [] s = "exit"   -> TRUE
      [] OTHER        -> i[s]

\* The next source after position n that the invocation asks for.
Following(i, n) ==
    LET later == {k \in DOMAIN Order : k > n /\ Selected(i, Order[k])}
    IN  Order[CHOOSE k \in later : \A j \in later : k <= j]

Position(s) == CHOOSE k \in DOMAIN Order : Order[k] = s

\* Mutant of Done: only the last source decides.
DoneForgets(ok) ==
    /\ pc' = Following(inv, Position(pc)) /\ step' = "start"
    /\ failed' = ~ok
    /\ task' = <<>> /\ todo' = <<>>
    /\ UNCHANGED <<inv, exit, began>>

\* The source is finished; a failure is remembered and the next one runs.
Done(ok) ==
    /\ pc' = Following(inv, Position(pc)) /\ step' = "start"
    /\ failed' = (failed \/ ~ok)
    /\ task' = <<>> /\ todo' = <<>>
    /\ UNCHANGED <<inv, exit, began>>

Goto(s) ==
    /\ step' = s
    /\ UNCHANGED <<inv, pc, task, todo, failed, exit, began>>

Stop(status) ==
    /\ exit' = status
    /\ pc' = "idle" /\ step' = "start" /\ task' = <<>> /\ todo' = <<>>
    /\ UNCHANGED <<inv, failed, began>>

StartRun(i) ==
    /\ pc = "idle"
    /\ inv' = i /\ began' = server
    /\ failed' = FALSE /\ exit' = "running"
    /\ pc' = Following(i, 0)
    /\ step' = "start" /\ task' = <<>> /\ todo' = <<>>
    /\ UNCHANGED <<server, crontab, files>>

\* No source selected is a usage error; otherwise had_failure decides.
Exit ==
    /\ pc = "exit"
    /\ Stop(IF failed \/ Following(inv, 0) = "exit" THEN "error" ELSE "ok")
    /\ UNCHANGED <<server, crontab, files>>

\* The directory of a source cannot be created.
NoDirectory ==
    /\ pc \in {"region", "admin", "postalcode", "maxmind", "gnaf"}
    /\ step = "start"
    /\ pc = "gnaf" => inv.gnafUrl = "good"
    /\ Done(FALSE)
    /\ UNCHANGED <<server, crontab, files>>

\* OpenAddresses has a module of its own, OaFetch.
Openaddresses ==
    /\ pc = "oa"
    /\ \E ok \in BOOLEAN : Done(ok)
    /\ UNCHANGED <<server, crontab, files>>

-----------------------------------------------------------------------------
(* OSM: region presets, the directory check, one task per PBF. *)

Alias == [oceania |-> "australia-oceania", au |-> "australia",
          nz |-> "new-zealand", uk |-> "united-kingdom",
          gb |-> "united-kingdom", ca |-> "canada", us |-> "usa"]

\* Region::from_str; "unknown" stands for its error.
ParseRegion(s) ==
    IF s \in DOMAIN Alias THEN Alias[s] ELSE IF s \in Regions THEN s ELSE "unknown"

\* The PBFs of a preset.
Urls(region) == IF region = "all-continents" THEN AllContinents ELSE {region}

PbfsPresent == {u \in Pbfs : web[u].file # None}

\* Mutant of Mismatch: an extract beside a planet file is not looked for.
MismatchOneWay(region) == region = "planet" /\ PbfsPresent \ {"planet"} # {}

\* check_pbf_directory_consistency.  The presets that count as continents are
\* a list of their own in the code.
Mismatch(region) ==
    \/ /\ "planet" \in PbfsPresent
       /\ \/ region = "all-continents"
          \/ region \in Continents
          \/ region \in {"australia", "new-zealand", "niue", "usa"}
    \/ region = "planet" /\ PbfsPresent \ {"planet"} # {}

\* A bad preset and a mismatch end the run at once.
OsmRefuse ==
    /\ pc = "region" /\ step = "start"
    /\ ParseRegion(inv.region) = "unknown" \/ Mismatch(ParseRegion(inv.region))
    /\ Stop("error")
    /\ UNCHANGED <<server, crontab, files>>

OsmStart ==
    /\ pc = "region" /\ step = "start"
    /\ ParseRegion(inv.region) # "unknown" /\ ~Mismatch(ParseRegion(inv.region))
    /\ task' = [u \in Urls(ParseRegion(inv.region)) |-> "waiting"]
    /\ step' = "tasks"
    /\ UNCHANGED <<server, crontab, files, inv, pc, todo, failed, exit, began>>

\* A task holds its permit from its download to its state.txt.
OsmFetch(u) ==
    /\ pc = "region" /\ step = "tasks" /\ task[u] = "waiting"
    /\ Cardinality({v \in DOMAIN task : task[v] \in {"fetched", "writing"}})
         < (IF Parallel = 0 THEN 1 ELSE Parallel)
    /\ \E r \in FetchResults(web[u], server, inv.force) :
          /\ web' = [web EXCEPT ![u] = r.f]
          /\ failed' = (failed \/ r.outcome = "failed")
    /\ task' = [task EXCEPT ![u] = "fetched"]
    /\ UNCHANGED <<server, crontab, state, staged, refresh, db, mmdb, source, psv,
                   inv, pc, step, todo, exit, began>>

\* The lines of a state.txt with a key, the value the last of them gives, and
\* the comments in the order of their lines.
Having(body, key) == {i \in DOMAIN body : body[i].key = key}

LastValue(body, key) ==
    body[CHOOSE i \in Having(body, key) : \A j \in Having(body, key) : j <= i].val

Comments(body) ==
    LET lines == Having(body, "comment")
    IN  [k \in 1..Cardinality(lines) |->
           body[CHOOSE i \in lines : Cardinality({j \in lines : j <= i}) = k]]

\* ReplicationState::parse succeeds: every line is blank, a comment or a
\* key=value, and both fields are there, with values that parse.
StateParses(body) ==
    /\ Having(body, "garbage") = {}
    /\ \A key \in {"timestamp", "sequenceNumber"} :
          /\ Having(body, key) # {}
          /\ \A i \in Having(body, key) : body[i].val # "bad"

ParseState(body) ==
    [timestamp |-> LastValue(body, "timestamp"),
     sequence_number |-> LastValue(body, "sequenceNumber"),
     comments |-> Comments(body)]

\* Mutant of ToStringWire: the sequence number is left out.
ToWireWithoutSequence(s) ==
    s.comments \o <<[key |-> "timestamp", val |-> s.timestamp]>>

\* Comments first, then the two fields; blank lines and other keys are gone.
ToStringWire(s) ==
    s.comments \o <<[key |-> "timestamp", val |-> s.timestamp],
                    [key |-> "sequenceNumber", val |-> s.sequence_number]>>

\* A state.txt that is empty or breaks off: the file is truncated before it is
\* written.  Some prefixes of a sidecar parse, to a number that is cut short.
Cut == <<[key |-> "cut", val |-> ""]>>

\* state.txt is asked for whatever became of the PBF; only a body that parses
\* opens the sidecar, which truncates it.  No failure here counts.
OsmState(u) ==
    /\ pc = "region" /\ step = "tasks" /\ task[u] = "fetched"
    /\ \/ /\ \E body \in StateBodies : StateParses(body)
          /\ state' = [state EXCEPT ![u] = Cut]
          /\ task' = [task EXCEPT ![u] = "writing"]
       \/ /\ task' = [task EXCEPT ![u] = "done"]
          /\ UNCHANGED state
    /\ UNCHANGED <<server, crontab, web, staged, refresh, db, mmdb, source, psv,
                   inv, pc, step, todo, failed, exit, began>>

\* The write ends, or fails and leaves the sidecar cut.
OsmWritten(u) ==
    /\ pc = "region" /\ step = "tasks" /\ task[u] = "writing"
    /\ \/ \E body \in StateBodies :
             /\ StateParses(body)
             /\ state' = [state EXCEPT ![u] = ToStringWire(ParseState(body))]
       \/ UNCHANGED state
    /\ task' = [task EXCEPT ![u] = "done"]
    /\ UNCHANGED <<server, crontab, web, staged, refresh, db, mmdb, source, psv,
                   inv, pc, step, todo, failed, exit, began>>

OsmEnd ==
    /\ pc = "region" /\ step = "tasks"
    /\ \A u \in DOMAIN task : task[u] = "done"
    /\ Done(TRUE)
    /\ UNCHANGED <<server, crontab, files>>

-----------------------------------------------------------------------------
(* WhosOnFirst: download, decode beside the live file, rename. *)

AtWof(s) == pc \in Datasets /\ step = s

WofStart ==
    /\ AtWof("start")
    /\ todo' \in [1..Cardinality(Scope[pc]) -> Scope[pc]]
    /\ \A i, j \in DOMAIN todo' : todo'[i] = todo'[j] => i = j
    /\ step' = "next"
    /\ UNCHANGED <<server, crontab, files, inv, pc, task, failed, exit, began>>

\* fetch_one returned: the report is kept and the next database is taken.
WofReport(ok) ==
    /\ step' = "next" /\ todo' = Tail(todo)
    /\ failed' = (failed \/ ~ok)
    /\ UNCHANGED <<inv, pc, task, exit, began>>

\* The database is there and --force is off: nothing is fetched, and what an
\* earlier run left of the download is removed.
WofCached ==
    /\ AtWof("next") /\ todo # <<>> /\ ~inv.force
    /\ db[Head(todo)] # None
    /\ web' = [web EXCEPT ![Head(todo)].etag = None]
    /\ WofReport(TRUE)
    /\ UNCHANGED <<server, crontab, state, staged, refresh, db, mmdb, source, psv>>

WofFetch ==
    /\ AtWof("next") /\ todo # <<>>
    /\ inv.force \/ db[Head(todo)] = None
    /\ \E r \in FetchResults(web[Head(todo)], server, inv.force) :
          /\ web' = [web EXCEPT ![Head(todo)] = r.f]
          /\ IF r.outcome = "failed" THEN WofReport(FALSE) ELSE Goto("stage")
    /\ UNCHANGED <<server, crontab, state, staged, refresh, db, mmdb, source, psv>>

\* Mutant of WofStage: a staged archive that is already there is used.
WofStageReuses ==
    LET d == Head(todo)
    IN  /\ AtWof("stage")
        /\ refresh' = [refresh EXCEPT ![d] = None]
        /\ IF staged[d] # None
           THEN Goto("decode") /\ UNCHANGED <<web, staged>>
           ELSE IF web[d].file = None
           THEN WofReport(FALSE) /\ UNCHANGED <<web, staged>>
           ELSE /\ staged' = [staged EXCEPT ![d] = web[d].file]
                /\ web' = [web EXCEPT ![d].file = None]
                /\ Goto("decode")
        /\ UNCHANGED <<server, crontab, state, db, mmdb, source, psv>>

\* Leftovers of an interrupted refresh are removed and the archive is renamed
\* beside the live file; it is not there when a 304 was answered to the ETag
\* of an archive that was decoded before.
WofStage ==
    LET d == Head(todo)
    IN  /\ AtWof("stage")
        /\ refresh' = [refresh EXCEPT ![d] = None]
        /\ IF web[d].file = None
           THEN /\ staged' = [staged EXCEPT ![d] = None]
                /\ WofReport(FALSE) /\ UNCHANGED web
           ELSE /\ staged' = [staged EXCEPT ![d] = web[d].file]
                /\ web' = [web EXCEPT ![d].file = None]
                /\ Goto("decode")
        /\ UNCHANGED <<server, crontab, state, db, mmdb, source, psv>>

\* No bzip2 decoder on the PATH.
WofNoDecoder ==
    /\ AtWof("stage")
    /\ WofReport(FALSE)
    /\ UNCHANGED <<server, crontab, files>>

\* The decoder starts on <db>.refresh; it is still short of its end.
WofDecode ==
    /\ AtWof("decode")
    /\ refresh' = [refresh EXCEPT ![Head(todo)] = Partial]
    /\ Goto("decoding")
    /\ UNCHANGED <<server, crontab, web, state, staged, db, mmdb, source, psv>>

\* It succeeds and consumes the archive, or fails and removes its output.
WofDecoded ==
    LET d == Head(todo)
    IN  /\ AtWof("decoding")
        /\ \/ /\ refresh' = [refresh EXCEPT ![d] = staged[d]]
              /\ staged' = [staged EXCEPT ![d] = None]
              /\ Goto("install")
           \/ /\ refresh' = [refresh EXCEPT ![d] = None]
              /\ WofReport(FALSE) /\ UNCHANGED staged
        /\ UNCHANGED <<server, crontab, web, state, db, mmdb, source, psv>>

\* The rename over the live database may fail; the output stays where it is.
WofInstall ==
    LET d == Head(todo)
    IN  /\ AtWof("install")
        /\ \/ /\ db' = [db EXCEPT ![d] = refresh[d]]
              /\ refresh' = [refresh EXCEPT ![d] = None]
              /\ WofReport(TRUE)
           \/ WofReport(FALSE) /\ UNCHANGED <<db, refresh>>
        /\ UNCHANGED <<server, crontab, web, state, staged, mmdb, source, psv>>

WofEnd ==
    /\ AtWof("next") /\ todo = <<>>
    /\ Done(TRUE)
    /\ UNCHANGED <<server, crontab, files>>

-----------------------------------------------------------------------------
(* The IP database: MaxMind with a key, otherwise DB-IP by the month. *)

AtIp(s) == pc = "maxmind" /\ step = s

\* Mutant of Months: one month more is tried.
ThreeMonths == <<server + 1, server, server - 1>>

\* DB-IP's current month and the one before it.
Months == <<server + 1, server>>

Archive == IF inv.key THEN "tar" ELSE "gz"

\* What the run downloads, as the sidecar records it.
Wanted == IF inv.key THEN [src |-> "maxmind", pub |-> 0]
          ELSE [src |-> "dbip", pub |-> Head(todo)]

\* With a key and a database in place nothing is fetched, but the sidecar is
\* rewritten; without a key the fallback may be switched off.
IpCached ==
    /\ AtIp("start")
    /\ \/ /\ inv.key /\ mmdb # NoIp /\ ~inv.force
          /\ source' \in {source, Wanted}
       \/ ~inv.key /\ ~inv.fallback /\ UNCHANGED source
    /\ Done(TRUE)
    /\ UNCHANGED <<server, crontab, web, state, staged, refresh, db, mmdb, psv>>

IpStart ==
    /\ AtIp("start")
    /\ IF inv.key THEN mmdb = NoIp \/ inv.force ELSE inv.fallback
    /\ todo' = IF inv.key THEN <<server>> ELSE Months
    /\ step' = "fetch"
    /\ UNCHANGED <<server, crontab, files, inv, pc, task, failed, exit, began>>

\* The sidecar names the month that would be fetched next.
IpMonthInstalled ==
    ~inv.key /\ ~inv.force /\ mmdb # NoIp /\ source = Wanted

IpMonthCached ==
    /\ AtIp("fetch") /\ IpMonthInstalled
    /\ Done(TRUE)
    /\ UNCHANGED <<server, crontab, files>>

\* A month that cannot be had is followed by the one before it; both share one
\* archive path and its sidecars.
IpFetch ==
    /\ AtIp("fetch") /\ ~IpMonthInstalled
    /\ \E r \in FetchResults(web[Archive],
                             IF inv.key THEN server ELSE Head(todo), inv.force) :
          /\ web' = [web EXCEPT ![Archive] = r.f]
          /\ IF r.outcome # "failed" THEN Goto("extract")
             ELSE IF Len(todo) = 1 THEN Done(FALSE)
             ELSE /\ todo' = Tail(todo)
                  /\ UNCHANGED <<inv, pc, step, task, failed, exit, began>>
    /\ UNCHANGED <<server, crontab, state, staged, refresh, db, mmdb, source, psv>>

\* Mutant of IpExtract: the entry is streamed over the live database.
IpExtractInPlace ==
    /\ AtIp("extract")
    /\ \/ Done(FALSE) /\ UNCHANGED mmdb
       \/ /\ web[Archive].file # None
          /\ mmdb' = [src |-> Wanted.src, pub |-> Partial]
          /\ Goto("rename")
    /\ UNCHANGED <<server, crontab, web, state, staged, refresh, db, source, psv>>

\* The archive is opened and streamed to <dest>.tmp.  It is not there after a
\* 304 to the ETag of one already removed; it may hold no database, break off
\* or be over the size cap.  Any of these ends the source.
IpExtract ==
    /\ AtIp("extract")
    /\ \/ Done(FALSE)
       \/ web[Archive].file # None /\ Goto("rename")
    /\ UNCHANGED <<server, crontab, files>>

IpRename ==
    /\ AtIp("rename")
    /\ mmdb' = [src |-> Wanted.src, pub |-> web[Archive].file]
    /\ Goto("clean")
    /\ UNCHANGED <<server, crontab, web, state, staged, refresh, db, source, psv>>

IpClean ==
    /\ AtIp("clean")
    /\ web' = [web EXCEPT ![Archive].file = None]
    /\ Goto("record")
    /\ UNCHANGED <<server, crontab, state, staged, refresh, db, mmdb, source, psv>>

\* write_source_sidecar: best effort.
IpRecord ==
    /\ AtIp("record")
    /\ source' \in {source, Wanted}
    /\ Done(TRUE)
    /\ UNCHANGED <<server, crontab, web, state, staged, refresh, db, mmdb, psv>>

-----------------------------------------------------------------------------
(* G-NAF: download, unzip, copy every PSV into one flat directory. *)

AtGnaf(s) == pc = "gnaf" /\ step = s

\* Skipped without a URL, refused with a bad one, cached by any PSV file.
GnafCached ==
    /\ AtGnaf("start")
    /\ inv.gnafUrl = "good" => DOMAIN psv # {} /\ ~inv.force
    /\ Done(inv.gnafUrl # "bad")
    /\ UNCHANGED <<server, crontab, files>>

GnafFetch ==
    /\ AtGnaf("start")
    /\ inv.gnafUrl = "good" /\ (DOMAIN psv = {} \/ inv.force)
    /\ \E r \in FetchResults(web["zip"], server, inv.force) :
          /\ web' = [web EXCEPT !["zip"] = r.f]
          /\ IF r.outcome = "failed" THEN Done(FALSE) ELSE Goto("unzip")
    /\ UNCHANGED <<server, crontab, state, staged, refresh, db, mmdb, source, psv>>

\* .unpack is wiped and filled from the archive; unzip may fail.
GnafUnzip ==
    /\ AtGnaf("unzip")
    /\ \/ Done(FALSE)
       \/ /\ todo' = Psvs[web["zip"].file]
          /\ step' = "copy"
          /\ UNCHANGED <<inv, pc, task, failed, exit, began>>
    /\ UNCHANGED <<server, crontab, files>>

\* The walk reaches a PSV file: one that is already in the flat directory ends
\* the source, whoever put it there; otherwise a copy begins.
GnafCopy(n) ==
    /\ AtGnaf("copy") /\ n \in todo
    /\ IF n \in DOMAIN psv
       THEN Done(FALSE) /\ UNCHANGED psv
       ELSE /\ psv' = [m \in DOMAIN psv \cup {n} |-> IF m = n THEN Partial ELSE psv[m]]
            /\ step' = "copying" /\ task' = [m \in {n} |-> "copying"]
            /\ UNCHANGED <<inv, pc, todo, failed, exit, began>>
    /\ UNCHANGED <<server, crontab, web, state, staged, refresh, db, mmdb, source>>

\* The copy ends, or fails and ends the source with the file cut short.
GnafCopied(n) ==
    /\ AtGnaf("copying") /\ n \in DOMAIN task
    /\ \/ /\ psv' = [psv EXCEPT ![n] = web["zip"].file]
          /\ step' = "copy" /\ task' = <<>> /\ todo' = todo \ {n}
          /\ UNCHANGED <<inv, pc, failed, exit, began>>
       \/ Done(FALSE) /\ UNCHANGED psv
    /\ UNCHANGED <<server, crontab, web, state, staged, refresh, db, mmdb, source>>

GnafEnd ==
    /\ AtGnaf("copy") /\ todo = {}
    /\ Done(TRUE)
    /\ UNCHANGED <<server, crontab, files>>

-----------------------------------------------------------------------------

\* A new publication of everything.
Publish ==
    /\ server < LastPub
    /\ server' = server + 1
    /\ UNCHANGED <<crontab, files, run>>

\* What the bzip2 child of a killed run leaves: nothing ends it, so it may
\* still consume the archive or fail; or it dies with its parent.  It is through
\* before the next run starts.
DecoderOutlives(d) ==
    /\ \/ UNCHANGED <<staged, refresh>>
       \/ /\ refresh' = [refresh EXCEPT ![d] = staged[d]]
          /\ staged' = [staged EXCEPT ![d] = None]
       \/ refresh' = [refresh EXCEPT ![d] = None] /\ UNCHANGED staged
    /\ UNCHANGED <<web, state, db, mmdb, source, psv>>

\* The process is killed; what is on disk stays, but for the decoder's files.
Kill ==
    /\ pc # "idle"
    /\ Stop("killed")
    /\ IF AtWof("decoding") THEN DecoderOutlives(Head(todo)) ELSE UNCHANGED files
    /\ UNCHANGED <<server, crontab>>

OsmStep == OsmRefuse \/ OsmStart \/ OsmEnd
           \/ (\E u \in DOMAIN task : OsmFetch(u) \/ OsmState(u) \/ OsmWritten(u))

WofStep == WofStart \/ WofCached \/ WofFetch \/ WofStage \/ WofNoDecoder
           \/ WofDecode \/ WofDecoded \/ WofInstall \/ WofEnd

IpStep == IpCached \/ IpStart \/ IpMonthCached \/ IpFetch \/ IpExtract
          \/ IpRename \/ IpClean \/ IpRecord

GnafStep ==
    \/ GnafCached \/ GnafFetch \/ GnafUnzip \/ GnafEnd
    \/ pc = "gnaf" /\ \E p \in Pubs : \E n \in Psvs[p] : GnafCopy(n) \/ GnafCopied(n)

Next ==
    \/ Publish \/ Kill
    \/ \E i \in crontab : StartRun(i)
    \/ NoDirectory \/ Openaddresses \/ Exit
    \/ OsmStep \/ WofStep \/ IpStep \/ GnafStep

Spec == Init /\ [][Next]_vars

-----------------------------------------------------------------------------
(* Properties. *)

MaybePub == Pubs \cup {None}
MaybeCut == MaybePub \cup {Partial}
IpFile == [src : {"none", "maxmind", "dbip"}, pub : 0..(LastPub + 1) \cup {None}]

TypeOK ==
    /\ server \in Pubs /\ began \in Pubs
    /\ \A t \in Targets : web[t] \in [file : 0..(LastPub + 1) \cup {None},
                                     etag : 0..(LastPub + 1) \cup {None}]
    /\ staged \in [Dbs -> MaybePub] /\ refresh \in [Dbs -> MaybeCut]
    /\ db \in [Dbs -> MaybePub]
    /\ mmdb \in IpFile /\ source \in IpFile
    /\ \A n \in DOMAIN psv : psv[n] \in Pubs \cup {Partial}
    /\ pc \in {"idle"} \cup {Order[k] : k \in DOMAIN Order}
    /\ failed \in BOOLEAN
    /\ exit \in {"none", "running", "ok", "error", "killed"}

\* What exit status 0 tells the build that follows: every PBF, database and IP
\* database the run was asked for is there and whole, except what lacked its
\* licence key, and no earlier source of the run failed behind a later one that
\* went well.  Of G-NAF it tells only that some PSV file is there: has_psv_files
\* looks at names, so one that a killed run cut short counts as cached.
ExitTruthful ==
    exit = "ok" =>
        /\ ~failed
        /\ inv.region # "none" => Urls(ParseRegion(inv.region)) \subseteq PbfsPresent
        /\ \A ds \in Datasets : inv[ds] => \A d \in Scope[ds] : db[d] # None
        /\ inv.maxmind => mmdb # NoIp \/ ~(inv.key \/ inv.fallback)
        /\ inv.gnaf => DOMAIN psv # {} \/ inv.gnafUrl = "unset"

\* "Mixing planet + continent PBFs in the same directory would cause
\* build-index to double-process every node and way": no sequence of runs
\* puts a planet file and an extract side by side.
NoMixedPbf == "planet" \in PbfsPresent => PbfsPresent = {"planet"}

\* No step of a run, killed or not, takes away or cuts short what the index
\* build and the server read.  PBFs and databases never go back to an older
\* publication.  The IP database stays whole; it may go back a month, when the
\* current one cannot be had, but a forced run installs none older than the
\* month before its start.  A PSV file is only ever completed by the run that
\* began it; whole or cut, later runs leave it as they find it.
LiveFilesSurvive ==
    [][/\ \A u \in Pbfs : web'[u].file >= web[u].file
       /\ \A d \in Dbs : db'[d] >= db[d]
       /\ mmdb # NoIp => mmdb'.pub \in Nat
       /\ inv.force /\ mmdb' # mmdb => mmdb'.pub >= began
       /\ \A n \in DOMAIN psv :
             /\ n \in DOMAIN psv'
             /\ psv'[n] # psv[n] => psv[n] = Partial /\ n \in DOMAIN task]_vars

\* A forced run that exits 0 leaves no PBF, database or IP database it was
\* asked for older than what upstream held when it started (the month before,
\* for DB-IP), whatever archives, sidecars and staging files earlier runs left
\* behind.  G-NAF is not refreshed: a PSV file of a name in the release ends a
\* forced run in an error, so exit 0 says that the run found none and copied
\* each file itself.
ForcedRunIsFresh ==
    (exit = "ok" /\ inv.force) =>
        /\ inv.region # "none" =>
              \A u \in Urls(ParseRegion(inv.region)) : web[u].file >= began
        /\ \A ds \in Datasets : inv[ds] => \A d \in Scope[ds] : db[d] >= began
        /\ inv.maxmind /\ (inv.key \/ inv.fallback) => mmdb.pub >= began
        /\ inv.gnaf /\ inv.gnafUrl = "good" =>
              \A n \in Psvs[web["zip"].file] : psv[n] = web["zip"].file /\ psv[n] >= began

\* A forced run is not told "not modified" about an archive that an earlier run
\* has consumed: what it goes on to decode is there.
ForcedArchiveThere ==
    /\ (inv.force /\ AtWof("stage")) => web[Head(todo)].file # None
    /\ (inv.force /\ AtIp("extract")) => web[Archive].file # None

\* "The bytes are stable across read/write cycles": a state.txt sidecar whose
\* write ended can be read back, and writing what was read gives the same lines
\* again.  A killed or failed write leaves it Cut, and no exit status tells.
StateRoundTrips ==
    \A u \in Pbfs : state[u] \notin {<<>>, Cut} =>
        StateParses(state[u]) /\ ToStringWire(ParseState(state[u])) = state[u]

\* What a run leaves for others to read: the files have their types, the exit
\* status forgets no failure and no PBF or database, and a sidecar that was
\* written to its end reads back.
ReportsTruthful == TypeOK /\ ExitTruthful /\ StateRoundTrips

\* --force refreshes PBFs, databases and the IP database after any history of
\* kills and consumed archives: nothing it needs is "not modified", and what it
\* installs is fresh.  Over PSV files that are there it refuses instead.
RefreshWorks == ForcedArchiveThere /\ ForcedRunIsFresh
=============================================================================
