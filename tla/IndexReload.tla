---------------------------- MODULE IndexReload ----------------------------
(***************************************************************************)
(* The hot reload of the reverse index: scripts/update-index.sh builds a   *)
(* new index and swaps directories while the query server, started by      *)
(* main() of server/src/main.rs, polls the reload marker in                *)
(* spawn_index_reloader.  Both may be killed; cron starts the script again *)
(* and the service manager the server.                                     *)
(*                                                                         *)
(* An index is named by the version of the OSM data it was built from.     *)
(* Each installed directory is touched at most once, so the version also   *)
(* stands for the mtime of its marker.  A load opens many files by path:   *)
(* it looks at the directory twice and serves what it has seen, which      *)
(* module IndexPublish details.                                            *)
(***************************************************************************)
EXTENDS Naturals

CONSTANTS
    MaxVersion,   \* bound: the last version of the OSM data
    MaxKills,     \* bound: how often the script fails or is killed
    MaxRestarts,  \* bound: how often the server is restarted
    StartRaces    \* may a swap begin while a starting server loads its index?

ASSUME ReloadAssumption ==
    /\ MaxVersion \in Nat \ {0} /\ MaxKills \in Nat /\ MaxRestarts \in Nat
    /\ StartRaces \in BOOLEAN

None == 0                       \* no directory, no marker, no index
Versions == 1..MaxVersion

VARIABLES
    osm,       \* version of the replication server
    pbf,       \* version of $PBF
    changes,   \* version the downloaded diffs lead to
    next,      \* version of $INDEX_NEW, None while it is incomplete
    dir,       \* version of $INDEX_DIR, None when it is missing
    marker,    \* mtime of $INDEX_DIR/.reload, None when it is missing
    spc,       \* the next step of update-index.sh, or idle
    srv,       \* where the server is
    seen,      \* the version a load in progress has verified
    current,   \* the mtime read before the reload
    last,      \* last_mtime
    served,    \* versions of the files behind the ArcSwap, {} when down
    kills,     \* how often the script was killed
    restarts   \* how often the server was restarted

scriptVars == <<osm, pbf, changes, next, dir, marker, spc, kills>>
serverVars == <<srv, seen, current, last, served, restarts>>
vars == <<osm, pbf, changes, next, dir, marker, spc, srv, seen, current, last,
          served, kills, restarts>>

\* An index is installed and the server is about to start.
Init ==
    /\ osm = 1 /\ pbf = 1 /\ dir = 1
    /\ changes = None /\ next = None
    /\ marker \in {None, 1}
    /\ spc = "idle" /\ kills = 0
    /\ srv = "load" /\ seen = None /\ current = None /\ last = None
    /\ served = {} /\ restarts = 0

-----------------------------------------------------------------------------
(* The update script. *)

\* The replication server publishes a diff.
NewDiff ==
    /\ osm < MaxVersion
    /\ osm' = osm + 1
    /\ UNCHANGED <<pbf, changes, next, dir, marker, spc, kills, serverVars>>

\* pyosmium-get-changes; without changes there is "nothing to do".
GetChanges ==
    /\ spc = "idle" /\ osm # pbf
    /\ changes' = osm
    /\ spc' = "apply"
    /\ UNCHANGED <<osm, pbf, next, dir, marker, kills, serverVars>>

\* osmium apply-changes, mv of the new PBF over the old one, rm of the diffs.
ApplyChanges ==
    /\ spc = "apply"
    /\ pbf' = changes /\ changes' = None
    /\ spc' = "clear"
    /\ UNCHANGED <<osm, next, dir, marker, kills, serverVars>>

\* rm -rf and mkdir of $INDEX_NEW.
ClearNext ==
    /\ spc = "clear"
    /\ next' = None
    /\ spc' = "build"
    /\ UNCHANGED <<osm, pbf, changes, dir, marker, kills, serverVars>>

BuildIndex ==
    /\ spc = "build"
    /\ next' = pbf
    /\ spc' = "move_old"
    /\ UNCHANGED <<osm, pbf, changes, dir, marker, kills, serverVars>>

\* The marker lives in the directory and leaves with it.
MoveOld ==
    /\ spc = "move_old"
    /\ StartRaces \/ srv \notin {"loading", "spawned"}
    /\ dir' = None /\ marker' = None
    /\ spc' = "move_new"
    /\ UNCHANGED <<osm, pbf, changes, next, kills, serverVars>>

\* mv of $INDEX_NEW into place, rm -rf of the old index.
MoveNew ==
    /\ spc = "move_new"
    /\ dir' = next /\ next' = None
    /\ spc' = "touch"
    /\ UNCHANGED <<osm, pbf, changes, marker, kills, serverVars>>

\* Mutant of TouchMarker: the marker is touched where the old index was, and is gone with it.
TouchMarkerLost ==
    /\ spc = "touch"
    /\ spc' = "idle"
    /\ UNCHANGED <<osm, pbf, changes, next, dir, marker, kills, serverVars>>

TouchMarker ==
    /\ spc = "touch"
    /\ marker' = dir
    /\ spc' = "idle"
    /\ UNCHANGED <<osm, pbf, changes, next, dir, kills, serverVars>>

\* A command fails (set -e) or the script is killed.
ScriptDies ==
    /\ spc # "idle" /\ kills < MaxKills
    /\ kills' = kills + 1
    /\ spc' = "idle"
    /\ changes' = None
    /\ UNCHANGED <<osm, pbf, next, dir, marker, serverVars>>

-----------------------------------------------------------------------------
(* The server. *)

\* The first half of Index::load, at startup and in the reloader.
LoadBegin ==
    /\ srv \in {"load", "reload"} /\ dir # None
    /\ seen' = dir
    /\ srv' = IF srv = "load" THEN "loading" ELSE "reloading"
    /\ UNCHANGED <<current, last, served, restarts, scriptVars>>

\* Mutant of LoadEnd: a reload acknowledges the mtime it finds when it is done.
LoadEndAcksLatest ==
    /\ srv \in {"loading", "reloading"} /\ dir # None
    /\ served' = {seen, dir}
    /\ seen' = None
    /\ IF srv = "loading"
       THEN srv' = "spawned" /\ UNCHANGED <<current, last>>
       ELSE srv' = "poll" /\ last' = marker /\ current' = None
    /\ UNCHANGED <<restarts, scriptVars>>

\* The index is stored in the ArcSwap; startup goes on to the marker, a reload
\* acknowledges the mtime it read before.
LoadEnd ==
    /\ srv \in {"loading", "reloading"} /\ dir # None
    /\ served' = {seen, dir}
    /\ seen' = None
    /\ IF srv = "loading"
       THEN srv' = "spawned" /\ UNCHANGED <<current, last>>
       ELSE srv' = "poll" /\ last' = current /\ current' = None
    /\ UNCHANGED <<restarts, scriptVars>>

\* A load fails when the directory is missing, and may fail when it is not the
\* one whose manifest it has read.
LoadFails == dir = None \/ seen \notin {None, dir}

\* Startup exits; the service manager starts the server again.
StartupFails ==
    /\ srv \in {"load", "loading"} /\ LoadFails
    /\ srv' = "load" /\ seen' = None
    /\ UNCHANGED <<current, last, served, restarts, scriptVars>>

\* "load failed - keeping previous index": the next poll tries again.
ReloadFails ==
    /\ srv \in {"reload", "reloading"} /\ LoadFails
    /\ srv' = "poll" /\ seen' = None /\ current' = None
    /\ UNCHANGED <<last, served, restarts, scriptVars>>

\* The spawned task reads the marker before its first sleep.
ReadMarker ==
    /\ srv = "spawned"
    /\ last' = marker
    /\ srv' = "poll"
    /\ UNCHANGED <<seen, current, served, restarts, scriptVars>>

\* Mutant of Poll: without an mtime from the start there is nothing to compare with.
PollNeedsLast ==
    /\ srv = "poll" /\ marker # None /\ last # None /\ marker # last
    /\ current' = marker
    /\ srv' = "reload"
    /\ UNCHANGED <<seen, last, served, restarts, scriptVars>>

\* One poll that finds a marker with an mtime it has not acknowledged.
Poll ==
    /\ srv = "poll" /\ marker # None /\ marker # last
    /\ current' = marker
    /\ srv' = "reload"
    /\ UNCHANGED <<seen, last, served, restarts, scriptVars>>

\* The process ends and is started again.
Restart ==
    /\ srv # "load" /\ restarts < MaxRestarts
    /\ restarts' = restarts + 1
    /\ srv' = "load" /\ served' = {}
    /\ seen' = None /\ current' = None /\ last' = None
    /\ UNCHANGED scriptVars

-----------------------------------------------------------------------------
Script ==
    \/ GetChanges \/ ApplyChanges \/ ClearNext \/ BuildIndex
    \/ MoveOld \/ MoveNew \/ TouchMarker

Server ==
    \/ LoadBegin \/ LoadEnd \/ StartupFails \/ ReloadFails \/ ReadMarker \/ Poll

Next == NewDiff \/ Script \/ ScriptDies \/ Server \/ Restart

\* cron runs the script, which never waits for anybody; the poll loop and the
\* service manager never stop.
Fairness == WF_vars(Script) /\ WF_vars(Server)

Spec == Init /\ [][Next]_vars /\ Fairness

-----------------------------------------------------------------------------
(* Properties. *)

\* The type invariant of the script and the server.
TypeOK ==
    /\ osm \in Versions /\ pbf \in Versions
    /\ changes \in Versions \cup {None} /\ next \in Versions \cup {None}
    /\ dir \in Versions \cup {None} /\ marker \in Versions \cup {None}
    /\ spc \in {"idle", "apply", "clear", "build", "move_old", "move_new",
                "touch"}
    /\ srv \in {"load", "loading", "spawned", "poll", "reload", "reloading"}
    /\ seen \in Versions \cup {None} /\ current \in Versions \cup {None}
    /\ last \in Versions \cup {None} /\ served \subseteq Versions
    /\ kills \in 0..MaxKills /\ restarts \in 0..MaxRestarts

\* The reloader ignores a marker only when all files it serves are of the index
\* that marker announces: a torn load, a failed one or a swap during the reload
\* is never taken for done.
AckIsServed ==
    srv = "poll" /\ marker # None /\ marker = last => served = {dir}

\* "Server will pick up the new index": a touched marker leads to an index that
\* is served whole, unless the next update replaces it first.
PicksUp == \A v \in Versions : marker = v ~> (served = {v} \/ marker # v)

\* Once the diffs stop coming, the server serves the index of the last of them
\* and nothing else ("Refresh the geocoder index from OSM diff replication").
Converges == <>[](served = {osm})

\* The same when the script never fails and is never killed.
UnkilledConverges == [](kills = 0) => Converges
=============================================================================
