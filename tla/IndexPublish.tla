---------------------------- MODULE IndexPublish ----------------------------
(***************************************************************************)
(* How build-index publishes a reverse index in its output directory       *)
(* (builder/src/build_index.cpp, IndexWriter and the end of write_index)   *)
(* and how the query server loads one (server/src/manifest.rs              *)
(* verify_reverse, server/src/lib.rs Index::load_with_admin_config).       *)
(*                                                                         *)
(* The builder writes every file to <file>.tmp, removes the manifest,      *)
(* renames the files one by one and publishes the new manifest last.  The  *)
(* reader compares the manifest with the lengths of the files and then     *)
(* maps them one by one; nothing is locked.  The order in which either     *)
(* side walks the files is left open.                                      *)
(***************************************************************************)
EXTENDS Naturals, FiniteSets

CONSTANTS
    Files,      \* the files verify_reverse lists
    Optional,   \* the cells and entries that mmap_file_optional maps even when empty
    Gens,       \* builds: what a run of the builder produces
    Size,       \* Size[f, g]: length in bytes of file f of build g
    NoBuild     \* no file, no manifest, no build

ASSUME PublishAssumption ==
    /\ IsFiniteSet(Files) /\ Optional \subseteq Files
    /\ Size \in [Files \X Gens -> Nat]
    /\ NoBuild \notin Gens

VARIABLES
    file,      \* the build each live file belongs to, or NoBuild
    manifest,  \* the build whose lengths manifest_reverse.json records
    tmp,       \* the build of each <file>.tmp, or NoBuild
    build,     \* the build in progress, or NoBuild
    pending,   \* its files that are not committed yet
    bpc,       \* where the builder is
    rpc,       \* where the reader is
    schema,    \* the build whose manifest the reader has read
    todo,      \* files the reader has still to stat or to map
    map,       \* the build of each mapped file
    view,      \* the maps of the last load that succeeded, or the empty function
    quiet,     \* no live name has changed since the load in progress began
    viewQuiet  \* quiet, of the load that produced view

builderVars == <<tmp, build, pending, bpc>>
readerVars == <<rpc, schema, todo, map, view, viewQuiet>>
publishVars ==
    <<file, manifest, tmp, build, pending, bpc, rpc, schema, todo, map,
      view, quiet, viewQuiet>>

NoMap == [f \in Files |-> NoBuild]

\* The directory is empty, or holds a complete earlier build.
PublishInit ==
    /\ \E g \in Gens \cup {NoBuild} :
        file = [f \in Files |-> g] /\ manifest = g
    /\ tmp = NoMap /\ build = NoBuild /\ pending = {} /\ bpc = "idle"
    /\ rpc = "idle" /\ schema = NoBuild /\ todo = {} /\ map = NoMap
    /\ view = NoMap /\ quiet = TRUE /\ viewQuiet = TRUE

-----------------------------------------------------------------------------
(* The builder. *)

StartBuild(g) ==
    /\ bpc = "idle"
    /\ build' = g /\ pending' = {} /\ bpc' = "write"
    /\ UNCHANGED <<file, manifest, tmp, quiet, readerVars>>

\* tmp_for and open_tmp_out: <file>.tmp is truncated, written and closed.
WriteTmp(f) ==
    /\ bpc = "write" /\ f \notin pending
    /\ tmp' = [tmp EXCEPT ![f] = build]
    /\ pending' = pending \cup {f}
    /\ UNCHANGED <<file, manifest, build, bpc, quiet, readerVars>>

\* Every file is written: the old manifest goes first.
RemoveManifest ==
    /\ bpc = "write" /\ pending = Files
    /\ manifest' = NoBuild
    /\ quiet' = FALSE
    /\ bpc' = "commit"
    /\ UNCHANGED <<file, tmp, build, pending, readerVars>>

\* One rename of commit_all.
CommitFile(f) ==
    /\ bpc = "commit" /\ f \in pending
    /\ file' = [file EXCEPT ![f] = tmp[f]]
    /\ tmp' = [tmp EXCEPT ![f] = NoBuild]
    /\ pending' = pending \ {f}
    /\ quiet' = FALSE
    /\ UNCHANGED <<manifest, build, bpc, readerVars>>

\* Mutant of PublishManifest: the manifest is published before the last file is renamed.
PublishManifestEarly ==
    /\ bpc = "commit" /\ Cardinality(pending) <= 1
    /\ manifest' = build
    /\ quiet' = FALSE
    /\ build' = NoBuild /\ bpc' = "idle"
    /\ UNCHANGED <<file, tmp, pending, readerVars>>

\* The manifest takes the lengths of the live files and is renamed into place.
PublishManifest ==
    /\ bpc = "commit" /\ pending = {}
    /\ manifest' = build
    /\ quiet' = FALSE
    /\ build' = NoBuild /\ bpc' = "idle"
    /\ UNCHANGED <<file, tmp, pending, readerVars>>

\* An exception: ~IndexWriter removes the temporary files not yet renamed.
BuildFails ==
    /\ bpc # "idle"
    /\ tmp' = [f \in Files |-> IF f \in pending THEN NoBuild ELSE tmp[f]]
    /\ build' = NoBuild /\ pending' = {} /\ bpc' = "idle"
    /\ UNCHANGED <<file, manifest, quiet, readerVars>>

\* A kill leaves everything on disk as it is.
BuildKilled ==
    /\ bpc # "idle"
    /\ build' = NoBuild /\ pending' = {} /\ bpc' = "idle"
    /\ UNCHANGED <<file, manifest, tmp, quiet, readerVars>>

-----------------------------------------------------------------------------
(* The reader. *)

\* Mutant of ReadManifest: the reader does without a manifest, as readers of older indexes did.
ReadManifestOptional ==
    /\ rpc = "idle"
    /\ schema' = IF manifest # NoBuild THEN manifest ELSE CHOOSE g \in Gens : TRUE
    /\ todo' = Files /\ map' = NoMap /\ rpc' = "stat"
    /\ quiet' = TRUE
    /\ UNCHANGED <<file, manifest, view, viewQuiet, builderVars>>

\* A load reads the manifest first; without one it fails.
ReadManifest ==
    /\ rpc = "idle" /\ manifest # NoBuild
    /\ schema' = manifest
    /\ todo' = Files /\ map' = NoMap /\ rpc' = "stat"
    /\ quiet' = TRUE
    /\ UNCHANGED <<file, manifest, view, viewQuiet, builderVars>>

\* The length of one file agrees with the manifest.
LengthAgrees(f) ==
    file[f] # NoBuild /\ Size[f, file[f]] = Size[f, schema]

StatFile(f) ==
    /\ rpc = "stat" /\ f \in todo
    /\ IF LengthAgrees(f)
       THEN /\ todo' = IF todo = {f} THEN Files ELSE todo \ {f}
            /\ rpc' = IF todo = {f} THEN "map" ELSE "stat"
       ELSE todo' = {} /\ rpc' = "idle"
    /\ UNCHANGED <<file, manifest, schema, map, view, quiet, viewQuiet,
                   builderVars>>

\* mmap_records and mmap_nonempty refuse an empty file, also of place_points and
\* poi_points, which only an index without a manifest may lack.
Mappable(f) ==
    file[f] # NoBuild /\ (f \in Optional \/ Size[f, file[f]] > 0)

MapFile(f) ==
    /\ rpc = "map" /\ f \in todo
    /\ IF Mappable(f)
       THEN /\ map' = [map EXCEPT ![f] = file[f]]
            /\ todo' = todo \ {f}
            /\ rpc' = IF todo = {f} THEN "done" ELSE "map"
       ELSE map' = NoMap /\ todo' = {} /\ rpc' = "idle"
    /\ UNCHANGED <<file, manifest, schema, view, quiet, viewQuiet, builderVars>>

\* Index::load returns Ok and the index is served.
Serve ==
    /\ rpc = "done"
    /\ view' = map /\ viewQuiet' = quiet
    /\ rpc' = "idle" /\ map' = NoMap
    /\ UNCHANGED <<file, manifest, schema, todo, quiet, builderVars>>

-----------------------------------------------------------------------------
Builder ==
    \/ \E g \in Gens : StartBuild(g)
    \/ \E f \in Files : WriteTmp(f) \/ CommitFile(f)
    \/ RemoveManifest \/ PublishManifest \/ BuildFails \/ BuildKilled

Reader ==
    \/ ReadManifest
    \/ \E f \in Files : StatFile(f) \/ MapFile(f)
    \/ Serve

PublishNext == Builder \/ Reader

PublishSpec == PublishInit /\ [][PublishNext]_publishVars

-----------------------------------------------------------------------------
(* Properties. *)

\* The type invariant of the directory, the builder and the reader.
PublishTypeOK ==
    /\ file \in [Files -> Gens \cup {NoBuild}] /\ tmp \in [Files -> Gens \cup {NoBuild}]
    /\ map \in [Files -> Gens \cup {NoBuild}] /\ view \in [Files -> Gens \cup {NoBuild}]
    /\ manifest \in Gens \cup {NoBuild} /\ build \in Gens \cup {NoBuild}
    /\ schema \in Gens \cup {NoBuild}
    /\ pending \subseteq Files /\ todo \subseteq Files
    /\ bpc \in {"idle", "write", "commit"}
    /\ rpc \in {"idle", "stat", "map", "done"}
    /\ quiet \in BOOLEAN /\ viewQuiet \in BOOLEAN

\* A manifest on disk vouches for the files beside it: all of them are files of
\* the build that wrote it, whatever builds failed or were killed before
\* ("a mixed-generation build fails at startup").
ManifestVouches == manifest # NoBuild => \A f \in Files : file[f] = manifest

\* What the builder has done so far: the temporary files it has counted are of
\* its build and, once the manifest is gone, so are the files it has renamed.
BuilderInv ==
    /\ bpc = "idle" => pending = {}
    /\ bpc # "idle" => build # NoBuild /\ \A f \in pending : tmp[f] = build
    /\ bpc = "commit" =>
        manifest = NoBuild /\ \A f \in Files \ pending : file[f] = build

\* While nothing is published, a load reads and maps the build it has verified.
ReaderInv ==
    /\ rpc # "idle" /\ quiet => \A f \in Files : file[f] = schema
    /\ rpc = "map" /\ quiet => \A f \in Files \ todo : map[f] = schema
    /\ rpc = "done" /\ quiet => \A f \in Files : map[f] = schema

\* A served index that no publication overlapped maps the files of one build.
QuietLoadIsWhole ==
    viewQuiet => \A f1, f2 \in Files : view[f1] = view[f2]
=============================================================================
