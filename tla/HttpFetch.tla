----------------------------- MODULE HttpFetch -----------------------------
(***************************************************************************)
(* The download core of fetch-data (server/src/fetcher/http.rs): one       *)
(* target, fetched again and again by runs that may be killed at any       *)
(* point, from an upstream that replaces the file while runs are going on. *)
(*                                                                         *)
(* What survives a kill is on disk: <dest>, its mtime, <dest>.partial and  *)
(* <dest>.etag.  Everything else is local to a run.                        *)
(*                                                                         *)
(* Bytes are abstracted to chunks.  A chunk is labelled by the publication *)
(* it was read from, so a file is described by how many chunks it has and  *)
(* the set of publications they came from.  The wall clock is abstracted   *)
(* to the number of publications so far: Last-Modified of publication p is *)
(* p, and a file written while publication p is current has mtime p.       *)
(***************************************************************************)
EXTENDS Integers

CONSTANTS
    LastPub,    \* bound: publications are numbered 0..LastPub
    Release,    \* the bytes (and ETag) of each publication
    Size,       \* chunks in the body of each publication
    Upstreams,  \* the kinds of server considered
    Options     \* the FetchOpts a run may be started with

Pubs == 0..LastPub

UpstreamKinds == [etag : BOOLEAN, lastMod : BOOLEAN, md5 : BOOLEAN,
                  conditional : BOOLEAN]

FetchOpts == [force : BOOLEAN, verify_md5 : BOOLEAN, resume : BOOLEAN]

ASSUME FetchAssumption ==
    /\ LastPub \in Nat
    /\ Size \in [Pubs -> Nat \ {0}]
    /\ DOMAIN Release = Pubs
    /\ \A p, q \in Pubs : Release[p] = Release[q] => Size[p] = Size[q]
    /\ Upstreams \subseteq UpstreamKinds
    /\ Options \subseteq FetchOpts

\* No publication repeats the bytes of an earlier one.
NoRollback == \A p, q \in Pubs : Release[p] = Release[q] => p = q

None == -1

\* A file is [n |-> chunks, from |-> publications the chunks came from].
Absent == [n |-> -1, from |-> {}]
Empty  == [n |-> 0, from |-> {}]

VARIABLES
    upstream,    \* the kind of server; never changes
    server,      \* the publication the server holds now
    dest,        \* <dest>
    destTime,    \* mtime of <dest>
    partial,     \* <dest>.partial
    partialTime, \* mtime of <dest>.partial
    etag,        \* <dest>.etag: the publication whose ETag it holds, or None
    pc,          \* where the run is
    opts,        \* FetchOpts of the run
    resp,        \* publication whose body the run is reading, or None
    resuming,    \* the body is appended to a surviving partial (206)
    result       \* FetchOutcome of the last finished run

disk == <<dest, destTime, partial, partialTime, etag>>
vars == <<upstream, server, dest, destTime, partial, partialTime, etag,
          pc, opts, resp, resuming, result>>

\* The file holds exactly the bytes of publication p.
IsCopy(file, p) ==
    /\ file.n = Size[p]
    /\ \A q \in file.from : Release[q] = Release[p]

Init ==
    /\ upstream \in Upstreams
    /\ server = 0
    /\ dest = Absent /\ destTime = None
    /\ partial = Absent /\ partialTime = None
    /\ etag = None
    /\ pc = "idle"
    /\ opts = [force |-> FALSE, verify_md5 |-> TRUE, resume |-> TRUE]
    /\ resp = None /\ resuming = FALSE
    /\ result = "none"

-----------------------------------------------------------------------------
(* The upstream. *)

\* The upstream replaces the file.
Publish ==
    /\ server < LastPub
    /\ server' = server + 1
    /\ UNCHANGED <<upstream, disk, pc, opts, resp, resuming, result>>

\* 304: If-None-Match decides when both sides have an ETag; otherwise
\* If-Modified-Since compares Last-Modified with the mtime of <dest>.
NotModified ==
    /\ upstream.conditional
    /\ ~opts.force
    /\ \/ /\ upstream.etag /\ etag # None
          /\ Release[etag] = Release[server]
       \/ /\ ~(upstream.etag /\ etag # None)
          /\ upstream.lastMod /\ dest # Absent
          /\ server <= destTime

\* If-Range: the saved ETag is the one of the file the server holds.
IfRangeHolds == upstream.etag /\ Release[etag] = Release[server]

-----------------------------------------------------------------------------
(* The run. *)

Return(outcome) ==
    /\ pc' = "idle" /\ resp' = None /\ resuming' = FALSE
    /\ result' = outcome

\* Mutant of Start: --force also removes <dest>, to be rid of its mtime.
StartRemovesDest(o) ==
    /\ pc = "idle"
    /\ opts' = o
    /\ etag' = IF o.force THEN None ELSE etag
    /\ partial' = IF o.force \/ etag = None THEN Absent ELSE partial
    /\ dest' = IF o.force THEN Absent ELSE dest
    /\ pc' = IF partial' # Absent THEN "range" ELSE "get"
    /\ UNCHANGED <<upstream, server, destTime, partialTime, resp, resuming, result>>

\* Mutant of Start: a partial that cannot be validated stops the run.
StartRefusesPartial(o) ==
    /\ pc = "idle"
    /\ opts' = o
    /\ pc' = IF partial = Absent THEN "get"
             ELSE IF etag # None THEN "range" ELSE "idle"
    /\ UNCHANGED <<upstream, server, disk, resp, resuming, result>>

\* Decisions fetch() takes before its first request: --force wipes both
\* sidecars; a leftover partial is resumed when an ETag is saved, dropped
\* when none is, and left for File::create to truncate under --no-resume.
Start(o) ==
    LET savedEtag    == IF o.force THEN None ELSE etag
        savedPartial == IF o.force THEN Absent ELSE partial
        leftover     == o.resume /\ savedPartial # Absent
    IN  /\ pc = "idle"
        /\ opts' = o
        /\ etag' = savedEtag
        /\ pc' = IF leftover /\ savedEtag # None THEN "range" ELSE "get"
        /\ partial' = IF leftover /\ savedEtag = None THEN Absent ELSE savedPartial
        /\ UNCHANGED <<upstream, server, dest, destTime, partialTime, resp,
                       resuming, result>>

\* Mutant of BeginFull: the partial is opened for append.
BeginFullAppends ==
    /\ partial' = IF partial = Absent THEN Empty ELSE partial
    /\ partialTime' = server
    /\ resp' = server /\ resuming' = FALSE
    /\ pc' = "stream"
    /\ UNCHANGED <<upstream, server, dest, destTime, etag, opts, result>>

\* 200 OK: File::create truncates the partial and the body is streamed.
BeginFull ==
    /\ partial' = Empty /\ partialTime' = server
    /\ resp' = server /\ resuming' = FALSE
    /\ pc' = "stream"
    /\ UNCHANGED <<upstream, server, dest, destTime, etag, opts, result>>

GetNotModified ==
    /\ pc = "get" /\ NotModified
    /\ Return("cached")
    /\ UNCHANGED <<upstream, server, disk, opts>>

GetOk ==
    /\ pc = "get" /\ ~NotModified
    /\ BeginFull

\* 200 OK with no body: the empty partial is removed and the run fails.
EmptyBody ==
    /\ pc = "range" \/ (pc = "get" /\ ~NotModified)
    /\ partial' = Absent
    /\ Return("failed")
    /\ UNCHANGED <<upstream, server, dest, destTime, partialTime, etag, opts>>

\* 412: the saved ETag is dropped, the run fails.
GetPreconditionFailed ==
    /\ pc = "get"
    /\ etag' = None
    /\ Return("failed")
    /\ UNCHANGED <<upstream, server, dest, destTime, partial, partialTime, opts>>

\* 206: the surviving partial is kept and the tail appended to it.
RangePartialContent ==
    /\ pc = "range" /\ IfRangeHolds
    /\ partial.n < Size[server]
    /\ resp' = server /\ resuming' = TRUE
    /\ pc' = "stream"
    /\ UNCHANGED <<upstream, server, disk, opts, result>>

\* 200: the server's file is not the one the sidecar names, or the server
\* does not do ranges.
RangeOk ==
    /\ pc = "range"
    /\ BeginFull

\* 416: nothing left to send; drop the partial and run fetch() again, which
\* finds no partial and goes to the conditional GET.
RangeNotSatisfiable ==
    /\ pc = "range" /\ IfRangeHolds
    /\ partial.n >= Size[server]
    /\ partial' = Absent
    /\ pc' = "get"
    /\ UNCHANGED <<upstream, server, dest, destTime, partialTime, etag, opts,
                   resp, resuming, result>>

\* One chunk is hashed and written to the partial.
WriteChunk ==
    /\ pc = "stream" /\ partial.n < Size[resp]
    /\ partial' = [n |-> partial.n + 1, from |-> partial.from \cup {resp}]
    /\ partialTime' = server
    /\ UNCHANGED <<upstream, server, dest, destTime, etag, pc, opts, resp,
                   resuming, result>>

EndOfBody ==
    /\ pc = "stream" /\ partial.n >= Size[resp]
    /\ pc' = "verify"
    /\ UNCHANGED <<upstream, server, disk, opts, resp, resuming, result>>

\* The .md5 sidecar is fetched now: it describes what the server holds now.
MustVerify == upstream.md5 /\ opts.verify_md5

Md5Mismatch ==
    /\ pc = "verify" /\ MustVerify
    /\ ~IsCopy(partial, server)
    /\ partial' = Absent
    /\ Return("failed")
    /\ UNCHANGED <<upstream, server, dest, destTime, partialTime, etag, opts>>

\* rename(partial, dest): the file keeps the mtime of its last write.
Rename ==
    /\ pc = "verify"
    /\ MustVerify => IsCopy(partial, server)
    /\ dest' = partial /\ destTime' = partialTime
    /\ partial' = Absent
    /\ pc' = "stamp"
    /\ UNCHANGED <<upstream, server, partialTime, etag, opts, resp, resuming,
                   result>>

\* apply_mtime_if_set: best effort, so the mtime may also stay.
Stamp ==
    /\ pc = "stamp"
    /\ destTime' \in {destTime} \cup (IF upstream.lastMod THEN {resp} ELSE {})
    /\ pc' = "persist"
    /\ UNCHANGED <<upstream, server, dest, partial, partialTime, etag, opts,
                   resp, resuming, result>>

\* Mutant of PersistEtag: the ETag is asked for again once the file is in place.
PersistEtagOfServer ==
    /\ pc = "persist"
    /\ etag' = IF upstream.etag THEN server ELSE etag
    /\ Return(IF resuming THEN "resumed" ELSE "downloaded")
    /\ UNCHANGED <<upstream, server, dest, destTime, partial, partialTime, opts>>

\* persist_etag: written when the response carried an ETag; a failed write
\* is only logged and may leave the old contents or an empty file.
PersistEtag ==
    /\ pc = "persist"
    /\ etag' \in IF upstream.etag THEN {resp, etag, None} ELSE {etag}
    /\ Return(IF resuming THEN "resumed" ELSE "downloaded")
    /\ UNCHANGED <<upstream, server, dest, destTime, partial, partialTime, opts>>

\* Any request can fail, and a body can break off: the run ends with what is
\* on disk.  A failed .md5 request leaves a complete partial behind.
Fail ==
    /\ pc \in {"get", "range", "stream"} \/ (pc = "verify" /\ MustVerify)
    /\ Return("failed")
    /\ UNCHANGED <<upstream, server, disk, opts>>

\* The process is killed.
Crash ==
    /\ pc # "idle"
    /\ Return("killed")
    /\ UNCHANGED <<upstream, server, disk, opts>>

\* What a run does when nothing goes wrong.
RunStep ==
    \/ \E o \in Options : Start(o)
    \/ GetNotModified \/ GetOk
    \/ RangePartialContent \/ RangeOk \/ RangeNotSatisfiable
    \/ WriteChunk \/ EndOfBody
    \/ Md5Mismatch \/ Rename \/ Stamp \/ PersistEtag

Trouble == EmptyBody \/ GetPreconditionFailed \/ Fail \/ Crash

Next == Publish \/ RunStep \/ Trouble

Spec == Init /\ [][Next]_vars

\* fetch-data is run again and again and a run that is not killed goes on.
FairSpec == Spec /\ WF_vars(RunStep)

-----------------------------------------------------------------------------
(* Properties. *)

MaybePub == Pubs \cup {None}

\* A file holds chunks of known publications and is no longer than the longest.
FileOK(f) ==
    /\ f \in [n : Int, from : SUBSET Pubs]
    /\ f.n >= -1
    /\ \E p \in Pubs : f.n <= Size[p]

TypeOK ==
    /\ upstream \in UpstreamKinds
    /\ server \in Pubs
    /\ FileOK(dest) /\ destTime \in MaybePub
    /\ FileOK(partial) /\ partialTime \in MaybePub
    /\ etag \in MaybePub
    /\ pc \in {"idle", "get", "range", "stream", "verify", "stamp", "persist"}
    /\ opts \in FetchOpts
    /\ resp \in MaybePub /\ resuming \in BOOLEAN
    /\ result \in {"none", "cached", "downloaded", "resumed", "failed", "killed"}

\* "A killed process never leaves a half-written file at the final path", and
\* a resume never splices the tail of one publication onto the head of
\* another: <dest> is absent or holds exactly one publication.
DestWhole == dest # Absent => \E p \in Pubs : p <= server /\ IsCopy(dest, p)

\* <dest>.etag never vouches for more than <dest> holds: the file is there and
\* at least as new as the publication the sidecar names.  A 304 answered to
\* that ETag would otherwise keep an older file, or none.
SidecarNotAhead ==
    etag # None =>
        \E p \in Pubs : p >= etag /\ p <= server /\ IsCopy(dest, p)

\* FetchOutcome::Cached, "local file is current", when the server decided on
\* the ETag: <dest> is what the server holds.
EtagCachedIsCurrent ==
    [][(result' = "cached" /\ pc = "get" /\ pc' = "idle"
          /\ upstream.etag /\ etag # None) => IsCopy(dest, server)]_vars

\* Once the upstream rests and runs stop being killed or refused, <dest> gets
\* to be, and stays, what the server holds, whatever an earlier run left
\* behind; for upstreams that send no Last-Modified.
Converges ==
    (~upstream.lastMod /\ <>[][~Publish /\ ~Trouble]_vars)
        => <>[]IsCopy(dest, server)

-----------------------------------------------------------------------------
(* What the fetch core promises to those who read <dest>. *)

Installed ==
    IF dest = Absent THEN None
    ELSE IF \E p \in Pubs : IsCopy(dest, p)
         THEN CHOOSE p \in Pubs : IsCopy(dest, p)
         ELSE -2

Install == INSTANCE AtomicInstall WITH published <- server, file <- Installed

\* Readers of <dest> see nothing or a whole publication, replaced in one step
\* and never by an older one.
ImplementsAtomicInstall == Install!Spec
=============================================================================
