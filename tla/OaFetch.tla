------------------------------ MODULE OaFetch ------------------------------
(***************************************************************************)
(* The OpenAddresses download path                                         *)
(* (server/src/fetcher/sources/openaddresses.rs).  It does not go through  *)
(* http.rs: it keeps one sidecar, <dest>.s3meta, written before the rename, *)
(* and a run downloads its rows concurrently.  Rows that name the same     *)
(* source have the same <dest>, <dest>.partial and <dest>.s3meta, because  *)
(* the listings of several prefixes are concatenated, not merged; the      *)
(* model has one <dest> and the rows of a run that write to it.            *)
(*                                                                         *)
(* Files are inodes: a task that has a file open goes on writing to it     *)
(* after it was renamed or truncated by another one.                       *)
(***************************************************************************)
EXTENDS Integers, FiniteSets

CONSTANTS
    LastPub,  \* bound: jobs of the source are numbered 0..LastPub
    Size,     \* chunks in the object of each job
    Tasks,    \* the download tasks that may share <dest>
    RowSets,  \* which of them a run may start
    Options   \* [force, resume] of a run

Pubs == 0..LastPub

ASSUME OaAssumption ==
    /\ LastPub \in Nat
    /\ Size \in [Pubs -> Nat \ {0}]
    /\ IsFiniteSet(Tasks)
    /\ RowSets \subseteq (SUBSET Tasks) \ {{}}
    /\ Options \subseteq [force : BOOLEAN, resume : BOOLEAN]

None == -1
Garbled == -2      \* a chunk that is not where it belongs

\* Positions in a file.  Appending tasks can make it longer than its object.
Longest == CHOOSE n \in {Size[p] : p \in Pubs} : \A p \in Pubs : Size[p] <= n
Chunks == 1..(Longest * (1 + Cardinality(Tasks)))
Blank == [i \in Chunks |-> None]

\* Enough inodes for <dest>, <dest>.partial, every open file and a new one.
Inodes == 1..(2 + Cardinality(Tasks))

VARIABLES
    server,   \* the newest job
    inode,    \* contents of every inode
    dest,     \* inode of <dest>, or None
    partial,  \* inode of <dest>.partial, or None
    meta,     \* job whose etag and length <dest>.s3meta holds, or None
    opts,     \* options of the run
    row,      \* the job the rows of the run name
    pc,       \* where each task is
    saved,    \* the sidecar as the task last read it
    fd,       \* the inode the task has open
    pos,      \* the chunk of the body the task writes next
    result    \* FetchOutcome of each task

names == <<dest, partial, meta>>
run   == <<opts, row>>
tvars == <<pc, saved, fd, pos, result>>
vars  == <<server, inode, dest, partial, meta, opts, row, pc, saved, fd, pos, result>>

Length(f) ==
    IF \A i \in Chunks : f[i] = None THEN 0
    ELSE CHOOSE i \in Chunks : f[i] # None /\ \A j \in Chunks : j > i => f[j] = None

IsCopy(f, p) == \A i \in Chunks : f[i] = IF i <= Size[p] THEN p ELSE None

Init ==
    /\ server = 0
    /\ inode = [i \in Inodes |-> Blank]
    /\ dest = None /\ partial = None /\ meta = None
    /\ opts = [force |-> FALSE, resume |-> TRUE] /\ row = 0
    /\ pc = [t \in Tasks |-> "idle"]
    /\ saved = [t \in Tasks |-> None]
    /\ fd = [t \in Tasks |-> None]
    /\ pos = [t \in Tasks |-> 0]
    /\ result = [t \in Tasks |-> "none"]

Goto(t, where) == pc' = [pc EXCEPT ![t] = where]

Finish(t, outcome) ==
    /\ Goto(t, "idle")
    /\ fd' = [fd EXCEPT ![t] = None]
    /\ saved' = [saved EXCEPT ![t] = None]
    /\ pos' = [pos EXCEPT ![t] = 0]
    /\ result' = [result EXCEPT ![t] = outcome]

Publish ==
    /\ server < LastPub
    /\ server' = server + 1
    /\ UNCHANGED <<inode, names, run, tvars>>

\* fetch_openaddresses: list the rows, spawn a task for each.
StartRun(o, rows) ==
    /\ \A t \in Tasks : pc[t] = "idle"
    /\ opts' = o /\ row' = server
    /\ pc' = [t \in Tasks |-> IF t \in rows THEN "begin" ELSE "idle"]
    /\ UNCHANGED <<server, inode, names, saved, fd, pos, result>>

\* fetch_one: --force wipes both sidecars; otherwise a file with a sidecar is
\* checked with head_object.
Begin(t) ==
    /\ pc[t] = "begin"
    /\ meta' = IF opts.force THEN None ELSE meta
    /\ partial' = IF opts.force THEN None ELSE partial
    /\ Goto(t, IF ~opts.force /\ dest # None /\ meta # None THEN "head" ELSE "decide")
    /\ saved' = [saved EXCEPT ![t] = meta']
    /\ UNCHANGED <<server, inode, dest, run, fd, pos, result>>

\* head_object answers with the saved etag: the file is taken to be current.
HeadMatches(t) ==
    /\ pc[t] = "head" /\ saved[t] = row
    /\ Finish(t, "cached")
    /\ UNCHANGED <<server, inode, names, run>>

\* Another etag, or head_object fails: go on with the download.
HeadDiffers(t) ==
    /\ pc[t] = "head"
    /\ Goto(t, "decide")
    /\ UNCHANGED <<server, inode, names, run, saved, fd, pos, result>>

\* A leftover partial is resumed if the sidecar is there and the partial is
\* shorter than the sidecar says; otherwise it is removed.  Under --no-resume
\* it stays for File::create to truncate.
Decide(t) ==
    LET size    == Length(inode[partial])
        leftover == opts.resume /\ ~opts.force /\ partial # None
        usable  == leftover /\ meta # None /\ size > 0 /\ size < Size[meta]
    IN  /\ pc[t] = "decide"
        /\ saved' = [saved EXCEPT ![t] = meta]
        /\ partial' = IF leftover /\ ~usable THEN None ELSE partial
        /\ pos' = [pos EXCEPT ![t] = IF usable THEN size + 1 ELSE 1]
        /\ Goto(t, IF usable THEN "range" ELSE "get")
        /\ UNCHANGED <<server, inode, dest, meta, run, fd, result>>

\* Mutant of RangeOk: the ranged GET is sent without if_match.
RangeUnchecked(t) ==
    /\ pc[t] = "range"
    /\ partial # None
    /\ fd' = [fd EXCEPT ![t] = partial]
    /\ Goto(t, "append")
    /\ UNCHANGED <<server, inode, names, run, saved, pos, result>>

\* 206: if_match held and the partial is still there to append to.
RangeOk(t) ==
    /\ pc[t] = "range"
    /\ saved[t] = row /\ partial # None
    /\ fd' = [fd EXCEPT ![t] = partial]
    /\ Goto(t, "append")
    /\ UNCHANGED <<server, inode, names, run, saved, pos, result>>

\* resume_s3 fails (412, network, the partial is gone, a broken body): the
\* partial is removed and the whole object downloaded.
ResumeFails(t) ==
    /\ pc[t] \in {"range", "append"} \/ (pc[t] = "rename-resumed" /\ partial = None)
    /\ partial' = None
    /\ fd' = [fd EXCEPT ![t] = None]
    /\ pos' = [pos EXCEPT ![t] = 1]
    /\ Goto(t, "get")
    /\ UNCHANGED <<server, inode, dest, meta, run, saved, result>>

InUse(i) == i \in {dest, partial} \/ \E t \in Tasks : fd[t] = i

\* full_get_to_file: the object is requested and File::create truncates the
\* partial, or makes a new one.
Get(t) ==
    LET target == IF partial # None THEN partial
                  ELSE CHOOSE i \in Inodes : ~InUse(i)
    IN  /\ pc[t] = "get"
        /\ partial' = target
        /\ inode' = [inode EXCEPT ![target] = Blank]
        /\ fd' = [fd EXCEPT ![t] = target]
        /\ pos' = [pos EXCEPT ![t] = 1]
        /\ Goto(t, "stream")
        /\ UNCHANGED <<server, dest, meta, run, saved, result>>

\* One chunk: at the task's own offset, or at the end of a file opened for
\* append.
WriteChunk(t) ==
    LET at   == IF pc[t] = "append" THEN Length(inode[fd[t]]) + 1 ELSE pos[t]
        cell == IF at = pos[t] THEN row ELSE Garbled
    IN  /\ pc[t] \in {"stream", "append"}
        /\ pos[t] <= Size[row]
        /\ inode' = [inode EXCEPT ![fd[t]][at] = cell]
        /\ pos' = [pos EXCEPT ![t] = pos[t] + 1]
        /\ UNCHANGED <<server, names, run, pc, saved, fd, result>>

\* The body is complete.  A resumed one that does not have the length the
\* sidecar says is a failed resume.
EndOfBody(t) ==
    /\ pc[t] \in {"stream", "append"}
    /\ pos[t] > Size[row]
    /\ pc[t] = "append" => Size[row] = Size[saved[t]]
    /\ Goto(t, IF pc[t] = "stream" THEN "meta" ELSE "rename-resumed")
    /\ fd' = [fd EXCEPT ![t] = None]
    /\ UNCHANGED <<server, inode, names, run, saved, pos, result>>

\* The sidecar is written; an error is ignored and may leave it as it was or
\* unreadable.
WriteMeta(t) ==
    /\ pc[t] = "meta"
    /\ meta' \in {row, meta, None}
    /\ Goto(t, "rename")
    /\ UNCHANGED <<server, inode, dest, partial, run, saved, fd, pos, result>>

\* Mutant of Rename: the file is moved in before the body is complete.
RenameEarly(t) ==
    /\ pc[t] \in {"stream", "rename", "rename-resumed"} /\ partial # None
    /\ dest' = partial /\ partial' = None
    /\ Finish(t, IF pc[t] = "rename" THEN "downloaded" ELSE "resumed")
    /\ UNCHANGED <<server, inode, meta, run>>

\* Mutant of Rename: the old <dest> is removed first.
RenameRemovesFirst(t) ==
    /\ pc[t] \in {"rename", "rename-resumed"} /\ partial # None
    /\ IF dest # None
       THEN /\ dest' = None
            /\ UNCHANGED <<partial, tvars>>
       ELSE /\ dest' = partial /\ partial' = None
            /\ Finish(t, IF pc[t] = "rename" THEN "downloaded" ELSE "resumed")
    /\ UNCHANGED <<server, inode, meta, run>>

\* rename(partial, dest), whatever file the name partial stands for now.
Rename(t) ==
    /\ pc[t] \in {"rename", "rename-resumed"} /\ partial # None
    /\ dest' = partial /\ partial' = None
    /\ Finish(t, IF pc[t] = "rename" THEN "downloaded" ELSE "resumed")
    /\ UNCHANGED <<server, inode, meta, run>>

\* The object cannot be had or breaks off, or the partial was renamed away.
Fail(t) ==
    /\ pc[t] \in {"get", "stream"} \/ (pc[t] = "rename" /\ partial = None)
    /\ Finish(t, "failed")
    /\ UNCHANGED <<server, inode, names, run>>

\* The process is killed, with every task of the run.
Crash ==
    /\ \E t \in Tasks : pc[t] # "idle"
    /\ pc' = [t \in Tasks |-> "idle"]
    /\ fd' = [t \in Tasks |-> None]
    /\ saved' = [t \in Tasks |-> None]
    /\ pos' = [t \in Tasks |-> 0]
    /\ result' = [t \in Tasks |-> IF pc[t] = "idle" THEN result[t] ELSE "killed"]
    /\ UNCHANGED <<server, inode, names, run>>

TaskStep(t) ==
    \/ Begin(t) \/ HeadMatches(t) \/ HeadDiffers(t) \/ Decide(t)
    \/ RangeOk(t) \/ ResumeFails(t) \/ Get(t) \/ WriteChunk(t) \/ EndOfBody(t)
    \/ WriteMeta(t) \/ Rename(t) \/ Fail(t)

Next ==
    \/ Publish
    \/ \E o \in Options, rows \in RowSets : StartRun(o, rows)
    \/ \E t \in Tasks : TaskStep(t)
    \/ Crash

Spec == Init /\ [][Next]_vars

-----------------------------------------------------------------------------
(* Properties. *)

MaybePub == Pubs \cup {None}

TypeOK ==
    /\ server \in Pubs /\ row \in Pubs /\ meta \in MaybePub
    /\ inode \in [Inodes -> [Chunks -> MaybePub \cup {Garbled}]]
    /\ dest \in Inodes \cup {None} /\ partial \in Inodes \cup {None}
    /\ opts \in [force : BOOLEAN, resume : BOOLEAN]
    /\ pc \in [Tasks -> {"idle", "begin", "head", "decide", "range", "append",
                         "get", "stream", "meta", "rename", "rename-resumed"}]
    /\ saved \in [Tasks -> MaybePub]
    /\ fd \in [Tasks -> Inodes \cup {None}]
    /\ pos \in [Tasks -> Nat]
    /\ result \in [Tasks -> {"none", "cached", "downloaded", "resumed", "failed", "killed"}]

\* The file at the final path is the whole object of one job, never a
\* half-written one and never two spliced together.
DestWhole ==
    dest # None => \E p \in Pubs : p <= server /\ IsCopy(inode[dest], p)

\* A task that reports a download or a resume has installed the object of its
\* row, even when the partial was begun by an earlier run for another job.
FinishedIsInstalled ==
    [][\A t \in Tasks : (pc[t] # "idle" /\ pc'[t] = "idle"
                           /\ result'[t] \in {"downloaded", "resumed"})
          => IsCopy(inode'[dest'], row)]_vars

Installed ==
    IF dest = None THEN None
    ELSE IF \E p \in Pubs : IsCopy(inode[dest], p)
         THEN CHOOSE p \in Pubs : IsCopy(inode[dest], p)
         ELSE Garbled

Install == INSTANCE AtomicInstall WITH published <- server, file <- Installed

\* Readers of <dest> see nothing or a whole object, replaced in one step and
\* never by that of an older job.
ImplementsAtomicInstall == Install!Spec

\* The state has its type in every run, and <dest> is one whole object: a resume
\* never appends the bytes of one job to those of another.
InstalledWhole == TypeOK /\ DestWhole
=============================================================================
