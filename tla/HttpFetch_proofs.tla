-------------------------- MODULE HttpFetch_proofs --------------------------
(***************************************************************************)
(* Proofs about HttpFetch, for every number of publications, every size    *)
(* and every kind of upstream.  The safety results assume NoRollback: the  *)
(* upstream never publishes the same bytes twice.  Without it a partial of *)
(* the first publication can be completed from a later one.                *)
(***************************************************************************)
EXTENDS HttpFetch, TLAPS

\* The file holds every chunk of p and nothing else.
Holds(f, p) == f.n = Size[p] /\ f.from = {p}

-----------------------------------------------------------------------------
(* The inductive invariant.  DestWhole is not inductive: a 206 appends to   *)
(* whatever the partial holds.  What saves it is an ordering of everything  *)
(* on disk: etag <= dest <= partial <= server, each from one publication.   *)
(* The saved ETag matches the server only if all four are the same.         *)

EtagOrdered ==
    /\ etag <= server
    /\ etag # None => dest # Absent

DestOrdered ==
    dest # Absent =>
        \E p \in Pubs : /\ etag <= p /\ p <= server
                        /\ Holds(dest, p)
                        /\ \A q \in partial.from : p <= q

PartialOrdered ==
    /\ \A q \in partial.from : etag <= q /\ q <= server
    /\ partial.n > 0 <=> partial.from # {}

BodyOrdered ==
    /\ pc = "range" => etag # None /\ partial # Absent
    /\ pc \in {"stream", "verify"} =>
          /\ resp \in Pubs /\ resp <= server /\ etag <= resp
          /\ \A p \in dest.from : p <= resp
          /\ partial.n >= 0 /\ partial.n <= Size[resp]
          /\ partial.from \subseteq {resp}
    /\ pc = "verify" => partial.n = Size[resp]
    /\ pc \in {"stamp", "persist"} =>
          /\ resp \in Pubs /\ resp <= server /\ etag <= resp
          /\ Holds(dest, resp)
          /\ partial = Absent

IInv == TypeOK /\ EtagOrdered /\ DestOrdered /\ PartialOrdered /\ BodyOrdered

-----------------------------------------------------------------------------
(* Type correctness needs no assumption on the upstream. *)

\* While a body is read or installed, its publication is known.
BodyKnown == pc \in {"stream", "verify", "stamp", "persist"} => resp \in Pubs

TInv == TypeOK /\ BodyKnown

\* An absent file and an empty one are files, and different.
LEMMA FileFacts ==
    /\ 0 \in Pubs /\ None \notin Pubs
    /\ FileOK(Absent) /\ FileOK(Empty)
    /\ Absent # Empty
<1>1. 0 \in Pubs /\ None \notin Pubs /\ Size[0] \in Nat \ {0}
  BY FetchAssumption DEF Pubs, None
<1> QED
  BY <1>1 DEF FileOK, Absent, Empty, Pubs

\* Every step keeps the types.
LEMMA TypeStep == TInv /\ [Next]_vars => TInv'
<1> SUFFICES ASSUME TInv, [Next]_vars PROVE TInv'
  OBVIOUS
<1> USE FetchAssumption, FileFacts DEF TInv, TypeOK, BodyKnown, MaybePub
<1>1. CASE Publish
  BY <1>1 DEF Publish, disk, Pubs
<1>2. ASSUME NEW o \in Options, Start(o) PROVE TInv'
  BY <1>2 DEF Start, FetchOpts
<1>3. CASE GetNotModified
  BY <1>3 DEF GetNotModified, Return, disk
<1>4. CASE GetOk
  BY <1>4 DEF GetOk, BeginFull
<1>5. CASE EmptyBody
  BY <1>5 DEF EmptyBody, Return
<1>6. CASE GetPreconditionFailed
  BY <1>6 DEF GetPreconditionFailed, Return
<1>7. CASE RangePartialContent
  BY <1>7 DEF RangePartialContent, disk
<1>8. CASE RangeOk
  BY <1>8 DEF RangeOk, BeginFull
<1>9. CASE RangeNotSatisfiable
  BY <1>9 DEF RangeNotSatisfiable
<1>10. CASE WriteChunk
  <2>1. resp \in Pubs /\ Size[resp] \in Nat
    BY <1>10 DEF WriteChunk
  <2>2. FileOK(partial')
    BY <1>10, <2>1 DEF WriteChunk, FileOK
  <2> QED
    BY <1>10, <2>1, <2>2 DEF WriteChunk
<1>11. CASE EndOfBody
  BY <1>11 DEF EndOfBody, disk
<1>12. CASE Md5Mismatch
  BY <1>12 DEF Md5Mismatch, Return
<1>13. CASE Rename
  BY <1>13 DEF Rename
<1>14. CASE Stamp
  BY <1>14 DEF Stamp
<1>15. CASE PersistEtag
  BY <1>15 DEF PersistEtag, Return
<1>16. CASE Fail
  BY <1>16 DEF Fail, Return, disk
<1>17. CASE Crash
  BY <1>17 DEF Crash, Return, disk
<1>18. CASE UNCHANGED vars
  BY <1>18 DEF vars
<1> QED
  BY <1>1, <1>2, <1>3, <1>4, <1>5, <1>6, <1>7, <1>8, <1>9, <1>10, <1>11,
     <1>12, <1>13, <1>14, <1>15, <1>16, <1>17, <1>18
     DEF Next, RunStep, Trouble

\* Every variable of the download core keeps its type, and no file grows past
\* the longest body, whatever the upstream publishes and wherever runs die.
THEOREM TypeCorrect == Spec => []TypeOK
<1>1. Init => TInv
  <2> SUFFICES ASSUME Init PROVE TInv
    OBVIOUS
  <2>1. opts \in FetchOpts /\ resuming \in BOOLEAN
    BY DEF Init, FetchOpts
  <2> QED
    BY <2>1, FetchAssumption, FileFacts DEF Init, TInv, TypeOK, BodyKnown, MaybePub
<1> QED
  BY <1>1, TypeStep, PTL DEF Spec, TInv

-----------------------------------------------------------------------------
(* The order on disk. *)

\* The order holds of a fresh directory.
LEMMA OrderInit == Init => IInv
<1> SUFFICES ASSUME Init PROVE IInv
  OBVIOUS
<1>1. TypeOK
  <2>1. opts \in FetchOpts /\ resuming \in BOOLEAN
    BY DEF Init, FetchOpts
  <2> QED
    BY <2>1, FetchAssumption, FileFacts DEF Init, TypeOK, MaybePub
<1>2. EtagOrdered /\ DestOrdered /\ PartialOrdered /\ BodyOrdered
  BY DEF Init, EtagOrdered, DestOrdered, PartialOrdered, BodyOrdered, None, Absent
<1> QED
  BY <1>1, <1>2 DEF IInv

\* A saved ETag that matches the server's means that <dest>, and whatever the
\* partial holds, come from what the server holds.
LEMMA MatchingEtag ==
    ASSUME NoRollback, IInv, etag # None, Release[etag] = Release[server]
    PROVE  /\ etag = server
           /\ Holds(dest, server)
           /\ partial.from \subseteq {server}
<1>1. etag \in Pubs /\ server \in Pubs /\ etag = server
  BY DEF IInv, TypeOK, MaybePub, NoRollback
<1>2. PICK p \in Pubs : etag <= p /\ p <= server /\ Holds(dest, p)
  BY DEF IInv, EtagOrdered, DestOrdered
<1>3. p = server
  BY <1>1, <1>2 DEF Pubs
<1>4. \A q \in partial.from : q \in Pubs /\ server <= q /\ q <= server
  BY <1>1 DEF IInv, PartialOrdered, TypeOK, FileOK
<1> QED
  BY <1>1, <1>2, <1>3, <1>4 DEF Pubs

\* Every step keeps the order of sidecar, destination, partial and server.
LEMMA OrderStep == NoRollback /\ IInv /\ [Next]_vars => IInv'
<1> SUFFICES ASSUME NoRollback, IInv, [Next]_vars PROVE IInv'
  OBVIOUS
<1>a. TypeOK' /\ BodyKnown'
  <2>1. TInv
    BY DEF IInv, TInv, BodyKnown, BodyOrdered
  <2> QED
    BY <2>1, TypeStep DEF TInv
<1>b. /\ server \in Pubs /\ server' \in Pubs
      /\ etag \in MaybePub /\ etag' \in MaybePub
      /\ FileOK(dest) /\ FileOK(partial)
  BY <1>a DEF IInv, TypeOK
<1>c. Pubs \subseteq Int /\ MaybePub \subseteq Int /\ None \in Int /\ \A p \in Pubs : None < p
  BY FetchAssumption DEF Pubs, MaybePub, None
<1>d. dest.from \subseteq Pubs /\ partial.from \subseteq Pubs /\ partial.n \in Int
  BY <1>b DEF FileOK
<1>e. \A p \in dest.from : Holds(dest, p) /\ etag <= p /\ p <= server
                           /\ \A q \in partial.from : p <= q
  <2>1. CASE dest = Absent
    BY <2>1 DEF Absent
  <2>2. CASE dest # Absent
    BY <2>2 DEF IInv, DestOrdered, Holds
  <2> QED
    BY <2>1, <2>2
<1>f. dest # Absent => \E p \in Pubs : p \in dest.from
  BY DEF IInv, DestOrdered, Holds
<1>g. \A p \in Pubs : Size[p] \in Nat /\ Size[p] > 0
  BY FetchAssumption
<1> DEFINE Rest == EtagOrdered /\ DestOrdered /\ PartialOrdered /\ BodyOrdered
<1> SUFFICES Rest'
  BY <1>a DEF IInv
<1> USE <1>b, <1>c, <1>d, <1>g DEF IInv, EtagOrdered, PartialOrdered, BodyOrdered
<1>1. CASE Publish
  <2>1. /\ server' \in Int /\ server' = server + 1
        /\ UNCHANGED <<dest, partial, etag, pc, resp>>
    BY <1>1 DEF Publish, disk
  <2>a. \A p \in MaybePub \cup Pubs : p <= server => p <= server'
    BY <2>1
  <2>2. DestOrdered'
    BY <1>e, <1>f, <2>1, <2>a DEF DestOrdered, Holds
  <2>3. EtagOrdered' /\ PartialOrdered'
    BY <2>1, <2>a
  <2>4. BodyOrdered'
    BY <2>1, <2>a DEF Holds
  <2> QED
    BY <2>2, <2>3, <2>4
<1>2. ASSUME NEW o \in Options, Start(o) PROVE Rest'
  BY <1>2 DEF Start, Absent, DestOrdered
<1>3. CASE GetNotModified
  BY <1>3 DEF GetNotModified, Return, disk, DestOrdered
<1>4. CASE BeginFull
  <2>1. /\ partial'.from = {} /\ partial'.n = 0
        /\ resp' = server /\ pc' = "stream"
        /\ UNCHANGED <<server, dest, etag>>
    BY <1>4 DEF BeginFull, Empty
  <2>2. DestOrdered'
    BY <1>e, <1>f, <2>1 DEF DestOrdered, Holds
  <2>3. EtagOrdered' /\ PartialOrdered'
    BY <2>1
  <2>4. BodyOrdered'
    BY <1>e, <2>1
  <2> QED
    BY <2>2, <2>3, <2>4
<1>5. CASE EmptyBody
  BY <1>5 DEF EmptyBody, Return, Absent, DestOrdered
<1>6. CASE GetPreconditionFailed
  <2>1. /\ etag' = None /\ pc' = "idle"
        /\ UNCHANGED <<server, dest, partial>>
    BY <1>6 DEF GetPreconditionFailed, Return
  <2>2. DestOrdered'
    BY <1>e, <1>f, <2>1 DEF DestOrdered, Holds
  <2>a. None <= server /\ \A q \in Pubs : None <= q
    BY <1>b, <1>c
  <2>3. EtagOrdered' /\ PartialOrdered'
    BY <2>1, <2>a
  <2>4. BodyOrdered'
    BY <1>e, <2>1
  <2> QED
    BY <2>2, <2>3, <2>4
<1>7. CASE RangePartialContent
  <2>1. /\ resp' = server /\ pc' = "stream"
        /\ UNCHANGED <<server, dest, partial, etag>>
        /\ partial.n < Size[server]
        /\ etag # None /\ partial # Absent
        /\ Release[etag] = Release[server]
    BY <1>7 DEF RangePartialContent, disk, IfRangeHolds
  <2>2. etag = server /\ Holds(dest, server) /\ partial.from \subseteq {server}
    BY <2>1, MatchingEtag
  <2>3. partial.n >= 0
    BY <2>1 DEF FileOK, Absent
  <2>4. DestOrdered'
    BY <1>e, <1>f, <2>1 DEF DestOrdered, Holds
  <2> QED
    BY <2>1, <2>2, <2>3, <2>4 DEF Holds
<1>9. CASE RangeNotSatisfiable
  BY <1>9 DEF RangeNotSatisfiable, Absent, DestOrdered
<1>10. CASE WriteChunk
  <2>1. /\ partial'.n = partial.n + 1 /\ partial'.from = partial.from \cup {resp}
        /\ partial.n < Size[resp] /\ pc = "stream"
        /\ UNCHANGED <<server, dest, etag, pc, resp>>
    BY <1>10 DEF WriteChunk
  <2>2. partial'.from = {resp} /\ resp \in Pubs
    BY <2>1
  <2>3. DestOrdered'
    BY <1>e, <1>f, <2>1, <2>2 DEF DestOrdered, Holds
  <2>4. PartialOrdered'
    BY <2>1, <2>2
  <2>5. BodyOrdered'
    BY <2>1, <2>2
  <2> QED
    BY <2>1, <2>3, <2>4, <2>5
<1>11. CASE EndOfBody
  <2>1. /\ pc = "stream" /\ pc' = "verify" /\ partial.n >= Size[resp]
        /\ UNCHANGED <<server, dest, etag, partial, resp>>
    BY <1>11 DEF EndOfBody, disk
  <2>2. DestOrdered'
    BY <1>e, <1>f, <2>1 DEF DestOrdered, Holds
  <2>3. EtagOrdered' /\ PartialOrdered'
    BY <2>1
  <2>a. partial.n = Size[resp]
    <3>1. resp \in Pubs /\ partial.n <= Size[resp]
      BY <2>1
    <3> HIDE DEF IInv, BodyOrdered, PartialOrdered, EtagOrdered
    <3>2. Size[resp] \in Int
      BY <3>1, <1>g
    <3> QED
      BY <2>1, <3>1, <3>2
  <2>4. BodyOrdered'
    BY <2>1, <2>a
  <2> QED
    BY <2>2, <2>3, <2>4
<1>12. CASE Md5Mismatch
  BY <1>12 DEF Md5Mismatch, Return, Absent, DestOrdered
<1>13. CASE Rename
  <2>1. /\ pc = "verify" /\ pc' = "stamp" /\ dest' = partial /\ partial' = Absent
        /\ UNCHANGED <<server, etag, resp>>
    BY <1>13 DEF Rename
  <2>2. resp \in Pubs /\ Holds(partial, resp)
    <3>1. resp \in Pubs /\ partial.n = Size[resp] /\ partial.n > 0
      BY <2>1, <1>g
    <3>2. partial.from # {} /\ partial.from \subseteq {resp}
      BY <2>1, <3>1
    <3> QED
      BY <3>1, <3>2 DEF Holds
  <2>3. dest' # Absent
    BY <2>1, <2>2 DEF Holds, Absent
  <2>4. DestOrdered'
    BY <1>e, <1>f, <2>1, <2>2 DEF DestOrdered, Holds, Absent
  <2> QED
    BY <1>e, <2>1, <2>2, <2>3, <2>4 DEF Absent, Holds
<1>14. CASE Stamp
  BY <1>14 DEF Stamp, DestOrdered
<1>15. CASE PersistEtag
  <2>1. /\ pc = "persist" /\ pc' = "idle" /\ etag' \in {resp, etag, None}
        /\ UNCHANGED <<server, dest, partial>>
    BY <1>15 DEF PersistEtag, Return
  <2>2. resp \in Pubs /\ Holds(dest, resp) /\ resp <= server /\ etag <= resp
        /\ partial.from = {} /\ etag' <= resp
    BY <2>1 DEF Absent
  <2>3. DestOrdered'
    BY <1>e, <1>f, <2>1, <2>2 DEF DestOrdered, Holds
  <2>4. dest # Absent
    BY <2>2 DEF Holds, Absent
  <2> QED
    BY <2>1, <2>2, <2>3, <2>4
<1>16. CASE Fail \/ Crash
  BY <1>16 DEF Fail, Crash, Return, disk, DestOrdered
<1>18. CASE UNCHANGED vars
  BY <1>18 DEF vars, DestOrdered
<1> QED
  BY <1>1, <1>2, <1>3, <1>4, <1>5, <1>6, <1>7, <1>9, <1>10, <1>11,
     <1>12, <1>13, <1>14, <1>15, <1>16, <1>18
     DEF Next, RunStep, Trouble, GetOk, RangeOk

\* The order holds at every step.
LEMMA Ordered ==
    ASSUME NoRollback
    PROVE  Spec => []IInv
<1>1. IInv /\ [Next]_vars => IInv'
  BY OrderStep
<1> QED
  BY <1>1, OrderInit, PTL DEF Spec

\* A file that holds a publication is a copy of it.
LEMMA HoldsIsCopy ==
    ASSUME NEW f, NEW p \in Pubs, Holds(f, p)
    PROVE  IsCopy(f, p)
BY DEF Holds, IsCopy

-----------------------------------------------------------------------------
(* What follows from the order. *)

\* Killed or failed runs, resumes and publications in any order leave <dest>
\* absent or equal to one whole publication (http.rs: "a killed process never
\* leaves a half-written file at the final path"; no splice on resume).
THEOREM DestIsWhole == NoRollback => (Spec => []DestWhole)
<1> SUFFICES ASSUME NoRollback PROVE Spec => []DestWhole
  OBVIOUS
<1>1. IInv => DestWhole
  BY HoldsIsCopy DEF IInv, DestOrdered, DestWhole
<1> QED
  BY <1>1, Ordered, PTL

\* The ETag sidecar never names a newer publication than the one installed, and
\* never one while no file is installed.
THEOREM SidecarIsNotAhead == NoRollback => (Spec => []SidecarNotAhead)
<1> SUFFICES ASSUME NoRollback PROVE Spec => []SidecarNotAhead
  OBVIOUS
<1>1. ASSUME IInv, etag # None
      PROVE  \E p \in Pubs : p >= etag /\ p <= server /\ IsCopy(dest, p)
  <2>1. PICK p \in Pubs : etag <= p /\ p <= server /\ Holds(dest, p)
    BY <1>1 DEF IInv, EtagOrdered, DestOrdered
  <2>2. etag \in Int /\ p \in Int
    BY <1>1 DEF IInv, TypeOK, MaybePub, Pubs, None
  <2> QED
    BY <2>1, <2>2, HoldsIsCopy
<1>2. IInv => SidecarNotAhead
  BY <1>1 DEF SidecarNotAhead
<1> QED
  BY <1>2, Ordered, PTL

\* When the server answers 304 to the saved ETag, the Cached outcome is right:
\* <dest> is what the server holds at that moment.
THEOREM EtagCachedCorrect == NoRollback => (Spec => EtagCachedIsCurrent)
<1> SUFFICES ASSUME NoRollback PROVE Spec => EtagCachedIsCurrent
  OBVIOUS
<1> DEFINE Step == (result' = "cached" /\ pc = "get" /\ pc' = "idle"
                      /\ upstream.etag /\ etag # None) => IsCopy(dest, server)
<1>1. ASSUME IInv, [Next]_vars PROVE [Step]_vars
  <2> SUFFICES ASSUME Next, result' = "cached", pc = "get", pc' = "idle",
                      upstream.etag, etag # None
               PROVE  IsCopy(dest, server)
    BY <1>1
  <2>1. GetNotModified
    BY DEF Next, RunStep, Trouble, Publish, Start, GetOk, EmptyBody, BeginFull,
           GetPreconditionFailed, RangePartialContent, RangeOk,
           RangeNotSatisfiable, WriteChunk, EndOfBody, Md5Mismatch, Rename,
           Stamp, PersistEtag, Fail, Crash, Return
  <2>2. Release[etag] = Release[server]
    BY <2>1 DEF GetNotModified, NotModified
  <2>3. server \in Pubs
    BY <1>1 DEF IInv, TypeOK
  <2> QED
    BY <1>1, <2>2, <2>3, MatchingEtag, HoldsIsCopy
<1>2. Spec => [][Step]_vars
  BY <1>1, Ordered, PTL DEF Spec
<1> QED
  BY <1>2 DEF EtagCachedIsCurrent

-----------------------------------------------------------------------------
(* Refinement of AtomicInstall. *)

\* The publication of a destination that holds it is the installed one.
LEMMA InstalledIs ==
    ASSUME NoRollback, NEW p \in Pubs, Holds(dest, p)
    PROVE  Installed = p
<1>1. dest # Absent
  BY FetchAssumption DEF Holds, Absent
<1>2. \A q \in Pubs : IsCopy(dest, q) => q = p
  BY DEF Holds, IsCopy, NoRollback
<1> QED
  BY <1>1, <1>2, HoldsIsCopy DEF Installed

\* Without a destination nothing is installed.
LEMMA InstalledAbsent == dest = Absent => Installed = None
BY DEF Installed

\* What is installed is not ahead of the server.
LEMMA InstalledRange ==
    ASSUME NoRollback, IInv
    PROVE  Installed \in Int /\ Installed >= None /\ Installed <= server
<1>1. server \in Pubs /\ Pubs \subseteq Int /\ \A p \in Pubs : p >= None /\ None \in Int
  BY FetchAssumption DEF IInv, TypeOK, Pubs, None
<1>2. CASE dest = Absent
  BY <1>1, <1>2, InstalledAbsent
<1>3. CASE dest # Absent
  BY <1>1, <1>3, InstalledIs DEF IInv, DestOrdered
<1> QED
  BY <1>2, <1>3

\* Seen from <dest>, the whole download core is an atomic install: a reader
\* finds no file or one whole publication, replaced in one step and never by
\* an older one.
THEOREM RefinesAtomicInstall == NoRollback => (Spec => ImplementsAtomicInstall)
<1> SUFFICES ASSUME NoRollback PROVE Spec => Install!Spec
  BY DEF ImplementsAtomicInstall
<1>1. Init => Install!Init
  BY InstalledAbsent DEF Init, Install!Init, None
<1>2. ASSUME IInv, [Next]_vars PROVE [Install!Next]_Install!absVars
  <2>1. IInv'
    BY <1>2, OrderStep
  <2>2. CASE Publish
    <3>1. Installed' = Installed
      BY <2>2 DEF Publish, disk, Installed, IsCopy
    <3> QED
      BY <2>2, <3>1 DEF Publish, Install!Next, Install!Publish
  <2>3. CASE Rename
    <3>1. resp \in Pubs /\ resp <= server /\ Holds(dest', resp)
          /\ UNCHANGED <<server, resp>>
      BY <2>1, <2>3 DEF Rename, IInv, BodyOrdered, Holds
    <3>2. Installed' = resp
      <4>1. dest' # Absent
        BY <3>1, FetchAssumption DEF Holds, Absent
      <4>2. \A q \in Pubs : IsCopy(dest', q) <=> q = resp
        BY <3>1 DEF Holds, IsCopy, NoRollback
      <4> QED
        BY <3>1, <4>1, <4>2 DEF Installed, IsCopy
    <3>3. Installed <= resp
      <4>1. CASE dest = Absent
        BY <4>1, <3>1, InstalledAbsent DEF None, Pubs
      <4>2. CASE dest # Absent
        <5>1. PICK p \in Pubs : Holds(dest, p)
          BY <1>2, <4>2 DEF IInv, DestOrdered
        <5>2. p <= resp
          BY <1>2, <2>3, <5>1 DEF Rename, IInv, BodyOrdered, Holds
        <5> QED
          BY <5>1, <5>2, InstalledIs
      <4> QED
        BY <4>1, <4>2
    <3>4. server \in Pubs /\ Installed \in Int
      BY <1>2, InstalledRange DEF IInv, TypeOK
    <3> QED
      BY <3>1, <3>2, <3>3, <3>4 DEF Install!Next, Install!Install, Pubs
  <2>4. ASSUME UNCHANGED <<server, dest>> PROVE [Install!Next]_Install!absVars
    BY <2>4 DEF Install!absVars, Installed, IsCopy
  <2> QED
    BY <1>2, <2>2, <2>3, <2>4
       DEF Next, RunStep, Trouble, Start, GetNotModified, GetOk, EmptyBody,
           BeginFull, GetPreconditionFailed, RangePartialContent, RangeOk,
           RangeNotSatisfiable, WriteChunk, EndOfBody, Md5Mismatch, Stamp,
           PersistEtag, Fail, Crash, disk, vars
<1> QED
  BY <1>1, <1>2, Ordered, PTL DEF Spec, Install!Spec
=============================================================================
