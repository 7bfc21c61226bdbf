--------------------------- MODULE OaFetch_proofs ---------------------------
(***************************************************************************)
(* Proofs about OaFetch, for every number of jobs, every size and any      *)
(* number of tasks.  The safety results assume OneTaskPerDest: of the      *)
(* tasks of a run only one writes to <dest>.  The code does not see to it: *)
(* overlapping prefixes list a source twice, and the rows are not          *)
(* deduplicated (openaddresses.rs:221-225).  Then two tasks write to one   *)
(* partial, <dest> can be garbled, and none of the three results holds.    *)
(***************************************************************************)
EXTENDS OaFetch, FiniteSetTheorems, WellFoundedInduction, TLAPS

\* A run has one row for each destination.
OneTaskPerDest == \A rows \in RowSets : \A s, t \in rows : s = t

\* The file holds the first n chunks of p and nothing else.
Prefix(f, p, n) == /\ n <= Size[p]
                   /\ \A i \in Chunks : f[i] = IF i <= n THEN p ELSE None

-----------------------------------------------------------------------------
(* The inductive invariant.  DestWhole is not inductive: a 206 appends to   *)
(* whatever the partial holds, and Rename installs it.  What saves it is an *)
(* order: meta <= the job of the partial <= row, so a sidecar that matches  *)
(* the row vouches for the partial, although it was written for <dest>.     *)

Ordered ==
    /\ row <= server /\ meta <= row
    /\ dest # None => \E p \in Pubs : p <= row /\ IsCopy(inode[dest], p)
    /\ partial # None =>
          /\ partial # dest
          /\ \E q \in Pubs, n \in Nat : meta <= q /\ q <= row /\ Prefix(inode[partial], q, n)

\* Whoever is at work is alone.
Alone == \A s, t \in Tasks : pc[s] # "idle" /\ pc[t] # "idle" => s = t

\* What a task knows of the partial, by where it is.
KnowsPartial(t) ==
    /\ pc[t] \notin {"append", "stream"} => fd[t] = None
    /\ pc[t] = "range" =>
          /\ saved[t] = meta /\ partial # None
          /\ \E q \in Pubs, n \in Nat :
                /\ meta <= q /\ q <= row
                /\ Prefix(inode[partial], q, n) /\ pos[t] = n + 1
    /\ pc[t] \in {"append", "stream"} =>
          /\ fd[t] = partial /\ partial # None
          /\ pos[t] >= 1 /\ Prefix(inode[partial], row, pos[t] - 1)
    /\ pc[t] \in {"meta", "rename", "rename-resumed"} =>
          partial # None /\ Prefix(inode[partial], row, Size[row])

IInv == TypeOK /\ Ordered /\ Alone /\ \A t \in Tasks : KnowsPartial(t)

-----------------------------------------------------------------------------
(* Facts about files. *)

\* Every non-empty set of naturals has a least element.
LEMMA NatLeast ==
    ASSUME NEW T, T \subseteq Nat, T # {}
    PROVE  \E x \in T : \A y \in T : x <= y
<1> DEFINE R == OpToRel(<, Nat)
<1>1. IsWellFoundedOn(R, Nat)
  BY NatLessThanWellFounded
<1> HIDE DEF R
<1>2. PICK x \in T : \A y \in T : ~ (<<y, x>> \in R)
  BY <1>1, WFMin
<1>3. \A y \in T : ~(y < x)
  BY <1>2 DEF R, OpToRel
<1> QED
  BY <1>2, <1>3

\* One of the first jobs has the largest object, by induction on their number.
LEMMA LargestExists == \A k \in Pubs : \E m \in 0..k : \A p \in 0..k : Size[p] <= Size[m]
<1> DEFINE Top(k) == \E m \in 0..k : \A p \in 0..k : Size[p] <= Size[m]
           T == {k \in Pubs : ~Top(k)}
<1> SUFFICES ASSUME T # {} PROVE FALSE
  OBVIOUS
<1>1. Pubs \subseteq Nat /\ \A p \in Pubs : Size[p] \in Nat
  BY OaAssumption DEF Pubs
<1>2. PICK k \in T : \A y \in T : k <= y
  BY <1>1, NatLeast
<1>3. CASE k = 0
  <2>1. \A p \in 0..k : p = 0 /\ Size[p] <= Size[0]
    BY <1>1, <1>3, OaAssumption DEF Pubs
  <2> QED
    BY <1>2, <1>3, <2>1
<1>4. CASE k # 0
  <2>1. k \in Pubs /\ k - 1 \in Pubs /\ k \in Nat
    BY <1>2, <1>4, OaAssumption DEF Pubs
  <2>2. k - 1 \notin T
    BY <1>2, <2>1
  <2>3. PICK m \in 0..(k - 1) : \A p \in 0..(k - 1) : Size[p] <= Size[m]
    BY <2>1, <2>2
  <2>4. \A p \in 0..k : p \in Pubs /\ (p \in 0..(k - 1) \/ p = k)
    BY <2>1, OaAssumption DEF Pubs
  <2>5. m \in 0..k /\ k \in 0..k
    BY <2>1, <2>3
  <2>6. CASE Size[k] <= Size[m]
    BY <1>2, <2>3, <2>4, <2>5, <2>6
  <2>7. CASE Size[m] <= Size[k]
    <3>1. \A p \in 0..k : Size[p] <= Size[k]
      BY <1>1, <2>1, <2>3, <2>4, <2>5, <2>7
    <3> QED
      BY <1>2, <2>5, <3>1
  <2> QED
    BY <1>1, <2>1, <2>3, <2>4, <2>5, <2>6, <2>7
<1> QED
  BY <1>3, <1>4

\* There is room for every object in a file.
LEMMA RoomForObjects ==
    /\ Pubs \subseteq Nat /\ None \notin Pubs /\ 0 \in Pubs
    /\ Chunks \subseteq Nat \ {0}
    /\ \A p \in Pubs : /\ Size[p] \in Nat /\ Size[p] >= 1
                       /\ \A i \in 1..Size[p] : i \in Chunks
<1>1. /\ Pubs \subseteq Nat /\ None \notin Pubs /\ 0 \in Pubs /\ LastPub \in Pubs
      /\ \A p \in Pubs : Size[p] \in Nat /\ Size[p] >= 1
  BY OaAssumption DEF Pubs, None
<1>2. \E n \in {Size[p] : p \in Pubs} : \A p \in Pubs : Size[p] <= n
  BY <1>1, LargestExists DEF Pubs
<1>3. Longest \in Nat /\ \A p \in Pubs : Size[p] <= Longest
  BY <1>1, <1>2 DEF Longest
<1>4. Cardinality(Tasks) \in Nat
  BY OaAssumption, FS_CardinalityType
<1>5. Longest <= Longest * (1 + Cardinality(Tasks)) /\ Longest * (1 + Cardinality(Tasks)) \in Nat
  BY <1>3, <1>4
<1> QED
  BY <1>1, <1>3, <1>5 DEF Chunks

\* The first n chunks of an object are a file of length n.
LEMMA LengthOfPrefix ==
    ASSUME NEW f, NEW p \in Pubs, NEW n \in Nat, Prefix(f, p, n)
    PROVE  Length(f) = n
<1> USE RoomForObjects
<1>1. p # None /\ n <= Size[p] /\ \A i \in Chunks : f[i] = IF i <= n THEN p ELSE None
  BY DEF Prefix
<1>2. CASE n = 0
  BY <1>1, <1>2 DEF Length
<1>3. CASE n # 0
  <2>1. n \in Chunks /\ f[n] # None
    BY <1>1, <1>3
  <2>2. \A i \in Chunks : (f[i] # None /\ \A j \in Chunks : j > i => f[j] = None) <=> i = n
    BY <1>1, <2>1
  <2> QED
    BY <2>1, <2>2 DEF Length
<1> QED
  BY <1>2, <1>3

\* A prefix of all chunks is a copy of the object.
LEMMA WholePrefix ==
    ASSUME NEW f, NEW p \in Pubs
    PROVE  Prefix(f, p, Size[p]) <=> IsCopy(f, p)
BY RoomForObjects DEF Prefix, IsCopy

\* A blank file is a prefix of every object.
LEMMA BlankPrefix ==
    ASSUME NEW p \in Pubs
    PROVE  Prefix(Blank, p, 0)
BY RoomForObjects DEF Prefix, Blank

\* A chunk written at the end of a prefix makes it longer.
LEMMA WrittenPrefix ==
    ASSUME NEW f \in [Chunks -> MaybePub \cup {Garbled}], NEW p \in Pubs, NEW n \in Nat,
           Prefix(f, p, n), n < Size[p]
    PROVE  Prefix([f EXCEPT ![n + 1] = p], p, n + 1)
<1> USE RoomForObjects
<1>1. n + 1 <= Size[p] /\ n + 1 \in Chunks
  OBVIOUS
<1>2. \A i \in Chunks : [f EXCEPT ![n + 1] = p][i] = IF i <= n + 1 THEN p ELSE None
  BY <1>1 DEF Prefix
<1> QED
  BY <1>1, <1>2 DEF Prefix

-----------------------------------------------------------------------------
(* Every step keeps the order. *)

\* The invariant holds of what a run may find at its start.
LEMMA InitIInv == Init => IInv
<1> SUFFICES ASSUME Init PROVE IInv
  OBVIOUS
<1> USE RoomForObjects DEF Init
<1>1. TypeOK
  <2>1. inode \in [Inodes -> [Chunks -> MaybePub \cup {Garbled}]]
    BY DEF Blank, MaybePub
  <2> QED
    BY <2>1 DEF TypeOK, MaybePub
<1>2. Ordered
  BY DEF Ordered, None
<1>3. Alone /\ \A t \in Tasks : KnowsPartial(t)
  BY DEF Alone, KnowsPartial
<1> QED
  BY <1>1, <1>2, <1>3 DEF IInv

\* A free inode for a new partial.
LEMMA FreeInode ==
    ASSUME IInv, \A s \in Tasks : fd[s] = None, partial = None
    PROVE  LET i == CHOOSE i \in Inodes : ~InUse(i) IN i \in Inodes /\ i # dest /\ i # None
<1>1. Cardinality(Tasks) \in Nat
  BY OaAssumption, FS_CardinalityType
<1>2. 1 \in Inodes /\ 2 \in Inodes /\ None \notin Inodes
  BY <1>1 DEF Inodes, None
<1>3. \A i \in Inodes : InUse(i) <=> i = dest
  BY <1>2 DEF InUse
<1>4. \E i \in Inodes : ~InUse(i)
  BY <1>2, <1>3
<1> QED
  BY <1>2, <1>3, <1>4

\* A task that is at work is the only one.
LEMMA Others ==
    ASSUME IInv, NEW t \in Tasks, pc[t] # "idle"
    PROVE  \A s \in Tasks : s # t => pc[s] = "idle" /\ fd[s] = None
BY DEF IInv, Alone, KnowsPartial

\* Every step of a task keeps it.
LEMMA TaskStepKeeps ==
    ASSUME IInv, NEW t \in Tasks, TaskStep(t)
    PROVE  IInv'
<1>a. TypeOK /\ Ordered /\ KnowsPartial(t)
  BY DEF IInv
<1>b. pc[t] # "idle"
  BY DEF TaskStep, Begin, HeadMatches, HeadDiffers, Decide, RangeOk, ResumeFails, Get,
         WriteChunk, EndOfBody, WriteMeta, Rename, Fail
<1>c. \A s \in Tasks : s # t => pc[s] = "idle" /\ fd[s] = None
  BY <1>b, Others
<1>d. /\ Pubs \subseteq Int /\ None \in Int /\ \A p \in Pubs : None < p
      /\ None \notin Inodes
  BY RoomForObjects DEF None, Inodes
\* It is enough to look at the files and at what t knows.
<1>e. SUFFICES /\ TypeOK' /\ Ordered' /\ KnowsPartial(t)'
               /\ \A s \in Tasks : s # t => pc'[s] = pc[s] /\ fd'[s] = fd[s]
  <2>1. Alone'
    BY <1>c, <1>e DEF Alone
  <2>2. \A s \in Tasks : s # t => KnowsPartial(s)'
    BY <1>c, <1>e DEF KnowsPartial
  <2> QED
    BY <1>e, <2>1, <2>2 DEF IInv
<1> USE <1>a, <1>d
<1>1. CASE Begin(t)
  <2>1. TypeOK'
    BY <1>1 DEF Begin, Goto, run, TypeOK, MaybePub
  <2>2. Ordered'
    BY <1>1 DEF Begin, run, Ordered, TypeOK, MaybePub
  <2>3. KnowsPartial(t)' /\ \A s \in Tasks : s # t => pc'[s] = pc[s] /\ fd'[s] = fd[s]
    BY <1>1 DEF Begin, Goto, KnowsPartial, TypeOK
  <2> QED
    BY <2>1, <2>2, <2>3
<1>2. ASSUME NEW outcome \in {"cached", "failed"}, Finish(t, outcome),
             UNCHANGED <<server, inode, names, run>>
      PROVE  /\ TypeOK' /\ Ordered' /\ KnowsPartial(t)'
             /\ \A s \in Tasks : s # t => pc'[s] = pc[s] /\ fd'[s] = fd[s]
  <2>1. TypeOK'
    BY <1>2 DEF Finish, Goto, run, names, TypeOK, MaybePub
  <2>2. Ordered'
    BY <1>2 DEF run, names, Ordered
  <2>3. KnowsPartial(t)' /\ \A s \in Tasks : s # t => pc'[s] = pc[s] /\ fd'[s] = fd[s]
    BY <1>2 DEF Finish, Goto, KnowsPartial, TypeOK
  <2> QED
    BY <2>1, <2>2, <2>3
<1>3. CASE HeadDiffers(t)
  <2>1. TypeOK'
    BY <1>3 DEF HeadDiffers, Goto, run, names, TypeOK
  <2>2. Ordered'
    BY <1>3 DEF HeadDiffers, run, names, Ordered
  <2>3. KnowsPartial(t)' /\ \A s \in Tasks : s # t => pc'[s] = pc[s] /\ fd'[s] = fd[s]
    BY <1>3 DEF HeadDiffers, Goto, KnowsPartial, TypeOK
  <2> QED
    BY <2>1, <2>2, <2>3
<1>4. CASE Decide(t)
  <2> DEFINE size == Length(inode[partial])
             leftover == opts.resume /\ ~opts.force /\ partial # None
             usable == leftover /\ meta # None /\ size > 0 /\ size < Size[meta]
  <2>1. /\ saved' = [saved EXCEPT ![t] = meta]
        /\ partial' = IF leftover /\ ~usable THEN None ELSE partial
        /\ pos' = [pos EXCEPT ![t] = IF usable THEN size + 1 ELSE 1]
        /\ pc' = [pc EXCEPT ![t] = IF usable THEN "range" ELSE "get"]
        /\ pc[t] = "decide"
        /\ UNCHANGED <<server, inode, dest, meta, opts, row, fd, result>>
    BY <1>4 DEF Decide, Goto, run
  <2>2. usable => \E q \in Pubs, n \in Nat : /\ meta <= q /\ q <= row
                                             /\ Prefix(inode[partial], q, n) /\ size = n
    BY LengthOfPrefix DEF Ordered
  <2> HIDE DEF size, usable
  <2>3. usable => partial # None /\ size \in Nat
    BY <2>2 DEF usable
  <2>4. TypeOK'
    BY <2>1, <2>3 DEF TypeOK
  <2>5. Ordered'
    BY <2>1 DEF Ordered
  <2>6. KnowsPartial(t)' /\ \A s \in Tasks : s # t => pc'[s] = pc[s] /\ fd'[s] = fd[s]
    <3>1. CASE usable
      BY <2>1, <2>2, <2>3, <3>1 DEF KnowsPartial, TypeOK
    <3>2. CASE ~usable
      BY <2>1, <3>2 DEF KnowsPartial, TypeOK
    <3> QED
      BY <3>1, <3>2
  <2> QED
    BY <2>4, <2>5, <2>6
<1>5. CASE RangeOk(t)
  <2>1. TypeOK'
    BY <1>5 DEF RangeOk, Goto, run, names, TypeOK
  <2>2. Ordered'
    BY <1>5 DEF RangeOk, run, names, Ordered
  <2>3. PICK n \in Nat : Prefix(inode[partial], row, n) /\ pos[t] = n + 1
    <3>1. PICK q \in Pubs, n \in Nat : /\ meta <= q /\ q <= row
                                       /\ Prefix(inode[partial], q, n) /\ pos[t] = n + 1
      BY <1>5 DEF RangeOk, KnowsPartial
    <3>2. meta = row
      BY <1>5 DEF RangeOk, KnowsPartial
    <3>3. row \in Int /\ q \in Int
      BY DEF TypeOK
    <3>4. q = row
      BY <3>1, <3>2, <3>3
    <3> QED
      BY <3>1, <3>4
  <2>4. KnowsPartial(t)' /\ \A s \in Tasks : s # t => pc'[s] = pc[s] /\ fd'[s] = fd[s]
    BY <1>5, <2>3 DEF RangeOk, Goto, run, names, KnowsPartial, TypeOK
  <2> QED
    BY <2>1, <2>2, <2>4
<1>6. CASE ResumeFails(t)
  <2>1. TypeOK'
    BY <1>6 DEF ResumeFails, Goto, run, TypeOK
  <2>2. Ordered'
    BY <1>6 DEF ResumeFails, run, Ordered
  <2>3. KnowsPartial(t)' /\ \A s \in Tasks : s # t => pc'[s] = pc[s] /\ fd'[s] = fd[s]
    BY <1>6 DEF ResumeFails, Goto, KnowsPartial, TypeOK
  <2> QED
    BY <2>1, <2>2, <2>3
<1>7. CASE Get(t)
  <2> DEFINE target == IF partial # None THEN partial ELSE CHOOSE i \in Inodes : ~InUse(i)
  <2>1. target \in Inodes /\ target # dest /\ target # None
    <3>1. \A s \in Tasks : fd[s] = None
      BY <1>7, <1>c DEF Get, KnowsPartial
    <3> QED
      BY <3>1, FreeInode DEF Ordered, TypeOK
  <2>2. /\ partial' = target
        /\ inode' = [inode EXCEPT ![target] = Blank]
        /\ fd' = [fd EXCEPT ![t] = target]
        /\ pos' = [pos EXCEPT ![t] = 1]
        /\ pc' = [pc EXCEPT ![t] = "stream"]
        /\ UNCHANGED <<server, dest, meta, opts, row, saved, result>>
    BY <1>7 DEF Get, Goto, run
  <2> HIDE DEF target
  <2>3. TypeOK'
    <3>1. Blank \in [Chunks -> MaybePub \cup {Garbled}]
      BY DEF Blank, MaybePub
    <3> QED
      BY <2>1, <2>2, <3>1 DEF TypeOK
  <2>4. inode'[target] = Blank /\ (dest # None => inode'[dest] = inode[dest])
    BY <2>1, <2>2 DEF TypeOK
  <2>5. row \in Pubs /\ Prefix(Blank, row, 0)
    BY BlankPrefix DEF TypeOK
  <2>6. Ordered'
    BY <2>1, <2>2, <2>4, <2>5 DEF Ordered, TypeOK
  <2>7. KnowsPartial(t)' /\ \A s \in Tasks : s # t => pc'[s] = pc[s] /\ fd'[s] = fd[s]
    BY <2>1, <2>2, <2>4, <2>5 DEF KnowsPartial, TypeOK
  <2> QED
    BY <2>3, <2>6, <2>7
<1>8. CASE WriteChunk(t)
  <2> DEFINE n == pos[t] - 1
  <2>1. /\ pc[t] \in {"stream", "append"} /\ pos[t] <= Size[row]
        /\ fd[t] = partial /\ partial # None /\ partial \in Inodes /\ partial # dest
        /\ row \in Pubs /\ n \in Nat /\ pos[t] = n + 1 /\ n < Size[row]
        /\ Prefix(inode[partial], row, n)
        /\ inode[partial] \in [Chunks -> MaybePub \cup {Garbled}]
    BY <1>8, RoomForObjects DEF WriteChunk, KnowsPartial, TypeOK, Ordered
  <2> HIDE DEF n
  <2>2. /\ inode' = [inode EXCEPT ![partial] = [inode[partial] EXCEPT ![n + 1] = row]]
        /\ pos' = [pos EXCEPT ![t] = n + 2]
        /\ UNCHANGED <<server, dest, partial, meta, opts, row, pc, saved, fd, result>>
    <3>1. Length(inode[partial]) = n
      BY <2>1, LengthOfPrefix
    <3>2. inode' = [inode EXCEPT ![fd[t]][pos[t]] = row]
      BY <1>8, <2>1, <3>1 DEF WriteChunk
    <3>3. inode' = [inode EXCEPT ![partial] = [inode[partial] EXCEPT ![n + 1] = row]]
      BY <2>1, <3>2
    <3>a. pos' = [pos EXCEPT ![t] = pos[t] + 1]
      BY <1>8 DEF WriteChunk
    <3>b. pos[t] + 1 = n + 2
      BY <2>1
    <3>4. pos' = [pos EXCEPT ![t] = n + 2]
      BY <3>a, <3>b
    <3> QED
      BY <1>8, <3>3, <3>4 DEF WriteChunk, names, run
  <2>3. Prefix(inode'[partial], row, n + 1) /\ (dest # None => inode'[dest] = inode[dest])
    BY <2>1, <2>2, WrittenPrefix DEF TypeOK
  <2>4. TypeOK'
    <3>1. [inode[partial] EXCEPT ![n + 1] = row] \in [Chunks -> MaybePub \cup {Garbled}]
      BY <2>1 DEF MaybePub
    <3> QED
      BY <2>1, <2>2, <3>1 DEF TypeOK
  <2>5. Ordered'
    BY <2>1, <2>2, <2>3 DEF Ordered
  <2>6. KnowsPartial(t)' /\ \A s \in Tasks : s # t => pc'[s] = pc[s] /\ fd'[s] = fd[s]
    BY <2>1, <2>2, <2>3 DEF KnowsPartial, TypeOK
  <2> QED
    BY <2>4, <2>5, <2>6
<1>9. CASE EndOfBody(t)
  <2>1. TypeOK'
    BY <1>9 DEF EndOfBody, Goto, run, names, TypeOK
  <2>2. Ordered'
    BY <1>9 DEF EndOfBody, run, names, Ordered
  <2>3. Prefix(inode[partial], row, Size[row]) /\ partial # None
    <3>1. /\ Prefix(inode[partial], row, pos[t] - 1) /\ pos[t] > Size[row] /\ partial # None
          /\ pos[t] \in Nat /\ Size[row] \in Nat
      BY <1>9, RoomForObjects DEF EndOfBody, KnowsPartial, TypeOK
    <3>2. pos[t] - 1 = Size[row]
      BY <3>1 DEF Prefix
    <3> QED
      BY <3>1, <3>2
  <2>4. KnowsPartial(t)' /\ \A s \in Tasks : s # t => pc'[s] = pc[s] /\ fd'[s] = fd[s]
    BY <1>9, <2>3 DEF EndOfBody, Goto, run, names, KnowsPartial, TypeOK
  <2> QED
    BY <2>1, <2>2, <2>4
<1>10. CASE WriteMeta(t)
  <2>1. TypeOK'
    BY <1>10 DEF WriteMeta, Goto, run, TypeOK, MaybePub
  <2>2. partial # None /\ Prefix(inode[partial], row, Size[row]) /\ row \in Pubs
    BY <1>10 DEF WriteMeta, KnowsPartial, TypeOK
  <2>3. meta' <= row /\ Size[row] \in Nat
    BY <1>10, RoomForObjects DEF WriteMeta, TypeOK, Ordered
  <2>4. Ordered'
    BY <1>10, <2>2, <2>3 DEF WriteMeta, run, Ordered, TypeOK
  <2>5. KnowsPartial(t)' /\ \A s \in Tasks : s # t => pc'[s] = pc[s] /\ fd'[s] = fd[s]
    BY <1>10, <2>2 DEF WriteMeta, Goto, run, KnowsPartial, TypeOK
  <2> QED
    BY <2>1, <2>4, <2>5
<1>11. CASE Rename(t)
  <2>1. TypeOK'
    BY <1>11 DEF Rename, Finish, Goto, run, TypeOK, MaybePub
  <2>2. IsCopy(inode[partial], row) /\ row \in Pubs
    BY <1>11, WholePrefix DEF Rename, KnowsPartial, TypeOK
  <2>3. Ordered'
    BY <1>11, <2>2 DEF Rename, run, Ordered, TypeOK
  <2>4. KnowsPartial(t)' /\ \A s \in Tasks : s # t => pc'[s] = pc[s] /\ fd'[s] = fd[s]
    BY <1>11 DEF Rename, Finish, Goto, KnowsPartial, TypeOK
  <2> QED
    BY <2>1, <2>3, <2>4
<1> QED
  BY <1>1, <1>2, <1>3, <1>4, <1>5, <1>6, <1>7, <1>8, <1>9, <1>10, <1>11
     DEF TaskStep, HeadMatches, Fail

\* So does every step of the run.
LEMMA StepKeeps == OneTaskPerDest /\ IInv /\ [Next]_vars => IInv'
<1> SUFFICES ASSUME OneTaskPerDest, IInv, [Next]_vars PROVE IInv'
  OBVIOUS
<1> USE RoomForObjects
<1>1. CASE Publish
  <2>a. server' \in Pubs
    BY <1>1, OaAssumption DEF Publish, IInv, TypeOK, Pubs
  <2>1. TypeOK'
    BY <1>1, <2>a DEF Publish, names, run, tvars, IInv, TypeOK
  <2>2. Ordered'
    BY <1>1 DEF Publish, names, run, IInv, TypeOK, Ordered
  <2>3. Alone' /\ \A t \in Tasks : KnowsPartial(t)'
    BY <1>1 DEF Publish, names, run, tvars, IInv, Alone, KnowsPartial
  <2> QED
    BY <2>1, <2>2, <2>3 DEF IInv
<1>2. ASSUME NEW o \in Options, NEW rows \in RowSets, StartRun(o, rows) PROVE IInv'
  <2>1. TypeOK'
    BY <1>2, OaAssumption DEF StartRun, names, IInv, TypeOK
  <2>2. row' = server /\ row <= server /\ UNCHANGED <<server, inode, dest, partial, meta, fd>>
    BY <1>2 DEF StartRun, names, IInv, Ordered
  <2>3. Ordered'
    BY <2>2 DEF IInv, Ordered, TypeOK, MaybePub, None
  <2>4. \A t \in Tasks : /\ pc'[t] \in {"idle", "begin"} /\ fd'[t] = None
                         /\ pc'[t] # "idle" => t \in rows
    BY <1>2 DEF StartRun, IInv, KnowsPartial
  <2>5. Alone' /\ \A t \in Tasks : KnowsPartial(t)'
    BY <2>4 DEF Alone, KnowsPartial, OneTaskPerDest
  <2> QED
    BY <2>1, <2>3, <2>5 DEF IInv
<1>3. ASSUME NEW t \in Tasks, TaskStep(t) PROVE IInv'
  BY <1>3, TaskStepKeeps
<1>4. CASE Crash
  <2>1. TypeOK'
    BY <1>4 DEF Crash, names, run, IInv, TypeOK, MaybePub
  <2>2. Ordered'
    BY <1>4 DEF Crash, names, run, IInv, Ordered
  <2>3. Alone' /\ \A t \in Tasks : KnowsPartial(t)'
    BY <1>4 DEF Crash, Alone, KnowsPartial
  <2> QED
    BY <2>1, <2>2, <2>3 DEF IInv
<1>5. CASE UNCHANGED vars
  <2>1. TypeOK'
    BY <1>5 DEF vars, IInv, TypeOK
  <2>2. Ordered' /\ Alone' /\ \A t \in Tasks : KnowsPartial(t)'
    BY <1>5 DEF vars, IInv, Ordered, Alone, KnowsPartial
  <2> QED
    BY <2>1, <2>2 DEF IInv
<1> QED
  BY <1>1, <1>2, <1>3, <1>4, <1>5 DEF Next

\* The invariant holds at every step.
LEMMA Invariance ==
    ASSUME OneTaskPerDest
    PROVE  Spec => []IInv
<1>1. IInv /\ [Next]_vars => IInv'
  BY StepKeeps
<1> QED
  BY <1>1, InitIInv, PTL DEF Spec

-----------------------------------------------------------------------------
(* What follows from the order. *)

\* Kills, failures, resumes of leftovers and new jobs in any order leave the
\* state well typed and <dest> absent or the whole object of one job: a resume
\* never appends the bytes of one job to those of another (openaddresses.rs,
\* resume_s3 behind if_match), where one task writes to it.
THEOREM InstalledIsWhole == OneTaskPerDest => (Spec => []InstalledWhole)
<1> SUFFICES ASSUME OneTaskPerDest PROVE Spec => []InstalledWhole
  OBVIOUS
<1>1. ASSUME IInv, dest # None
      PROVE  \E p \in Pubs : p <= server /\ IsCopy(inode[dest], p)
  <2>1. PICK p \in Pubs : p <= row /\ IsCopy(inode[dest], p)
    BY <1>1 DEF IInv, Ordered
  <2>2. row <= server /\ p \in Int /\ row \in Int /\ server \in Int
    BY <1>1, RoomForObjects DEF IInv, Ordered, TypeOK
  <2> QED
    BY <2>1, <2>2
<1>2. IInv => InstalledWhole
  BY <1>1 DEF InstalledWhole, DestWhole, IInv
<1> QED
  BY <1>2, Invariance, PTL

\* Only Rename ends a task with a download or a resume.
LEMMA FinishesByRename ==
    ASSUME IInv, Next, NEW t \in Tasks, pc[t] # "idle", pc'[t] = "idle",
           result'[t] \in {"downloaded", "resumed"}
    PROVE  Rename(t)
<1>1. PICK s \in Tasks : TaskStep(s)
  BY DEF Next, Publish, StartRun, Crash, tvars, IInv, TypeOK
<1>2. pc[s] # "idle"
  BY <1>1 DEF TaskStep, Begin, HeadMatches, HeadDiffers, Decide, RangeOk, ResumeFails, Get,
              WriteChunk, EndOfBody, WriteMeta, Rename, Fail
<1>3. s = t
  BY <1>2 DEF IInv, Alone
<1>4. ~(Begin(t) \/ HeadDiffers(t) \/ Decide(t) \/ RangeOk(t) \/ ResumeFails(t) \/ Get(t)
         \/ WriteChunk(t) \/ EndOfBody(t) \/ WriteMeta(t))
  BY DEF IInv, TypeOK, Begin, HeadDiffers, Decide, RangeOk, ResumeFails, Get, WriteChunk,
         EndOfBody, WriteMeta, Goto
<1>5. ~(HeadMatches(t) \/ Fail(t))
  BY DEF IInv, TypeOK, HeadMatches, Fail, Finish
<1> QED
  BY <1>1, <1>3, <1>4, <1>5 DEF TaskStep

\* What Rename installs is the object of the row.
LEMMA RenameInstalls ==
    ASSUME IInv, NEW t \in Tasks, Rename(t)
    PROVE  /\ dest' # None /\ row \in Pubs /\ row <= server
           /\ IsCopy(inode'[dest'], row) /\ UNCHANGED <<server, inode, row>>
<1>1. partial # None /\ row \in Pubs /\ Prefix(inode[partial], row, Size[row])
  BY DEF IInv, TypeOK, KnowsPartial, Rename
<1> QED
  BY <1>1, WholePrefix DEF Rename, run, IInv, Ordered

\* A task that reports a download or a resume has installed the object its row
\* names, whatever an earlier run left in the partial, where no other task of its
\* run has the same <dest>.
THEOREM ReportedIsInstalled == OneTaskPerDest => (Spec => FinishedIsInstalled)
<1> SUFFICES ASSUME OneTaskPerDest PROVE Spec => FinishedIsInstalled
  OBVIOUS
<1> DEFINE Step == \A t \in Tasks : (pc[t] # "idle" /\ pc'[t] = "idle"
                                       /\ result'[t] \in {"downloaded", "resumed"})
                      => IsCopy(inode'[dest'], row)
<1>1. ASSUME IInv, [Next]_vars PROVE [Step]_vars
  BY <1>1, FinishesByRename, RenameInstalls
<1>2. Spec => [][Step]_vars
  BY <1>1, Invariance, PTL DEF Spec
<1> QED
  BY <1>2 DEF FinishedIsInstalled

-----------------------------------------------------------------------------
(* Refinement of AtomicInstall. *)

\* Copies of two jobs differ in their first chunk.
LEMMA OneJob ==
    ASSUME NEW f, NEW p \in Pubs, NEW q \in Pubs, IsCopy(f, p), IsCopy(f, q)
    PROVE  p = q
<1>1. 1 \in Chunks /\ 1 <= Size[p] /\ 1 <= Size[q]
  BY RoomForObjects
<1> QED
  BY <1>1 DEF IsCopy

\* What a destination is a copy of is the installed object.
LEMMA InstalledIs ==
    ASSUME dest # None, NEW p \in Pubs, IsCopy(inode[dest], p)
    PROVE  Installed = p
<1>1. \A q \in Pubs : IsCopy(inode[dest], q) <=> q = p
  BY OneJob
<1> QED
  BY <1>1 DEF Installed

\* What is installed is not ahead of the listed row.
LEMMA InstalledRange ==
    ASSUME IInv
    PROVE  Installed \in Int /\ -1 <= Installed /\ Installed <= row
<1>1. row \in Int /\ \A p \in Pubs \cup {row} : p \in Int /\ -1 <= p
  BY RoomForObjects DEF IInv, TypeOK
<1>2. CASE dest = None
  BY <1>1, <1>2 DEF Installed, None
<1>3. CASE dest # None
  BY <1>1, <1>3, InstalledIs DEF IInv, Ordered
<1> QED
  BY <1>2, <1>3

\* Seen from <dest>, the one task that writes to it, in run after run with resumes,
\* kills and failures, is an atomic install: readers find nothing or a whole object,
\* replaced in one step and never by an older one.  Of two tasks with one <dest> it
\* is not true.
THEOREM RefinesAtomicInstall == OneTaskPerDest => (Spec => ImplementsAtomicInstall)
<1> SUFFICES ASSUME OneTaskPerDest PROVE Spec => Install!Spec
  BY DEF ImplementsAtomicInstall
<1>1. Init => Install!Init
  BY DEF Init, Install!Init, Installed, None
<1>2. ASSUME IInv, [Next]_vars PROVE [Install!Next]_Install!absVars
  <2>1. CASE Publish
    <3>1. Installed' = Installed
      BY <2>1 DEF Publish, names, Installed, IsCopy
    <3> QED
      BY <2>1, <3>1 DEF Publish, Install!Next, Install!Publish
  <2>2. ASSUME NEW t \in Tasks, Rename(t) PROVE Install!Install
    <3>1. /\ dest' # None /\ row \in Pubs /\ row <= server
          /\ IsCopy(inode'[dest'], row) /\ UNCHANGED <<server, inode, row>>
      BY <1>2, <2>2, RenameInstalls
    <3>2. \A q \in Pubs : IsCopy(inode'[dest'], q) <=> q = row
      BY <3>1, OneJob
    <3>3. Installed' = row
      BY <3>1, <3>2 DEF Installed, IsCopy
    <3>4. Installed \in Int /\ Installed <= row /\ server \in Pubs
      BY <1>2, InstalledRange DEF IInv, TypeOK
    <3> QED
      BY <3>1, <3>3, <3>4, RoomForObjects DEF Install!Install
  <2>3. ASSUME UNCHANGED <<server, dest>>, dest # None => inode'[dest] = inode[dest]
        PROVE  UNCHANGED Install!absVars
    BY <2>3 DEF Install!absVars, Installed, IsCopy
  \* Only the partial is ever written to.
  <2>4. ASSUME NEW t \in Tasks, Get(t) \/ WriteChunk(t)
        PROVE  dest # None => inode'[dest] = inode[dest]
    <3>1. CASE Get(t)
      <4>1. \A s \in Tasks : fd[s] = None
        BY <1>2, <3>1, Others DEF Get, IInv, KnowsPartial
      <4> DEFINE target == IF partial # None THEN partial ELSE CHOOSE i \in Inodes : ~InUse(i)
      <4>2. target # dest
        BY <1>2, <4>1, FreeInode DEF IInv, Ordered
      <4>3. inode' = [inode EXCEPT ![target] = Blank]
        BY <3>1 DEF Get
      <4> HIDE DEF target
      <4> QED
        BY <1>2, <4>2, <4>3 DEF IInv, TypeOK
    <3>2. CASE WriteChunk(t)
      <4>1. fd[t] # dest
        BY <1>2, <3>2 DEF IInv, WriteChunk, KnowsPartial, Ordered
      <4> QED
        BY <1>2, <3>2, <4>1 DEF IInv, TypeOK, WriteChunk
    <3> QED
      BY <2>4, <3>1, <3>2
  <2>5. ASSUME NEW t \in Tasks, TaskStep(t), ~Rename(t)
        PROVE  UNCHANGED <<server, dest>> /\ (dest # None => inode'[dest] = inode[dest])
    BY <2>4, <2>5 DEF TaskStep, Begin, HeadMatches, HeadDiffers, Decide, RangeOk, ResumeFails,
                      Get, WriteChunk, EndOfBody, WriteMeta, Fail, names
  <2>6. ASSUME ~Publish, ~\E t \in Tasks : TaskStep(t)
        PROVE  UNCHANGED <<server, dest, inode>>
    BY <1>2, <2>6 DEF Next, StartRun, Crash, names, vars
  <2> QED
    BY <1>2, <2>1, <2>2, <2>3, <2>5, <2>6 DEF Install!Next
<1> QED
  BY <1>1, <1>2, Invariance, PTL DEF Spec, Install!Spec
=============================================================================
