--------------------------- MODULE Server_proofs ---------------------------
(***************************************************************************)
(* What goes on in the server beside its requests: how a reverse index is  *)
(* published and loaded (IndexPublish), how a running server takes over a  *)
(* new one (IndexReload), and how sampled requests are sent to Google      *)
(* (ShadowWorker).                                                         *)
(*                                                                         *)
(* Publication, for every set of files, every set of builds and any        *)
(* lengths: a manifest on disk vouches for the files beside it, and a load *)
(* that no publication overlaps maps one build.  ManifestVouches is not    *)
(* inductive: the step that publishes the manifest needs to know that the  *)
(* renames before it covered every file, which BuilderInv records.         *)
(* QuietLoadIsWhole needs what a load has verified, which ReaderInv        *)
(* records.                                                                *)
(*                                                                         *)
(* Hot reload, for any number of versions, kills and restarts, provided no *)
(* swap begins between the load and the first marker read of a starting    *)
(* server: the reloader never takes a marker for done unless it serves     *)
(* that index.                                                             *)
(*                                                                         *)
(* The shadow dispatcher, for every set of jobs and every setting of the   *)
(* capacities and caps: the permits, the daily cap, the leak through a     *)
(* closed gate and the rate.  The job the worker holds between the gates   *)
(* and the call is what the caps alone do not see: CapAhead, LeakAhead and *)
(* RateAhead leave room for it.                                            *)
(***************************************************************************)
EXTENDS IndexPublish, IndexReload, ShadowWorker, FiniteSetTheorems,
        WellFoundedInduction, TLAPS

-----------------------------------------------------------------------------
(* Publication. *)

\* The inductive invariant.
PublishInv == PublishTypeOK /\ BuilderInv /\ ManifestVouches /\ ReaderInv /\ QuietLoadIsWhole

\* The initial directory is empty or complete and nobody has started.
LEMMA InitPublishInv == PublishInit => PublishInv
  <1> SUFFICES ASSUME PublishInit PROVE PublishInv
    OBVIOUS
  <1>1. PICK g \in Gens \cup {NoBuild} :
            file = [f \in Files |-> g] /\ manifest = g
    BY DEF PublishInit
  <1>2. PublishTypeOK
    BY <1>1 DEF PublishInit, PublishTypeOK, NoMap
  <1>3. BuilderInv /\ ReaderInv /\ QuietLoadIsWhole
    BY DEF PublishInit, BuilderInv, ReaderInv, QuietLoadIsWhole, NoMap
  <1>4. ManifestVouches
    BY <1>1 DEF ManifestVouches
  <1> QED
    BY <1>2, <1>3, <1>4 DEF PublishInv

\* Every step of the builder keeps the invariant.
LEMMA BuilderStep == PublishInv /\ Builder => PublishInv'
  <1> SUFFICES ASSUME PublishInv, Builder PROVE PublishInv'
    OBVIOUS
  <1> USE PublishAssumption
  <1> USE DEF PublishInv, PublishTypeOK, BuilderInv, ManifestVouches, ReaderInv,
              QuietLoadIsWhole, readerVars
  <1>1. ASSUME NEW g \in Gens, StartBuild(g) PROVE PublishInv'
    BY <1>1 DEF StartBuild
  <1>2. ASSUME NEW f \in Files, WriteTmp(f) PROVE PublishInv'
    BY <1>2 DEF WriteTmp
  <1>3. ASSUME NEW f \in Files, CommitFile(f) PROVE PublishInv'
    <2> USE <1>3 DEF CommitFile
    <2>1. PublishTypeOK'
      OBVIOUS
    <2>2. BuilderInv'
      OBVIOUS
    <2>3. ManifestVouches' /\ ReaderInv' /\ QuietLoadIsWhole'
      OBVIOUS
    <2> QED
      BY <2>1, <2>2, <2>3
  <1>4. CASE RemoveManifest
    BY <1>4 DEF RemoveManifest
  <1>5. CASE PublishManifest
    BY <1>5 DEF PublishManifest
  <1>6. CASE BuildFails
    BY <1>6 DEF BuildFails
  <1>7. CASE BuildKilled
    BY <1>7 DEF BuildKilled
  <1> QED
    BY <1>1, <1>2, <1>3, <1>4, <1>5, <1>6, <1>7 DEF Builder

\* Every step of the reader keeps the invariant.
LEMMA ReaderStep == PublishInv /\ Reader => PublishInv'
  <1> SUFFICES ASSUME PublishInv, Reader PROVE PublishInv'
    OBVIOUS
  <1> USE PublishAssumption
  <1> USE DEF PublishInv, PublishTypeOK, BuilderInv, ManifestVouches, ReaderInv,
              QuietLoadIsWhole, builderVars
  <1>1. CASE ReadManifest
    BY <1>1 DEF ReadManifest, NoMap
  <1>2. ASSUME NEW f \in Files, StatFile(f) PROVE PublishInv'
    <2>1. CASE LengthAgrees(f)
      BY <1>2, <2>1 DEF StatFile
    <2>2. CASE ~LengthAgrees(f)
      BY <1>2, <2>2 DEF StatFile
    <2> QED
      BY <2>1, <2>2
  <1>3. ASSUME NEW f \in Files, MapFile(f) PROVE PublishInv'
    <2>1. CASE Mappable(f)
      BY <1>3, <2>1 DEF MapFile
    <2>2. CASE ~Mappable(f)
      BY <1>3, <2>2 DEF MapFile, NoMap
    <2> QED
      BY <2>1, <2>2
  <1>4. CASE Serve
    BY <1>4 DEF Serve, NoMap
  <1> QED
    BY <1>1, <1>2, <1>3, <1>4 DEF Reader

\* A step that changes nothing keeps the invariant.
LEMMA PublishStutter == PublishInv /\ UNCHANGED publishVars => PublishInv'
  BY DEF PublishInv, PublishTypeOK, BuilderInv, ManifestVouches, ReaderInv,
         QuietLoadIsWhole, publishVars

\* The invariant holds in every reachable state.
LEMMA PublishInvariance == PublishSpec => []PublishInv
  <1>1. PublishInv /\ [PublishNext]_publishVars => PublishInv'
    BY BuilderStep, ReaderStep, PublishStutter DEF PublishNext
  <1> QED
    BY InitPublishInv, <1>1, PTL DEF PublishSpec

\* The variables of build-index and of Index::load keep their types.
THEOREM PublishTypeCorrect == PublishSpec => []PublishTypeOK
  BY PublishInvariance, PTL DEF PublishInv

\* Whatever builds failed or were killed in the directory, a manifest that is
\* there belongs to the build of every file beside it.
THEOREM ManifestIsSound == PublishSpec => []ManifestVouches
  BY PublishInvariance, PTL DEF PublishInv

\* A load that overlaps no publication serves the files of one build.
THEOREM QuietLoads == PublishSpec => []QuietLoadIsWhole
  BY PublishInvariance, PTL DEF PublishInv

-----------------------------------------------------------------------------
(* Hot reload. *)

\* What the server remembers is no newer than the PBF, and older than it from
\* the moment the PBF is replaced until the new index is installed: the marker
\* of a new index differs from every mtime remembered before.
Fresh ==
    /\ pbf <= osm
    /\ dir <= pbf /\ last <= pbf /\ current <= pbf
    /\ spc = "apply" => changes > pbf /\ changes <= osm
    /\ spc \in {"clear", "build", "move_old", "move_new"} =>
        dir < pbf /\ last < pbf /\ current < pbf
    /\ spc \in {"move_old", "move_new"} => next = pbf
    /\ spc = "move_new" => dir = None
    /\ spc = "touch" => dir = pbf /\ marker = None /\ last < pbf /\ current < pbf

\* A marker is the one of the directory it lives in.
MarkerOfDir == marker # None => marker = dir

\* What a starting server, and a reload that will acknowledge the marker in
\* place, have seen is the directory in place.
LoadInv ==
    /\ srv = "loading" => dir # None /\ seen = dir
    /\ srv = "spawned" => dir # None /\ served = {dir}
    /\ srv \in {"reload", "reloading"} =>
        current # None /\ (marker # None => marker # last)
    /\ srv = "reloading" => seen # None /\ (marker = current => seen = dir)

\* The inductive invariant.
IInv == TypeOK /\ Fresh /\ MarkerOfDir /\ LoadInv /\ AckIsServed

\* It holds when the server is about to start.
LEMMA InitIInv == Init => IInv
  BY ReloadAssumption
  DEF Init, IInv, TypeOK, Fresh, MarkerOfDir, LoadInv, AckIsServed, None, Versions

\* Every step of the script, and its death, keeps the invariant.
LEMMA ScriptStep ==
    ASSUME StartRaces = FALSE, IInv, Script \/ NewDiff \/ ScriptDies PROVE IInv'
  <1> USE ReloadAssumption
  <1> USE DEF IInv, TypeOK, Fresh, MarkerOfDir, LoadInv, AckIsServed, None,
              Versions, serverVars
  <1>1. CASE NewDiff
    BY <1>1 DEF NewDiff
  <1>2. CASE GetChanges
    BY <1>2 DEF GetChanges
  <1>3. CASE ApplyChanges
    BY <1>3 DEF ApplyChanges
  <1>4. CASE ClearNext
    BY <1>4 DEF ClearNext
  <1>5. CASE BuildIndex
    BY <1>5 DEF BuildIndex
  <1>6. CASE MoveOld
    BY <1>6 DEF MoveOld
  <1>7. CASE MoveNew
    BY <1>7 DEF MoveNew
  <1>8. CASE TouchMarker
    BY <1>8 DEF TouchMarker
  <1>9. CASE ScriptDies
    BY <1>9 DEF ScriptDies
  <1> QED
    BY <1>1, <1>2, <1>3, <1>4, <1>5, <1>6, <1>7, <1>8, <1>9 DEF Script

\* Every step of the server, and its restart, keeps the invariant.
LEMMA ServerStep == ASSUME IInv, Server \/ Restart PROVE IInv'
  <1> USE ReloadAssumption
  <1> USE DEF IInv, TypeOK, Fresh, MarkerOfDir, LoadInv, AckIsServed, None,
              Versions, scriptVars
  <1>1. CASE LoadBegin
    BY <1>1 DEF LoadBegin
  <1>2. CASE LoadEnd
    <2>1. CASE srv = "loading"
      BY <1>2, <2>1 DEF LoadEnd
    <2>2. CASE srv = "reloading"
      BY <1>2, <2>2 DEF LoadEnd
    <2> QED
      BY <1>2, <2>1, <2>2 DEF LoadEnd
  <1>3. CASE StartupFails
    BY <1>3 DEF StartupFails
  <1>4. CASE ReloadFails
    BY <1>4 DEF ReloadFails
  <1>5. CASE ReadMarker
    BY <1>5 DEF ReadMarker
  <1>6. CASE Poll
    BY <1>6 DEF Poll
  <1>7. CASE Restart
    BY <1>7 DEF Restart
  <1> QED
    BY <1>1, <1>2, <1>3, <1>4, <1>5, <1>6, <1>7 DEF Server

\* A step that changes nothing keeps the invariant.
LEMMA StutterStep == IInv /\ UNCHANGED vars => IInv'
  BY DEF IInv, TypeOK, Fresh, MarkerOfDir, LoadInv, AckIsServed, vars

\* The invariant holds in every reachable state.
LEMMA Invariance == ASSUME StartRaces = FALSE PROVE Spec => []IInv
  <1>1. IInv /\ [Next]_vars => IInv'
    BY ScriptStep, ServerStep, StutterStep DEF Next
  <1> QED
    BY InitIInv, <1>1, PTL DEF Spec

\* The variables of update-index.sh, main and spawn_index_reloader keep their
\* types.
THEOREM TypeCorrect == ASSUME StartRaces = FALSE PROVE Spec => []TypeOK
  BY Invariance, PTL DEF IInv

\* spawn_index_reloader never takes a marker for done unless every file it
\* serves is of the index the marker announces.
THEOREM AcknowledgedIsServed ==
    ASSUME StartRaces = FALSE PROVE Spec => []AckIsServed
  BY Invariance, PTL DEF IInv

-----------------------------------------------------------------------------
(* The shadow dispatcher. *)

\* The channel holds each queued job once.
QueueOK ==
    /\ \A i \in 1..Len(queue) : job[queue[i]] = "queued"
    /\ \A i, k \in 1..Len(queue) : queue[i] = queue[k] => i = k

\* The worker holds a job exactly while it is past the gates.
HeldOne ==
    /\ pc = "recv" => \A j \in Jobs : job[j] # "held"
    /\ pc # "recv" => \E h \in Jobs : \A j \in Jobs : job[j] = "held" <=> j = h

\* A job past the gates found room under the daily cap, and a reset since only
\* made more.
CapAhead ==
    /\ dailyCount <= DailyCap
    /\ pc # "recv" => dailyCount < DailyCap

\* While a gate is closed and the worker still holds a job, nothing has leaked
\* yet; once it has let go of it, the gates stop all others.
LeakAhead ==
    /\ late <= 1
    /\ GateClosed /\ pc # "recv" => late = 0

-----------------------------------------------------------------------------
(* Types. *)

\* The gates of the worker let a job through only when none is closed.
LEMMA VerdictType ==
    /\ Verdict \in {"auth_disabled", "rate_limited", "daily_cap_hit", "held"}
    /\ Verdict = "held" => ~authDisabled /\ ~(backoffLeft > 0) /\ ~(dailyCount >= DailyCap)
BY DEF Verdict

\* Every step keeps the types, given the number of permits.
LEMMA TypeStep ==
    ASSUME ShadowTypeOK, [ShadowNext]_shadowVars, permits' \in 0..InflightCap
    PROVE  ShadowTypeOK'
<1> USE ShadowAssumption DEF ShadowTypeOK
<1>1. ASSUME NEW j \in Jobs, Enqueue(j) PROVE ShadowTypeOK'
  BY <1>1 DEF Enqueue
<1>2. ASSUME NEW j \in Jobs, QueueFull(j) PROVE ShadowTypeOK'
  BY <1>2 DEF QueueFull, Outcomes
<1>3. ASSUME NEW j \in Jobs, Resample(j) PROVE ShadowTypeOK'
  BY <1>3 DEF Resample, Outcomes
<1>4. CASE Recv
  <2>1. queue' \in Seq(Jobs) /\ Len(queue') <= QueueCapacity /\ Head(queue) \in Jobs
    BY <1>4 DEF Recv
  <2>2. job' \in [Jobs -> {"new", "queued", "held", "inflight"} \cup Outcomes]
    BY <1>4, <2>1, VerdictType DEF Recv, Outcomes
  <2> QED
    BY <1>4, <2>1, <2>2 DEF Recv
<1>5. CASE BucketTick
  BY <1>5 DEF BucketTick
<1>6. CASE Dispatch
  <2>1. calls' \in [0..(RpsCap - 1) -> Nat]
    BY <1>6 DEF Dispatch
  <2>2. job' \in [Jobs -> {"new", "queued", "held", "inflight"} \cup Outcomes]
    BY <1>6 DEF Dispatch
  <2>3. late' \in Nat /\ dailyCount' \in Nat
    BY <1>6 DEF Dispatch
  <2> QED
    BY <1>6, <2>1, <2>2, <2>3 DEF Dispatch
<1>7. ASSUME NEW j \in Jobs, PlainAnswer(j) PROVE ShadowTypeOK'
  BY <1>7 DEF PlainAnswer, Answered, PlainOutcomes, Outcomes
<1>8. ASSUME NEW j \in Jobs, OverQueryLimit(j) PROVE ShadowTypeOK'
  BY <1>8 DEF OverQueryLimit, Answered, Outcomes
<1>9. ASSUME NEW j \in Jobs, RequestDenied(j) PROVE ShadowTypeOK'
  BY <1>9 DEF RequestDenied, Answered, Outcomes
<1>10. CASE Advance
  <2>1. calls' \in [0..(RpsCap - 1) -> Nat]
    BY <1>10 DEF Advance
  <2> QED
    BY <1>10, <2>1 DEF Advance, CountDown
<1>11. CASE MidnightReset
  BY <1>11 DEF MidnightReset
<1>12. CASE UNCHANGED shadowVars
  BY <1>12 DEF shadowVars
<1> QED
  BY <1>1, <1>2, <1>3, <1>4, <1>5, <1>6, <1>7, <1>8, <1>9, <1>10, <1>11, <1>12
     DEF ShadowNext, Worker, Answer

-----------------------------------------------------------------------------
(* Jobs are where the worker and the channel say they are. *)

\* Every step keeps the queue in order and at most one job held.
LEMMA JobsStep ==
    ASSUME ShadowTypeOK, QueueOK, HeldOne, [ShadowNext]_shadowVars
    PROVE  QueueOK' /\ HeldOne'
<1> USE DEF ShadowTypeOK, QueueOK, HeldOne
<1>1. ASSUME NEW j \in Jobs, Enqueue(j) PROVE QueueOK' /\ HeldOne'
  BY <1>1 DEF Enqueue
<1>2. ASSUME NEW j \in Jobs, QueueFull(j) PROVE QueueOK' /\ HeldOne'
  BY <1>2 DEF QueueFull
<1>3. ASSUME NEW j \in Jobs, Resample(j) PROVE QueueOK' /\ HeldOne'
  BY <1>3 DEF Resample, Outcomes
<1>4. CASE Recv
  <2>1. /\ Head(queue) \in Jobs /\ Head(queue) = queue[1] /\ 1 \in 1..Len(queue)
        /\ queue' = Tail(queue) /\ Len(queue') = Len(queue) - 1
        /\ \A i \in 1..Len(queue') : queue'[i] = queue[i + 1] /\ i + 1 \in 1..Len(queue)
        /\ queue' \in Seq(Jobs)
    BY <1>4 DEF Recv
  <2>2. job' = [job EXCEPT ![Head(queue)] = Verdict]
    BY <1>4 DEF Recv
  <2>3. \A i \in 1..Len(queue') : queue'[i] # Head(queue) /\ queue'[i] \in Jobs
    BY <2>1
  <2>4. QueueOK'
    BY <2>1, <2>2, <2>3
  <2>5. HeldOne'
    BY <1>4, <2>1, <2>2, VerdictType DEF Recv
  <2> QED
    BY <2>4, <2>5
<1>5. CASE BucketTick
  BY <1>5 DEF BucketTick
<1>6. CASE Dispatch
  BY <1>6 DEF Dispatch
<1>7. ASSUME NEW j \in Jobs, Answer(j) PROVE QueueOK' /\ HeldOne'
  <2>1. PICK o \in Outcomes : Answered(j, o)
    BY <1>7 DEF Answer, PlainAnswer, OverQueryLimit, RequestDenied, PlainOutcomes,
                Outcomes
  <2>2. UNCHANGED <<queue, pc>>
    BY <1>7 DEF Answer, PlainAnswer, OverQueryLimit, RequestDenied
  <2> QED
    BY <2>1, <2>2 DEF Answered, Outcomes
<1>8. CASE Advance
  BY <1>8 DEF Advance
<1>9. CASE MidnightReset
  BY <1>9 DEF MidnightReset
<1>10. CASE UNCHANGED shadowVars
  BY <1>10 DEF shadowVars
<1> QED
  BY <1>1, <1>2, <1>3, <1>4, <1>5, <1>6, <1>7, <1>8, <1>9, <1>10
     DEF ShadowNext, Worker

-----------------------------------------------------------------------------
(* Permits. *)

\* The calls in flight are finitely many.
LEMMA InflightFinite == IsFiniteSet(Inflight) /\ Cardinality(Inflight) \in Nat
<1>1. Inflight \subseteq Jobs
  BY DEF Inflight
<1> QED
  BY <1>1, ShadowAssumption, FS_Subset, FS_CardinalityType

\* Steps that neither start nor end a call.
LEMMA SameInflight ==
    ASSUME PermitsConserved, permits' = permits, Inflight' = Inflight
    PROVE  PermitsConserved'
BY DEF PermitsConserved

\* Every step conserves the permits.
LEMMA PermitsStep ==
    ASSUME ShadowTypeOK, QueueOK, HeldOne, PermitsConserved, [ShadowNext]_shadowVars
    PROVE  PermitsConserved' /\ permits' \in 0..InflightCap
<1> USE ShadowAssumption DEF ShadowTypeOK
<1>1. CASE Dispatch
  <2>1. PICK h \in Jobs : \A j \in Jobs : job[j] = "held" <=> j = h
    BY <1>1 DEF Dispatch, HeldOne
  <2>2. Inflight' = Inflight \cup {h} /\ h \notin Inflight
    BY <1>1, <2>1 DEF Dispatch, Inflight
  <2>3. Cardinality(Inflight') = Cardinality(Inflight) + 1
    BY <2>2, InflightFinite, FS_AddElement
  <2> QED
    BY <1>1, <2>3, InflightFinite DEF Dispatch, PermitsConserved
<1>2. ASSUME NEW j \in Jobs, Answer(j)
      PROVE  PermitsConserved' /\ permits' \in 0..InflightCap
  <2>1. PICK o \in Outcomes : Answered(j, o)
    BY <1>2 DEF Answer, PlainAnswer, OverQueryLimit, RequestDenied, PlainOutcomes,
                Outcomes
  <2>2. Inflight' = Inflight \ {j} /\ j \in Inflight
    BY <2>1 DEF Answered, Inflight, Outcomes
  <2>3. Cardinality(Inflight') = Cardinality(Inflight) - 1
    BY <2>2, InflightFinite, FS_RemoveElement
  <2>4. Cardinality(Inflight) \in Nat /\ Cardinality(Inflight') \in Nat
    BY <2>2, InflightFinite, FS_RemoveElement, FS_CardinalityType
  <2> QED
    BY <2>1, <2>3, <2>4 DEF Answered, PermitsConserved
<1>3. CASE Recv
  <2>1. Head(queue) \in Jobs /\ job[Head(queue)] = "queued"
    BY <1>3 DEF Recv, QueueOK
  <2>2. Inflight' = Inflight
    BY <1>3, <2>1, VerdictType DEF Recv, Inflight
  <2> QED
    BY <1>3, <2>2, SameInflight DEF Recv
<1>4. ASSUME NEW j \in Jobs, Enqueue(j) \/ QueueFull(j) \/ Resample(j)
      PROVE  PermitsConserved' /\ permits' \in 0..InflightCap
  <2>1. Inflight' = Inflight /\ permits' = permits
    BY <1>4 DEF Enqueue, QueueFull, Resample, Inflight, Outcomes
  <2> QED
    BY <2>1, SameInflight
<1>5. CASE BucketTick \/ Advance \/ MidnightReset \/ UNCHANGED shadowVars
  <2>1. Inflight' = Inflight /\ permits' = permits
    BY <1>5 DEF BucketTick, Advance, MidnightReset, shadowVars, Inflight
  <2> QED
    BY <2>1, SameInflight
<1> QED
  BY <1>1, <1>2, <1>3, <1>4, <1>5 DEF ShadowNext, Worker

-----------------------------------------------------------------------------
(* Gates. *)

\* Every step keeps the calls of a day within the cap, the held job counted.
LEMMA CapStep ==
    ASSUME ShadowTypeOK, CapAhead, [ShadowNext]_shadowVars
    PROVE  CapAhead'
<1> USE ShadowAssumption, VerdictType DEF ShadowTypeOK, CapAhead
<1> QED
  BY DEF ShadowNext, Worker, Enqueue, QueueFull, Resample, Recv, BucketTick, Dispatch,
         Answer, PlainAnswer, OverQueryLimit, RequestDenied, Advance,
         MidnightReset, shadowVars

\* Every step keeps the calls after a gate closed within what was past it.
LEMMA LeakStep ==
    ASSUME ShadowTypeOK, LeakAhead, [ShadowNext]_shadowVars
    PROVE  LeakAhead'
<1> USE ShadowAssumption DEF ShadowTypeOK, LeakAhead, GateClosed
<1>1. ASSUME NEW j \in Jobs, Enqueue(j) \/ QueueFull(j) \/ Resample(j) PROVE LeakAhead'
  BY <1>1 DEF Enqueue, QueueFull, Resample
<1>2. CASE Recv
  BY <1>2, VerdictType DEF Recv
<1>3. CASE BucketTick \/ Dispatch
  BY <1>3 DEF BucketTick, Dispatch
<1>4. ASSUME NEW j \in Jobs, Answer(j) PROVE LeakAhead'
  BY <1>4 DEF Answer, PlainAnswer, OverQueryLimit, RequestDenied
<1>5. CASE Advance
  BY <1>5 DEF Advance, CountDown
<1>6. CASE MidnightReset \/ UNCHANGED shadowVars
  BY <1>6 DEF MidnightReset, shadowVars
<1> QED
  BY <1>1, <1>2, <1>3, <1>4, <1>5, <1>6 DEF ShadowNext, Worker

-----------------------------------------------------------------------------
(* The rate bucket. *)

\* A set of numbers that is not empty has a least one.
LEMMA LeastExists ==
    ASSUME NEW T, T \subseteq Nat, T # {}
    PROVE  \E x \in T : \A y \in T : x <= y
<1> DEFINE R == OpToRel(<, Nat)
<1>1. IsWellFoundedOn(R, Nat)
  BY NatLessThanWellFounded
<1> HIDE DEF R
<1>2. PICK x \in T : \A y \in T : ~ (<<y, x>> \in R)
  BY <1>1, WFMin
<1>3. \A y \in T : ~(y < x)
  BY <1>2 DEF R, OpToRel
<1> QED
  BY <1>2, <1>3

\* p is the running total of the calls c, period by period.
Totals(p, c, n) ==
    /\ p \in [0..n -> Nat] /\ p[0] = 0 /\ \A k \in 0..(n - 1) : c[k] \in Nat
    /\ \A k \in 1..n : p[k] = p[k - 1] + c[k - 1]

\* There is a running total, by induction on the periods it covers.
LEMMA TotalsExist ==
    ASSUME NEW N \in Nat, NEW c, \A k \in 0..(N - 1) : c[k] \in Nat
    PROVE  \E p : Totals(p, c, N)
<1> DEFINE T == {n \in 0..N : ~\E p : Totals(p, c, n)}
<1> SUFFICES ASSUME T # {} PROVE FALSE
  <2>1. N \in 0..N
    OBVIOUS
  <2> QED
    BY <2>1
<1>1. PICK m \in T : \A y \in T : m <= y
  <2>1. T \subseteq Nat
    OBVIOUS
  <2> HIDE DEF T
  <2> QED
    BY <2>1, LeastExists
<1>2. m \in 0..N /\ ~\E p : Totals(p, c, m)
  BY <1>1
<1>3. m # 0
  <2>1. Totals([k \in 0..0 |-> 0], c, 0)
    BY DEF Totals
  <2> QED
    BY <1>2, <2>1
<1>4. m - 1 \in 0..N /\ m - 1 \notin T /\ m - 1 \in 0..(N - 1) /\ m \in Nat
  BY <1>1, <1>2, <1>3
<1>5. PICK p : Totals(p, c, m - 1)
  BY <1>4
<1> DEFINE q == [k \in 0..m |-> IF k = m THEN p[m - 1] + c[m - 1] ELSE p[k]]
<1> HIDE DEF T
<1>6. c[m - 1] \in Nat /\ p \in [0..(m - 1) -> Nat]
  BY <1>4, <1>5 DEF Totals
<1>7. p[m - 1] \in Nat
  BY <1>4, <1>6
<1>8. \A k \in 0..m : k # m => k \in 0..(m - 1)
  BY <1>4
<1>9. q \in [0..m -> Nat]
  BY <1>4, <1>6, <1>7, <1>8
<1>10. q[0] = 0
  BY <1>3, <1>4, <1>5 DEF Totals
<1>11. ASSUME NEW k \in 1..m PROVE q[k] = q[k - 1] + c[k - 1]
  <2>1. k - 1 \in 0..m /\ k - 1 # m /\ k \in 0..m
    BY <1>4
  <2>2. q[k - 1] = p[k - 1]
    BY <2>1
  <2>3. CASE k = m
    BY <2>1, <2>2, <2>3
  <2>4. CASE k # m
    <3>1. k \in 1..(m - 1)
      BY <1>4, <2>4
    <3>2. q[k] = p[k]
      BY <2>1, <2>4
    <3> QED
      BY <1>5, <2>2, <3>1, <3>2 DEF Totals
  <2> QED
    BY <2>3, <2>4
<1>12. Totals(q, c, m)
  <2> HIDE DEF q
  <2>1. \A k \in 0..(m - 1) : c[k] \in Nat
    BY <1>2, <1>4
  <2> QED
    BY <1>9, <1>10, <1>11, <2>1 DEF Totals
<1> QED
  BY <1>2, <1>12

\* The recursion of CallsWithin has a solution: it is the running total.
LEMMA CallsWithinTotals ==
    ASSUME \A k \in 0..(RpsCap - 1) : calls[k] \in Nat
    PROVE  Totals(CallsWithin, calls, RpsCap)
<1> DEFINE G(f) == [n \in 0..RpsCap |-> IF n = 0 THEN 0 ELSE f[n - 1] + calls[n - 1]]
<1>1. RpsCap \in Nat
  BY ShadowAssumption
<1>2. PICK p : Totals(p, calls, RpsCap)
  BY <1>1, TotalsExist
<1>3. p = G(p)
  <2>1. p = [n \in 0..RpsCap |-> p[n]]
    BY <1>2 DEF Totals
  <2>2. ASSUME NEW n \in 0..RpsCap PROVE p[n] = IF n = 0 THEN 0 ELSE p[n - 1] + calls[n - 1]
    <3>1. n # 0 => n \in 1..RpsCap
      BY <1>1
    <3> QED
      BY <1>2, <3>1 DEF Totals
  <2> QED
    BY <2>1, <2>2
<1>4. CallsWithin = CHOOSE f : f = G(f)
  BY DEF CallsWithin
<1>5. CallsWithin = G(CallsWithin)
  <2> HIDE DEF G
  <2>1. \E f : f = G(f)
    BY <1>3
  <2> QED
    BY <1>4, <2>1
<1>6. /\ CallsWithin[0] = 0 /\ DOMAIN CallsWithin = 0..RpsCap
      /\ CallsWithin = [n \in 0..RpsCap |-> CallsWithin[n]]
      /\ \A k \in 1..RpsCap : CallsWithin[k] = CallsWithin[k - 1] + calls[k - 1]
  <2> DEFINE f == CallsWithin
  <2>1. f = [n \in 0..RpsCap |-> IF n = 0 THEN 0 ELSE f[n - 1] + calls[n - 1]]
    BY <1>5
  <2> HIDE DEF f
  <2>2. DOMAIN f = 0..RpsCap /\ f = [n \in 0..RpsCap |-> f[n]]
    BY <2>1
  <2>3. \A n \in 0..RpsCap : f[n] = IF n = 0 THEN 0 ELSE f[n - 1] + calls[n - 1]
    BY <2>1
  <2>4. f[0] = 0 /\ \A k \in 1..RpsCap : f[k] = f[k - 1] + calls[k - 1]
    BY <1>1, <2>3
  <2> QED
    BY <2>2, <2>4 DEF f
<1>7. \A n \in 0..RpsCap : CallsWithin[n] \in Nat
  <2> DEFINE T == {n \in 0..RpsCap : CallsWithin[n] \notin Nat}
  <2> SUFFICES ASSUME T # {} PROVE FALSE
    OBVIOUS
  <2>1. PICK m \in T : \A y \in T : m <= y
    <3>1. T \subseteq Nat
      BY <1>1
    <3> HIDE DEF T
    <3> QED
      BY <3>1, LeastExists
  <2>2. m \in 1..RpsCap /\ m - 1 \in 0..RpsCap /\ m - 1 \in 0..(RpsCap - 1)
    BY <1>1, <1>6, <2>1
  <2>3. CallsWithin[m - 1] \in Nat
    BY <2>1, <2>2
  <2>4. CallsWithin[m] \in Nat
    <3>1. calls[m - 1] \in Nat
      BY <2>2
    <3>2. CallsWithin[m] = CallsWithin[m - 1] + calls[m - 1]
      BY <1>6, <2>2
    <3> QED
      BY <2>3, <3>1, <3>2
  <2> QED
    BY <2>1, <2>4
<1> QED
  BY <1>6, <1>7 DEF Totals

\* Ticks that are still to be turned into calls before the next period: one that
\* the worker holds, and one that the bucket has ready.
Ready == (IF pc = "permit" THEN 1 ELSE 0) + (IF tickIn = 0 THEN 1 ELSE 0)

\* However far back one looks, there was a call for each period and one more,
\* less the ticks that are ready.
RateAhead == \A n \in 1..RpsCap : CallsWithin[n] + Ready <= n + 1

\* Running totals agree from where they agree on, by induction: y is what q has
\* more than p, s how many periods it is behind.
LEMMA TotalsAgree ==
    ASSUME NEW N \in Nat, NEW p, NEW c, Totals(p, c, N), NEW q, NEW d, Totals(q, d, N),
           NEW s \in {0, 1}, NEW y \in Nat, N >= 1, q[1] = p[1 - s] + y,
           \A k \in 1..(N - 1) : d[k] = c[k - s]
    PROVE  \A n \in 1..N : q[n] = p[n - s] + y
<1> DEFINE T == {n \in 1..N : q[n] # p[n - s] + y}
<1> SUFFICES ASSUME T # {} PROVE FALSE
  OBVIOUS
<1>1. PICK m \in T : \A z \in T : m <= z
  <2>1. T \subseteq Nat
    OBVIOUS
  <2> HIDE DEF T
  <2> QED
    BY <2>1, LeastExists
<1>2. m \in 1..N /\ q[m] # p[m - s] + y /\ m # 1
  BY <1>1
<1>3. m - 1 \in 1..(N - 1) /\ m - 1 \in 1..N /\ m - 1 \notin T
  BY <1>1, <1>2
<1>4. q[m - 1] = p[(m - 1) - s] + y
  BY <1>3
<1> HIDE DEF T
<1>5. d[m - 1] = c[(m - 1) - s]
  BY <1>3
<1>6. m - s \in 1..N /\ (m - s) - 1 = (m - 1) - s /\ (m - s) - 1 \in 0..(N - 1) /\ (m - s) - 1 \in 0..N
  BY <1>2
<1>7. q[m] = q[m - 1] + d[m - 1]
  BY <1>2 DEF Totals
<1>8. p[m - s] = p[(m - s) - 1] + c[(m - s) - 1]
  BY <1>6 DEF Totals
<1>9. p[(m - s) - 1] \in Nat /\ c[(m - s) - 1] \in Nat
  BY <1>6 DEF Totals
<1> QED
  BY <1>2, <1>4, <1>5, <1>6, <1>7, <1>8, <1>9

\* The calls of the state are totalled, before and after a step.
LEMMA TotalsNow == ShadowTypeOK => Totals(CallsWithin, calls, RpsCap)
BY CallsWithinTotals DEF ShadowTypeOK

\* The sum over the last periods is defined by its recursion after a step, too.
LEMMA TotalsNext == ShadowTypeOK' => Totals(CallsWithin, calls, RpsCap)'
BY TotalsNow, PTL

\* Every step leaves the rate within its bound: a tick that is taken is a ready
\* one, a call uses one up, and a period that passes makes one ready.
LEMMA RateStep ==
    ASSUME ShadowTypeOK, RateAhead, [ShadowNext]_shadowVars, ShadowTypeOK'
    PROVE  RateAhead'
<1>1. RpsCap \in Nat /\ RpsCap >= 1 /\ 1 \in 1..RpsCap
  BY ShadowAssumption
<1>2. Totals(CallsWithin, calls, RpsCap) /\ Totals(CallsWithin', calls', RpsCap)
  BY TotalsNow, TotalsNext DEF Totals
<1>3. ASSUME UNCHANGED calls, Ready' <= Ready PROVE RateAhead'
  <2>1. CallsWithin' = CallsWithin
    BY <1>3 DEF CallsWithin
  <2>2. Ready \in Nat /\ Ready' \in Nat
    BY DEF Ready
  <2>3. \A n \in 1..RpsCap : CallsWithin[n] \in Nat
    BY <1>1, <1>2 DEF Totals
  <2> QED
    BY <1>1, <1>3, <2>1, <2>2, <2>3 DEF RateAhead
<1>4. CASE UNCHANGED shadowVars
  BY <1>3, <1>4 DEF shadowVars, Ready
<1>5. ASSUME NEW j \in Jobs, Enqueue(j) \/ QueueFull(j) \/ Resample(j) \/ Answer(j) PROVE RateAhead'
  <2>1. UNCHANGED <<pc, tickIn, calls>>
    BY <1>5 DEF Enqueue, QueueFull, Resample, Answer, PlainAnswer, OverQueryLimit, RequestDenied
  <2> QED
    BY <1>3, <2>1 DEF Ready
<1>6. CASE Recv \/ BucketTick \/ MidnightReset
  BY <1>3, <1>6 DEF Recv, BucketTick, MidnightReset, Ready
<1>7. CASE Dispatch
  <2>1. /\ pc = "permit" /\ pc' = "recv" /\ UNCHANGED tickIn
        /\ calls' = [calls EXCEPT ![0] = @ + 1]
    BY <1>7 DEF Dispatch
  <2>2. Ready' = Ready - 1 /\ Ready \in Nat
    BY <2>1 DEF Ready
  <2>3. /\ calls'[0] = calls[0] + 1 /\ calls[0] \in Nat
        /\ \A k \in 1..(RpsCap - 1) : calls'[k] = calls[k - 0]
    BY <1>1, <2>1 DEF ShadowTypeOK
  <2>4. CallsWithin'[1] = CallsWithin[1 - 0] + 1
    <3>1. CallsWithin[1] = CallsWithin[0] + calls[0] /\ CallsWithin[0] = 0
      BY <1>1, <1>2 DEF Totals
    <3>2. CallsWithin'[1] = CallsWithin'[0] + calls'[0] /\ CallsWithin'[0] = 0
      BY <1>1, <1>2 DEF Totals
    <3> QED
      BY <2>3, <3>1, <3>2
  <2>5. \A n \in 1..RpsCap : CallsWithin'[n] = CallsWithin[n - 0] + 1
    <3>1. 0 \in {0, 1} /\ 1 \in Nat
      OBVIOUS
    <3> QED
      BY <1>1, <1>2, <2>3, <2>4, <3>1, TotalsAgree
  <2>6. \A n \in 1..RpsCap : n - 0 = n /\ CallsWithin[n] \in Nat
    BY <1>1, <1>2 DEF Totals
  <2> QED
    BY <1>1, <2>2, <2>5, <2>6 DEF RateAhead
<1>8. CASE Advance
  <2>1. /\ UNCHANGED pc /\ tickIn' = 0
        /\ calls' = [k \in 0..(RpsCap - 1) |-> IF k = 0 THEN 0 ELSE calls[k - 1]]
    BY <1>8 DEF Advance, CountDown, ShadowTypeOK
  <2>2. Ready' <= Ready + 1 /\ Ready' <= 2 /\ Ready \in Nat /\ Ready' \in Nat
    BY <2>1 DEF Ready
  <2>3. calls'[0] = 0 /\ \A k \in 1..(RpsCap - 1) : calls'[k] = calls[k - 1]
    BY <1>1, <2>1
  <2>4. CallsWithin'[1] = CallsWithin[1 - 1] + 0 /\ CallsWithin[0] = 0
    <3>1. CallsWithin'[1] = CallsWithin'[0] + calls'[0] /\ CallsWithin'[0] = 0
      BY <1>1, <1>2 DEF Totals
    <3>2. CallsWithin[0] = 0
      BY <1>2 DEF Totals
    <3> QED
      BY <2>3, <3>1, <3>2
  <2>5. \A n \in 1..RpsCap : CallsWithin'[n] = CallsWithin[n - 1] + 0
    <3>1. 1 \in {0, 1} /\ 0 \in Nat
      OBVIOUS
    <3> QED
      BY <1>1, <1>2, <2>3, <2>4, <3>1, TotalsAgree
  <2>6. ASSUME NEW n \in 1..RpsCap PROVE CallsWithin'[n] + Ready' <= n + 1
    <3>1. CallsWithin[n - 1] \in Nat
      BY <1>1, <1>2 DEF Totals
    <3>2. CASE n = 1
      BY <2>2, <2>4, <3>2
    <3>3. CASE n # 1
      <4>1. n - 1 \in 1..RpsCap
        BY <1>1, <3>3
      <4>2. CallsWithin[n - 1] + Ready <= (n - 1) + 1
        BY <4>1 DEF RateAhead
      <4> QED
        BY <2>2, <2>5, <3>1, <4>2
    <3> QED
      BY <3>2, <3>3
  <2> QED
    BY <2>6 DEF RateAhead
<1> QED
  BY <1>4, <1>5, <1>6, <1>7, <1>8 DEF ShadowNext, Worker

-----------------------------------------------------------------------------

ShadowInv ==
    /\ ShadowTypeOK /\ QueueOK /\ HeldOne
    /\ PermitsConserved
    /\ CapAhead /\ LeakAhead /\ RateAhead

\* The invariant of the worker holds at every step.
LEMMA ShadowInvariance == ShadowSpec => []ShadowInv
<1>1. ShadowInit => ShadowInv
  <2> SUFFICES ASSUME ShadowInit PROVE ShadowInv
    OBVIOUS
  <2>1. ShadowTypeOK /\ QueueOK /\ HeldOne
    <3>1. authDisabled \in BOOLEAN
      BY DEF ShadowInit
    <3>2. ShadowTypeOK
      BY <3>1, ShadowAssumption DEF ShadowInit, ShadowTypeOK
    <3>3. QueueOK /\ HeldOne
      BY DEF ShadowInit, QueueOK, HeldOne
    <3> QED
      BY <3>2, <3>3
  <2>2. Inflight = {}
    BY DEF ShadowInit, Inflight
  <2>3. PermitsConserved
    BY <2>2, FS_EmptySet, ShadowAssumption DEF ShadowInit, PermitsConserved
  <2>4. CapAhead /\ LeakAhead
    BY ShadowAssumption DEF ShadowInit, CapAhead, LeakAhead
  <2>5. RateAhead
    <3>1. RpsCap \in Nat /\ RpsCap >= 1
      BY ShadowAssumption
    <3>2. Totals(CallsWithin, calls, RpsCap)
      BY <2>1, TotalsNow
    <3>3. /\ \A k \in 0..(RpsCap - 1) : calls[k] = 0
          /\ Ready = 1
      BY DEF ShadowInit, Ready
    <3>4. CallsWithin[1] = 0
      <4>1. 1 \in 1..RpsCap /\ 0 \in 0..(RpsCap - 1)
        BY <3>1
      <4>2. CallsWithin[1] = CallsWithin[0] + calls[0] /\ CallsWithin[0] = 0
        BY <3>2, <4>1 DEF Totals
      <4> QED
        BY <3>3, <4>1, <4>2
    <3> DEFINE T == {n \in 1..RpsCap : CallsWithin[n] # 0}
    <3>5. T = {}
      <4> SUFFICES ASSUME T # {} PROVE FALSE
        OBVIOUS
      <4>1. PICK m \in T : \A z \in T : m <= z
        <5>1. T \subseteq Nat
          BY <3>1
        <5> HIDE DEF T
        <5> QED
          BY <5>1, LeastExists
      <4>2. m \in 1..RpsCap /\ m # 1 /\ m - 1 \in 1..RpsCap /\ m - 1 \in 0..(RpsCap - 1)
        BY <3>1, <3>4, <4>1
      <4>3. CallsWithin[m - 1] = 0
        BY <4>1, <4>2
      <4>4. CallsWithin[m] = CallsWithin[m - 1] + calls[m - 1]
        BY <3>2, <4>2 DEF Totals
      <4> QED
        BY <3>3, <4>1, <4>2, <4>3, <4>4
    <3> QED
      BY <3>1, <3>3, <3>5 DEF RateAhead
  <2> QED
    BY <2>1, <2>3, <2>4, <2>5 DEF ShadowInv
<1>2. ShadowInv /\ [ShadowNext]_shadowVars => ShadowInv'
  BY TypeStep, JobsStep, PermitsStep, CapStep, LeakStep, RateStep DEF ShadowInv
<1> QED
  BY <1>1, <1>2, PTL DEF ShadowSpec

\* Types, and with them the bounds of the channel and of the semaphore.
THEOREM ShadowTypeCorrect == ShadowSpec => []ShadowTypeOK
BY ShadowInvariance, PTL DEF ShadowInv

\* Permits and calls under way add up to inflight_cap in every reachable state,
\* so never more than inflight_cap calls are open at Google.
THEOREM PermitsAreConserved == ShadowSpec => []PermitsConserved
BY ShadowInvariance, PTL DEF ShadowInv

\* The load of daily_count and the fetch_add two awaits later are safe: the
\* calls counted since a reset never exceed daily_cap.
THEOREM DailyCapIsKept == ShadowSpec => []DailyCapHolds
<1>1. ShadowInv => DailyCapHolds
  BY DEF ShadowInv, CapAhead, DailyCapHolds
<1> QED
  BY <1>1, ShadowInvariance, PTL

\* However many answers close the gates and however long the worker waits for
\* the bucket and for a permit, at most one call gets out while they are closed.
THEOREM LeakIsBounded == ShadowSpec => []LeakAtMostOne
<1>1. ShadowInv => LeakAtMostOne
  BY DEF ShadowInv, LeakAhead, LeakAtMostOne
<1> QED
  BY <1>1, ShadowInvariance, PTL

\* Whatever waits for permits, a second holds at most one call more than rps_cap:
\* MissedTickBehavior::Delay lets the bucket be at most one tick ahead of the
\* calls, and the worker hold at most one.
THEOREM RateIsKept == ShadowSpec => []RpsWithinOne
<1>1. ShadowInv => RpsWithinOne
  <2> SUFFICES ASSUME ShadowInv PROVE RpsWithinOne
    OBVIOUS
  <2>1. RpsCap \in Nat /\ RpsCap \in 1..RpsCap /\ RpsCap \in 0..RpsCap
    BY ShadowAssumption
  <2>2. CallsWithin[RpsCap] \in Nat
    BY <2>1, TotalsNow DEF ShadowInv, Totals
  <2>3. Ready \in Nat /\ CallsWithin[RpsCap] + Ready <= RpsCap + 1
    BY <2>1 DEF ShadowInv, RateAhead, Ready
  <2> QED
    BY <2>1, <2>2, <2>3 DEF RpsWithinOne
<1> QED
  BY <1>1, ShadowInvariance, PTL
=============================================================================
