-------------------------- MODULE FetchRun_proofs --------------------------
(***************************************************************************)
(* Proofs about FetchRun, for any number of publications, any scopes of    *)
(* databases and any crontab.                                              *)
(***************************************************************************)
EXTENDS FetchRun, FiniteSetTheorems, FunctionTheorems, SequenceTheorems, TLAPS

-----------------------------------------------------------------------------
(* The inductive invariant. *)

\* A downloaded file or its ETag belongs to a publication of its target: DB-IP
\* is the one that is ahead of the others by a month.
WebType(f, t) ==
    /\ f \in [file : Int, etag : Int] /\ DOMAIN f = {"file", "etag"}
    /\ f.file \in Int /\ f.etag \in Int /\ f.file >= None /\ f.etag >= None
    /\ f.file <= server + 1 /\ f.etag <= server + 1
    /\ t # "gz" => f.file <= server
    /\ t \in Pbfs \cup {"zip"} /\ f.etag # None => f.file # None

\* What is on disk was published, and a PBF or a G-NAF archive is there when its
\* ETag is.
WebOK == DOMAIN web = Targets /\ \A t \in Targets : WebType(web[t], t)

\* A state.txt that is not cut was written from a body that parses.
StateOK ==
    \A u \in Pbfs : state[u] \notin {<<>>, Cut} =>
      \E body \in StateBodies : StateParses(body) /\ state[u] = ToStringWire(ParseState(body))

FilesOK ==
    /\ WebOK /\ DOMAIN state = Pbfs /\ StateOK
    /\ staged \in [Dbs -> -1..server] /\ db \in [Dbs -> -1..server]
    /\ refresh \in [Dbs -> -2..server]
    /\ mmdb \in IpFile /\ source \in IpFile /\ (mmdb # NoIp => mmdb.pub \in Nat)
    /\ \A n \in DOMAIN psv : psv[n] \in Pubs \cup {Partial}

Sources == {"region", "admin", "postalcode", "oa", "maxmind", "gnaf", "exit"}

RunOK ==
    /\ server \in Pubs /\ began \in Pubs /\ began <= server
    /\ crontab \in Crontabs /\ inv \in crontab
    /\ pc \in {"idle"} \cup Sources
    /\ failed \in BOOLEAN
    /\ exit \in {"none", "running", "ok", "error", "killed"}
    /\ pc # "idle" => exit = "running" /\ Selected(inv, pc)
    /\ pc \in {"idle", "oa", "exit"} => step = "start"
    /\ pc = "region" => step \in {"start", "tasks"}
    /\ pc \in Datasets => step \in {"start", "next", "stage", "decode", "decoding", "install"}
    /\ pc = "maxmind" => step \in {"start", "fetch", "extract", "rename", "clean", "record"}
    /\ pc = "gnaf" => step \in {"start", "unzip", "copy", "copying"}

\* A publication that serves: any, and in a forced run none that is older than
\* the run.
Fresh(p) == p \in Nat /\ (inv.force => p >= began)

\* Tasks run on the PBFs of the preset; one that has fetched has its file.
OsmOK ==
    pc = "region" /\ step = "tasks" =>
      /\ ParseRegion(inv.region) # "unknown"
      /\ DOMAIN task = Urls(ParseRegion(inv.region))
      /\ \A u \in DOMAIN task : failed = FALSE /\ task[u] # "waiting" => Fresh(web[u].file)

\* Databases are taken from the list; one that is off it is installed.  What is
\* about to be installed is no older than what it replaces.
WofOK ==
    pc \in Datasets /\ step # "start" =>
      /\ todo \in Seq(Scope[pc])
      /\ \A d \in Scope[pc] : failed = FALSE /\ (\A k \in DOMAIN todo : todo[k] # d) => Fresh(db[d])
      /\ step # "next" => todo # <<>> /\ (inv.force \/ db[Head(todo)] = None)
      /\ step = "stage" /\ inv.force =>
           /\ web[Head(todo)].file >= began /\ web[Head(todo)].file >= db[Head(todo)]
      /\ step \in {"decode", "decoding"} =>
           Fresh(staged[Head(todo)]) /\ staged[Head(todo)] >= db[Head(todo)]
      /\ step = "install" =>
           Fresh(refresh[Head(todo)]) /\ refresh[Head(todo)] >= db[Head(todo)]

IpOK ==
    pc = "maxmind" /\ step # "start" =>
      /\ inv.key \/ inv.fallback
      /\ todo \in Seq(Int) /\ todo # <<>>
      /\ \A k \in DOMAIN todo : began <= todo[k] /\ todo[k] <= server + 1
      /\ step = "extract" /\ inv.force => Fresh(web[Archive].file)
      /\ step = "rename" => Fresh(web[Archive].file)
      /\ step \in {"clean", "record"} => mmdb # NoIp /\ Fresh(mmdb.pub)

\* The PSV files of the archive are copied or left to copy; the one that is
\* being copied is cut short.
GnafOK ==
    pc = "gnaf" /\ step # "start" =>
      /\ Fresh(web["zip"].file) /\ inv.gnafUrl = "good"
      /\ step \in {"copy", "copying"} =>
           /\ todo \subseteq Psvs[web["zip"].file]
           /\ \A n \in Psvs[web["zip"].file] \ todo : n \in DOMAIN psv /\ psv[n] = web["zip"].file
      /\ step = "copying" => \A n \in DOMAIN task : n \in DOMAIN psv /\ psv[n] = Partial

\* What a source was asked for is on disk.
Got(s) ==
    CASE s = "region" -> /\ ParseRegion(inv.region) # "unknown"
                         /\ \A u \in Urls(ParseRegion(inv.region)) : Fresh(web[u].file)
      [] s \in Datasets -> \A d \in Scope[s] : Fresh(db[d])
      [] s = "maxmind" -> inv.key \/ inv.fallback => mmdb # NoIp /\ Fresh(mmdb.pub)
      [] s = "gnaf" -> /\ inv.gnafUrl # "unset" => inv.gnafUrl = "good" /\ DOMAIN psv # {}
                       /\ inv.gnafUrl = "good" /\ inv.force =>
                            \A n \in Psvs[web["zip"].file] :
                              psv[n] = web["zip"].file /\ Fresh(web["zip"].file)
      [] OTHER -> TRUE

\* A run without failure has what the sources it is past were asked for.
PassedOK ==
    pc # "idle" /\ failed = FALSE =>
      \A s \in Sources : Position(s) < Position(pc) /\ Selected(inv, s) => Got(s)

ExitOK ==
    exit = "ok" => failed = FALSE /\ \A s \in Sources : Selected(inv, s) => Got(s)

IInv == RunOK /\ FilesOK /\ OsmOK /\ WofOK /\ IpOK /\ GnafOK /\ PassedOK /\ ExitOK

\* A PSV file changes only under the task that began it.
PsvKept ==
    \A n \in DOMAIN psv :
       /\ n \in DOMAIN psv'
       /\ psv'[n] # psv[n] => psv[n] = Partial /\ n \in DOMAIN task

\* What a step of a run never does to the files the index build and the server
\* read; the IP database and the PSV files are touched by their source only.
Keeps ==
    /\ \A u \in Pbfs : web'[u].file >= web[u].file
    /\ pc # "region" => \A u \in Pbfs : web'[u].file = web[u].file
    /\ \A d \in Dbs : db'[d] >= db[d]
    /\ pc # "maxmind" => mmdb' = mmdb
    /\ mmdb # NoIp => mmdb' # NoIp
    /\ inv.force /\ mmdb' # mmdb => mmdb'.pub >= began
    /\ pc # "gnaf" => psv' = psv /\ web'["zip"] = web["zip"]
    /\ PsvKept

-----------------------------------------------------------------------------
(* The order of the sources. *)

\* main visits the sources in one fixed order.
LEMMA Positions ==
    /\ Position("region") = 1 /\ Position("admin") = 2 /\ Position("postalcode") = 3
    /\ Position("oa") = 4 /\ Position("maxmind") = 5 /\ Position("gnaf") = 6
    /\ Position("exit") = 7
    /\ Sources = {Order[k] : k \in DOMAIN Order}
    /\ \A k \in DOMAIN Order : Position(Order[k]) = k
<1>1. DOMAIN Order = 1..7 /\ DOMAIN Order = {1, 2, 3, 4, 5, 6, 7}
  BY DEF Order
<1>2. ASSUME NEW k \in 1..7 PROVE Position(Order[k]) = k
  BY <1>1, <1>2 DEF Position, Order
<1>3. Sources = {Order[k] : k \in DOMAIN Order}
  <2>1. ASSUME NEW s \in Sources PROVE \E k \in 1..7 : s = Order[k]
    BY DEF Sources, Order
  <2>2. ASSUME NEW k \in 1..7 PROVE Order[k] \in Sources
    BY DEF Sources, Order
  <2> QED BY <1>1, <2>1, <2>2
<1>4. /\ Order[1] = "region" /\ Order[2] = "admin" /\ Order[3] = "postalcode"
      /\ Order[4] = "oa" /\ Order[5] = "maxmind" /\ Order[6] = "gnaf" /\ Order[7] = "exit"
  BY DEF Order
<1>5. \A k \in DOMAIN Order : Position(Order[k]) = k
  BY <1>1, <1>2
<1>6. 1 \in 1..7 /\ 2 \in 1..7 /\ 3 \in 1..7 /\ 4 \in 1..7 /\ 5 \in 1..7 /\ 6 \in 1..7 /\ 7 \in 1..7
  OBVIOUS
<1> QED BY <1>2, <1>3, <1>4, <1>5, <1>6

\* After position n the run goes on with the first selected source: one that is
\* asked for, with none asked for in between.
LEMMA FollowingSource ==
    ASSUME NEW i, NEW n \in 0..6
    PROVE  /\ Following(i, n) \in Sources /\ Selected(i, Following(i, n))
           /\ Position(Following(i, n)) > n
           /\ \A s \in Sources : n < Position(s) /\ Selected(i, s)
                 => Position(Following(i, n)) <= Position(s)
<1> DEFINE later == {k \in DOMAIN Order : k > n /\ Selected(i, Order[k])}
           first == CHOOSE k \in later : \A j \in later : k <= j
<1>1. DOMAIN Order = 1..7
  BY DEF Order
<1>2. 7 \in later
  BY <1>1 DEF Order, Selected
<1>3. \E k \in later : \A j \in later : k <= j
  <2> HIDE DEF later
  <2>1. later \subseteq 1..7
    BY <1>1 DEF later
  <2> QED
    BY <1>2, <2>1
<1>4. first \in later /\ \A j \in later : first <= j
  BY <1>3
<1>5. Following(i, n) = Order[first]
  BY DEF Following
<1> HIDE DEF first
<1>6. first \in DOMAIN Order /\ first > n /\ Selected(i, Order[first])
  BY <1>4
<1>7. Position(Order[first]) = first /\ Order[first] \in Sources
  BY <1>6, Positions
<1>8. ASSUME NEW s \in Sources, n < Position(s), Selected(i, s) PROVE first <= Position(s)
  <2>1. PICK k \in DOMAIN Order : s = Order[k]
    BY Positions
  <2>2. Position(s) = k
    BY <2>1, Positions
  <2> QED BY <1>4, <1>8, <2>1, <2>2
<1> QED BY <1>5, <1>6, <1>7, <1>8

-----------------------------------------------------------------------------
(* What a download leaves, and what a source is asked for. *)

\* A fetch leaves the file as it was or holding the publication asked for; one
\* that did not fail left the file there, and the new one when it was forced.
LEMMA Fetched ==
    ASSUME server \in Nat, NEW t, NEW f, WebType(f, t), NEW now \in Nat, now <= server + 1,
           t # "gz" => now <= server, NEW force, NEW r \in FetchResults(f, now, force)
    PROVE  /\ WebType(r.f, t)
           /\ r.f.file = f.file \/ r.f.file = now
           /\ r.outcome # "failed" /\ force => r.f.file = now
           /\ r.outcome # "failed" /\ t \in Pbfs \cup {"zip"} => r.f.file # None
<1> DEFINE g == Sidecars(f, force)
<1>1. /\ DOMAIN g = {"file", "etag"} /\ g.file = f.file
      /\ g.etag = f.etag \/ g.etag = None
  BY DEF Sidecars, WebType
<1>2. WebType(g, t)
  <2>1. g \in [file : Int, etag : Int]
    BY DEF Sidecars, WebType, None
  <2> QED BY <1>1, <2>1 DEF WebType, None
<1>3. \/ r = [outcome |-> "cached", f |-> g] /\ ~force /\ NotModified(g, now)
      \/ \E e \in {now, g.etag} : r = [outcome |-> "downloaded", f |-> [file |-> now, etag |-> e]]
      \/ \E e \in {g.etag, None} : r = [outcome |-> "failed", f |-> [g EXCEPT !.etag = e]]
  BY DEF FetchResults
<1> HIDE DEF g
<1>4. CASE r = [outcome |-> "cached", f |-> g] /\ ~force /\ NotModified(g, now)
  <2>1. r.outcome = "cached" /\ r.f = g
    BY <1>4
  <2>2. t \in Pbfs \cup {"zip"} => g.file # None
    BY <1>4, <1>2 DEF NotModified, WebType, None
  <2> QED BY <1>1, <1>2, <1>4, <2>1, <2>2
<1>5. CASE \E e \in {now, g.etag} : r = [outcome |-> "downloaded", f |-> [file |-> now, etag |-> e]]
  <2>1. PICK e \in {now, g.etag} : r = [outcome |-> "downloaded", f |-> [file |-> now, etag |-> e]]
    BY <1>5
  <2>2. r.outcome = "downloaded" /\ DOMAIN r.f = {"file", "etag"} /\ r.f.file = now /\ r.f.etag = e
    BY <2>1
  <2>3. r.f \in [file : Int, etag : Int]
    BY <1>2, <2>1 DEF WebType
  <2> QED BY <1>2, <2>2, <2>3 DEF WebType, None
<1>6. CASE \E e \in {g.etag, None} : r = [outcome |-> "failed", f |-> [g EXCEPT !.etag = e]]
  <2>1. PICK e \in {g.etag, None} : r = [outcome |-> "failed", f |-> [g EXCEPT !.etag = e]]
    BY <1>6
  <2>2. r.outcome = "failed" /\ DOMAIN r.f = {"file", "etag"} /\ r.f.file = g.file /\ r.f.etag = e
    BY <1>1, <2>1
  <2>3. r.f \in [file : Int, etag : Int]
    BY <1>2, <2>1 DEF WebType, None
  <2> QED BY <1>1, <1>2, <2>2, <2>3 DEF WebType, None
<1> QED BY <1>3, <1>4, <1>5, <1>6

\* The command lines of a crontab have their types.
LEMMA InvType ==
    ASSUME RunOK
    PROVE  /\ inv \in Invocations /\ inv.force \in BOOLEAN /\ inv.key \in BOOLEAN
           /\ inv.fallback \in BOOLEAN
<1>1. inv \in Invocations
  BY RunAssumption DEF RunOK
<1> QED BY <1>1 DEF Invocations

\* A preset that parses stands for PBFs that build-index reads; the planet is
\* one only when it was asked for.
LEMMA RegionPbfs ==
    ASSUME NEW s, ParseRegion(s) # "unknown"
    PROVE  /\ Urls(ParseRegion(s)) \subseteq Pbfs
           /\ ParseRegion(s) = "planet" => Urls(ParseRegion(s)) = {"planet"}
           /\ "planet" \in Urls(ParseRegion(s)) => ParseRegion(s) = "planet"
           /\ ParseRegion(s) \in Regions
<1>1. DOMAIN Alias = {"oceania", "au", "nz", "uk", "gb", "ca", "us"}
  BY DEF Alias
<1>2. \A a \in DOMAIN Alias : Alias[a] \in {"australia-oceania", "australia", "new-zealand",
                                           "united-kingdom", "canada", "usa"}
  BY DEF Alias
<1>3. ParseRegion(s) \in Regions
  BY <1>2 DEF ParseRegion, Regions, Continents, SubRegions
<1>4. AllContinents \subseteq Continents /\ "planet" \notin Continents
  BY RunAssumption DEF Continents
<1>5. "all-continents" \notin Pbfs /\ "planet" # "all-continents"
  BY DEF Pbfs, Continents, SubRegions
<1>6. Continents \subseteq Pbfs /\ \A r \in Regions : r # "all-continents" => r \in Pbfs
  BY DEF Pbfs, Regions
<1> QED BY <1>3, <1>4, <1>5, <1>6 DEF Urls

-----------------------------------------------------------------------------
(* Steps that stay in a source, and steps that leave one. *)

\* What an earlier source of the run was asked for stays on disk.
LEMMA GotKept ==
    ASSUME RunOK, FilesOK, FilesOK', Keeps, inv' = inv, began' = began,
           NEW s \in Sources, pc \in Sources, Position(s) < Position(pc), Got(s)
    PROVE  Got(s)'
<1>1. /\ inv.force \in BOOLEAN /\ began \in Int
  BY InvType DEF RunOK, Pubs
<1>2. CASE s = "region"
  <2>1. /\ ParseRegion(inv.region) # "unknown"
        /\ \A u \in Urls(ParseRegion(inv.region)) : Fresh(web[u].file)
    BY <1>2 DEF Got, Datasets
  <2>2. ASSUME NEW u \in Urls(ParseRegion(inv.region)) PROVE Fresh(web[u].file)'
    <3>1. u \in Pbfs /\ u \in Targets
      BY <2>1, RegionPbfs DEF Targets
    <3>2. web'[u].file \in Int /\ web'[u].file >= web[u].file
      BY <3>1 DEF Keeps, FilesOK, WebOK, WebType
    <3> QED BY <1>1, <2>1, <3>2 DEF Fresh
  <2> QED BY <1>2, <2>1, <2>2 DEF Got, Datasets
<1>3. CASE s \in Datasets
  <2>1. \A d \in Scope[s] : Fresh(db[d])
    BY <1>3 DEF Got, Datasets
  <2>2. ASSUME NEW d \in Scope[s] PROVE Fresh(db[d])'
    <3>1. d \in Dbs
      BY <1>3 DEF Dbs, Datasets
    <3>2. db'[d] \in Int /\ db'[d] >= db[d]
      BY <3>1 DEF Keeps, FilesOK
    <3> QED BY <1>1, <2>1, <3>2 DEF Fresh
  <2> QED BY <1>3, <2>2 DEF Got, Datasets
<1>4. CASE s = "maxmind"
  <2>1. mmdb' = mmdb
    BY <1>4, Positions DEF Keeps
  <2> QED BY <1>4, <2>1 DEF Got, Datasets, Fresh, NoIp
<1>5. CASE s = "gnaf"
  <2>1. psv' = psv /\ web'["zip"] = web["zip"]
    BY <1>5, Positions DEF Keeps
  <2> QED BY <1>5, <2>1 DEF Got, Datasets, Fresh
<1>6. CASE s \in {"oa", "exit"}
  BY <1>6 DEF Got, Datasets
<1> QED BY <1>2, <1>3, <1>4, <1>5, <1>6 DEF Sources, Datasets

\* A step inside a source forgets no failure, and the sources it is past keep
\* what they were asked for.
LEMMA StayKeeps ==
    ASSUME IInv, FilesOK', Keeps, pc \in Sources,
           UNCHANGED <<inv, pc, exit, began>>, failed = TRUE => failed' = TRUE, failed' \in BOOLEAN
    PROVE  PassedOK' /\ ExitOK'
<1>1. exit' # "ok"
  BY DEF IInv, RunOK, Sources
<1>2. ASSUME failed' = FALSE, NEW s \in Sources, Position(s) < Position(pc), Selected(inv, s)
      PROVE  Got(s)'
  <2>1. failed = FALSE
    BY <1>2 DEF IInv, RunOK
  <2>2. Got(s)
    BY <1>2, <2>1 DEF IInv, PassedOK, Sources
  <2> QED BY <1>2, <2>2, GotKept DEF IInv
<1> QED BY <1>1, <1>2 DEF PassedOK, ExitOK

\* A source that ends hands over to the next one; when it ends well it leaves
\* what it was asked for.
LEMMA DoneKeeps ==
    ASSUME IInv, FilesOK', Keeps, pc \in Sources, pc # "exit", UNCHANGED <<server, crontab>>,
           NEW ok \in BOOLEAN, Done(ok), ok = TRUE => \A s \in Sources : s = pc => Got(s)'
    PROVE  IInv'
<1> DEFINE n == Position(pc)
<1>1. n \in 0..6
  BY Positions DEF Sources
<1>2. /\ pc' \in Sources /\ Selected(inv, pc') /\ Position(pc') > n
      /\ \A s \in Sources : n < Position(s) /\ Selected(inv, s) => Position(pc') <= Position(s)
  BY <1>1, FollowingSource DEF Done
<1>3. /\ step' = "start" /\ UNCHANGED <<inv, exit, began>>
      /\ failed' = (failed \/ ~ok)
  BY DEF Done
<1>4. failed' \in BOOLEAN /\ (failed' = FALSE => failed = FALSE /\ ok = TRUE)
  BY <1>3 DEF IInv, RunOK
<1>5. RunOK'
  BY <1>2, <1>3, <1>4 DEF IInv, RunOK, Sources, Datasets
<1>6. OsmOK' /\ WofOK' /\ IpOK' /\ GnafOK'
  BY <1>3 DEF OsmOK, WofOK, IpOK, GnafOK
<1>7. exit' # "ok"
  BY <1>3 DEF IInv, RunOK, Sources
<1>8. ASSUME failed' = FALSE, NEW s \in Sources, Position(s) < Position(pc'), Selected(inv, s)
      PROVE  Got(s)'
  <2>1. Position(s) \in 1..7 /\ Position(pc') \in 1..7
    BY <1>2, Positions DEF Sources
  <2>2. Position(s) <= n
    <3>1. n < Position(s) => Position(pc') <= Position(s)
      BY <1>2, <1>8
    <3> HIDE DEF n
    <3> QED BY <1>1, <1>8, <2>1, <3>1
  <2>3. CASE Position(s) < n
    <3>1. Got(s)
      BY <1>4, <1>8, <2>3 DEF IInv, PassedOK, Sources
    <3> QED BY <1>3, <2>3, <3>1, GotKept DEF IInv
  <2>4. CASE Position(s) = n
    <3>1. s = pc
      BY <2>4, Positions DEF Sources
    <3> QED BY <1>4, <1>8, <3>1
  <2> QED BY <1>1, <2>1, <2>2, <2>3, <2>4
<1>9. PassedOK' /\ ExitOK'
  BY <1>3, <1>7, <1>8 DEF PassedOK, ExitOK
<1> QED BY <1>5, <1>6, <1>9 DEF IInv

\* Files that are left alone are kept, and have their types still.
LEMMA FilesAlone ==
    ASSUME IInv, UNCHANGED <<server, files>>
    PROVE  FilesOK' /\ Keeps
<1>1. UNCHANGED <<server, web, state, staged, refresh, db, mmdb, source, psv>>
  BY DEF files
<1>2. FilesOK'
  BY <1>1 DEF IInv, FilesOK, WebOK, WebType, StateOK, NoIp
<1>3. /\ \A u \in Pbfs : web[u].file \in Int
      /\ \A d \in Dbs : db[d] \in Int
  BY DEF IInv, FilesOK, WebOK, WebType, Targets
<1>4. PsvKept
  BY <1>1 DEF PsvKept
<1> QED BY <1>1, <1>2, <1>3, <1>4 DEF Keeps

\* The destinations of the downloads are distinct files.
LEMMA TargetsApart ==
    /\ Pbfs \subseteq Targets /\ Dbs \subseteq Targets
    /\ "tar" \in Targets /\ "gz" \in Targets /\ "zip" \in Targets
    /\ \A t \in {"tar", "gz", "zip"} : t \notin Pbfs /\ t \notin Dbs
    /\ \A d \in Dbs : d \notin Pbfs
    /\ \A ds \in Datasets : Scope[ds] \subseteq Dbs
<1>1. \A t \in {"tar", "gz", "zip"} : t \notin Pbfs
  BY DEF Pbfs, Continents, SubRegions
<1>2. Dbs \cap (Pbfs \cup {"tar", "gz", "zip"}) = {}
  BY RunAssumption
<1>3. \A ds \in Datasets : Scope[ds] \subseteq Dbs
  BY DEF Datasets, Dbs
<1> QED BY <1>1, <1>2, <1>3 DEF Targets

\* A download that changes one target only, and takes no PBF back.
LEMMA WebUpdated ==
    ASSUME IInv, NEW t \in Targets, NEW f, WebType(f, t), web' = [web EXCEPT ![t] = f],
           UNCHANGED <<server, state, staged, refresh, db, mmdb, source, psv>>,
           t \in Pbfs => pc = "region" /\ f.file >= web[t].file, t = "zip" => pc = "gnaf"
    PROVE  FilesOK' /\ Keeps
<1>1. DOMAIN web = Targets /\ DOMAIN web' = Targets
  BY DEF IInv, FilesOK, WebOK
<1>2. web'[t] = f /\ \A v \in Targets : v # t => web'[v] = web[v]
  BY <1>1
<1>3. \A v \in Targets : WebType(web'[v], v)
  BY <1>2 DEF IInv, FilesOK, WebOK
<1>4. WebOK'
  BY <1>1, <1>3 DEF WebOK, WebType
<1>5. FilesOK'
  BY <1>4 DEF IInv, FilesOK, StateOK, NoIp
<1>6. /\ \A u \in Pbfs : web[u].file \in Int
      /\ \A d \in Dbs : db[d] \in Int
  BY TargetsApart DEF IInv, FilesOK, WebOK, WebType
<1>7. \A u \in Pbfs : web'[u].file >= web[u].file
  <2> TAKE u \in Pbfs
  <2> QED BY <1>2, <1>6, TargetsApart
<1>8. pc # "gnaf" => web'["zip"] = web["zip"]
  BY <1>2, TargetsApart
<1>9. PsvKept
  BY DEF PsvKept
<1> QED BY <1>5, <1>6, <1>7, <1>8, <1>9 DEF Keeps

\* A run that stops with an error, or is killed, keeps the invariant when it
\* leaves files of their types.
LEMMA StopKeeps ==
    ASSUME IInv, NEW status \in {"error", "killed"}, Stop(status), UNCHANGED <<server, crontab>>,
           FilesOK'
    PROVE  IInv'
<1>1. RunOK'
  BY DEF IInv, RunOK, Stop, Datasets
<1>2. OsmOK' /\ WofOK' /\ IpOK' /\ GnafOK' /\ PassedOK' /\ ExitOK'
  BY DEF Stop, OsmOK, WofOK, IpOK, GnafOK, PassedOK, ExitOK, Datasets
<1> QED BY <1>1, <1>2 DEF IInv

-----------------------------------------------------------------------------
(* The run and its sources. *)

\* Steps of main, the publisher and OpenAddresses keep the invariant.
LEMMA MainKeeps ==
    ASSUME IInv,
           \/ Publish \/ (\E i \in crontab : StartRun(i))
           \/ NoDirectory \/ Openaddresses \/ Exit
    PROVE  IInv' /\ Keeps
<1>1. CASE Publish
  <2>1. /\ UNCHANGED <<crontab, web, state, staged, refresh, db, mmdb, source, psv>>
        /\ UNCHANGED <<inv, pc, step, task, todo, failed, exit, began>>
        /\ server' = server + 1 /\ server' \in Pubs /\ server \in Nat
    BY <1>1, RunAssumption DEF Publish, files, run, IInv, RunOK, Pubs
  <2>2. RunOK'
    BY <2>1 DEF IInv, RunOK, Pubs
  <2>3. WebOK'
    BY <2>1 DEF IInv, FilesOK, WebOK, WebType, None
  <2>4. FilesOK'
    BY <2>1, <2>3 DEF IInv, FilesOK, StateOK, NoIp
  <2>5. Keeps
    BY <2>1, TargetsApart DEF IInv, FilesOK, WebOK, WebType, Keeps, PsvKept
  <2>6. OsmOK' /\ WofOK' /\ GnafOK'
    BY <2>1 DEF IInv, OsmOK, WofOK, GnafOK, Fresh
  <2>7. IpOK'
    BY <2>1 DEF IInv, IpOK, Fresh, Archive, RunOK, Pubs, NoIp
  <2>8. PassedOK' /\ ExitOK'
    BY <2>1 DEF IInv, PassedOK, ExitOK, Got, Fresh, NoIp
  <2> QED BY <2>2, <2>4, <2>5, <2>6, <2>7, <2>8 DEF IInv
<1>2. CASE \E i \in crontab : StartRun(i)
  <2>1. PICK i \in crontab : StartRun(i)
    BY <1>2
  <2>2. FilesOK' /\ Keeps
    BY <2>1, FilesAlone DEF StartRun
  <2>3. /\ pc' \in Sources /\ Selected(i, pc')
        /\ \A s \in Sources : 0 < Position(s) /\ Selected(i, s) => Position(pc') <= Position(s)
    BY <2>1, FollowingSource DEF StartRun
  <2>4. /\ inv' = i /\ began' = server /\ failed' = FALSE /\ exit' = "running" /\ step' = "start"
        /\ UNCHANGED <<server, crontab>>
    BY <2>1 DEF StartRun
  <2>5. RunOK'
    <3>1. server \in Pubs /\ server <= server /\ crontab \in Crontabs
      BY DEF IInv, RunOK, Pubs
    <3>2. Selected(inv, pc)' /\ pc' # "idle"
      BY <2>3, <2>4 DEF Sources
    <3>3. failed' \in BOOLEAN
      BY <2>4
    <3> QED BY <2>1, <2>3, <2>4, <3>1, <3>2, <3>3 DEF RunOK, Datasets
  <2>6. OsmOK' /\ WofOK' /\ IpOK' /\ GnafOK' /\ ExitOK'
    BY <2>4 DEF OsmOK, WofOK, IpOK, GnafOK, ExitOK
  <2>7. ASSUME NEW s \in Sources, Position(s) < Position(pc'), Selected(i, s) PROVE FALSE
    <3>1. Position(s) \in 1..7 /\ Position(pc') \in 1..7
      BY <2>3, Positions DEF Sources
    <3> QED BY <2>3, <2>7, <3>1
  <2>8. PassedOK'
    BY <2>4, <2>7 DEF PassedOK
  <2> QED BY <2>2, <2>5, <2>6, <2>8 DEF IInv
<1>3. CASE NoDirectory
  <2>1. Done(FALSE) /\ UNCHANGED <<server, crontab, files>> /\ pc \in Sources /\ pc # "exit"
    BY <1>3 DEF NoDirectory, Sources
  <2>2. FilesOK' /\ Keeps
    BY <2>1, FilesAlone
  <2>3. FALSE \in BOOLEAN
    OBVIOUS
  <2> QED BY <2>1, <2>2, <2>3, DoneKeeps
<1>4. CASE Openaddresses
  <2>1. PICK ok \in BOOLEAN : Done(ok)
    BY <1>4 DEF Openaddresses
  <2>2. UNCHANGED <<server, crontab, files>> /\ pc = "oa"
    BY <1>4 DEF Openaddresses
  <2>3. FilesOK' /\ Keeps
    BY <2>2, FilesAlone
  <2>4. \A s \in Sources : s = pc => Got(s)'
    BY <2>2 DEF Got, Datasets
  <2> QED BY <2>1, <2>2, <2>3, <2>4, DoneKeeps DEF Sources
<1>5. CASE Exit
  <2>1. /\ pc = "exit" /\ pc' = "idle" /\ step' = "start" /\ UNCHANGED <<inv, failed, began>>
        /\ UNCHANGED <<server, crontab, files>>
        /\ exit' = IF failed \/ Following(inv, 0) = "exit" THEN "error" ELSE "ok"
    BY <1>5 DEF Exit, Stop
  <2>2. FilesOK' /\ Keeps
    BY <2>1, FilesAlone
  <2>3. failed \in BOOLEAN /\ (exit' = "ok" => failed = FALSE) /\ exit' \in {"error", "ok"}
    BY <2>1 DEF IInv, RunOK
  <2>4. RunOK'
    BY <2>1, <2>3 DEF IInv, RunOK, Datasets
  <2>5. OsmOK' /\ WofOK' /\ IpOK' /\ GnafOK' /\ PassedOK'
    BY <2>1 DEF OsmOK, WofOK, IpOK, GnafOK, PassedOK, Datasets
  <2>6. ASSUME exit' = "ok", NEW s \in Sources, Selected(inv, s) PROVE Got(s)'
    <3>1. CASE s = "exit"
      BY <3>1 DEF Got, Datasets
    <3>2. CASE s # "exit"
      <4>1. Position(s) < Position(pc)
        BY <2>1, <3>2, Positions DEF Sources
      <4>2. Got(s)
        BY <2>1, <2>3, <2>6, <4>1 DEF IInv, PassedOK
      <4> QED BY <2>1, <2>2, <4>1, <4>2, GotKept DEF IInv, Sources
    <3> QED BY <3>1, <3>2
  <2>7. ExitOK'
    BY <2>1, <2>3, <2>6 DEF ExitOK
  <2> QED BY <2>2, <2>4, <2>5, <2>7 DEF IInv
<1> QED BY <1>1, <1>2, <1>3, <1>4, <1>5

\* Steps of the OSM source keep the invariant: a preset that is refused stops the
\* run, a task that fetched has its PBF, and the last one leaves them all.
LEMMA OsmKeeps ==
    ASSUME IInv, OsmStep
    PROVE  IInv' /\ Keeps
<1>1. CASE OsmRefuse
  <2>1. Stop("error") /\ UNCHANGED <<server, crontab, files>>
    BY <1>1 DEF OsmRefuse
  <2>2. FilesOK' /\ Keeps
    BY <2>1, FilesAlone
  <2> QED BY <2>1, <2>2, StopKeeps
<1>2. CASE OsmStart
  <2>1. /\ pc = "region" /\ step' = "tasks" /\ ParseRegion(inv.region) # "unknown"
        /\ UNCHANGED <<server, crontab, files, inv, pc, todo, failed, exit, began>>
        /\ task' = [u \in Urls(ParseRegion(inv.region)) |-> "waiting"]
    BY <1>2 DEF OsmStart
  <2>2. FilesOK' /\ Keeps
    BY <2>1, FilesAlone
  <2>3. RunOK'
    BY <2>1 DEF IInv, RunOK, Datasets
  <2>4. PassedOK' /\ ExitOK'
    BY <2>1, <2>2, StayKeeps DEF IInv, RunOK, Sources
  <2>5. OsmOK' /\ WofOK' /\ IpOK' /\ GnafOK'
    BY <2>1 DEF OsmOK, WofOK, IpOK, GnafOK, Datasets
  <2> QED BY <2>2, <2>3, <2>4, <2>5 DEF IInv
<1>3. CASE OsmEnd
  <2>1. /\ pc = "region" /\ step = "tasks" /\ Done(TRUE) /\ UNCHANGED <<server, crontab, files>>
        /\ \A u \in DOMAIN task : task[u] = "done"
    BY <1>3 DEF OsmEnd
  <2>2. FilesOK' /\ Keeps
    BY <2>1, FilesAlone
  <2>3. CASE failed = FALSE
    <3>1. Got("region")
      BY <2>1, <2>3 DEF IInv, OsmOK, Got, Datasets
    <3>2. Got("region")'
      BY <2>1, <3>1 DEF Got, Done, files, Fresh
    <3>3. \A s \in Sources : s = pc => Got(s)'
      BY <2>1, <3>2
    <3> QED BY <2>1, <2>2, <3>3, DoneKeeps DEF Sources
  <2>4. CASE failed = TRUE
    <3>1. Done(FALSE)
      BY <2>1, <2>4 DEF Done
    <3>2. FALSE \in BOOLEAN
      OBVIOUS
    <3> QED BY <2>1, <2>2, <3>1, <3>2, DoneKeeps DEF Sources
  <2> QED BY <2>3, <2>4 DEF IInv, RunOK
<1>4. ASSUME NEW u \in DOMAIN task, OsmFetch(u) PROVE IInv' /\ Keeps
  <2>1. /\ pc = "region" /\ step = "tasks" /\ task' = [task EXCEPT ![u] = "fetched"]
        /\ UNCHANGED <<server, crontab, state, staged, refresh, db, mmdb, source, psv>>
        /\ UNCHANGED <<inv, pc, step, todo, exit, began>>
    BY <1>4 DEF OsmFetch
  <2>2. PICK r \in FetchResults(web[u], server, inv.force) :
            web' = [web EXCEPT ![u] = r.f] /\ failed' = (failed \/ r.outcome = "failed")
    BY <1>4 DEF OsmFetch
  <2>3. /\ ParseRegion(inv.region) # "unknown" /\ DOMAIN task = Urls(ParseRegion(inv.region))
        /\ \A v \in DOMAIN task : failed = FALSE /\ task[v] # "waiting" => Fresh(web[v].file)
    BY <2>1 DEF IInv, OsmOK
  <2>4. DOMAIN task \subseteq Pbfs /\ DOMAIN task \subseteq Targets /\ u # "gz" /\ u # "zip"
    BY <2>3, RegionPbfs, TargetsApart
  <2>5. WebType(web[u], u) /\ server \in Nat /\ server <= server + 1 /\ server <= server
        /\ inv.force \in BOOLEAN
    BY <2>4, InvType, RunAssumption DEF IInv, RunOK, Pubs, FilesOK, WebOK
  <2>6. /\ WebType(r.f, u) /\ (r.f.file = web[u].file \/ r.f.file = server)
        /\ r.outcome # "failed" => r.f.file # None
        /\ r.outcome # "failed" /\ inv.force => r.f.file = server
    <3>1. u \in Pbfs \cup {"zip"}
      BY <2>4
    <3> QED BY <2>5, <3>1, Fetched
  <2>7. r.f.file >= web[u].file
    BY <2>4, <2>5, <2>6 DEF WebType
  <2>8. FilesOK' /\ Keeps
    BY <2>1, <2>2, <2>4, <2>6, <2>7, WebUpdated
  <2>9. failed' \in BOOLEAN /\ (failed = TRUE => failed' = TRUE)
        /\ (failed' = FALSE => failed = FALSE /\ r.outcome # "failed")
    BY <2>2 DEF IInv, RunOK
  <2>10. PassedOK' /\ ExitOK'
    BY <2>1, <2>8, <2>9, StayKeeps DEF Sources
  <2>11. RunOK'
    BY <2>1, <2>9 DEF IInv, RunOK, Datasets
  <2>12. WofOK' /\ IpOK' /\ GnafOK'
    BY <2>1 DEF WofOK, IpOK, GnafOK, Datasets
  <2>13. ASSUME NEW v \in DOMAIN task, failed' = FALSE, task'[v] # "waiting" PROVE Fresh(web[v].file)'
    <3>1. DOMAIN web = Targets
      BY DEF IInv, FilesOK, WebOK
    <3>2. CASE v = u
      <4>1. web'[v] = r.f
        BY <2>2, <2>4, <3>1, <3>2
      <4>2. r.f.file \in Nat /\ (inv.force => r.f.file = server)
        BY <2>6, <2>9, <2>13 DEF WebType, None
      <4>3. began <= server
        BY DEF IInv, RunOK
      <4> QED BY <2>1, <2>5, <4>1, <4>2, <4>3 DEF Fresh
    <3>3. CASE v # u
      BY <2>1, <2>2, <2>3, <2>4, <2>9, <2>13, <3>1, <3>3 DEF Fresh
    <3> QED BY <3>2, <3>3
  <2>14. OsmOK'
    BY <2>1, <2>3, <2>13 DEF OsmOK
  <2> QED BY <2>8, <2>10, <2>11, <2>12, <2>14 DEF IInv
<1>5. ASSUME NEW u \in DOMAIN task, OsmState(u) \/ OsmWritten(u) PROVE IInv' /\ Keeps
  <2>1. /\ pc = "region" /\ step = "tasks" /\ task[u] # "waiting"
        /\ \E t \in {"writing", "done"} : task' = [task EXCEPT ![u] = t]
        /\ UNCHANGED <<server, crontab, web, staged, refresh, db, mmdb, source, psv>>
        /\ UNCHANGED <<inv, pc, step, todo, failed, exit, began>>
    BY <1>5 DEF OsmState, OsmWritten
  <2>2. DOMAIN state' = Pbfs /\ StateOK'
    <3>1. CASE UNCHANGED state
      BY <3>1 DEF IInv, FilesOK, StateOK
    <3>2. CASE \E body \in StateBodies :
                 /\ StateParses(body)
                 /\ state' = [state EXCEPT ![u] = ToStringWire(ParseState(body))]
      BY <3>2 DEF IInv, FilesOK, StateOK
    <3>3. CASE state' = [state EXCEPT ![u] = Cut]
      BY <3>3 DEF IInv, FilesOK, StateOK
    <3> QED BY <1>5, <3>1, <3>2, <3>3 DEF OsmState, OsmWritten
  <2>3. FilesOK'
    BY <2>1, <2>2 DEF IInv, FilesOK, WebOK, WebType, NoIp
  <2>4. Keeps
    BY <2>1, TargetsApart DEF IInv, FilesOK, WebOK, WebType, Keeps, PsvKept
  <2>5. PassedOK' /\ ExitOK'
    BY <2>1, <2>3, <2>4, StayKeeps DEF IInv, RunOK, Sources
  <2>6. RunOK'
    BY <2>1 DEF IInv, RunOK, Datasets
  <2>7. WofOK' /\ IpOK' /\ GnafOK'
    BY <2>1 DEF WofOK, IpOK, GnafOK, Datasets
  <2>8. OsmOK'
    BY <2>1 DEF IInv, OsmOK, Fresh
  <2> QED BY <2>3, <2>4, <2>5, <2>6, <2>7, <2>8 DEF IInv
<1> QED BY <1>1, <1>2, <1>3, <1>4, <1>5 DEF OsmStep

\* What is not in the tail of a list is its head or not in the list.
LEMMA TailCovers ==
    ASSUME NEW S, NEW q \in Seq(S), q # <<>>
    PROVE  /\ Head(q) \in S /\ Tail(q) \in Seq(S)
           /\ \A d : (\A k \in DOMAIN Tail(q) : Tail(q)[k] # d)
                       => d = Head(q) \/ \A k \in DOMAIN q : q[k] # d
<1>1. Len(q) \in Nat /\ Len(q) >= 1 /\ DOMAIN q = 1..Len(q)
  OBVIOUS
<1>2. Head(q) = q[1] /\ Head(q) \in S /\ Tail(q) \in Seq(S)
  BY <1>1
<1>3. DOMAIN Tail(q) = 1..(Len(q) - 1) /\ \A k \in 1..(Len(q) - 1) : Tail(q)[k] = q[k + 1]
  BY <1>1
<1>4. ASSUME NEW d, \A k \in DOMAIN Tail(q) : Tail(q)[k] # d, d # Head(q), NEW k \in DOMAIN q
      PROVE  q[k] # d
  <2>1. CASE k = 1
    BY <1>2, <1>4, <2>1
  <2>2. CASE k # 1
    <3>1. k - 1 \in 1..(Len(q) - 1) /\ (k - 1) + 1 = k
      BY <1>1, <2>2
    <3> QED BY <1>3, <1>4, <3>1
  <2> QED BY <2>1, <2>2
<1> QED BY <1>2, <1>4

\* A listing without repetition, as long as the set is large, names every member.
LEMMA ListingCovers ==
    ASSUME NEW S, IsFiniteSet(S), NEW q \in [1..Cardinality(S) -> S],
           \A i, j \in DOMAIN q : q[i] = q[j] => i = j
    PROVE  q \in Seq(S) /\ \A d \in S : \E k \in DOMAIN q : q[k] = d
<1> DEFINE n == Cardinality(S)
<1>1. n \in Nat
  BY FS_CardinalityType
<1>2. q \in Seq(S) /\ DOMAIN q = 1..n
  BY <1>1
<1>3. q \in Injection(1..n, S)
  BY <1>2 DEF Injection, IsInjective
<1>4. Cardinality(1..n) = n
  <2> HIDE DEF n
  <2>1. 1 \in Int /\ n \in Int
    BY <1>1
  <2>2. Cardinality(1..n) = IF 1 > n THEN 0 ELSE n - 1 + 1
    BY <2>1, FS_Interval
  <2> QED BY <1>1, <2>2
<1>5. q \in Surjection(1..n, S)
  BY <1>3, <1>4, FS_Injection
<1> QED BY <1>2, <1>5 DEF Surjection

\* Files of a WhosOnFirst step: only those of one database change, and the live
\* one never goes back.
LEMMA WofFiles ==
    ASSUME IInv, pc \in Datasets, NEW d \in Dbs,
           DOMAIN web' = Targets, WebType(web'[d], d), \A v \in Targets : v # d => web'[v] = web[v],
           staged' \in [Dbs -> -1..server], refresh' \in [Dbs -> -2..server],
           db' \in [Dbs -> -1..server], \A e \in Dbs : db'[e] >= db[e],
           UNCHANGED <<server, state, mmdb, source, psv>>
    PROVE  FilesOK' /\ Keeps
<1>1. \A v \in Targets : WebType(web'[v], v)
  BY DEF IInv, FilesOK, WebOK
<1>2. WebOK'
  BY <1>1 DEF WebOK, WebType
<1>3. FilesOK'
  BY <1>2 DEF IInv, FilesOK, StateOK, NoIp
<1>4. /\ \A u \in Pbfs : web'[u] = web[u] /\ web[u].file \in Int
      /\ web'["zip"] = web["zip"]
  BY TargetsApart DEF IInv, FilesOK, WebOK, WebType
<1>5. PsvKept
  BY DEF PsvKept
<1> QED BY <1>3, <1>4, <1>5 DEF Keeps, Datasets

\* A kill keeps the invariant: it stops the run, and what a decoder that
\* outlives it leaves is of the staging files of one database.
LEMMA KillKeeps ==
    ASSUME IInv, Kill
    PROVE  IInv' /\ Keeps
<1>1. /\ Stop("killed") /\ UNCHANGED <<server, crontab>>
      /\ IF AtWof("decoding") THEN DecoderOutlives(Head(todo)) ELSE UNCHANGED files
  BY DEF Kill
<1>2. CASE ~AtWof("decoding")
  <2>1. FilesOK' /\ Keeps
    BY <1>1, <1>2, FilesAlone
  <2> QED BY <1>1, <2>1, StopKeeps
<1>3. CASE AtWof("decoding")
  <2> DEFINE d == Head(todo)
  <2>1. pc \in Datasets /\ step = "decoding"
    BY <1>3 DEF AtWof
  <2>2. todo \in Seq(Scope[pc]) /\ todo # <<>>
    BY <2>1 DEF IInv, WofOK
  <2>3. d \in Dbs /\ d \in Targets
    BY <2>1, <2>2, TailCovers, TargetsApart
  <2> HIDE DEF d
  <2>4. /\ DOMAIN web = Targets /\ WebType(web[d], d)
        /\ staged \in [Dbs -> -1..server] /\ refresh \in [Dbs -> -2..server]
        /\ db \in [Dbs -> -1..server] /\ server \in Nat
    BY <2>3, RunAssumption DEF IInv, RunOK, FilesOK, WebOK, Pubs
  <2>5. /\ UNCHANGED <<web, state, db, mmdb, source, psv>>
        /\ \/ UNCHANGED <<staged, refresh>>
           \/ /\ refresh' = [refresh EXCEPT ![d] = staged[d]]
              /\ staged' = [staged EXCEPT ![d] = None]
           \/ refresh' = [refresh EXCEPT ![d] = None] /\ UNCHANGED staged
    BY <1>1, <1>3 DEF DecoderOutlives, d
  <2>6. staged' \in [Dbs -> -1..server] /\ refresh' \in [Dbs -> -2..server]
    BY <2>3, <2>4, <2>5 DEF None
  <2>7. /\ WebType(web'[d], d) /\ \A e \in Dbs : db'[e] >= db[e]
        /\ db' \in [Dbs -> -1..server]
    BY <1>1, <2>4, <2>5 DEF WebType
  <2>8. FilesOK' /\ Keeps
    BY <1>1, <2>1, <2>3, <2>4, <2>5, <2>6, <2>7, WofFiles
  <2> QED BY <1>1, <2>8, StopKeeps
<1> QED BY <1>2, <1>3

\* fetch_one returned: the database is off the list, and installed unless the
\* report says otherwise.
LEMMA ReportKeeps ==
    ASSUME IInv, FilesOK', Keeps, UNCHANGED <<server, crontab>>,
           pc \in Datasets, step # "start", todo # <<>>, NEW ok \in BOOLEAN, WofReport(ok),
           ok = TRUE => db'[Head(todo)] \in Nat /\ (inv.force => db'[Head(todo)] >= began)
    PROVE  IInv'
<1>1. /\ step' = "next" /\ todo' = Tail(todo) /\ failed' = (failed \/ ~ok)
      /\ UNCHANGED <<inv, pc, task, exit, began>>
  BY DEF WofReport
<1>2. /\ failed' \in BOOLEAN /\ (failed = TRUE => failed' = TRUE)
      /\ failed' = FALSE => failed = FALSE /\ ok = TRUE
  BY <1>1 DEF IInv, RunOK
<1>3. PassedOK' /\ ExitOK'
  BY <1>1, <1>2, StayKeeps DEF Sources, Datasets
<1>4. RunOK'
  BY <1>1, <1>2 DEF IInv, RunOK, Datasets
<1>5. OsmOK' /\ IpOK' /\ GnafOK'
  BY <1>1 DEF OsmOK, IpOK, GnafOK, Datasets
<1>6. /\ todo \in Seq(Scope[pc])
      /\ \A d \in Scope[pc] : failed = FALSE /\ (\A k \in DOMAIN todo : todo[k] # d) => Fresh(db[d])
  BY DEF IInv, WofOK
<1>7. /\ Tail(todo) \in Seq(Scope[pc])
      /\ \A d : (\A k \in DOMAIN Tail(todo) : Tail(todo)[k] # d)
                   => d = Head(todo) \/ \A k \in DOMAIN todo : todo[k] # d
  BY <1>6, TailCovers
<1>8. ASSUME NEW d \in Scope[pc], failed' = FALSE, \A k \in DOMAIN todo' : todo'[k] # d
      PROVE  Fresh(db[d])'
  <2>1. CASE d = Head(todo)
    BY <1>1, <1>2, <1>8, <2>1 DEF Fresh
  <2>2. CASE d # Head(todo)
    <3>1. Fresh(db[d])
      BY <1>1, <1>2, <1>6, <1>7, <1>8, <2>2
    <3>2. d \in Dbs
      BY TargetsApart
    <3>3. db'[d] \in Int /\ db'[d] >= db[d] /\ began \in Int
      BY <3>2 DEF IInv, FilesOK, Keeps, RunOK, Pubs
    <3> QED BY <1>1, <3>1, <3>3 DEF Fresh
  <2> QED BY <2>1, <2>2
<1>9. WofOK'
  BY <1>1, <1>7, <1>8 DEF WofOK
<1> QED BY <1>3, <1>4, <1>5, <1>9 DEF IInv

\* A step of a database that goes on: what the next one relies on holds.
LEMMA GotoKeeps ==
    ASSUME IInv, FilesOK', Keeps, UNCHANGED <<server, crontab>>, pc \in Datasets, step # "start",
           NEW s \in {"stage", "decode", "decoding", "install"}, Goto(s), todo # <<>>,
           inv.force \/ db'[Head(todo)] = None,
           UNCHANGED db,
           s = "stage" /\ inv.force =>
             web'[Head(todo)].file >= began /\ web'[Head(todo)].file >= db'[Head(todo)],
           s \in {"decode", "decoding"} =>
             /\ staged'[Head(todo)] \in Nat /\ (inv.force => staged'[Head(todo)] >= began)
             /\ staged'[Head(todo)] >= db'[Head(todo)],
           s = "install" =>
             /\ refresh'[Head(todo)] \in Nat /\ (inv.force => refresh'[Head(todo)] >= began)
             /\ refresh'[Head(todo)] >= db'[Head(todo)]
    PROVE  IInv'
<1>1. step' = s /\ UNCHANGED <<inv, pc, task, todo, failed, exit, began>>
  BY DEF Goto
<1>2. PassedOK' /\ ExitOK'
  BY <1>1, StayKeeps DEF IInv, RunOK, Sources, Datasets
<1>3. RunOK'
  BY <1>1 DEF IInv, RunOK, Datasets
<1>4. OsmOK' /\ IpOK' /\ GnafOK'
  BY <1>1 DEF OsmOK, IpOK, GnafOK, Datasets
<1>5. /\ todo \in Seq(Scope[pc])
      /\ \A d \in Scope[pc] : failed = FALSE /\ (\A k \in DOMAIN todo : todo[k] # d) => Fresh(db[d])
  BY DEF IInv, WofOK
<1>6. WofOK'
  BY <1>1, <1>5 DEF WofOK, Fresh
<1> QED BY <1>2, <1>3, <1>4, <1>6 DEF IInv

\* Steps of the WhosOnFirst sources keep the invariant.
LEMMA WofKeeps ==
    ASSUME IInv, WofStep
    PROVE  IInv' /\ Keeps
<1> DEFINE d == Head(todo)
<1>1. pc \in Datasets /\ UNCHANGED <<server, crontab>>
  BY DEF WofStep, WofStart, WofCached, WofFetch, WofStage, WofNoDecoder, WofDecode, WofDecoded,
         WofInstall, WofEnd, AtWof, Goto, WofReport, Done
<1>2. /\ server \in Nat /\ began \in Nat /\ began <= server
      /\ DOMAIN web = Targets /\ \A t \in Targets : WebType(web[t], t)
      /\ staged \in [Dbs -> -1..server] /\ refresh \in [Dbs -> -2..server]
      /\ db \in [Dbs -> -1..server]
      /\ failed \in BOOLEAN
  BY RunAssumption DEF IInv, RunOK, FilesOK, WebOK, Pubs
<1>3. ASSUME step # "start"
      PROVE  /\ todo \in Seq(Scope[pc]) /\ (step # "next" => todo # <<>>)
             /\ step # "next" => inv.force \/ db[d] = None
  BY <1>1, <1>3 DEF IInv, WofOK
<1>4. ASSUME step # "start", todo # <<>> PROVE d \in Dbs /\ d \in Targets /\ d # "gz" /\ d # "zip" /\ d \notin Pbfs
  <2>1. d \in Scope[pc]
    BY <1>3, <1>4, TailCovers
  <2> QED BY <1>1, <2>1, TargetsApart
<1>5. CASE WofStart
  <2>1. /\ step' = "next" /\ step = "start"
        /\ UNCHANGED <<server, crontab, files, inv, pc, task, failed, exit, began>>
        /\ todo' \in [1..Cardinality(Scope[pc]) -> Scope[pc]]
        /\ \A i, j \in DOMAIN todo' : todo'[i] = todo'[j] => i = j
    BY <1>5 DEF WofStart, AtWof
  <2>2. FilesOK' /\ Keeps
    BY <2>1, FilesAlone
  <2>3. RunOK'
    BY <1>1, <2>1 DEF IInv, RunOK, Datasets
  <2>4. PassedOK' /\ ExitOK'
    BY <1>1, <1>2, <2>1, <2>2, StayKeeps DEF Sources, Datasets
  <2>5. OsmOK' /\ IpOK' /\ GnafOK'
    BY <1>1, <2>1 DEF OsmOK, IpOK, GnafOK, Datasets
  <2>6. IsFiniteSet(Scope[pc])
    BY <1>1, RunAssumption
  <2>7. todo' \in Seq(Scope[pc]) /\ \A e \in Scope[pc] : \E k \in DOMAIN todo' : todo'[k] = e
    BY <2>1, <2>6, ListingCovers
  <2>8. WofOK'
    BY <2>1, <2>7 DEF WofOK
  <2> QED BY <2>2, <2>3, <2>4, <2>5, <2>8 DEF IInv
<1>6. CASE WofEnd
  <2>1. step = "next" /\ todo = <<>> /\ Done(TRUE) /\ UNCHANGED <<server, crontab, files>>
    BY <1>6 DEF WofEnd, AtWof
  <2>2. FilesOK' /\ Keeps
    BY <2>1, FilesAlone
  <2>3. CASE failed = FALSE
    <3>1. ASSUME NEW s \in Sources, s = pc PROVE Got(s)'
      <4>1. s \in Datasets
        BY <1>1, <3>1
      <4>2. DOMAIN todo = {}
        BY <2>1
      <4>3. \A e \in Scope[s] : Fresh(db[e])
        BY <1>1, <2>1, <2>3, <3>1, <4>2 DEF IInv, WofOK
      <4>4. \A e \in Scope[s] : Fresh(db[e])'
        BY <2>1, <4>3 DEF Fresh, Done, files
      <4> QED BY <4>1, <4>4 DEF Got, Datasets
    <3> QED BY <1>1, <2>1, <2>2, <3>1, DoneKeeps DEF Sources, Datasets
  <2>4. CASE failed = TRUE
    <3>1. Done(FALSE)
      BY <2>1, <2>4 DEF Done
    <3>2. FALSE \in BOOLEAN
      OBVIOUS
    <3> QED BY <1>1, <2>1, <2>2, <3>1, <3>2, DoneKeeps DEF Sources, Datasets
  <2> QED BY <1>2, <2>3, <2>4
<1>7. CASE WofCached
  <2>1. /\ step = "next" /\ todo # <<>> /\ ~inv.force /\ db[d] # None /\ WofReport(TRUE)
        /\ web' = [web EXCEPT ![d].etag = None]
        /\ UNCHANGED <<server, crontab, state, staged, refresh, db, mmdb, source, psv>>
    BY <1>7 DEF WofCached, AtWof
  <2>2. d \in Dbs /\ d \in Targets /\ d # "gz" /\ d # "zip" /\ d \notin Pbfs
    BY <1>4, <2>1
  <2>3. /\ DOMAIN web' = Targets /\ \A v \in Targets : v # d => web'[v] = web[v]
        /\ web'[d] = [web[d] EXCEPT !.etag = None]
    BY <1>2, <2>1, <2>2
  <2> HIDE DEF d
  <2>4. DOMAIN web'[d] = {"file", "etag"} /\ web'[d].file = web[d].file /\ web'[d].etag = None
    BY <1>2, <2>2, <2>3 DEF WebType
  <2>5. WebType(web'[d], d)
    BY <1>2, <2>2, <2>3, <2>4 DEF WebType, None
  <2>6. FilesOK' /\ Keeps
    <3>1. /\ staged' \in [Dbs -> -1..server] /\ refresh' \in [Dbs -> -2..server]
          /\ db' \in [Dbs -> -1..server] /\ \A e \in Dbs : db'[e] >= db[e]
      BY <1>2, <2>1
    <3> QED BY <1>1, <2>1, <2>2, <2>3, <2>5, <3>1, WofFiles
  <2>7. db'[d] \in Nat
    BY <1>2, <2>1, <2>2 DEF None
  <2> QED BY <1>1, <2>1, <2>6, <2>7, ReportKeeps DEF d
<1>8. CASE WofFetch
  <2>1. /\ step = "next" /\ todo # <<>> /\ (inv.force \/ db[d] = None)
        /\ UNCHANGED <<server, crontab, state, staged, refresh, db, mmdb, source, psv>>
    BY <1>8 DEF WofFetch, AtWof
  <2>2. PICK r \in FetchResults(web[d], server, inv.force) :
           /\ web' = [web EXCEPT ![d] = r.f]
           /\ IF r.outcome = "failed" THEN WofReport(FALSE) ELSE Goto("stage")
    BY <1>8 DEF WofFetch
  <2>3. d \in Dbs /\ d \in Targets /\ d # "gz" /\ d # "zip" /\ d \notin Pbfs
    BY <1>4, <2>1
  <2>4. server <= server /\ server <= server + 1 /\ WebType(web[d], d)
    BY <1>2, <2>3
  <2>5. WebType(r.f, d) /\ (r.outcome # "failed" /\ inv.force => r.f.file = server)
    BY <1>2, <2>4, Fetched
  <2>6. web'[d] = r.f
    BY <1>2, <2>2, <2>3
  <2>7. FilesOK' /\ Keeps
    BY <2>1, <2>2, <2>3, <2>5, WebUpdated
  <2>8. CASE r.outcome = "failed"
    <3>1. FALSE \in BOOLEAN
      OBVIOUS
    <3> QED BY <1>1, <2>1, <2>2, <2>7, <2>8, <3>1, ReportKeeps
  <2>9. CASE r.outcome # "failed"
    <3>1. Goto("stage")
      BY <2>2, <2>9
    <3>2. inv.force \/ db'[d] = None
      BY <2>1
    <3>3. inv.force => web'[d].file >= began /\ web'[d].file >= db'[d]
      BY <1>2, <2>1, <2>3, <2>5, <2>6, <2>9
    <3> HIDE DEF d
    <3> QED BY <1>1, <2>1, <2>7, <3>1, <3>2, <3>3, GotoKeeps DEF d
  <2> QED BY <2>8, <2>9
<1>9. CASE WofStage
  <2>1. /\ step = "stage" /\ refresh' = [refresh EXCEPT ![d] = None]
        /\ UNCHANGED <<server, crontab, state, db, mmdb, source, psv>>
        /\ IF web[d].file = None
           THEN /\ staged' = [staged EXCEPT ![d] = None]
                /\ WofReport(FALSE) /\ UNCHANGED web
           ELSE /\ staged' = [staged EXCEPT ![d] = web[d].file]
                /\ web' = [web EXCEPT ![d].file = None]
                /\ Goto("decode")
    BY <1>9 DEF WofStage, AtWof
  <2>2. todo # <<>> /\ (inv.force \/ db[d] = None)
    BY <1>3, <2>1
  <2>3. d \in Dbs /\ d \in Targets /\ d # "gz" /\ d # "zip" /\ d \notin Pbfs
    BY <1>4, <2>1, <2>2
  <2>4. /\ WebType(web[d], d) /\ \A e \in Dbs : db'[e] >= db[e]
        /\ db' \in [Dbs -> -1..server]
        /\ refresh' \in [Dbs -> -2..server]
    BY <1>2, <2>1, <2>3 DEF None
  <2>5. CASE web[d].file = None
    <3>1. web' = web /\ WofReport(FALSE)
      BY <2>1, <2>5
    <3>2. staged' = [staged EXCEPT ![d] = None]
      BY <2>1, <2>5
    <3>3. staged' \in [Dbs -> -1..server]
      <4> HIDE DEF d
      <4> QED BY <1>2, <2>3, <3>2 DEF None
    <3>4. FilesOK' /\ Keeps
      BY <1>1, <1>2, <2>1, <2>3, <2>4, <3>1, <3>3, WofFiles
    <3>5. FALSE \in BOOLEAN
      OBVIOUS
    <3> QED BY <1>1, <2>1, <2>2, <3>1, <3>4, <3>5, ReportKeeps
  <2>6. CASE web[d].file # None
    <3>1. /\ staged' = [staged EXCEPT ![d] = web[d].file]
          /\ web' = [web EXCEPT ![d].file = None] /\ Goto("decode")
      BY <2>1, <2>6
    <3>2. web[d].file \in Nat /\ web[d].file <= server
      BY <2>3, <2>4, <2>6 DEF WebType, None
    <3>3. /\ DOMAIN web' = Targets /\ \A v \in Targets : v # d => web'[v] = web[v]
          /\ web'[d] = [web[d] EXCEPT !.file = None]
      BY <1>2, <2>3, <3>1
    <3> HIDE DEF d
    <3>4. DOMAIN web'[d] = {"file", "etag"} /\ web'[d].etag = web[d].etag /\ web'[d].file = None
      BY <2>4, <3>3 DEF WebType
    <3>5. WebType(web'[d], d)
      BY <1>2, <2>3, <2>4, <3>3, <3>4 DEF WebType, None
    <3>6. staged' \in [Dbs -> -1..server] /\ staged'[d] = web[d].file
      BY <1>2, <2>3, <3>1, <3>2
    <3>7. FilesOK' /\ Keeps
      BY <1>1, <2>1, <2>3, <2>4, <3>3, <3>5, <3>6, WofFiles
    <3>8. /\ staged'[d] \in Nat /\ (inv.force => staged'[d] >= began)
          /\ staged'[d] >= db'[d]
      <4>1. inv.force => web[d].file >= began /\ web[d].file >= db[d]
        BY <1>1, <2>1 DEF IInv, WofOK, d
      <4> QED BY <1>2, <2>1, <2>2, <2>3, <3>2, <3>6, <4>1 DEF None
    <3>9. inv.force \/ db'[d] = None
      BY <2>1, <2>2
    <3> QED BY <1>1, <2>1, <2>2, <3>1, <3>7, <3>8, <3>9, GotoKeeps DEF d
  <2> QED BY <2>5, <2>6
<1>10. CASE WofNoDecoder
  <2>1. step = "stage" /\ WofReport(FALSE) /\ UNCHANGED <<server, crontab, files>>
    BY <1>10 DEF WofNoDecoder, AtWof
  <2>2. FilesOK' /\ Keeps
    BY <2>1, FilesAlone
  <2>3. FALSE \in BOOLEAN
    OBVIOUS
  <2> QED BY <1>1, <1>3, <2>1, <2>2, <2>3, ReportKeeps
<1>11. CASE WofDecode
  <2>1. /\ step = "decode" /\ refresh' = [refresh EXCEPT ![d] = Partial] /\ Goto("decoding")
        /\ UNCHANGED <<server, crontab, web, state, staged, db, mmdb, source, psv>>
    BY <1>11 DEF WofDecode, AtWof
  <2>2. todo # <<>> /\ (inv.force \/ db[d] = None)
    BY <1>3, <2>1
  <2>3. d \in Dbs /\ d \in Targets
    BY <1>4, <2>1, <2>2
  <2>4. /\ WebType(web[d], d) /\ \A e \in Dbs : db'[e] >= db[e]
        /\ db' \in [Dbs -> -1..server] /\ staged' \in [Dbs -> -1..server]
        /\ refresh' \in [Dbs -> -2..server]
    BY <1>2, <2>1, <2>3 DEF Partial
  <2>5. FilesOK' /\ Keeps
    BY <1>1, <1>2, <2>1, <2>3, <2>4, WofFiles
  <2>6. Fresh(staged[d]) /\ staged[d] >= db[d]
    BY <1>1, <2>1 DEF IInv, WofOK
  <2>7. /\ staged'[d] \in Nat /\ (inv.force => staged'[d] >= began)
        /\ staged'[d] >= db'[d]
    BY <2>1, <2>6 DEF Fresh
  <2>8. inv.force \/ db'[d] = None
    BY <2>1, <2>2
  <2> HIDE DEF d
  <2> QED BY <1>1, <2>1, <2>2, <2>5, <2>7, <2>8, GotoKeeps DEF d
<1>12. CASE WofDecoded
  <2>1. /\ step = "decoding"
        /\ UNCHANGED <<server, crontab, web, state, db, mmdb, source, psv>>
    BY <1>12 DEF WofDecoded, AtWof
  <2>2. \/ /\ refresh' = [refresh EXCEPT ![d] = staged[d]]
           /\ staged' = [staged EXCEPT ![d] = None]
           /\ Goto("install")
        \/ /\ refresh' = [refresh EXCEPT ![d] = None]
           /\ WofReport(FALSE) /\ UNCHANGED staged
    BY <1>12 DEF WofDecoded
  <2>3. todo # <<>> /\ (inv.force \/ db[d] = None)
    BY <1>3, <2>1
  <2>4. d \in Dbs /\ d \in Targets
    BY <1>4, <2>1, <2>3
  <2>5. /\ WebType(web[d], d) /\ \A e \in Dbs : db'[e] >= db[e]
        /\ db' \in [Dbs -> -1..server]
    BY <1>2, <2>1, <2>4
  <2>6. staged' \in [Dbs -> -1..server] /\ refresh' \in [Dbs -> -2..server]
    <3> HIDE DEF d
    <3>1. CASE /\ refresh' = [refresh EXCEPT ![d] = staged[d]]
               /\ staged' = [staged EXCEPT ![d] = None]
      BY <1>2, <2>4, <3>1 DEF None
    <3>2. CASE refresh' = [refresh EXCEPT ![d] = None] /\ UNCHANGED staged
      BY <1>2, <2>4, <3>2 DEF None
    <3> QED BY <2>2, <3>1, <3>2
  <2>7. FilesOK' /\ Keeps
    BY <1>1, <1>2, <2>1, <2>4, <2>5, <2>6, WofFiles
  <2>8. CASE WofReport(FALSE)
    <3>1. FALSE \in BOOLEAN
      OBVIOUS
    <3> QED BY <1>1, <2>1, <2>3, <2>7, <2>8, <3>1, ReportKeeps
  <2>9. CASE refresh' = [refresh EXCEPT ![d] = staged[d]] /\ Goto("install")
    <3>1. Fresh(staged[d]) /\ staged[d] >= db[d]
      BY <1>1, <2>1 DEF IInv, WofOK
    <3>2. refresh'[d] = staged[d]
      BY <1>2, <2>4, <2>9
    <3>3. /\ refresh'[d] \in Nat /\ (inv.force => refresh'[d] >= began)
          /\ refresh'[d] >= db'[d]
      BY <2>1, <3>1, <3>2 DEF Fresh
    <3>4. inv.force \/ db'[d] = None
      BY <2>1, <2>3
    <3> HIDE DEF d
    <3> QED BY <1>1, <2>1, <2>3, <2>7, <2>9, <3>3, <3>4, GotoKeeps DEF d
  <2> QED BY <2>2, <2>8, <2>9
<1>13. CASE WofInstall
  <2>1. /\ step = "install"
        /\ UNCHANGED <<server, crontab, web, state, staged, mmdb, source, psv>>
        /\ \/ /\ db' = [db EXCEPT ![d] = refresh[d]] /\ refresh' = [refresh EXCEPT ![d] = None]
              /\ WofReport(TRUE)
           \/ WofReport(FALSE) /\ UNCHANGED <<db, refresh>>
    BY <1>13 DEF WofInstall, AtWof
  <2>2. todo # <<>>
    BY <1>3, <2>1
  <2>3. CASE WofReport(FALSE) /\ UNCHANGED <<db, refresh>>
    <3>1. FilesOK' /\ Keeps
      BY <2>1, <2>3, FilesAlone DEF files
    <3>2. FALSE \in BOOLEAN
      OBVIOUS
    <3> QED BY <1>1, <2>1, <2>2, <2>3, <3>1, <3>2, ReportKeeps
  <2>4. CASE /\ db' = [db EXCEPT ![d] = refresh[d]] /\ refresh' = [refresh EXCEPT ![d] = None]
             /\ WofReport(TRUE)
    <3>1. d \in Dbs /\ d \in Targets
      BY <1>4, <2>1, <2>2
    <3>2. Fresh(refresh[d]) /\ refresh[d] >= db[d]
      BY <1>1, <2>1 DEF IInv, WofOK
    <3> HIDE DEF d
    <3>3. /\ WebType(web[d], d) /\ db'[d] = refresh[d] /\ refresh[d] \in Nat
          /\ refresh[d] <= server
      BY <1>2, <2>1, <2>4, <3>1, <3>2 DEF Fresh
    <3>4. /\ db' \in [Dbs -> -1..server] /\ \A e \in Dbs : db'[e] >= db[e]
      BY <1>2, <2>1, <2>4, <3>1, <3>2, <3>3
    <3>5. staged' \in [Dbs -> -1..server] /\ refresh' \in [Dbs -> -2..server]
      BY <1>2, <2>1, <2>4, <3>1 DEF None
    <3>6. FilesOK' /\ Keeps
      BY <1>1, <1>2, <2>1, <3>1, <3>3, <3>4, <3>5, WofFiles
    <3>7. db'[d] \in Nat /\ (inv.force => db'[d] >= began)
      BY <3>2, <3>3 DEF Fresh
    <3> QED BY <1>1, <2>1, <2>2, <2>4, <3>6, <3>7, ReportKeeps DEF d
  <2> QED BY <2>1, <2>3, <2>4
<1> QED BY <1>5, <1>6, <1>7, <1>8, <1>9, <1>10, <1>11, <1>12, <1>13 DEF WofStep

\* A step inside the IP or the G-NAF source keeps what it does not touch.
LEMMA StayRest ==
    ASSUME IInv, FilesOK', Keeps, UNCHANGED <<server, crontab, inv, pc, failed, exit, began>>,
           \/ pc = "maxmind" /\ step' \in {"fetch", "extract", "rename", "clean", "record"}
           \/ pc = "gnaf" /\ step' \in {"unzip", "copy", "copying"}
    PROVE  /\ RunOK' /\ PassedOK' /\ ExitOK' /\ OsmOK' /\ WofOK'
           /\ (pc = "maxmind" => GnafOK') /\ (pc = "gnaf" => IpOK')
<1>1. PassedOK' /\ ExitOK'
  BY StayKeeps DEF IInv, RunOK, Sources
<1>2. RunOK'
  BY DEF IInv, RunOK, Datasets
<1>3. OsmOK' /\ WofOK' /\ (pc = "maxmind" => GnafOK') /\ (pc = "gnaf" => IpOK')
  BY DEF OsmOK, WofOK, GnafOK, IpOK, Datasets
<1> QED BY <1>1, <1>2, <1>3

\* Files of a step of the IP source: its two archives, the database and the sidecar.
LEMMA IpFiles ==
    ASSUME IInv, pc = "maxmind", NEW t \in {"tar", "gz"},
           DOMAIN web' = Targets, WebType(web'[t], t), \A v \in Targets : v # t => web'[v] = web[v],
           mmdb' \in IpFile, mmdb' # NoIp => mmdb'.pub \in Nat, mmdb # NoIp => mmdb' # NoIp,
           inv.force /\ mmdb' # mmdb => mmdb'.pub >= began,
           source' \in IpFile, UNCHANGED <<server, state, staged, refresh, db, psv>>
    PROVE  FilesOK' /\ Keeps
<1>1. \A v \in Targets : WebType(web'[v], v)
  BY DEF IInv, FilesOK, WebOK
<1>2. WebOK'
  BY <1>1 DEF WebOK, WebType
<1>3. FilesOK'
  BY <1>2 DEF IInv, FilesOK, StateOK, NoIp
<1>4. /\ \A u \in Pbfs : web'[u] = web[u] /\ web[u].file \in Int
      /\ web'["zip"] = web["zip"] /\ \A d \in Dbs : db[d] \in Int
  BY TargetsApart DEF IInv, FilesOK, WebOK, WebType
<1>5. PsvKept
  BY DEF PsvKept
<1> QED BY <1>3, <1>4, <1>5 DEF Keeps

\* Steps of the IP source keep the invariant.
LEMMA IpKeeps ==
    ASSUME IInv, IpStep
    PROVE  IInv' /\ Keeps
<1>1. pc = "maxmind" /\ pc \in Sources /\ pc # "exit" /\ UNCHANGED <<server, crontab>>
  BY DEF IpStep, IpCached, IpStart, IpMonthCached, IpFetch, IpExtract, IpRename, IpClean, IpRecord,
         AtIp, Sources
<1>2. /\ server \in Nat /\ began \in Nat /\ began <= server /\ server <= LastPub /\ LastPub \in Nat
      /\ DOMAIN web = Targets /\ \A t \in Targets : WebType(web[t], t)
      /\ mmdb \in IpFile /\ source \in IpFile /\ (mmdb # NoIp => mmdb.pub \in Nat)
      /\ failed \in BOOLEAN
      /\ inv.key \in BOOLEAN /\ inv.force \in BOOLEAN /\ inv.fallback \in BOOLEAN
  BY RunAssumption, InvType DEF IInv, RunOK, FilesOK, WebOK, Pubs
<1>3. /\ Archive \in {"tar", "gz"} /\ Archive \in Targets /\ Archive # "zip" /\ Archive \notin Pbfs
      /\ (inv.key => Archive = "tar") /\ (~inv.key => Archive = "gz")
  BY TargetsApart DEF Archive
<1>4. ASSUME step # "start"
      PROVE  /\ inv.key \/ inv.fallback
             /\ todo \in Seq(Int) /\ todo # <<>>
             /\ \A k \in DOMAIN todo : began <= todo[k] /\ todo[k] <= server + 1
             /\ Head(todo) \in Int /\ began <= Head(todo) /\ Head(todo) <= server + 1
             /\ Wanted \in IpFile
  <2>1. /\ inv.key \/ inv.fallback
        /\ todo \in Seq(Int) /\ todo # <<>>
        /\ \A k \in DOMAIN todo : began <= todo[k] /\ todo[k] <= server + 1
    BY <1>1, <1>4 DEF IInv, IpOK
  <2>2. 1 \in DOMAIN todo /\ Head(todo) = todo[1] /\ Head(todo) \in Int
    BY <2>1
  <2>3. began <= Head(todo) /\ Head(todo) <= server + 1
    BY <2>1, <2>2
  <2>4. Wanted \in IpFile
    BY <1>2, <2>2, <2>3 DEF Wanted, IpFile
  <2> QED BY <2>1, <2>2, <2>3, <2>4
<1>5. CASE IpCached
  <2>1. Done(TRUE) /\ UNCHANGED <<server, crontab, web, state, staged, refresh, db, mmdb, psv>>
    BY <1>5 DEF IpCached
  <2>2. \/ inv.key /\ mmdb # NoIp /\ ~inv.force /\ source' \in {source, Wanted}
        \/ ~inv.key /\ ~inv.fallback /\ UNCHANGED source
    BY <1>5 DEF IpCached
  <2>3. source' \in IpFile
    BY <1>2, <2>2 DEF Wanted, IpFile
  <2>4. FilesOK' /\ Keeps
    BY <1>1, <1>2, <1>3, <2>1, <2>3, IpFiles
  <2>5. inv.key \/ inv.fallback => mmdb # NoIp /\ Fresh(mmdb.pub)
    BY <1>2, <2>2 DEF Fresh
  <2>6. Got("maxmind")'
    BY <2>1, <2>5 DEF Got, Datasets, Done, Fresh, NoIp
  <2>7. \A s \in Sources : s = pc => Got(s)'
    BY <1>1, <2>6
  <2> QED BY <1>1, <2>1, <2>4, <2>7, DoneKeeps
<1>6. CASE IpStart
  <2>1. /\ todo' = (IF inv.key THEN <<server>> ELSE Months)
        /\ step' = "fetch"
        /\ UNCHANGED <<server, crontab, files, inv, pc, task, failed, exit, began>>
        /\ inv.key \/ inv.fallback
    BY <1>6 DEF IpStart
  <2>2. FilesOK' /\ Keeps
    BY <2>1, FilesAlone
  <2>3. /\ todo' \in Seq(Int) /\ todo' # <<>>
        /\ \A k \in DOMAIN todo' : began <= todo'[k] /\ todo'[k] <= server + 1
    <3>1. CASE todo' = <<server>>
      BY <1>2, <3>1
    <3>2. CASE todo' = <<server + 1, server>>
      <4>1. DOMAIN todo' = {1, 2} /\ todo'[1] = server + 1 /\ todo'[2] = server
        BY <3>2
      <4> QED BY <1>2, <3>2, <4>1
    <3> QED BY <2>1, <3>1, <3>2 DEF Months
  <2>4. IpOK'
    BY <2>1, <2>3 DEF IpOK
  <2> QED BY <1>1, <2>1, <2>2, <2>4, StayRest DEF IInv
<1>7. CASE IpMonthCached
  <2>1. Done(TRUE) /\ UNCHANGED <<server, crontab, files>> /\ ~inv.force /\ mmdb # NoIp
    BY <1>7 DEF IpMonthCached, IpMonthInstalled
  <2>2. FilesOK' /\ Keeps
    BY <2>1, FilesAlone
  <2>3. mmdb # NoIp /\ Fresh(mmdb.pub)
    BY <1>2, <2>1 DEF Fresh
  <2>4. Got("maxmind")'
    BY <2>1, <2>3 DEF Got, Datasets, Done, Fresh, NoIp, files
  <2>5. \A s \in Sources : s = pc => Got(s)'
    BY <1>1, <2>4
  <2> QED BY <1>1, <2>1, <2>2, <2>5, DoneKeeps
<1>8. CASE IpFetch
  <2> DEFINE now == IF inv.key THEN server ELSE Head(todo)
  <2>1. /\ step = "fetch"
        /\ UNCHANGED <<server, crontab, state, staged, refresh, db, mmdb, source, psv>>
    BY <1>8 DEF IpFetch, AtIp
  <2>2. PICK r \in FetchResults(web[Archive], now, inv.force) :
          /\ web' = [web EXCEPT ![Archive] = r.f]
          /\ IF r.outcome # "failed" THEN Goto("extract")
             ELSE IF Len(todo) = 1 THEN Done(FALSE)
             ELSE /\ todo' = Tail(todo)
                  /\ UNCHANGED <<inv, pc, step, task, failed, exit, began>>
    BY <1>8 DEF IpFetch
  <2>3. /\ now \in Nat /\ began <= now /\ now <= server + 1 /\ (Archive # "gz" => now <= server)
    BY <1>2, <1>3, <1>4, <2>1
  <2> HIDE DEF now
  <2>4. WebType(web[Archive], Archive)
    BY <1>2, <1>3
  <2>5. WebType(r.f, Archive) /\ (r.outcome # "failed" /\ inv.force => r.f.file = now)
    BY <1>2, <2>3, <2>4, Fetched
  <2>6. FilesOK' /\ Keeps
    BY <1>3, <2>1, <2>2, <2>5, WebUpdated
  <2>7. web'[Archive] = r.f
    BY <1>2, <1>3, <2>2
  <2>8. CASE r.outcome # "failed"
    <3>1. step' = "extract" /\ UNCHANGED <<inv, pc, task, todo, failed, exit, began>>
      BY <2>2, <2>8 DEF Goto
    <3>2. inv.force => web'[Archive].file \in Nat /\ web'[Archive].file >= began
      BY <1>2, <2>3, <2>5, <2>7, <2>8
    <3>3. Archive' = Archive
      BY <3>1 DEF Archive
    <3>4. inv.force => Fresh(web[Archive].file)'
      BY <3>1, <3>2, <3>3 DEF Fresh
    <3>5. IpOK'
      BY <1>4, <2>1, <3>1, <3>4 DEF IpOK
    <3> QED BY <1>1, <2>6, <3>1, <3>5, StayRest DEF IInv
  <2>9. CASE r.outcome = "failed" /\ Len(todo) = 1
    <3>1. Done(FALSE)
      BY <2>2, <2>9
    <3>2. FALSE \in BOOLEAN
      OBVIOUS
    <3> QED BY <1>1, <2>6, <3>1, <3>2, DoneKeeps
  <2>10. CASE r.outcome = "failed" /\ Len(todo) # 1
    <3>1. todo' = Tail(todo) /\ UNCHANGED <<inv, pc, step, task, failed, exit, began>>
      BY <2>2, <2>10
    <3>2. /\ inv.key \/ inv.fallback
          /\ todo \in Seq(Int) /\ todo # <<>>
          /\ \A k \in DOMAIN todo : began <= todo[k] /\ todo[k] <= server + 1
      BY <1>4, <2>1
    <3>3. /\ todo' \in Seq(Int) /\ todo' # <<>>
          /\ \A k \in DOMAIN todo' : began <= todo'[k] /\ todo'[k] <= server + 1
      <4>1. Len(todo) \in Nat /\ Len(todo) >= 2 /\ DOMAIN todo = 1..Len(todo)
        <5>1. Len(todo) \in Nat /\ Len(todo) >= 1 /\ DOMAIN todo = 1..Len(todo)
          BY <3>2
        <5> QED BY <2>10, <5>1
      <4>2. Tail(todo) \in Seq(Int) /\ Len(Tail(todo)) = Len(todo) - 1 /\ DOMAIN Tail(todo) = 1..(Len(todo) - 1)
        BY <3>2, <4>1
      <4>3. \A k \in 1..(Len(todo) - 1) : Tail(todo)[k] = todo[k + 1] /\ k + 1 \in 1..Len(todo)
        BY <3>2, <4>1
      <4>4. Tail(todo) # <<>>
        <5>1. 1 \in DOMAIN Tail(todo)
          BY <4>1, <4>2
        <5>2. 1 \notin DOMAIN <<>>
          OBVIOUS
        <5> QED BY <5>1, <5>2, Zenon
      <4> QED BY <3>1, <3>2, <4>1, <4>2, <4>3, <4>4
    <3>4. IpOK'
      BY <2>1, <3>1, <3>2, <3>3 DEF IpOK
    <3> QED BY <1>1, <2>1, <2>6, <3>1, <3>4, StayRest DEF IInv
  <2> QED BY <2>8, <2>9, <2>10
<1>9. CASE IpExtract
  <2>1. step = "extract" /\ UNCHANGED <<server, crontab, files>>
    BY <1>9 DEF IpExtract, AtIp
  <2>2. FilesOK' /\ Keeps
    BY <2>1, FilesAlone
  <2>3. CASE Done(FALSE)
    <3>1. FALSE \in BOOLEAN
      OBVIOUS
    <3> QED BY <1>1, <2>2, <2>3, <3>1, DoneKeeps
  <2>4. CASE web[Archive].file # None /\ Goto("rename")
    <3>1. step' = "rename" /\ UNCHANGED <<inv, pc, task, todo, failed, exit, began>>
      BY <2>4 DEF Goto
    <3>2. web[Archive].file \in Nat
      BY <1>2, <1>3, <2>4 DEF WebType, None
    <3>3. inv.force => Fresh(web[Archive].file)
      BY <1>1, <2>1 DEF IInv, IpOK
    <3>4. Fresh(web[Archive].file)
      BY <3>2, <3>3 DEF Fresh
    <3>5. Fresh(web[Archive].file)'
      BY <2>1, <3>1, <3>4 DEF Fresh, Archive, files
    <3>6. IpOK'
      BY <1>4, <2>1, <3>1, <3>5 DEF IpOK
    <3> QED BY <1>1, <2>2, <3>1, <3>6, StayRest DEF IInv
  <2> QED BY <1>9, <2>3, <2>4 DEF IpExtract
<1>10. CASE IpRename
  <2>1. /\ step = "rename" /\ mmdb' = [src |-> Wanted.src, pub |-> web[Archive].file]
        /\ step' = "clean" /\ UNCHANGED <<inv, pc, task, todo, failed, exit, began>>
        /\ UNCHANGED <<server, crontab, web, state, staged, refresh, db, source, psv>>
    BY <1>10 DEF IpRename, AtIp, Goto
  <2>2. Fresh(web[Archive].file)
    BY <1>1, <2>1 DEF IInv, IpOK
  <2>3. web[Archive].file \in Nat /\ web[Archive].file <= LastPub + 1 /\ (inv.force => web[Archive].file >= began)
    BY <1>2, <1>3, <2>2 DEF WebType, Fresh
  <2>4. Wanted.src \in {"maxmind", "dbip"}
    BY DEF Wanted
  <2>5. mmdb' \in IpFile /\ mmdb' # NoIp /\ mmdb'.pub = web[Archive].file
    BY <1>2, <2>1, <2>3, <2>4 DEF IpFile, NoIp
  <2>6. FilesOK' /\ Keeps
    BY <1>1, <1>2, <1>3, <2>1, <2>3, <2>5, IpFiles
  <2>7. (mmdb # NoIp)' /\ Fresh(mmdb.pub)'
    BY <2>1, <2>3, <2>5 DEF Fresh, NoIp
  <2>8. IpOK'
    BY <1>4, <2>1, <2>7 DEF IpOK
  <2> QED BY <1>1, <2>1, <2>6, <2>8, StayRest DEF IInv
<1>11. CASE IpClean
  <2>1. /\ step = "clean" /\ web' = [web EXCEPT ![Archive].file = None]
        /\ step' = "record" /\ UNCHANGED <<inv, pc, task, todo, failed, exit, began>>
        /\ UNCHANGED <<server, crontab, state, staged, refresh, db, mmdb, source, psv>>
    BY <1>11 DEF IpClean, AtIp, Goto
  <2>2. /\ DOMAIN web' = Targets /\ \A v \in Targets : v # Archive => web'[v] = web[v]
        /\ web'[Archive] = [web[Archive] EXCEPT !.file = None]
        /\ WebType(web[Archive], Archive)
    BY <1>2, <1>3, <2>1
  <2>3. /\ DOMAIN web'[Archive] = {"file", "etag"} /\ web'[Archive].etag = web[Archive].etag
        /\ web'[Archive].file = None
    BY <2>2 DEF WebType
  <2>4. WebType(web'[Archive], Archive)
    BY <1>2, <1>3, <2>2, <2>3 DEF WebType, None
  <2>5. FilesOK' /\ Keeps
    BY <1>1, <1>2, <1>3, <2>1, <2>2, <2>4, IpFiles
  <2>6. mmdb # NoIp /\ Fresh(mmdb.pub)
    BY <1>1, <2>1 DEF IInv, IpOK
  <2>7. IpOK'
    BY <1>4, <2>1, <2>6 DEF IpOK, Fresh, NoIp
  <2> QED BY <1>1, <2>1, <2>5, <2>7, StayRest DEF IInv
<1>12. CASE IpRecord
  <2>1. /\ step = "record" /\ source' \in {source, Wanted} /\ Done(TRUE)
        /\ UNCHANGED <<server, crontab, web, state, staged, refresh, db, mmdb, psv>>
    BY <1>12 DEF IpRecord, AtIp
  <2>2. source' \in IpFile
    BY <1>2, <1>4, <2>1
  <2>3. FilesOK' /\ Keeps
    BY <1>1, <1>2, <1>3, <2>1, <2>2, IpFiles
  <2>4. mmdb # NoIp /\ Fresh(mmdb.pub)
    BY <1>1, <2>1 DEF IInv, IpOK
  <2>5. Got("maxmind")'
    BY <2>1, <2>4 DEF Got, Datasets, Done, Fresh, NoIp
  <2>6. \A s \in Sources : s = pc => Got(s)'
    BY <1>1, <2>5
  <2> QED BY <1>1, <2>1, <2>3, <2>6, DoneKeeps
<1> QED BY <1>5, <1>6, <1>7, <1>8, <1>9, <1>10, <1>11, <1>12 DEF IpStep

\* Files of a step of the G-NAF source that leaves the archive alone.
LEMMA PsvFiles ==
    ASSUME IInv, pc = "gnaf", UNCHANGED <<server, web, state, staged, refresh, db, mmdb, source>>,
           \A n \in DOMAIN psv' : psv'[n] \in Pubs \cup {Partial}, PsvKept
    PROVE  FilesOK' /\ Keeps
<1>1. WebOK'
  BY DEF IInv, FilesOK, WebOK, WebType
<1>2. FilesOK'
  BY <1>1 DEF IInv, FilesOK, StateOK, NoIp, Pubs
<1>3. /\ \A u \in Pbfs : web[u].file \in Int
      /\ \A d \in Dbs : db[d] \in Int
  BY TargetsApart DEF IInv, FilesOK, WebOK, WebType
<1> QED BY <1>2, <1>3 DEF Keeps

\* Steps of the G-NAF source keep the invariant.
LEMMA GnafKeeps ==
    ASSUME IInv, GnafStep
    PROVE  IInv' /\ Keeps
<1> DEFINE z == web["zip"].file
<1>1. pc = "gnaf" /\ pc \in Sources /\ pc # "exit" /\ UNCHANGED <<server, crontab>>
  BY DEF GnafStep, GnafCached, GnafFetch, GnafUnzip, GnafCopy, GnafCopied, GnafEnd, AtGnaf, Sources
<1>2. /\ server \in Nat /\ began \in Nat /\ began <= server /\ server <= LastPub /\ LastPub \in Nat
      /\ DOMAIN web = Targets /\ WebType(web["zip"], "zip")
      /\ \A n \in DOMAIN psv : psv[n] \in Pubs \cup {Partial}
      /\ failed \in BOOLEAN
  BY RunAssumption, TargetsApart DEF IInv, RunOK, FilesOK, WebOK, Pubs
<1>3. ASSUME step # "start"
      PROVE  /\ Fresh(z) /\ inv.gnafUrl = "good" /\ z \in Pubs
             /\ step \in {"copy", "copying"} =>
                  /\ todo \subseteq Psvs[z]
                  /\ \A n \in Psvs[z] \ todo : n \in DOMAIN psv /\ psv[n] = z
             /\ step = "copying" => \A n \in DOMAIN task : n \in DOMAIN psv /\ psv[n] = Partial
  <2>1. /\ Fresh(z) /\ inv.gnafUrl = "good"
        /\ step \in {"copy", "copying"} =>
             /\ todo \subseteq Psvs[z]
             /\ \A n \in Psvs[z] \ todo : n \in DOMAIN psv /\ psv[n] = z
        /\ step = "copying" => \A n \in DOMAIN task : n \in DOMAIN psv /\ psv[n] = Partial
    BY <1>1, <1>3 DEF IInv, GnafOK
  <2>2. z \in Pubs
    BY <1>2, <2>1 DEF Fresh, WebType, Pubs
  <2> QED BY <2>1, <2>2
<1>4. ASSUME Done(FALSE), FilesOK', Keeps PROVE IInv'
  <2>1. FALSE \in BOOLEAN
    OBVIOUS
  <2> QED BY <1>1, <1>4, <2>1, DoneKeeps
<1>5. ASSUME Done(TRUE), FilesOK', Keeps, Got("gnaf")' PROVE IInv'
  <2>1. \A s \in Sources : s = pc => Got(s)'
    BY <1>1, <1>5
  <2> QED BY <1>1, <1>5, <2>1, DoneKeeps
<1>6. CASE GnafCached
  <2>1. /\ UNCHANGED <<server, crontab, files>> /\ Done(inv.gnafUrl # "bad")
        /\ inv.gnafUrl = "good" => DOMAIN psv # {} /\ ~inv.force
    BY <1>6 DEF GnafCached
  <2>2. FilesOK' /\ Keeps
    BY <2>1, FilesAlone
  <2>3. inv.gnafUrl \in {"unset", "bad", "good"}
    BY InvType DEF Invocations, IInv
  <2>4. CASE inv.gnafUrl = "bad"
    <3>1. Done(FALSE)
      BY <2>1, <2>4 DEF Done
    <3> QED BY <1>4, <2>2, <3>1
  <2>5. CASE inv.gnafUrl # "bad"
    <3>1. Done(TRUE)
      BY <2>1, <2>5 DEF Done
    <3>2. Got("gnaf")
      BY <2>1, <2>3, <2>5 DEF Got, Datasets
    <3>3. Got("gnaf")'
      BY <2>1, <3>1, <3>2 DEF Got, Datasets, Done, files, Fresh
    <3> QED BY <1>5, <2>2, <3>1, <3>3
  <2> QED BY <2>4, <2>5
<1>7. CASE GnafFetch
  <2>1. /\ UNCHANGED <<server, crontab, state, staged, refresh, db, mmdb, source, psv>>
        /\ inv.gnafUrl = "good"
    BY <1>7 DEF GnafFetch
  <2>2. PICK r \in FetchResults(web["zip"], server, inv.force) :
          /\ web' = [web EXCEPT !["zip"] = r.f]
          /\ IF r.outcome = "failed" THEN Done(FALSE) ELSE Goto("unzip")
    BY <1>7 DEF GnafFetch
  <2>3. server <= server /\ server <= server + 1 /\ "zip" \in Pbfs \cup {"zip"}
    BY <1>2
  <2>4. /\ WebType(r.f, "zip") /\ (r.outcome # "failed" /\ inv.force => r.f.file = server)
        /\ r.outcome # "failed" => r.f.file # None
    BY <1>2, <2>3, Fetched
  <2>5. FilesOK' /\ Keeps
    BY <1>1, <2>1, <2>2, <2>4, WebUpdated, TargetsApart
  <2>6. web'["zip"] = r.f
    BY <1>2, <2>2, TargetsApart
  <2>7. CASE r.outcome = "failed"
    BY <1>4, <2>2, <2>5, <2>7
  <2>8. CASE r.outcome # "failed"
    <3>1. step' = "unzip" /\ UNCHANGED <<inv, pc, task, todo, failed, exit, began>>
      BY <2>2, <2>8 DEF Goto
    <3>2. r.f.file \in Nat /\ (inv.force => r.f.file >= began)
      BY <1>2, <2>4, <2>8 DEF WebType, None
    <3>3. Fresh(web["zip"].file)'
      BY <2>6, <3>1, <3>2 DEF Fresh
    <3>4. GnafOK'
      BY <2>1, <3>1, <3>3 DEF GnafOK
    <3> QED BY <1>1, <2>5, <3>1, <3>4, StayRest DEF IInv
  <2> QED BY <2>7, <2>8
<1>8. CASE GnafUnzip
  <2>1. step = "unzip" /\ UNCHANGED <<server, crontab, files>>
    BY <1>8 DEF GnafUnzip, AtGnaf
  <2>2. FilesOK' /\ Keeps
    BY <2>1, FilesAlone
  <2>3. CASE Done(FALSE)
    BY <1>4, <2>2, <2>3
  <2>4. CASE /\ todo' = Psvs[z] /\ step' = "copy"
             /\ UNCHANGED <<inv, pc, task, failed, exit, began>>
    <3>1. web' = web /\ psv' = psv
      BY <2>1 DEF files
    <3>2. GnafOK'
      BY <1>3, <2>1, <2>4, <3>1 DEF GnafOK, Fresh
    <3> QED BY <1>1, <2>2, <2>4, <3>2, StayRest DEF IInv
  <2> QED BY <1>8, <2>3, <2>4 DEF GnafUnzip
<1>9. CASE GnafEnd
  <2>1. step = "copy" /\ todo = {} /\ Done(TRUE) /\ UNCHANGED <<server, crontab, files>>
    BY <1>9 DEF GnafEnd, AtGnaf
  <2>2. FilesOK' /\ Keeps
    BY <2>1, FilesAlone
  <2>3. Psvs[z] # {}
    BY <1>3, <2>1, RunAssumption
  <2>4. Got("gnaf")
    BY <1>3, <2>1, <2>3 DEF Got, Datasets
  <2>5. Got("gnaf")'
    BY <2>1, <2>4 DEF Got, Datasets, Done, files, Fresh
  <2> QED BY <1>5, <2>1, <2>2, <2>5
<1>10. ASSUME NEW n, GnafCopy(n) PROVE IInv' /\ Keeps
  <2>1. /\ step = "copy" /\ n \in todo
        /\ UNCHANGED <<server, crontab, web, state, staged, refresh, db, mmdb, source>>
    BY <1>10 DEF GnafCopy, AtGnaf
  <2>2. CASE n \in DOMAIN psv
    <3>1. Done(FALSE) /\ UNCHANGED files
      BY <1>10, <2>1, <2>2 DEF GnafCopy, files
    <3> QED BY <1>1, <1>4, <3>1, FilesAlone
  <2>3. CASE n \notin DOMAIN psv
    <3>1. /\ psv' = [m \in DOMAIN psv \cup {n} |-> IF m = n THEN Partial ELSE psv[m]]
          /\ step' = "copying" /\ task' = [m \in {n} |-> "copying"]
          /\ UNCHANGED <<inv, pc, todo, failed, exit, began>>
      BY <1>10, <2>3 DEF GnafCopy
    <3>2. /\ DOMAIN psv' = DOMAIN psv \cup {n} /\ psv'[n] = Partial
          /\ \A m \in DOMAIN psv : psv'[m] = psv[m]
      BY <2>3, <3>1
    <3>3. FilesOK' /\ Keeps
      <4>1. PsvKept
        BY <3>2 DEF PsvKept
      <4>2. \A m \in DOMAIN psv' : psv'[m] \in Pubs \cup {Partial}
        BY <1>2, <3>2
      <4> QED BY <1>1, <2>1, <4>1, <4>2, PsvFiles
    <3>4. DOMAIN task' = {n}
      BY <3>1
    <3>5. GnafOK'
      BY <1>3, <2>1, <3>1, <3>2, <3>4 DEF GnafOK, Fresh
    <3> QED BY <1>1, <3>1, <3>3, <3>5, StayRest DEF IInv
  <2> QED BY <2>2, <2>3
<1>11. ASSUME NEW n, GnafCopied(n) PROVE IInv' /\ Keeps
  <2>1. /\ step = "copying" /\ n \in DOMAIN task
        /\ UNCHANGED <<server, crontab, web, state, staged, refresh, db, mmdb, source>>
        /\ \/ /\ psv' = [psv EXCEPT ![n] = z]
              /\ step' = "copy" /\ task' = <<>> /\ todo' = todo \ {n}
              /\ UNCHANGED <<inv, pc, failed, exit, began>>
           \/ Done(FALSE) /\ UNCHANGED psv
    BY <1>11 DEF GnafCopied, AtGnaf
  <2>2. /\ n \in DOMAIN psv /\ psv[n] = Partial /\ z \in Pubs
        /\ todo \subseteq Psvs[z]
        /\ \A m \in Psvs[z] \ todo : m \in DOMAIN psv /\ psv[m] = z
    BY <1>3, <2>1
  <2>3. CASE Done(FALSE) /\ UNCHANGED psv
    <3>1. FilesOK' /\ Keeps
      BY <2>1, <2>3, FilesAlone DEF files
    <3> QED BY <1>4, <2>3, <3>1
  <2>4. CASE /\ psv' = [psv EXCEPT ![n] = z]
             /\ step' = "copy" /\ task' = <<>> /\ todo' = todo \ {n}
             /\ UNCHANGED <<inv, pc, failed, exit, began>>
    <3>1. /\ DOMAIN psv' = DOMAIN psv /\ psv'[n] = z
          /\ \A m \in DOMAIN psv : m # n => psv'[m] = psv[m]
      BY <2>2, <2>4
    <3>2. PsvKept
      BY <2>1, <2>2, <3>1 DEF PsvKept
    <3>3. \A m \in DOMAIN psv' : psv'[m] \in Pubs \cup {Partial}
      BY <1>2, <2>2, <3>1
    <3>4. FilesOK' /\ Keeps
      BY <1>1, <2>1, <3>2, <3>3, PsvFiles
    <3>5. GnafOK'
      BY <1>3, <2>1, <2>2, <2>4, <3>1 DEF GnafOK, Fresh
    <3> QED BY <1>1, <2>4, <3>4, <3>5, StayRest DEF IInv
  <2> QED BY <2>1, <2>3, <2>4
<1> QED BY <1>6, <1>7, <1>8, <1>9, <1>10, <1>11 DEF GnafStep

-----------------------------------------------------------------------------
(* The theorems. *)

\* A fresh deployment satisfies the invariant.
LEMMA InitIInv == Init => IInv
<1> SUFFICES ASSUME Init PROVE IInv
  OBVIOUS
<1>1. inv \in crontab
  BY RunAssumption DEF Init
<1>2. 0 \in Pubs /\ 0 \in Nat /\ -1 \in -1..0 /\ -1 \in -2..0
  BY RunAssumption DEF Pubs
<1>3. failed \in BOOLEAN
  BY DEF Init
<1>4. RunOK
  BY <1>1, <1>2, <1>3 DEF Init, RunOK, Datasets
<1>5. WebOK
  <2>1. DOMAIN web = Targets /\ \A t \in Targets : web[t] = [file |-> None, etag |-> None]
    BY DEF Init
  <2>2. ASSUME NEW t \in Targets PROVE WebType(web[t], t)
    <3>1. DOMAIN web[t] = {"file", "etag"} /\ web[t].file = -1 /\ web[t].etag = -1 /\ server = 0
      BY <2>1 DEF None, Init
    <3> QED BY <2>1, <3>1 DEF WebType, None
  <2> QED BY <2>1, <2>2 DEF WebOK
<1>6. /\ DOMAIN state = Pbfs /\ StateOK
  BY DEF Init, StateOK
<1>7. /\ staged \in [Dbs -> -1..server] /\ db \in [Dbs -> -1..server]
      /\ refresh \in [Dbs -> -2..server]
  BY <1>2 DEF Init, None
<1>8. mmdb = NoIp /\ source = NoIp /\ NoIp \in IpFile /\ DOMAIN psv = {}
  BY DEF Init, NoIp, IpFile
<1>9. FilesOK
  BY <1>5, <1>6, <1>7, <1>8 DEF FilesOK
<1>10. OsmOK /\ WofOK /\ IpOK /\ GnafOK /\ PassedOK /\ ExitOK
  BY DEF Init, OsmOK, WofOK, IpOK, GnafOK, PassedOK, ExitOK
<1> QED BY <1>4, <1>9, <1>10 DEF IInv

\* Every step keeps the invariant and the files that others read.
LEMMA NextIInv == IInv /\ [Next]_vars => IInv' /\ (Keeps \/ UNCHANGED vars)
<1> SUFFICES ASSUME IInv, [Next]_vars PROVE IInv' /\ (Keeps \/ UNCHANGED vars)
  OBVIOUS
<1>1. CASE UNCHANGED vars
  <2>1. /\ UNCHANGED <<server, crontab, web, state, staged, refresh, db, mmdb, source, psv>>
        /\ UNCHANGED <<inv, pc, step, task, todo, failed, exit, began>>
    BY <1>1 DEF vars, files, run
  <2>2. FilesOK'
    BY <2>1, FilesAlone DEF files
  <2>3. RunOK'
    BY <2>1 DEF IInv, RunOK
  <2>4. OsmOK' /\ WofOK' /\ GnafOK'
    BY <2>1 DEF IInv, OsmOK, WofOK, GnafOK, Fresh
  <2>5. IpOK' /\ PassedOK' /\ ExitOK'
    BY <2>1 DEF IInv, IpOK, Fresh, Archive, NoIp, PassedOK, ExitOK, Got
  <2> QED BY <1>1, <2>2, <2>3, <2>4, <2>5 DEF IInv
<1>2. CASE Next
  BY <1>2, MainKeeps, KillKeeps, OsmKeeps, WofKeeps, IpKeeps, GnafKeeps DEF Next
<1> QED BY <1>1, <1>2

\* The invariant holds throughout.
LEMMA IInvHolds == Spec => []IInv
BY InitIInv, NextIInv, PTL DEF Spec

\* The state is well typed.
LEMMA TypesHold == IInv => TypeOK
<1> SUFFICES ASSUME IInv PROVE TypeOK
  OBVIOUS
<1>1. server \in Nat /\ server <= LastPub /\ LastPub \in Nat
  BY RunAssumption DEF IInv, RunOK, Pubs
<1>2. ASSUME NEW t \in Targets
      PROVE  web[t] \in [file : 0..(LastPub + 1) \cup {None}, etag : 0..(LastPub + 1) \cup {None}]
  <2>1. WebType(web[t], t)
    BY DEF IInv, FilesOK, WebOK
  <2>2. /\ web[t] \in [file : Int, etag : Int] /\ web[t].file \in 0..(LastPub + 1) \cup {None}
        /\ web[t].etag \in 0..(LastPub + 1) \cup {None}
    BY <1>1, <2>1 DEF WebType, None
  <2> QED BY <2>2
<1>3. /\ -1..server \subseteq MaybePub /\ -2..server \subseteq MaybeCut
  BY <1>1 DEF MaybePub, MaybeCut, Pubs, None, Partial
<1>4. staged \in [Dbs -> MaybePub] /\ refresh \in [Dbs -> MaybeCut] /\ db \in [Dbs -> MaybePub]
  BY <1>3 DEF IInv, FilesOK
<1>5. pc \in {"idle"} \cup {Order[k] : k \in DOMAIN Order}
  BY Positions DEF IInv, RunOK
<1> QED BY <1>2, <1>4, <1>5 DEF TypeOK, IInv, RunOK, FilesOK

\* Exit status 0 means that every selected source has left what it was asked for.
LEMMA ExitHolds == IInv => ExitTruthful /\ ForcedRunIsFresh
<1> SUFFICES ASSUME IInv, exit = "ok" PROVE ExitTruthful /\ ForcedRunIsFresh
  BY DEF ExitTruthful, ForcedRunIsFresh
<1>1. failed = FALSE /\ \A s \in Sources : Selected(inv, s) => Got(s)
  BY DEF IInv, ExitOK
<1>2. began \in Nat /\ RunOK /\ FilesOK
  BY RunAssumption DEF IInv, RunOK, Pubs
<1>3. ASSUME inv.region # "none"
      PROVE  /\ Urls(ParseRegion(inv.region)) \subseteq PbfsPresent
             /\ inv.force => \A u \in Urls(ParseRegion(inv.region)) : web[u].file >= began
  <2>1. Selected(inv, "region") /\ "region" \in Sources
    BY <1>3 DEF Selected, Sources
  <2>2. /\ ParseRegion(inv.region) # "unknown"
        /\ \A u \in Urls(ParseRegion(inv.region)) : Fresh(web[u].file)
    BY <1>1, <2>1 DEF Got, Datasets
  <2>3. Urls(ParseRegion(inv.region)) \subseteq Pbfs
    BY <2>2, RegionPbfs
  <2> QED BY <2>2, <2>3 DEF Fresh, PbfsPresent, None
<1>4. ASSUME NEW ds \in Datasets, inv[ds]
      PROVE  \A d \in Scope[ds] : db[d] # None /\ (inv.force => db[d] >= began)
  <2>1. Selected(inv, ds) /\ ds \in Sources
    BY <1>4 DEF Selected, Sources, Datasets
  <2>2. \A d \in Scope[ds] : Fresh(db[d])
    BY <1>1, <2>1 DEF Got, Datasets
  <2> QED BY <2>2 DEF Fresh, None
<1>5. ASSUME inv.maxmind
      PROVE  /\ mmdb # NoIp \/ ~(inv.key \/ inv.fallback)
             /\ inv.force /\ (inv.key \/ inv.fallback) => mmdb.pub >= began
  <2>1. Selected(inv, "maxmind") /\ "maxmind" \in Sources
    BY <1>5 DEF Selected, Sources
  <2>2. inv.key \/ inv.fallback => mmdb # NoIp /\ Fresh(mmdb.pub)
    BY <1>1, <2>1 DEF Got, Datasets
  <2> QED BY <2>2 DEF Fresh
<1>6. ASSUME inv.gnaf
      PROVE  /\ DOMAIN psv # {} \/ inv.gnafUrl = "unset"
             /\ inv.force /\ inv.gnafUrl = "good" =>
                  \A n \in Psvs[web["zip"].file] : psv[n] = web["zip"].file /\ psv[n] >= began
  <2>1. Selected(inv, "gnaf") /\ "gnaf" \in Sources
    BY <1>6 DEF Selected, Sources
  <2>2. /\ inv.gnafUrl # "unset" => inv.gnafUrl = "good" /\ DOMAIN psv # {}
        /\ inv.gnafUrl = "good" /\ inv.force =>
             \A n \in Psvs[web["zip"].file] : psv[n] = web["zip"].file /\ Fresh(web["zip"].file)
    BY <1>1, <2>1 DEF Got, Datasets
  <2> QED BY <2>2 DEF Fresh
<1>7. ExitTruthful
  BY <1>1, <1>3, <1>4, <1>5, <1>6 DEF ExitTruthful
<1>8. ForcedRunIsFresh
  BY <1>3, <1>4, <1>5, <1>6 DEF ForcedRunIsFresh
<1> QED BY <1>7, <1>8

\* --force refreshes PBFs, databases and the IP database after any history of
\* kills, consumed archives and stale ETags: no archive it goes on to decode is
\* missing, and a forced run that exits 0 leaves none of them older than what
\* upstream held when it started (wof.rs, maxmind.rs over http::fetch).  It
\* exits 0 from G-NAF only when it found no PSV file of the release and copied
\* each itself: over files that are there gnaf.rs refuses.
THEOREM ForceRefreshes == Spec => []RefreshWorks
<1>1. IInv => ForcedArchiveThere
  <2> SUFFICES ASSUME IInv PROVE ForcedArchiveThere
    OBVIOUS
  <2>1. began \in Nat
    BY RunAssumption DEF IInv, RunOK, Pubs
  <2>2. ASSUME inv.force, AtWof("stage") PROVE web[Head(todo)].file # None
    <3>1. web[Head(todo)].file >= began
      BY <2>2 DEF AtWof, IInv, WofOK
    <3>2. todo \in Seq(Scope[pc]) /\ todo # <<>> /\ pc \in Datasets
      BY <2>2 DEF AtWof, IInv, WofOK
    <3>3. Head(todo) \in Targets
      BY <3>2, TailCovers, TargetsApart
    <3>4. web[Head(todo)].file \in Int
      BY <3>3 DEF IInv, FilesOK, WebOK, WebType
    <3> QED BY <2>1, <3>1, <3>4 DEF None
  <2>3. ASSUME inv.force, AtIp("extract") PROVE web[Archive].file # None
    BY <2>3 DEF AtIp, IInv, IpOK, Fresh, None
  <2> QED BY <2>2, <2>3 DEF ForcedArchiveThere
<1>2. IInv => RefreshWorks
  BY <1>1, ExitHolds DEF RefreshWorks
<1> QED BY <1>2, IInvHolds, PTL

\* No run, killed or not, takes away or cuts short what the index build and the
\* server read: PBFs and databases only move to newer publications, the IP
\* database stays whole and a forced run installs none older than the month
\* before its start (an unforced one may go back when the current month cannot
\* be had), and a PSV file is touched by no run but the one that began it.
THEOREM LiveFilesStay == Spec => LiveFilesSurvive
<1> DEFINE Stays ==
        /\ \A u \in Pbfs : web'[u].file >= web[u].file
        /\ \A d \in Dbs : db'[d] >= db[d]
        /\ mmdb # NoIp => mmdb'.pub \in Nat
        /\ inv.force /\ mmdb' # mmdb => mmdb'.pub >= began
        /\ \A n \in DOMAIN psv :
              /\ n \in DOMAIN psv'
              /\ psv'[n] # psv[n] => psv[n] = Partial /\ n \in DOMAIN task
<1>1. IInv /\ [Next]_vars => [Stays]_vars
  <2> SUFFICES ASSUME IInv, [Next]_vars, vars' # vars PROVE Stays
    OBVIOUS
  <2>1. IInv' /\ Keeps
    BY NextIInv
  <2> QED BY <2>1 DEF Keeps, PsvKept, IInv, FilesOK, NoIp
<1> QED BY <1>1, IInvHolds, PTL DEF Spec, LiveFilesSurvive

-----------------------------------------------------------------------------
(* One kind of PBF. *)

\* No crontab asks for one of the two extracts that the check of the directory
\* does not know (run fetch_mixed shows what one of them does).
NoUncheckedPreset ==
    \A c \in Crontabs : \A i \in c : ParseRegion(i.region) \notin {"united-kingdom", "canada"}

\* The directory holds the planet or extracts; while tasks run, those that they
\* will put there.
MixOK ==
    /\ NoMixedPbf
    /\ pc = "region" /\ step = "tasks" =>
         IF ParseRegion(inv.region) = "planet" THEN PbfsPresent \subseteq {"planet"}
         ELSE "planet" \notin PbfsPresent

\* The check at the start of the source covers its tasks, since no other process
\* writes PBFs.
LEMMA MixKept == NoUncheckedPreset /\ IInv /\ MixOK /\ [Next]_vars => MixOK'
<1> SUFFICES ASSUME NoUncheckedPreset, IInv, MixOK, [Next]_vars PROVE MixOK'
  OBVIOUS
<1>1. ASSUME \A u \in Pbfs : web'[u].file = web[u].file PROVE PbfsPresent' = PbfsPresent
  BY <1>1 DEF PbfsPresent
<1>2. ASSUME PbfsPresent' = PbfsPresent, UNCHANGED <<inv, pc, step>> \/ step' # "tasks" \/ pc' # "region" PROVE MixOK'
  BY <1>2 DEF MixOK, NoMixedPbf
<1>3. IInv' /\ (Keeps \/ UNCHANGED vars)
  BY NextIInv
<1>4. CASE UNCHANGED vars
  BY <1>1, <1>2, <1>4 DEF vars, files, run
<1>5. CASE OsmStart
  <2>1. /\ ParseRegion(inv.region) # "unknown" /\ ~Mismatch(ParseRegion(inv.region))
        /\ UNCHANGED <<inv, pc, web>> /\ pc = "region"
    BY <1>5 DEF OsmStart, files
  <2>2. ParseRegion(inv.region) \notin {"united-kingdom", "canada"}
    BY DEF NoUncheckedPreset, IInv, RunOK
  <2>3. ParseRegion(inv.region) \in Regions
    BY <2>1, RegionPbfs
  <2>4. PbfsPresent' = PbfsPresent
    BY <1>1, <2>1
  <2>5. ParseRegion(inv.region) = "planet" => PbfsPresent \subseteq {"planet"}
    BY <2>1 DEF Mismatch
  <2>6. ParseRegion(inv.region) # "planet" => "planet" \notin PbfsPresent
    BY <2>1, <2>2, <2>3 DEF Mismatch, Regions, SubRegions
  <2> QED BY <2>1, <2>4, <2>5, <2>6 DEF MixOK, NoMixedPbf
<1>6. ASSUME NEW u \in DOMAIN task, OsmFetch(u) PROVE MixOK'
  <2>1. /\ pc = "region" /\ step = "tasks" /\ UNCHANGED <<inv, pc, step>>
        /\ \E f : web' = [web EXCEPT ![u] = f]
    BY <1>6 DEF OsmFetch
  <2>2. ParseRegion(inv.region) # "unknown" /\ u \in Urls(ParseRegion(inv.region))
    BY <2>1 DEF IInv, OsmOK
  <2>3. PbfsPresent' \subseteq PbfsPresent \cup {u}
    BY <2>1 DEF PbfsPresent, IInv, FilesOK, WebOK
  <2>4. CASE ParseRegion(inv.region) = "planet"
    BY <2>1, <2>2, <2>3, <2>4, RegionPbfs DEF MixOK, NoMixedPbf
  <2>5. CASE ParseRegion(inv.region) # "planet"
    BY <2>1, <2>2, <2>3, <2>5, RegionPbfs DEF MixOK, NoMixedPbf
  <2> QED BY <2>4, <2>5
<1>7. CASE Publish \/ Kill \/ (\E i \in crontab : StartRun(i)) \/ NoDirectory \/ Openaddresses \/ Exit
  <2>1. UNCHANGED web
    BY <1>7 DEF Publish, Kill, DecoderOutlives, StartRun, NoDirectory, Openaddresses, Exit, files
  <2>2. UNCHANGED <<inv, pc, step>> \/ step' # "tasks"
    BY <1>7 DEF Publish, Kill, StartRun, NoDirectory, Openaddresses, Exit, run, Stop, Done
  <2> QED BY <1>1, <1>2, <2>1, <2>2
<1>8. CASE OsmRefuse \/ OsmEnd \/ (\E u \in DOMAIN task : OsmState(u) \/ OsmWritten(u))
  <2>1. UNCHANGED web
    BY <1>8 DEF OsmRefuse, OsmEnd, OsmState, OsmWritten, files
  <2>2. UNCHANGED <<inv, pc, step>> \/ step' # "tasks"
    BY <1>8 DEF OsmRefuse, OsmEnd, OsmState, OsmWritten, Stop, Done
  <2> QED BY <1>1, <1>2, <2>1, <2>2
<1>9. CASE WofStep \/ IpStep \/ GnafStep
  <2>1. pc # "region" /\ step' # "tasks"
    <3>1. CASE WofStep
      BY <3>1 DEF WofStep, WofStart, WofCached, WofFetch, WofStage, WofNoDecoder, WofDecode, WofDecoded,
         WofInstall, WofEnd, AtWof, Goto, WofReport, Done, Datasets
    <3>2. CASE IpStep
      BY <3>2 DEF IpStep, IpCached, IpStart, IpMonthCached, IpFetch, IpExtract, IpRename, IpClean, IpRecord,
         AtIp, Goto, Done
    <3>3. CASE GnafStep
      BY <3>3 DEF GnafStep, GnafCached, GnafFetch, GnafUnzip, GnafCopy, GnafCopied, GnafEnd, AtGnaf, Goto, Done
    <3> QED BY <1>9, <3>1, <3>2, <3>3
  <2>2. Keeps \/ UNCHANGED web
    BY <1>3 DEF vars, files
  <2>3. \A u \in Pbfs : web'[u].file = web[u].file
    BY <2>1, <2>2 DEF Keeps
  <2> QED BY <1>1, <1>2, <2>1, <2>3
<1> QED BY <1>4, <1>5, <1>6, <1>7, <1>8, <1>9 DEF Next, OsmStep

\* No sequence of runs and kills puts a planet file and an extract side by side,
\* where build-index would process every node twice, as long as every preset in
\* use is one that check_pbf_directory_consistency knows.
THEOREM PbfsNeverMixed == NoUncheckedPreset => (Spec => []NoMixedPbf)
<1> SUFFICES ASSUME NoUncheckedPreset PROVE Spec => []NoMixedPbf
  OBVIOUS
<1>1. Init => MixOK
  BY DEF Init, MixOK, NoMixedPbf, PbfsPresent, Targets
<1>2. IInv /\ MixOK /\ [Next]_vars => MixOK'
  BY MixKept
<1>3. MixOK => NoMixedPbf
  BY DEF MixOK
<1> QED BY <1>1, <1>2, <1>3, IInvHolds, PTL DEF Spec

-----------------------------------------------------------------------------
(* The sidecar of a PBF reads back. *)

\* Every place up to the number of marked lines is that of one marked line.
LEMMA RankOnto ==
    ASSUME NEW N \in Nat, NEW C \in SUBSET (1..N)
    PROVE  /\ IsFiniteSet(C) /\ Cardinality(C) \in Nat
           /\ \A k \in 1..Cardinality(C) : \E i \in C : Cardinality({j \in C : j <= i}) = k
<1> DEFINE Upto(i) == {j \in C : j <= i}
           n == Cardinality(C)
           f == [i \in C |-> Cardinality(Upto(i))]
<1>1. 1 \in Int /\ N \in Int
  OBVIOUS
<1>2. IsFiniteSet(1..N)
  BY <1>1, FS_Interval
<1>3. IsFiniteSet(C) /\ n \in Nat
  BY <1>2, FS_Subset, FS_CardinalityType
<1>4. ASSUME NEW i \in C
      PROVE  /\ Upto(i) \in SUBSET C /\ IsFiniteSet(Upto(i)) /\ Cardinality(Upto(i)) \in Nat
             /\ Cardinality(Upto(i)) <= n /\ Cardinality(Upto(i)) # 0
  <2>1. Upto(i) \in SUBSET C /\ i \in Upto(i)
    OBVIOUS
  <2> HIDE DEF Upto, n
  <2>2. IsFiniteSet(Upto(i)) /\ Cardinality(Upto(i)) <= n
    BY <1>3, <2>1, FS_Subset DEF n
  <2>3. Cardinality(Upto(i)) \in Nat
    BY <2>2, FS_CardinalityType
  <2>4. Cardinality(Upto(i)) # 0
    BY <2>1, <2>2, FS_EmptySet
  <2> QED BY <2>1, <2>2, <2>3, <2>4
<1>5. ASSUME NEW i \in C, NEW j \in C, i < j PROVE Cardinality(Upto(i)) # Cardinality(Upto(j))
  <2>1. Upto(i) \in SUBSET Upto(j) /\ j \in Upto(j) /\ j \notin Upto(i)
    <3>1. i \in Int /\ j \in Int /\ \A c \in C : c \in Int
      OBVIOUS
    <3>2. \A c \in C : c <= i => c <= j
      BY <1>5, <3>1
    <3>3. j <= j /\ ~(j <= i)
      BY <1>5, <3>1
    <3> QED BY <3>2, <3>3
  <2>2. IsFiniteSet(Upto(j))
    BY <1>4
  <2> HIDE DEF Upto
  <2>3. Cardinality(Upto(j)) = Cardinality(Upto(i)) => Upto(j) = Upto(i)
    BY <2>1, <2>2, FS_Subset
  <2> QED BY <2>1, <2>3
<1>6. f \in [C -> 1..n]
  <2> HIDE DEF Upto, n
  <2> QED BY <1>3, <1>4
<1>7. f \in Injection(C, 1..n)
  <2>1. ASSUME NEW i \in C, NEW j \in C, f[i] = f[j] PROVE i = j
    <3>1. f[i] = Cardinality(Upto(i)) /\ f[j] = Cardinality(Upto(j))
      OBVIOUS
    <3> HIDE DEF f, Upto
    <3>2. ~(i < j) /\ ~(j < i)
      BY <1>5, <2>1, <3>1
    <3> QED BY <3>2
  <2> HIDE DEF f, n
  <2>2. DOMAIN f = C
    BY <1>6
  <2> QED BY <1>6, <2>1, <2>2 DEF Injection, IsInjective
<1>8. IsFiniteSet(1..n) /\ Cardinality(1..n) = n
  <2> HIDE DEF n
  <2>1. n \in Int
    BY <1>3
  <2>2. IsFiniteSet(1..n) /\ Cardinality(1..n) = IF 1 > n THEN 0 ELSE n - 1 + 1
    BY <1>1, <2>1, FS_Interval
  <2> QED BY <1>3, <2>2
<1>9. f \in Surjection(C, 1..n)
  <2> HIDE DEF f
  <2> QED BY <1>7, <1>8, FS_Injection DEF n
<1>10. \A k \in 1..n : \E i \in C : f[i] = k
  BY <1>9 DEF Surjection
<1> QED BY <1>3, <1>10

\* A set of line numbers that is not empty has a last one.
LEMMA LastExists ==
    ASSUME NEW N \in Nat, NEW C \in SUBSET (1..N), C # {}
    PROVE  \E i \in C : \A j \in C : j <= i
<1> DEFINE n == Cardinality(C)
<1>1. PICK c \in C : TRUE
  OBVIOUS
<1>2. /\ IsFiniteSet(C) /\ n \in Nat
      /\ \A k \in 1..n : \E i \in C : Cardinality({j \in C : j <= i}) = k
  BY RankOnto
<1>3. n # 0
  BY <1>2, FS_EmptySet
<1>4. n \in 1..n
  <2> HIDE DEF n
  <2> QED BY <1>2, <1>3
<1>5. PICK i \in C : Cardinality({j \in C : j <= i}) = n
  BY <1>2, <1>4
<1>6. {j \in C : j <= i} = C
  BY <1>2, <1>5, FS_Subset
<1> QED BY <1>6

\* The last value of a field that a parsed body has is one that parses.
LEMMA LastValueGood ==
    ASSUME NEW body \in StateBodies, StateParses(body), NEW key \in {"timestamp", "sequenceNumber"}
    PROVE  LastValue(body, key) # "bad"
<1> DEFINE C == Having(body, key)
           last == CHOOSE i \in C : \A j \in C : j <= i
<1>1. body \in Seq([key : STRING, val : STRING])
  BY RunAssumption
<1>2. Len(body) \in Nat /\ DOMAIN body = 1..Len(body)
  BY <1>1
<1>3. C \in SUBSET (1..Len(body)) /\ C # {}
  BY <1>2 DEF Having, StateParses
<1> HIDE DEF C
<1>4. \E i \in C : \A j \in C : j <= i
  BY <1>2, <1>3, LastExists
<1>5. last \in C
  BY <1>4
<1>6. LastValue(body, key) = body[last].val
  BY DEF LastValue, C
<1> HIDE DEF last
<1>7. last \in DOMAIN body /\ body[last].val # "bad"
  BY <1>2, <1>3, <1>5 DEF StateParses, C
<1> QED BY <1>6, <1>7

\* The comments of a body are lines of it, and comments.
LEMMA CommentsAre ==
    ASSUME NEW body \in StateBodies
    PROVE  /\ Comments(body) \in Seq([key : STRING, val : STRING])
           /\ \A k \in DOMAIN Comments(body) : Comments(body)[k].key = "comment"
<1> DEFINE C == Having(body, "comment")
           n == Cardinality(C)
           at(k) == CHOOSE i \in C : Cardinality({j \in C : j <= i}) = k
<1>1. body \in Seq([key : STRING, val : STRING])
  BY RunAssumption
<1>2. Len(body) \in Nat /\ DOMAIN body = 1..Len(body)
  BY <1>1
<1>3. C \in SUBSET (1..Len(body)) /\ \A i \in C : body[i].key = "comment"
  BY <1>2 DEF Having
<1>4. Comments(body) = [k \in 1..n |-> body[at(k)]]
  BY DEF Comments
<1> HIDE DEF C
<1>5. n \in Nat /\ \A k \in 1..n : \E i \in C : Cardinality({j \in C : j <= i}) = k
  BY <1>2, <1>3, RankOnto
<1>6. ASSUME NEW k \in 1..n PROVE at(k) \in C
  <2>1. \E i \in C : Cardinality({j \in C : j <= i}) = k
    BY <1>5
  <2> QED BY <2>1
<1> HIDE DEF at, n
<1>7. ASSUME NEW k \in 1..n PROVE body[at(k)] \in [key : STRING, val : STRING] /\ body[at(k)].key = "comment"
  <2>1. at(k) \in C /\ at(k) \in DOMAIN body
    BY <1>2, <1>3, <1>6
  <2> QED BY <1>1, <1>2, <1>3, <2>1, ElementOfSeq
<1>8. Comments(body) \in Seq([key : STRING, val : STRING]) /\ DOMAIN Comments(body) = 1..n
  BY <1>4, <1>5, <1>7
<1> QED BY <1>4, <1>7, <1>8

\* "The bytes are stable across read/write cycles": what is written from a body
\* that parses can be read back, and writing that gives the same lines.
LEMMA WireRoundTrips ==
    ASSUME NEW body \in StateBodies, StateParses(body),
           NEW w, w = ToStringWire(ParseState(body))
    PROVE  StateParses(w) /\ ToStringWire(ParseState(w)) = w
<1> DEFINE c == Comments(body)
           t == [key |-> "timestamp", val |-> LastValue(body, "timestamp")]
           q == [key |-> "sequenceNumber", val |-> LastValue(body, "sequenceNumber")]
           Rec == [key : STRING, val : STRING] \cup {t, q}
           m == Len(c)
<1>1. w = c \o <<t, q>>
  BY DEF ToStringWire, ParseState
<1>2. c \in Seq(Rec) /\ \A k \in DOMAIN c : c[k].key = "comment"
  <2>1. c \in Seq([key : STRING, val : STRING]) /\ \A k \in DOMAIN c : c[k].key = "comment"
    BY CommentsAre
  <2>2. [key : STRING, val : STRING] \subseteq Rec
    OBVIOUS
  <2> HIDE DEF c, t, q, Rec
  <2>3. Len(c) \in Nat /\ DOMAIN c = 1..Len(c) /\ c = [k \in 1..Len(c) |-> c[k]]
    BY <2>1
  <2>4. \A k \in 1..Len(c) : c[k] \in Rec
    BY <2>1, <2>2, ElementOfSeq
  <2>5. c \in Seq(Rec)
    BY <2>3, <2>4
  <2> QED BY <2>1, <2>5
<1>3. LastValue(body, "timestamp") # "bad" /\ LastValue(body, "sequenceNumber") # "bad"
  BY LastValueGood
<1>4. t \in Rec /\ q \in Rec /\ t.key = "timestamp" /\ q.key = "sequenceNumber"
      /\ t.val # "bad" /\ q.val # "bad"
      /\ t.val = LastValue(body, "timestamp") /\ q.val = LastValue(body, "sequenceNumber")
  <2>1. /\ t.key = "timestamp" /\ t.val = LastValue(body, "timestamp")
        /\ q.key = "sequenceNumber" /\ q.val = LastValue(body, "sequenceNumber")
    OBVIOUS
  <2>2. t \in Rec
    OBVIOUS
  <2>3. q \in Rec
    OBVIOUS
  <2> HIDE DEF t, q, Rec
  <2> QED BY <1>3, <2>1, <2>2, <2>3
<1>5. m \in Nat /\ DOMAIN c = 1..m /\ c = [k \in 1..m |-> c[k]]
  BY <1>2
<1>6. t = [key |-> "timestamp", val |-> t.val] /\ q = [key |-> "sequenceNumber", val |-> q.val]
  BY <1>4
<1> HIDE DEF c, t, q, Rec
<1>7. /\ Len(w) = m + 2 /\ DOMAIN w = 1..(m + 2)
      /\ \A k \in 1..m : w[k] = c[k]
      /\ w[m + 1] = t /\ w[m + 2] = q
  BY <1>1, <1>2, <1>4, <1>5
<1> HIDE DEF m
<1>8. \A k \in 1..(m + 2) : k \in 1..m \/ k = m + 1 \/ k = m + 2
  BY <1>5
<1>9. \A k \in 1..m : w[k].key = "comment"
  BY <1>2, <1>5, <1>7
<1>10. w[m + 1].key = "timestamp" /\ w[m + 2].key = "sequenceNumber"
  BY <1>4, <1>7
<1>11. m + 1 \in 1..(m + 2) /\ m + 2 \in 1..(m + 2) /\ \A k \in 1..m : k \in 1..(m + 2)
  BY <1>5
<1>12. /\ Having(w, "garbage") = {} /\ Having(w, "comment") = 1..m
       /\ Having(w, "timestamp") = {m + 1} /\ Having(w, "sequenceNumber") = {m + 2}
  BY <1>7, <1>8, <1>9, <1>10, <1>11 DEF Having
<1>13. StateParses(w)
  BY <1>4, <1>7, <1>12 DEF StateParses
<1>14. LastValue(w, "timestamp") = t.val
  <2>1. (CHOOSE i \in {m + 1} : \A j \in {m + 1} : j <= i) = m + 1
    BY <1>5
  <2> QED BY <1>7, <1>12, <2>1 DEF LastValue
<1>15. LastValue(w, "sequenceNumber") = q.val
  <2>1. (CHOOSE i \in {m + 2} : \A j \in {m + 2} : j <= i) = m + 2
    BY <1>5
  <2> QED BY <1>7, <1>12, <2>1 DEF LastValue
<1>16. Comments(w) = c
  <2>1. Cardinality(1..m) = m
    <3>1. 1 \in Int /\ m \in Int
      BY <1>5
    <3>2. Cardinality(1..m) = IF 1 > m THEN 0 ELSE m - 1 + 1
      BY <3>1, FS_Interval
    <3> QED BY <1>5, <3>2
  <2>2. ASSUME NEW i \in 1..m PROVE Cardinality({j \in 1..m : j <= i}) = i
    <3>1. {j \in 1..m : j <= i} = 1..i
      BY <1>5
    <3>2. 1 \in Int /\ i \in Int /\ ~(1 > i) /\ i - 1 + 1 = i
      BY <1>5
    <3>3. Cardinality(1..i) = IF 1 > i THEN 0 ELSE i - 1 + 1
      BY <3>2, FS_Interval
    <3> QED BY <3>1, <3>2, <3>3
  <2>3. ASSUME NEW k \in 1..m
        PROVE  (CHOOSE i \in 1..m : Cardinality({j \in 1..m : j <= i}) = k) = k
    BY <2>2
  <2>4. Comments(w) = [k \in 1..m |-> w[CHOOSE i \in 1..m : Cardinality({j \in 1..m : j <= i}) = k]]
    <3> DEFINE F(L) == [k \in 1..Cardinality(L) |->
                          w[CHOOSE i \in L : Cardinality({j \in L : j <= i}) = k]]
    <3>1. Comments(w) = F(Having(w, "comment"))
      BY DEF Comments
    <3>2. F(1..m) = [k \in 1..m |-> w[CHOOSE i \in 1..m : Cardinality({j \in 1..m : j <= i}) = k]]
      BY <2>1
    <3> HIDE DEF F
    <3> QED BY <1>12, <3>1, <3>2
  <2>5. Comments(w) = [k \in 1..m |-> w[k]]
    BY <2>3, <2>4
  <2> QED BY <1>5, <1>7, <2>5
<1>17. ToStringWire(ParseState(w)) = c \o <<t, q>>
  BY <1>6, <1>14, <1>15, <1>16 DEF ToStringWire, ParseState
<1> QED BY <1>1, <1>13, <1>17

\* What a run leaves for others to read, for any crontab and any history of
\* kills: the state is well typed, exit status 0 forgets no failure and no PBF
\* or database that was asked for, though of G-NAF only that a PSV file is there
\* (fetch_data.rs, had_failure), and a state.txt sidecar that was written to its
\* end reads back to the lines that were written (state.rs).
THEOREM ReportsHold == Spec => []ReportsTruthful
<1>1. IInv => StateRoundTrips
  <2> SUFFICES ASSUME IInv, NEW u \in Pbfs, state[u] \notin {<<>>, Cut}
               PROVE  StateParses(state[u]) /\ ToStringWire(ParseState(state[u])) = state[u]
    BY DEF StateRoundTrips
  <2>1. PICK body \in StateBodies : StateParses(body) /\ state[u] = ToStringWire(ParseState(body))
    BY DEF IInv, FilesOK, StateOK
  <2> QED BY <2>1, WireRoundTrips
<1>2. IInv => ReportsTruthful
  BY <1>1, TypesHold, ExitHolds DEF ReportsTruthful
<1> QED BY <1>2, IInvHolds, PTL
=============================================================================
