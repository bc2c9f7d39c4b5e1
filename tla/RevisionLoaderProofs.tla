------------------------ MODULE RevisionLoaderProofs ------------------------
(***************************************************************************)
(* The version an execution uses stays loaded, for any number of requests  *)
(* and loads.  Everything is done by key, so the argument is that the key  *)
(* never names another version than the one that is meant: a load begins   *)
(* only when no version is registered and no other load is under way, and  *)
(* a version leaves the registry once, drained and without executions.     *)
(***************************************************************************)
EXTENDS RevisionLoader, ArtifactCache, FiniteSetTheorems, TLAPS

Fresh == [state |-> "READY", inflight |-> 0]

\* Loads and the registry: a version is registered when its load has ended, and
\* one that is loaded and registered no more was drained.
LoadsInOrder ==
    \A l \in Loads :
        /\ load[l] \in UnderWay <=> loadTask = l
        /\ loadTask = l => versions = NoLoad
        /\ versions = l => load[l] = "loaded"
        /\ load[l] # "loaded" => version[l] = Fresh
        /\ load[l] = "loaded" /\ versions # l => version[l].state = "DRAINING"

\* Requests wait for a load that exists and execute what is registered.
RequestsInOrder ==
    \A r \in Requests :
        /\ request[r].pc = "waiting" => request[r].load \in Loads /\ load[request[r].load] # "none"
        /\ request[r].pc = "running" => request[r].load \in Loads /\ versions = request[r].load

\* The files a worker keeps are removed by a load only.
KeptFiles ==
    /\ retain => removals = 0
    /\ \A l \in Loads : retain /\ load[l] = "register" => files
    /\ RetainedFilesStay

IInv ==
    /\ TypeOK
    /\ LoadsInOrder
    /\ RequestsInOrder
    /\ InflightIsExact
    /\ DrainedIsUnloaded
    /\ ModulesBelong
    /\ KeptFiles

-----------------------------------------------------------------------------
(* Counting *)

LEMMA RunningFinite ==
  ASSUME NEW l
  PROVE  IsFiniteSet(Running(l)) /\ Cardinality(Running(l)) \in Nat
<1>1. Running(l) \in SUBSET Requests
  BY DEF Running
<1> QED
  BY <1>1, RevisionLoaderAssumption, FS_Subset, FS_CardinalityType

LEMMA NoLoadIsNone == NoLoad \notin Loads /\ Bare \notin Loads
  BY DEF NoLoad, Bare, Loads

\* A request begins to execute version k.
LEMMA StartCounts ==
  ASSUME TypeOK, InflightIsExact, NEW r \in Requests, NEW k \in Loads,
         request[r].pc # "running",
         request' = [request EXCEPT ![r] = [pc |-> "running", load |-> k]],
         version' = [version EXCEPT ![k].inflight = @ + 1]
  PROVE  InflightIsExact'
<1> SUFFICES ASSUME NEW l \in Loads
             PROVE  version'[l].inflight = Cardinality((Running(l))')
  BY DEF InflightIsExact
<1>1. version[l].inflight = Cardinality(Running(l)) /\ version[l].inflight \in Nat
  BY DEF InflightIsExact, TypeOK
<1>2. CASE l = k
  <2>1. (Running(l))' = Running(l) \cup {r} /\ r \notin Running(l)
    BY <1>2 DEF Running, TypeOK
  <2>2. Cardinality(Running(l) \cup {r}) = Cardinality(Running(l)) + 1
    BY <2>1, RunningFinite, FS_AddElement
  <2>3. version'[l].inflight = version[l].inflight + 1
    BY <1>2 DEF TypeOK
  <2> QED
    BY <1>1, <2>1, <2>2, <2>3
<1>3. CASE l # k
  <2>1. (Running(l))' = Running(l)
    BY <1>3 DEF Running, TypeOK
  <2> QED
    BY <1>1, <1>3, <2>1 DEF TypeOK
<1> QED
  BY <1>2, <1>3

\* A request ends its execution.
LEMMA ReleaseCounts ==
  ASSUME TypeOK, InflightIsExact, NEW r \in Requests, NEW k \in Loads,
         request[r] = [pc |-> "running", load |-> k],
         request' = [request EXCEPT ![r] = [pc |-> "ended", load |-> NoLoad]],
         version' = [version EXCEPT ![k].inflight = @ - 1]
  PROVE  InflightIsExact' /\ version[k].inflight \in Nat \ {0}
<1>1. ASSUME NEW l \in Loads
      PROVE  version[l].inflight = Cardinality(Running(l)) /\ version[l].inflight \in Nat
  BY DEF InflightIsExact, TypeOK
<1>2. (Running(k))' = Running(k) \ {r} /\ r \in Running(k)
  BY DEF Running, TypeOK
<1>3. IsFiniteSet(Running(k)) /\ r \in Running(k)
  BY <1>2, RunningFinite
<1>4. /\ Cardinality(Running(k) \ {r}) = Cardinality(Running(k)) - 1
      /\ IsFiniteSet(Running(k) \ {r})
  BY <1>3, FS_RemoveElement, Zenon
<1>5. Cardinality(Running(k) \ {r}) \in Nat
  BY <1>4, FS_CardinalityType
<1>6. version[k].inflight \in Nat \ {0}
  BY <1>1, <1>4, <1>5
<1>7. ASSUME NEW l \in Loads PROVE version'[l].inflight = Cardinality((Running(l))')
  <2>1. CASE l = k
    <3>1. version'[l].inflight = version[l].inflight - 1
      BY <2>1 DEF TypeOK
    <3> QED
      BY <1>1, <1>2, <1>4, <2>1, <3>1
  <2>2. CASE l # k
    <3>1. (Running(l))' = Running(l)
      BY <2>2 DEF Running, TypeOK
    <3> QED
      BY <1>1, <2>2, <3>1 DEF TypeOK
  <2> QED
    BY <2>1, <2>2
<1> QED
  BY <1>6, <1>7 DEF InflightIsExact

\* A step that neither starts nor ends an execution.
LEMMA NothingCounts ==
  ASSUME InflightIsExact,
         \A l \in Loads : version'[l].inflight = version[l].inflight,
         \A l \in Loads, r \in Requests :
            request'[r] = [pc |-> "running", load |-> l] <=> request[r] = [pc |-> "running", load |-> l]
  PROVE  InflightIsExact'
<1>1. \A l \in Loads : (Running(l))' = Running(l)
  BY DEF Running
<1> QED
  BY <1>1 DEF InflightIsExact

\* Nobody executes a version whose counter is zero.
LEMMA ZeroIsEmpty ==
  ASSUME InflightIsExact, NEW l \in Loads, version[l].inflight = 0
  PROVE  Running(l) = {}
  BY RunningFinite, FS_EmptySet DEF InflightIsExact

-----------------------------------------------------------------------------
(* The invariant *)

LEMMA InitIInv == Init => IInv
<1> SUFFICES ASSUME Init PROVE IInv
  OBVIOUS
<1> USE NoLoadIsNone DEF Init
<1>1. TypeOK
  BY DEF TypeOK
<1>2. LoadsInOrder /\ RequestsInOrder /\ DrainedIsUnloaded /\ ModulesBelong /\ KeptFiles
  BY DEF LoadsInOrder, RequestsInOrder, DrainedIsUnloaded, ModulesBelong, KeptFiles,
         RetainedFilesStay, UnderWay, InThread, Fresh
<1>3. \A l \in Loads : Running(l) = {}
  BY DEF Running
<1>4. InflightIsExact
  BY <1>3, FS_EmptySet DEF InflightIsExact
<1> QED
  BY <1>1, <1>2, <1>4 DEF IInv

\* The request was given a version, in the registry or by the load it waited for.
LEMMA StartKeeps ==
  ASSUME IInv, NEW r \in Requests, NEW k \in Loads, load[k] = "loaded",
         request[r].pc \in {"idle", "waiting"}, Start(r, k),
         UNCHANGED <<retain, versions, loadTask, load, modules, files, removals>>
  PROVE  IInv'
<1> USE NoLoadIsNone DEF IInv
<1>1. CASE version[k].state = "READY"
  <2>1. /\ request' = [request EXCEPT ![r] = [pc |-> "running", load |-> k]]
        /\ version' = [version EXCEPT ![k].inflight = @ + 1]
    BY <1>1 DEF Start
  <2>2. TypeOK'
    BY <2>1 DEF TypeOK
  <2>3. InflightIsExact'
    BY <2>1, StartCounts
  <2>4. versions = k
    BY <1>1 DEF LoadsInOrder
  <2>5. LoadsInOrder'
    BY <2>1, <2>4 DEF LoadsInOrder, TypeOK
  <2>6. RequestsInOrder'
    BY <2>1, <2>4 DEF RequestsInOrder, TypeOK
  <2>7. DrainedIsUnloaded'
    BY <1>1, <2>1 DEF DrainedIsUnloaded, TypeOK
  <2> QED
    BY <2>2, <2>3, <2>5, <2>6, <2>7 DEF ModulesBelong, KeptFiles, RetainedFilesStay
<1>2. CASE version[k].state # "READY"
  <2>1. /\ request' = [request EXCEPT ![r] = [pc |-> "ended", load |-> NoLoad]]
        /\ UNCHANGED version
    BY <1>2 DEF Start
  <2>2. TypeOK'
    BY <2>1 DEF TypeOK
  <2>3. InflightIsExact'
    BY <2>1, NothingCounts DEF TypeOK
  <2>4. RequestsInOrder'
    BY <2>1 DEF RequestsInOrder, TypeOK
  <2> QED
    BY <2>1, <2>2, <2>3, <2>4
    DEF LoadsInOrder, DrainedIsUnloaded, ModulesBelong, KeptFiles, RetainedFilesStay
<1> QED
  BY <1>1, <1>2

\* A request that does not execute waits, or ends.
LEMMA WaitKeeps ==
  ASSUME IInv, NEW r \in Requests, request[r].pc \in {"idle", "waiting"},
         NEW k \in Loads \cup {NoLoad}, NEW pc \in {"waiting", "ended"},
         pc = "waiting" => k \in Loads /\ load[k] # "none",
         request' = [request EXCEPT ![r] = [pc |-> pc, load |-> k]],
         UNCHANGED <<retain, versions, loadTask, load, version, modules, files, removals>>
  PROVE  IInv'
<1> USE DEF IInv
<1>1. TypeOK'
  BY DEF TypeOK
<1>2. InflightIsExact'
  BY NothingCounts DEF TypeOK
<1>3. RequestsInOrder'
  BY DEF RequestsInOrder, TypeOK
<1> QED
  BY <1>1, <1>2, <1>3
  DEF LoadsInOrder, DrainedIsUnloaded, ModulesBelong, KeptFiles, RetainedFilesStay

\* The first request for a revision that is not loaded begins a load.
LEMMA BeginLoadKeeps ==
  ASSUME IInv, NEW r \in Requests, BeginLoad(r)
  PROVE  IInv'
<1> USE NoLoadIsNone DEF IInv
<1>1. PICK k \in Loads : /\ load[k] = "none" /\ loadTask' = k
                         /\ load' = [load EXCEPT ![k] = "prepare"]
                         /\ request' = [request EXCEPT ![r] = [pc |-> "waiting", load |-> k]]
  BY DEF BeginLoad
<1>2. /\ request[r].pc = "idle" /\ versions = NoLoad /\ loadTask = NoLoad
      /\ UNCHANGED <<retain, versions, version, modules, files, removals>>
  BY DEF BeginLoad
<1>3. TypeOK'
  BY <1>1, <1>2 DEF TypeOK, UnderWay, InThread
<1>4. InflightIsExact'
  BY <1>1, <1>2, NothingCounts DEF TypeOK
<1>5. LoadsInOrder'
  BY <1>1, <1>2 DEF LoadsInOrder, TypeOK, UnderWay, InThread
<1>6. RequestsInOrder'
  BY <1>1, <1>2 DEF RequestsInOrder, TypeOK
<1>7. DrainedIsUnloaded' /\ ModulesBelong' /\ KeptFiles'
  BY <1>1, <1>2 DEF DrainedIsUnloaded, ModulesBelong, KeptFiles, RetainedFilesStay, TypeOK
<1> QED
  BY <1>3, <1>4, <1>5, <1>6, <1>7

\* The last execution of a draining version unloads it.
LEMMA ReleaseKeeps ==
  ASSUME IInv, NEW r \in Requests, Release(r)
  PROVE  IInv'
<1> USE NoLoadIsNone DEF IInv
<1>1. PICK k \in Loads : request[r] = [pc |-> "running", load |-> k] /\ versions = k
  <2>1. request[r].pc = "running"
    BY DEF Release
  <2>2. request[r].load \in Loads /\ versions = request[r].load
    BY <2>1 DEF RequestsInOrder
  <2>3. request[r] = [pc |-> "running", load |-> request[r].load]
    BY <2>1 DEF TypeOK
  <2> QED
    BY <2>2, <2>3
<1>2. /\ request' = [request EXCEPT ![r] = [pc |-> "ended", load |-> NoLoad]]
      /\ version' = [version EXCEPT ![k].inflight = @ - 1]
      /\ UNCHANGED <<retain, loadTask, load, files>>
      /\ IF version[k].state = "DRAINING" /\ version[k].inflight = 1
         THEN Unload ELSE UNCHANGED <<versions, modules, removals>>
  BY <1>1 DEF Release
<1>3. InflightIsExact' /\ version[k].inflight \in Nat \ {0}
  BY <1>1, <1>2, ReleaseCounts
<1>4. /\ version'[k].state = version[k].state /\ version'[k].inflight = version[k].inflight - 1
      /\ \A l \in Loads \ {k} : version'[l] = version[l]
      /\ version' \in [Loads -> [state : {"READY", "DRAINING"}, inflight : Nat]]
  <2>1. version[k].inflight - 1 \in Nat
    BY <1>3
  <2>2. version[k] \in [state : {"READY", "DRAINING"}, inflight : Nat]
    BY DEF TypeOK
  <2>3. [version[k] EXCEPT !.inflight = @ - 1] \in [state : {"READY", "DRAINING"}, inflight : Nat]
    BY <2>1, <2>2
  <2>4. version' = [version EXCEPT ![k] = [version[k] EXCEPT !.inflight = @ - 1]]
    BY <1>2 DEF TypeOK
  <2>5. version' \in [Loads -> [state : {"READY", "DRAINING"}, inflight : Nat]]
    BY <2>3, <2>4 DEF TypeOK
  <2> QED
    BY <2>2, <2>4, <2>5 DEF TypeOK
<1>5. load[k] = "loaded"
  BY <1>1 DEF LoadsInOrder
<1>6. CASE version[k].state = "DRAINING" /\ version[k].inflight = 1
  <2>1. versions' = NoLoad /\ modules' = NoLoad
        /\ removals' = IF retain THEN removals ELSE removals + 1
    BY <1>2, <1>6 DEF Unload
  <2>2. TypeOK'
    BY <1>2, <1>4, <2>1 DEF TypeOK
  <2>3. LoadsInOrder'
    BY <1>1, <1>2, <1>4, <1>5, <1>6, <2>1 DEF LoadsInOrder
  <2>4. Running(k) = {r}
    <3>1. Cardinality(Running(k)) = 1 /\ IsFiniteSet(Running(k)) /\ r \in Running(k)
      BY <1>1, <1>6, RunningFinite DEF InflightIsExact, Running
    <3>2. PICK x : Running(k) = {x}
      BY <3>1, FS_Singleton
    <3> QED
      BY <3>1, <3>2
  <2>5. RequestsInOrder'
    <3>1. \A q \in Requests \ {r} : request[q].pc # "running"
      <4> SUFFICES ASSUME NEW q \in Requests \ {r}, request[q].pc = "running" PROVE FALSE
        OBVIOUS
      <4>1. request[q].load = k
        BY <1>1 DEF RequestsInOrder
      <4>2. request[q] = [pc |-> "running", load |-> k]
        BY <4>1 DEF TypeOK
      <4> QED
        BY <2>4, <4>2 DEF Running
    <3> QED
      BY <1>2, <3>1 DEF RequestsInOrder, TypeOK
  <2>6. DrainedIsUnloaded' /\ ModulesBelong' /\ KeptFiles'
    BY <1>1, <1>2, <1>5, <2>1
    DEF DrainedIsUnloaded, ModulesBelong, KeptFiles, RetainedFilesStay, LoadsInOrder, UnderWay
  <2> QED
    BY <1>3, <2>2, <2>3, <2>5, <2>6
<1>7. CASE ~(version[k].state = "DRAINING" /\ version[k].inflight = 1)
  <2>1. UNCHANGED <<versions, modules, removals>>
    BY <1>2, <1>7
  <2>2. TypeOK'
    BY <1>2, <1>4, <2>1 DEF TypeOK
  <2>3. LoadsInOrder'
    BY <1>2, <1>4, <1>5, <2>1 DEF LoadsInOrder
  <2>4. RequestsInOrder'
    BY <1>2, <2>1 DEF RequestsInOrder, TypeOK
  <2>5. DrainedIsUnloaded'
    BY <1>3, <1>4, <1>7, <2>1 DEF DrainedIsUnloaded
  <2>6. ModulesBelong' /\ KeptFiles'
    BY <1>2, <2>1 DEF ModulesBelong, KeptFiles, RetainedFilesStay
  <2> QED
    BY <1>3, <2>2, <2>3, <2>4, <2>5, <2>6
<1> QED
  BY <1>6, <1>7

\* drain marks the version, and unloads it if nobody executes it.
LEMMA DrainKeeps ==
  ASSUME IInv, Drain
  PROVE  IInv'
<1> USE NoLoadIsNone DEF IInv
<1>1. PICK k \in Loads : versions = k
  BY DEF Drain, TypeOK
<1>2. /\ version' = [version EXCEPT ![k].state = "DRAINING"]
      /\ IF version[k].inflight = 0 THEN Unload ELSE UNCHANGED <<versions, modules, removals>>
      /\ UNCHANGED <<retain, loadTask, load, files, request>>
  BY <1>1 DEF Drain
<1>3. load[k] = "loaded"
  BY <1>1 DEF LoadsInOrder
<1>4. /\ version' \in [Loads -> [state : {"READY", "DRAINING"}, inflight : Nat]]
      /\ version'[k].state = "DRAINING"
      /\ \A l \in Loads : version'[l].inflight = version[l].inflight
      /\ \A l \in Loads \ {k} : version'[l] = version[l]
  BY <1>2 DEF TypeOK
<1>5. InflightIsExact'
  BY <1>2, <1>4, NothingCounts
<1>6. CASE version[k].inflight = 0
  <2>1. versions' = NoLoad /\ modules' = NoLoad
        /\ removals' = IF retain THEN removals ELSE removals + 1
    BY <1>2, <1>6 DEF Unload
  <2>2. TypeOK'
    BY <1>2, <1>4, <2>1 DEF TypeOK
  <2>3. LoadsInOrder'
    BY <1>1, <1>2, <1>3, <1>4, <2>1 DEF LoadsInOrder
  <2>4. Running(k) = {}
    BY <1>6, ZeroIsEmpty
  <2>5. \A q \in Requests : request[q].pc # "running"
    <3> SUFFICES ASSUME NEW q \in Requests, request[q].pc = "running" PROVE FALSE
      OBVIOUS
    <3>1. request[q].load = k
      BY <1>1 DEF RequestsInOrder
    <3>2. request[q] = [pc |-> "running", load |-> k]
      BY <3>1 DEF TypeOK
    <3> QED
      BY <2>4, <3>2 DEF Running
  <2>6. RequestsInOrder'
    BY <1>2, <2>5 DEF RequestsInOrder
  <2>7. DrainedIsUnloaded' /\ ModulesBelong' /\ KeptFiles'
    BY <1>1, <1>2, <1>3, <2>1
    DEF DrainedIsUnloaded, ModulesBelong, KeptFiles, RetainedFilesStay, LoadsInOrder, UnderWay
  <2> QED
    BY <1>5, <2>2, <2>3, <2>6, <2>7
<1>7. CASE version[k].inflight # 0
  <2>1. UNCHANGED <<versions, modules, removals>>
    BY <1>2, <1>7
  <2>2. TypeOK'
    BY <1>2, <1>4, <2>1 DEF TypeOK
  <2>3. LoadsInOrder'
    BY <1>1, <1>2, <1>3, <1>4, <2>1 DEF LoadsInOrder
  <2>4. RequestsInOrder'
    BY <1>2, <2>1 DEF RequestsInOrder
  <2>5. DrainedIsUnloaded'
    BY <1>4, <1>7, <2>1 DEF DrainedIsUnloaded
  <2>6. ModulesBelong' /\ KeptFiles'
    BY <1>2, <2>1 DEF ModulesBelong, KeptFiles, RetainedFilesStay
  <2> QED
    BY <1>5, <2>2, <2>3, <2>4, <2>5, <2>6
<1> QED
  BY <1>6, <1>7

\* The files of an unloaded version are removed in a thread.
LEMMA RemoveFilesKeeps ==
  ASSUME IInv, RemoveFiles
  PROVE  IInv'
<1> USE DEF IInv
<1>1. /\ removals > 0 /\ removals' = removals - 1 /\ files' = FALSE /\ removals \in Nat
      /\ UNCHANGED <<retain, versions, loadTask, load, version, modules, request>>
  BY DEF RemoveFiles, TypeOK
<1>2. ~retain
  BY <1>1 DEF KeptFiles
<1>3. TypeOK'
  <2>1. removals' \in Nat
    BY <1>1
  <2> QED
    BY <1>1, <2>1 DEF TypeOK
<1>4. InflightIsExact'
  BY <1>1, NothingCounts
<1>5. LoadsInOrder' /\ RequestsInOrder' /\ DrainedIsUnloaded' /\ ModulesBelong'
  BY <1>1 DEF LoadsInOrder, RequestsInOrder, DrainedIsUnloaded, ModulesBelong
<1>6. KeptFiles'
  BY <1>1, <1>2 DEF KeptFiles, RetainedFilesStay, TypeOK
<1> QED
  BY <1>3, <1>4, <1>5, <1>6

\* The thread of a load goes on, and leaves the modules to it or to nobody.
LEMMA ThreadKeeps ==
  ASSUME IInv, NEW k \in Loads, NEW pc \in UnderWay,
         load[k] \in InThread, load' = [load EXCEPT ![k] = pc],
         files' \in BOOLEAN, pc = "register" => files' /\ modules' = k,
         pc # "register" => modules' \in {NoLoad, Bare},
         UNCHANGED <<retain, versions, loadTask, version, removals, request>>
  PROVE  IInv'
<1> USE NoLoadIsNone DEF IInv
<1>1. loadTask = k /\ versions = NoLoad
  BY DEF LoadsInOrder, UnderWay
<1>2. TypeOK'
  BY DEF TypeOK
<1>3. InflightIsExact'
  BY NothingCounts
<1>4. LoadsInOrder'
  BY <1>1 DEF LoadsInOrder, TypeOK, UnderWay, InThread
<1>5. RequestsInOrder'
  BY DEF RequestsInOrder, TypeOK, UnderWay, InThread
<1>6. DrainedIsUnloaded'
  BY DEF DrainedIsUnloaded
<1>7. \A l \in Loads \ {k} : load[l] \notin UnderWay
  BY <1>1 DEF LoadsInOrder
<1>8. ModulesBelong'
  BY <1>1, <1>7 DEF ModulesBelong, TypeOK, UnderWay
<1>9. KeptFiles'
  BY <1>1, <1>7 DEF KeptFiles, RetainedFilesStay, TypeOK, UnderWay
<1> QED
  BY <1>2, <1>3, <1>4, <1>5, <1>6, <1>8, <1>9

\* The task of a load ends: the version is registered, or there is none.
LEMMA EndLoadKeeps ==
  ASSUME IInv, NEW k \in Loads, EndLoad(k)
  PROVE  IInv'
<1> USE NoLoadIsNone DEF IInv
<1>1. load[k] \in UnderWay /\ loadTask = k /\ versions = NoLoad /\ version[k] = Fresh
      /\ \A l \in Loads \ {k} : load[l] \notin UnderWay
  BY DEF EndLoad, LoadsInOrder, UnderWay, InThread
<1>2. loadTask' = NoLoad /\ UNCHANGED <<retain, version, modules, files, removals, request>>
  BY <1>1 DEF EndLoad
<1>3. InflightIsExact'
  BY <1>2, NothingCounts
<1>4. CASE load[k] = "register" /\ versions' = k /\ load' = [load EXCEPT ![k] = "loaded"]
  <2>1. TypeOK'
    BY <1>2, <1>4 DEF TypeOK
  <2>2. LoadsInOrder'
    BY <1>1, <1>2, <1>4 DEF LoadsInOrder, TypeOK, UnderWay, InThread
  <2>3. RequestsInOrder'
    BY <1>1, <1>2, <1>4 DEF RequestsInOrder, TypeOK
  <2>4. DrainedIsUnloaded'
    BY <1>1, <1>2, <1>4 DEF DrainedIsUnloaded, Fresh
  <2>5. ModulesBelong'
    BY <1>1, <1>2, <1>4 DEF ModulesBelong, TypeOK, UnderWay
  <2>6. KeptFiles'
    BY <1>2, <1>4 DEF KeptFiles, RetainedFilesStay, TypeOK
  <2> QED
    BY <1>3, <2>1, <2>2, <2>3, <2>4, <2>5, <2>6
<1>5. CASE load[k] = "fail" /\ UNCHANGED versions /\ load' = [load EXCEPT ![k] = "failed"]
  <2>1. TypeOK'
    BY <1>2, <1>5 DEF TypeOK
  <2>2. LoadsInOrder'
    BY <1>1, <1>2, <1>5 DEF LoadsInOrder, TypeOK, UnderWay, InThread
  <2>3. RequestsInOrder'
    BY <1>2, <1>5 DEF RequestsInOrder, TypeOK
  <2>4. DrainedIsUnloaded' /\ ModulesBelong' /\ KeptFiles'
    BY <1>2, <1>5 DEF DrainedIsUnloaded, ModulesBelong, KeptFiles, RetainedFilesStay, TypeOK
  <2> QED
    BY <1>3, <2>1, <2>2, <2>3, <2>4
<1> QED
  BY <1>4, <1>5 DEF EndLoad

LEMMA NextIInv == IInv /\ [Next]_vars => IInv'
<1> SUFFICES ASSUME IInv, [Next]_vars PROVE IInv'
  OBVIOUS
<1> USE NoLoadIsNone
<1>1. CASE UNCHANGED vars
  BY <1>1 DEF vars, IInv, TypeOK, LoadsInOrder, RequestsInOrder, InflightIsExact, Running,
              DrainedIsUnloaded, ModulesBelong, KeptFiles, RetainedFilesStay
<1>2. ASSUME NEW r \in Requests, FindVersion(r) PROVE IInv'
  <2>1. versions \in Loads /\ load[versions] = "loaded"
    BY <1>2 DEF FindVersion, IInv, TypeOK, LoadsInOrder
  <2> QED
    BY <1>2, <2>1, StartKeeps DEF FindVersion
<1>3. ASSUME NEW r \in Requests, ShareLoad(r) PROVE IInv'
  <2>1. loadTask \in Loads /\ load[loadTask] # "none"
    BY <1>3 DEF ShareLoad, IInv, TypeOK, LoadsInOrder, UnderWay, InThread
  <2> QED
    BY <1>3, <2>1, WaitKeeps DEF ShareLoad
<1>4. ASSUME NEW r \in Requests, BeginLoad(r) PROVE IInv'
  BY <1>4, BeginLoadKeeps
<1>5. ASSUME NEW r \in Requests, CancelWaiter(r) PROVE IInv'
  BY <1>5, WaitKeeps DEF CancelWaiter
<1>6. ASSUME NEW r \in Requests, Resume(r) PROVE IInv'
  <2>1. request[r].pc = "waiting" /\ request[r].load \in Loads
    BY <1>6 DEF Resume, IInv, RequestsInOrder
  <2>2. CASE load[request[r].load] = "loaded" /\ Start(r, request[r].load)
    BY <1>6, <2>1, <2>2, StartKeeps DEF Resume
  <2>3. CASE /\ request' = [request EXCEPT ![r] = [pc |-> "ended", load |-> NoLoad]]
             /\ UNCHANGED version
    BY <1>6, <2>1, <2>3, WaitKeeps DEF Resume
  <2> QED
    BY <1>6, <2>2, <2>3 DEF Resume
<1>7. ASSUME NEW r \in Requests, Release(r) PROVE IInv'
  BY <1>7, ReleaseKeeps
<1>8. ASSUME NEW l \in Loads, load[l] \in InThread PROVE modules \in {NoLoad, Bare}
  <2>1. \A k \in Loads : load[k] # "register" /\ versions # k
    BY <1>8 DEF IInv, LoadsInOrder, UnderWay, InThread
  <2> QED
    BY <2>1 DEF IInv, ModulesBelong, TypeOK
<1>9. ASSUME NEW l \in Loads, Prepare(l) PROVE IInv'
  <2>1. load[l] \in InThread /\ modules' \in {NoLoad, Bare} /\ files' \in BOOLEAN
    BY <1>8, <1>9 DEF Prepare, InThread, IInv, TypeOK
  <2>2. PICK pc \in {"import", "extract", "fail"} : load' = [load EXCEPT ![l] = pc]
    BY <1>9 DEF Prepare
  <2> QED
    BY <1>9, <2>1, <2>2, ThreadKeeps DEF Prepare, UnderWay, InThread
<1>10. ASSUME NEW l \in Loads, Extract(l) PROVE IInv'
  <2>1. load[l] \in InThread /\ modules' \in {NoLoad, Bare} /\ files' \in BOOLEAN
    BY <1>8, <1>10 DEF Extract, InThread, IInv, TypeOK
  <2>2. PICK pc \in {"import", "fail"} : load' = [load EXCEPT ![l] = pc]
    BY <1>10 DEF Extract
  <2> QED
    BY <1>10, <2>1, <2>2, ThreadKeeps DEF Extract, UnderWay, InThread
<1>11. ASSUME NEW l \in Loads, Import(l) PROVE IInv'
  <2>1. load[l] \in InThread
    BY <1>11 DEF Import, InThread
  <2>2. CASE files /\ load' = [load EXCEPT ![l] = "register"] /\ modules' = l /\ UNCHANGED files
    BY <1>11, <2>1, <2>2, ThreadKeeps DEF Import, UnderWay
  <2>3. CASE load' = [load EXCEPT ![l] = "fail"] /\ modules' = NoLoad /\ files' = FALSE
    BY <1>11, <2>1, <2>3, ThreadKeeps DEF Import, UnderWay
  <2>4. CASE ~files /\ load' = [load EXCEPT ![l] = "fail"] /\ modules' = Bare /\ UNCHANGED files
    BY <1>11, <2>1, <2>4, ThreadKeeps DEF Import, UnderWay, IInv, TypeOK
  <2> QED
    BY <1>11, <2>2, <2>3, <2>4 DEF Import
<1>12. ASSUME NEW l \in Loads, EndLoad(l) PROVE IInv'
  BY <1>12, EndLoadKeeps
<1>13. CASE Drain
  BY <1>13, DrainKeeps
<1>14. CASE RemoveFiles
  BY <1>14, RemoveFilesKeeps
<1> QED
  BY <1>1, <1>2, <1>3, <1>4, <1>5, <1>6, <1>7, <1>9, <1>10, <1>11, <1>12, <1>13, <1>14
  DEF Next, LoadStep

-----------------------------------------------------------------------------
(* Theorems *)

LEMMA Invariance == Spec => []IInv
  BY InitIInv, NextIInv, PTL DEF Spec

\* Every variable keeps its type: no counter goes below zero.
THEOREM TypeCorrect == Spec => []TypeOK
  BY Invariance, PTL DEF IInv

\* inflight of a version is the number of its executions.
THEOREM InflightExact == Spec => []InflightIsExact
  BY Invariance, PTL DEF IInv

\* An execution has its version in the registry and its modules in sys.modules
\* until it ends, however drains, reloads and other requests interleave.
THEOREM RunningStaysLoaded == Spec => []RunningIsLoaded
<1>1. IInv => RunningIsLoaded
  <2> SUFFICES ASSUME IInv, NEW l \in Loads, NEW r \in Running(l)
               PROVE  versions = l /\ modules = l
    BY DEF RunningIsLoaded
  <2>1. r \in Requests /\ request[r].pc = "running" /\ request[r].load = l
    BY DEF Running
  <2>2. versions = l
    BY <2>1 DEF IInv, RequestsInOrder
  <2> QED
    BY <2>2 DEF IInv, ModulesBelong
<1> QED
  BY <1>1, Invariance, PTL

\* At most one load of the revision is under way, and none while a version is
\* registered (ensure_loaded, _load_and_register).
THEOREM LoadsExcludeEachOther == Spec => []OneLoad
<1>1. IInv => OneLoad
  <2> SUFFICES ASSUME IInv PROVE OneLoad
    OBVIOUS
  <2> DEFINE S == {l \in Loads : load[l] \in UnderWay}
  <2>1. \A l \in Loads : load[l] \in UnderWay => loadTask = l /\ versions = NoLoad
    BY DEF IInv, LoadsInOrder
  <2>2. S \in SUBSET {loadTask}
    BY <2>1
  <2>3. IsFiniteSet({loadTask}) /\ Cardinality({loadTask}) = 1
    BY FS_Singleton
  <2>4. Cardinality(S) <= 1
    BY <2>2, <2>3, FS_Subset
  <2> QED
    BY <2>1, <2>4 DEF OneLoad
<1> QED
  BY <1>1, Invariance, PTL

\* A drained version that nobody executes is out of the registry.
THEOREM DrainedGoes == Spec => []DrainedIsUnloaded
  BY Invariance, PTL DEF IInv

\* Modules in sys.modules belong to the registered version or to the load that
\* is about to register it (_unload, the cleanup of _load_version).
THEOREM NoModulesLeft == Spec => []ModulesBelong
  BY Invariance, PTL DEF IInv

\* A runtime that keeps extracted files has them whenever a version is loaded.
THEOREM FilesStay == Spec => []RetainedFilesStay
  BY Invariance, PTL DEF IInv, KeptFiles

\* Loads exclude each other and leave no version, module or directory behind.
THEOREM LoadsStayClean == Spec => []LoadsAreClean
<1>1. OneLoad /\ DrainedIsUnloaded /\ ModulesBelong /\ RetainedFilesStay => LoadsAreClean
  BY DEF LoadsAreClean
<1> QED BY <1>1, LoadsExcludeEachOther, DrainedGoes, NoModulesLeft, FilesStay, PTL
-----------------------------------------------------------------------------
(* The archive a load opens: ArtifactCache, for any number of publishers, of *)
(* loaders and of faults.                                                    *)

PubStages == {"idle", "copying", "copied", "checked"}
FetchStages ==
    {"idle", "waiting", "locked", "copying", "copied", "checked", "obtained", "failed"}
Files == Contents \cup {"none"}
PubRecords == [stage : PubStages, file : Files]
FetchRecords == [stage : FetchStages, file : Files]

\* Between its acquisition and its release the lock is that of one loader.
Holding == {"locked", "copying", "copied", "checked"}
LockIsExclusive == \A l \in Loaders : fetch[l].stage \in Holding <=> holder = l

\* What was checked has the digest, whoever goes on with it.
CheckedIsGood ==
    /\ \A p \in Publishers : pub[p].stage = "checked" => pub[p].file = "good"
    /\ \A l \in Loaders : fetch[l].stage = "checked" => fetch[l].file = "good"

CacheIInv == KnownIsStored /\ ObtainedIsGood /\ CheckedIsGood /\ LockIsExclusive

\* A publisher goes on to another stage with another file.
LEMMA PubGoesOn ==
  ASSUME CacheTypeOK, NEW p \in Publishers, NEW stage \in PubStages, NEW file \in Files,
         Pub(p, stage, file)
  PROVE  /\ pub' \in [Publishers -> PubRecords]
         /\ pub'[p].stage = stage /\ pub'[p].file = file
         /\ \A q \in Publishers : q # p => pub'[q] = pub[q]
<1>1. pub \in [Publishers -> PubRecords]
  BY DEF CacheTypeOK, PubRecords, PubStages, Files
<1>2. [stage |-> stage, file |-> file] \in PubRecords
  BY DEF PubRecords
<1> QED BY <1>1, <1>2 DEF Pub

\* A loader goes on to another stage with another file.
LEMMA FetchGoesOn ==
  ASSUME CacheTypeOK, NEW l \in Loaders, NEW stage \in FetchStages, NEW file \in Files,
         Fetch(l, stage, file)
  PROVE  /\ fetch' \in [Loaders -> FetchRecords]
         /\ fetch'[l].stage = stage /\ fetch'[l].file = file
         /\ \A k \in Loaders : k # l => fetch'[k] = fetch[k]
<1>1. fetch \in [Loaders -> FetchRecords]
  BY DEF CacheTypeOK, FetchRecords, FetchStages, Files
<1>2. [stage |-> stage, file |-> file] \in FetchRecords
  BY DEF FetchRecords
<1> QED BY <1>1, <1>2 DEF Fetch

LEMMA FaultCounted ==
  ASSUME CacheTypeOK, Fault \/ faults' = faults
  PROVE  faults' \in 0..MaxFaults
BY ArtifactCacheAssumption DEF CacheTypeOK, Fault

\* The steps of a publication, whose result is that of the checked file.
LEMMA PublishKeeps ==
  ASSUME CacheIInv, NEW p \in Publishers, Publish(p) \/ InterruptPublish(p)
  PROVE  CacheIInv'
<1>1. CacheTypeOK
  BY DEF CacheIInv, KnownIsStored
<1>2. /\ UNCHANGED <<store, archive, holder, fetch>> /\ faults' \in 0..MaxFaults
  BY <1>1, FaultCounted
     DEF Publish, StartPublish, CopySource, CheckSource, StoreObject, InterruptPublish
<1>3. /\ pub' \in [Publishers -> PubRecords]
      /\ \A q \in Publishers : pub'[q].stage = "checked" => pub'[q].file = "good"
  <2>1. pub \in [Publishers -> PubRecords]
    BY <1>1 DEF CacheTypeOK, PubRecords, PubStages, Files
  <2>2. \/ pub' = pub
        \/ \E stage \in PubStages, file \in Files :
              Pub(p, stage, file) /\ (stage = "checked" => file = "good")
    <3>1. {"idle", "copying", "copied", "checked"} = PubStages /\ {"good", "other", "none"} \subseteq Files
      BY DEF PubStages, Files, Contents
    <3> QED BY <3>1
            DEF Publish, StartPublish, CopySource, CheckSource, StoreObject, InterruptPublish
  <2>3. CASE pub' = pub
    BY <2>1, <2>3 DEF CacheIInv, CheckedIsGood
  <2>4. ASSUME NEW stage \in PubStages, NEW file \in Files, Pub(p, stage, file),
               stage = "checked" => file = "good"
        PROVE  /\ pub' \in [Publishers -> PubRecords]
               /\ \A q \in Publishers : pub'[q].stage = "checked" => pub'[q].file = "good"
    <3>1. /\ pub' \in [Publishers -> PubRecords]
          /\ pub'[p].stage = stage /\ pub'[p].file = file
          /\ \A q \in Publishers : q # p => pub'[q] = pub[q]
      BY <1>1, <2>4, PubGoesOn
    <3> QED BY <2>4, <3>1 DEF CacheIInv, CheckedIsGood
  <2> QED BY <2>2, <2>3, <2>4
<1>4. \/ UNCHANGED <<object, known, damaged>>
      \/ object = "good" /\ known' = TRUE /\ UNCHANGED <<object, damaged>>
      \/ object' = "good" /\ known' = TRUE /\ damaged' = FALSE
  BY DEF Publish, StartPublish, CopySource, CheckSource, StoreObject, InterruptPublish, Stored,
         CacheIInv, CheckedIsGood
<1>5. CacheTypeOK'
  BY <1>1, <1>2, <1>3, <1>4
     DEF CacheTypeOK, Contents, PubRecords, PubStages, Files
<1>6. KnownIsStored'
  BY <1>4, <1>5 DEF CacheIInv, KnownIsStored
<1> QED BY <1>2, <1>3, <1>6 DEF CacheIInv, ObtainedIsGood, CheckedIsGood, LockIsExclusive

\* The steps of a loader: the archive it finds or installs is good, and one that
\* somebody obtained is not removed.
LEMMA FetchKeeps ==
  ASSUME CacheIInv, NEW l \in Loaders,
         StartObtain(l) \/ Acquire(l) \/ Obtain(l) \/ FailDownload(l) \/ Die(l)
  PROVE  CacheIInv'
<1>1. CacheTypeOK /\ NoOne \notin Loaders
  BY ArtifactCacheAssumption DEF CacheIInv, KnownIsStored
<1>2. UNCHANGED <<store, object, pub, known, damaged>> /\ faults' \in 0..MaxFaults
  BY <1>1, FaultCounted DEF StartObtain, Acquire, Obtain, LookAtArchive, Download, CheckDownload,
     InstallArchive, EndObtain, FailDownload, Die
<1>3. fetch[l].file \in Files /\ object \in Files /\ "none" \in Files /\ "good" \in Files
  BY <1>1 DEF CacheTypeOK, Files, Contents
<1>4. \E stage \in FetchStages, file \in Files :
         /\ Fetch(l, stage, file)
         /\ stage = "checked" => file = "good"
         /\ stage = "obtained" => archive' = "good"
         /\ \/ archive' = archive
            \/ archive # "good" /\ archive' = "none"
            \/ archive' = "good"
         /\ \/ holder' = holder /\ (stage \in Holding <=> fetch[l].stage \in Holding)
            \/ holder = NoOne /\ holder' = l /\ stage \in Holding
            \/ holder' = Released(l) /\ stage \notin Holding
  <2>1. CASE StartObtain(l)
    BY <1>3, <2>1 DEF StartObtain, FetchStages, Holding
  <2>2. CASE Acquire(l)
    BY <1>3, <2>2 DEF Acquire, FetchStages, Holding
  <2>3. CASE LookAtArchive(l)
    BY <1>3, <2>3 DEF LookAtArchive, FetchStages, Holding
  <2>4. CASE Download(l)
    BY <1>3, <2>4 DEF Download, FetchStages, Holding
  <2>5. CASE CheckDownload(l)
    BY <1>3, <2>5 DEF CheckDownload, FetchStages, Holding
  <2>6. CASE InstallArchive(l)
    BY <1>3, <2>6 DEF InstallArchive, FetchStages, Holding, CacheIInv, CheckedIsGood
  <2>7. CASE EndObtain(l)
    BY <1>3, <2>7 DEF EndObtain, FetchStages, Holding
  <2>8. CASE FailDownload(l) \/ Die(l)
    BY <1>3, <2>8 DEF FailDownload, Die, FetchStages, Holding
  <2> QED BY <2>1, <2>2, <2>3, <2>4, <2>5, <2>6, <2>7, <2>8 DEF Obtain
<1>5. PICK stage \in FetchStages, file \in Files :
         /\ Fetch(l, stage, file)
         /\ stage = "checked" => file = "good"
         /\ stage = "obtained" => archive' = "good"
         /\ \/ archive' = archive
            \/ archive # "good" /\ archive' = "none"
            \/ archive' = "good"
         /\ \/ holder' = holder /\ (stage \in Holding <=> fetch[l].stage \in Holding)
            \/ holder = NoOne /\ holder' = l /\ stage \in Holding
            \/ holder' = Released(l) /\ stage \notin Holding
  BY <1>4
<1>6. /\ fetch' \in [Loaders -> FetchRecords]
      /\ fetch'[l].stage = stage /\ fetch'[l].file = file
      /\ \A k \in Loaders : k # l => fetch'[k] = fetch[k]
  BY <1>1, <1>5, FetchGoesOn
<1>7. archive' \in Files /\ holder' \in Loaders \cup {NoOne}
  BY <1>1, <1>3, <1>5 DEF CacheTypeOK, Files, Released
<1>8. CacheTypeOK'
  BY <1>1, <1>2, <1>6, <1>7 DEF CacheTypeOK, FetchRecords, FetchStages, Files
<1>9. ObtainedIsGood'
  BY <1>5, <1>6 DEF CacheIInv, ObtainedIsGood
<1>10. CheckedIsGood'
  BY <1>2, <1>5, <1>6 DEF CacheIInv, CheckedIsGood
<1>11. LockIsExclusive'
  BY <1>1, <1>5, <1>6 DEF CacheIInv, LockIsExclusive, Released
<1>12. KnownIsStored'
  BY <1>2, <1>8 DEF CacheIInv, KnownIsStored
<1> QED BY <1>9, <1>10, <1>11, <1>12 DEF CacheIInv

\* After a crash nobody publishes or loads, and only a file may be cut.
LEMMA CrashKeeps ==
  ASSUME CacheIInv, NodeCrash
  PROVE  CacheIInv'
<1>1. CacheTypeOK /\ NoOne \notin Loaders
  BY ArtifactCacheAssumption DEF CacheIInv, KnownIsStored
<1>2. faults' \in 0..MaxFaults
  BY <1>1, FaultCounted DEF NodeCrash
<1>3. /\ \A l \in Loaders : fetch'[l].stage = "idle"
      /\ \A p \in Publishers : pub'[p].stage = "idle"
      /\ holder' = NoOne
  BY DEF NodeCrash, Nothing
<1>4. object' = object \/ (object # "none" /\ object' = "cut" /\ damaged')
  BY DEF NodeCrash, Survives
<1>5. archive' = archive \/ archive' = "cut"
  BY DEF NodeCrash, Survives
<1>6. damaged' \in BOOLEAN /\ (damaged => damaged') /\ UNCHANGED <<store, known>>
  BY <1>1 DEF NodeCrash, CacheTypeOK
<1>7. pub' \in [Publishers -> PubRecords] /\ fetch' \in [Loaders -> FetchRecords]
  BY DEF NodeCrash, Nothing, PubRecords, PubStages, FetchRecords, FetchStages, Files
<1>8. CacheTypeOK'
  BY <1>1, <1>2, <1>3, <1>4, <1>5, <1>6, <1>7
     DEF CacheTypeOK, Contents, PubRecords, PubStages, FetchRecords, FetchStages, Files
<1>9. KnownIsStored'
  BY <1>4, <1>6, <1>8 DEF CacheIInv, KnownIsStored
<1>10. ObtainedIsGood' /\ CheckedIsGood' /\ LockIsExclusive'
  BY <1>1, <1>3 DEF ObtainedIsGood, CheckedIsGood, LockIsExclusive, Holding
<1> QED BY <1>9, <1>10 DEF CacheIInv

LEMMA CacheInvariance == CacheSpec => []CacheIInv
<1>1. CacheInit => CacheIInv
  <2> SUFFICES ASSUME CacheInit PROVE CacheIInv
    OBVIOUS
  <2>1. pub \in [Publishers -> PubRecords] /\ fetch \in [Loaders -> FetchRecords]
    BY DEF CacheInit, Nothing, PubRecords, PubStages, FetchRecords, FetchStages, Files
  <2>2. CacheTypeOK
    <3>1. faults \in 0..MaxFaults /\ holder \in Loaders \cup {NoOne}
      BY ArtifactCacheAssumption DEF CacheInit
    <3>2. object \in Files /\ archive \in Files /\ store \in {"files", "bucket"}
          /\ known \in BOOLEAN /\ damaged \in BOOLEAN
      BY DEF CacheInit, Files
    <3> QED BY <2>1, <3>1, <3>2
            DEF CacheTypeOK, PubRecords, PubStages, FetchRecords, FetchStages, Files
  <2>3. ObtainedIsGood /\ CheckedIsGood /\ LockIsExclusive
    BY ArtifactCacheAssumption
       DEF CacheInit, Nothing, ObtainedIsGood, CheckedIsGood, LockIsExclusive, Holding
  <2> QED BY <2>2, <2>3 DEF CacheInit, CacheIInv, KnownIsStored
<1>2. CacheIInv /\ [CacheNext]_cacheVars => CacheIInv'
  <2> SUFFICES ASSUME CacheIInv, [CacheNext]_cacheVars PROVE CacheIInv'
    OBVIOUS
  <2>1. CASE CacheNext
    BY <2>1, PublishKeeps, FetchKeeps, CrashKeeps DEF CacheNext
  <2>2. CASE UNCHANGED cacheVars
    BY <2>2 DEF cacheVars, CacheIInv, KnownIsStored, CacheTypeOK, ObtainedIsGood, CheckedIsGood,
                LockIsExclusive
  <2> QED BY <2>1, <2>2
<1> QED BY <1>1, <1>2, PTL DEF CacheSpec

\* A loader that got the archive reads the published contents until it is done,
\* after it gave the lock back (obtain).
THEOREM ObtainedStaysGood == CacheSpec => []ObtainedIsGood
  BY CacheInvariance, PTL DEF CacheIInv

\* What a revision refers to is stored whole; only a crash of the node that
\* keeps the file damages it (publish_blob).
THEOREM StoredStaysWhole == CacheSpec => []KnownIsStored
  BY CacheInvariance, PTL DEF CacheIInv

\* The file lock has one holder, which is between its acquisition and its
\* release: no failed download and no death leaves it behind (obtain).
THEOREM OneHolds == CacheSpec => []LockIsExclusive
  BY CacheInvariance, PTL DEF CacheIInv
=============================================================================
