--------------------------- MODULE RevisionLoader ---------------------------
(***************************************************************************)
(* VersionedRuntime of runtime/loader.py for one service and revision: the *)
(* event loop of an actor or of a compute worker, the threads that load    *)
(* the version and remove its files, and the requests that share a load.   *)
(*                                                                         *)
(* What runs under _registry_lock or the lock of a version never awaits,   *)
(* so each such stretch is one step.  A load is its number; the version it *)
(* makes has the same number.  Two versions of one revision use the same   *)
(* directory and the same names in sys.modules.                            *)
(***************************************************************************)
EXTENDS Integers, FiniteSets

CONSTANTS
    Requests,
    MaxLoads       \* bound: loads of the revision

ASSUME RevisionLoaderAssumption ==
    IsFiniteSet(Requests) /\ MaxLoads \in Nat

Loads == 1..MaxLoads
NoLoad == 0
Bare == -1      \* the namespace of the revision without a module

VARIABLES
    retain,     \* retain_extracted_on_unload
    versions,   \* _versions: the version registered under the key
    loadTask,   \* _load_tasks: the load under way
    load,       \* where a load stands
    version,    \* state and inflight of a LoadedVersion
    modules,    \* the version whose modules are in sys.modules, Bare, or none
    files,      \* is the directory complete?
    removals,   \* rmtree calls in threads
    request     \* of a request: where it stands, and its load

vars == <<retain, versions, loadTask, load, version, modules, files, removals, request>>

InThread == {"prepare", "extract", "import"}
UnderWay == InThread \cup {"register", "fail"}

Init ==
    /\ retain \in BOOLEAN
    /\ versions = NoLoad
    /\ loadTask = NoLoad
    /\ load = [l \in Loads |-> "none"]
    /\ version = [l \in Loads |-> [state |-> "READY", inflight |-> 0]]
    /\ modules = NoLoad
    /\ files = FALSE
    /\ removals = 0
    /\ request = [r \in Requests |-> [pc |-> "idle", load |-> NoLoad]]

-----------------------------------------------------------------------------
(* Unloading, which is done by key *)

\* Mutant: the modules are left in sys.modules.
UnloadLeaving ==
    /\ versions' = NoLoad
    /\ removals' = IF retain THEN removals ELSE removals + 1
    /\ UNCHANGED modules

\* Mutant: the files are removed also where they are to be kept.
UnloadFiles ==
    /\ versions' = NoLoad
    /\ modules' = NoLoad
    /\ removals' = removals + 1

\* The version goes out of the registry and its modules out of sys.modules; a
\* thread removes its files.
Unload ==
    /\ versions' = NoLoad
    /\ modules' = NoLoad
    /\ removals' = IF retain THEN removals ELSE removals + 1

\* Mutant: unloads while executions are in flight.
DrainNow ==
    /\ versions # NoLoad
    /\ version' = [version EXCEPT ![versions].state = "DRAINING"]
    /\ Unload
    /\ UNCHANGED <<retain, loadTask, load, files, request>>

Drain ==
    /\ versions # NoLoad
    /\ version' = [version EXCEPT ![versions].state = "DRAINING"]
    /\ IF version[versions].inflight = 0 THEN Unload ELSE UNCHANGED <<versions, modules, removals>>
    /\ UNCHANGED <<retain, loadTask, load, files, request>>

RemoveFiles ==
    /\ removals > 0
    /\ removals' = removals - 1
    /\ files' = FALSE
    /\ UNCHANGED <<retain, versions, loadTask, load, version, modules, request>>

-----------------------------------------------------------------------------
(* Requests *)

\* Mutant: a version that drains takes another execution.
StartDraining(r, l) ==
    /\ request' = [request EXCEPT ![r] = [pc |-> "running", load |-> l]]
    /\ version' = [version EXCEPT ![l].inflight = @ + 1]

\* The request has a version: it executes unless the version is draining.
Start(r, l) ==
    IF version[l].state = "READY"
    THEN /\ request' = [request EXCEPT ![r] = [pc |-> "running", load |-> l]]
         /\ version' = [version EXCEPT ![l].inflight = @ + 1]
    ELSE /\ request' = [request EXCEPT ![r] = [pc |-> "ended", load |-> NoLoad]]
         /\ UNCHANGED version

FindVersion(r) ==
    /\ request[r].pc = "idle"
    /\ versions # NoLoad
    /\ Start(r, versions)
    /\ UNCHANGED <<retain, versions, loadTask, load, modules, files, removals>>

\* A request waits for the load that another one began.
ShareLoad(r) ==
    /\ request[r].pc = "idle"
    /\ versions = NoLoad /\ loadTask # NoLoad
    /\ request' = [request EXCEPT ![r] = [pc |-> "waiting", load |-> loadTask]]
    /\ UNCHANGED <<retain, versions, loadTask, load, version, modules, files, removals>>

BeginLoad(r) ==
    /\ request[r].pc = "idle"
    /\ versions = NoLoad /\ loadTask = NoLoad
    /\ \E l \in Loads :
          /\ load[l] = "none" /\ \A k \in Loads : k < l => load[k] # "none"
          /\ loadTask' = l
          /\ load' = [load EXCEPT ![l] = "prepare"]
          /\ request' = [request EXCEPT ![r] = [pc |-> "waiting", load |-> l]]
    /\ UNCHANGED <<retain, versions, version, modules, files, removals>>

\* Mutant: the load is not shielded from the cancellation of a waiter, and its
\* thread goes on.
CancelWaiterAndLoad(r) ==
    /\ request[r].pc = "waiting"
    /\ request' = [request EXCEPT ![r] = [pc |-> "ended", load |-> NoLoad]]
    /\ loadTask' = IF loadTask = request[r].load THEN NoLoad ELSE loadTask
    /\ UNCHANGED <<retain, versions, load, version, modules, files, removals>>

CancelWaiter(r) ==
    /\ request[r].pc = "waiting"
    /\ request' = [request EXCEPT ![r] = [pc |-> "ended", load |-> NoLoad]]
    /\ UNCHANGED <<retain, versions, loadTask, load, version, modules, files, removals>>

\* The load of a waiting request has ended; other steps may have come first.
Resume(r) ==
    /\ request[r].pc = "waiting"
    /\ \/ load[request[r].load] = "loaded" /\ Start(r, request[r].load)
       \/ /\ load[request[r].load] = "failed"
          /\ request' = [request EXCEPT ![r] = [pc |-> "ended", load |-> NoLoad]]
          /\ UNCHANGED version
    /\ UNCHANGED <<retain, versions, loadTask, load, modules, files, removals>>

\* Mutant: the last execution of a draining version does not unload it.
ReleaseOnly(r) ==
    /\ request[r].pc = "running"
    /\ request' = [request EXCEPT ![r] = [pc |-> "ended", load |-> NoLoad]]
    /\ version' = [version EXCEPT ![request[r].load].inflight = @ - 1]
    /\ UNCHANGED <<retain, versions, loadTask, load, modules, files, removals>>

\* An execution returns, raises or is cancelled.
Release(r) ==
    LET l == request[r].load
    IN  /\ request[r].pc = "running"
        /\ request' = [request EXCEPT ![r] = [pc |-> "ended", load |-> NoLoad]]
        /\ version' = [version EXCEPT ![l].inflight = @ - 1]
        /\ IF version[l].state = "DRAINING" /\ version[l].inflight = 1
           THEN Unload ELSE UNCHANGED <<versions, modules, removals>>
        /\ UNCHANGED <<retain, loadTask, load, files>>

-----------------------------------------------------------------------------
(* A load: _load_version in its thread, _load_and_register around it *)

\* Files that a worker kept are used again; else they are removed and the
\* archive is obtained, which may fail.
Prepare(l) ==
    /\ load[l] = "prepare"
    /\ \/ retain /\ files /\ load' = [load EXCEPT ![l] = "import"] /\ UNCHANGED files
       \/ ~(retain /\ files) /\ load' = [load EXCEPT ![l] = "extract"] /\ files' = FALSE
       \/ ~(retain /\ files) /\ load' = [load EXCEPT ![l] = "fail"] /\ UNCHANGED files
    /\ UNCHANGED <<retain, versions, loadTask, version, modules, removals, request>>

\* The archive is extracted beside the directory and renamed, or is no good.
Extract(l) ==
    /\ load[l] = "extract"
    /\ \/ load' = [load EXCEPT ![l] = "import"] /\ files' = TRUE
       \/ load' = [load EXCEPT ![l] = "fail"] /\ UNCHANGED files
    /\ UNCHANGED <<retain, versions, loadTask, version, modules, removals, request>>

\* The modules are imported, or one of them fails and all is cleaned up; if the
\* directory is gone already when it is listed, the namespace is left.
Import(l) ==
    /\ load[l] = "import"
    /\ \/ files /\ load' = [load EXCEPT ![l] = "register"] /\ modules' = l /\ UNCHANGED files
       \/ load' = [load EXCEPT ![l] = "fail"] /\ modules' = NoLoad /\ files' = FALSE
       \/ ~files /\ load' = [load EXCEPT ![l] = "fail"] /\ modules' = Bare /\ UNCHANGED files
    /\ UNCHANGED <<retain, versions, loadTask, version, removals, request>>

\* Mutant: the task of a load that fails never ends.
EndLoadRegistering(l) ==
    /\ load[l] = "register" /\ versions' = l /\ load' = [load EXCEPT ![l] = "loaded"]
    /\ loadTask' = IF loadTask = l THEN NoLoad ELSE loadTask
    /\ UNCHANGED <<retain, version, modules, files, removals, request>>

\* The task registers the version, if there is one, and forgets itself.
EndLoad(l) ==
    /\ \/ load[l] = "register" /\ versions' = l /\ load' = [load EXCEPT ![l] = "loaded"]
       \/ load[l] = "fail" /\ UNCHANGED versions /\ load' = [load EXCEPT ![l] = "failed"]
    /\ loadTask' = IF loadTask = l THEN NoLoad ELSE loadTask
    /\ UNCHANGED <<retain, version, modules, files, removals, request>>

-----------------------------------------------------------------------------
LoadStep(l) == Prepare(l) \/ Extract(l) \/ Import(l) \/ EndLoad(l)

Next ==
    \/ \E r \in Requests :
          FindVersion(r) \/ ShareLoad(r) \/ BeginLoad(r) \/ CancelWaiter(r) \/ Resume(r) \/ Release(r)
    \/ \E l \in Loads : LoadStep(l)
    \/ Drain
    \/ RemoveFiles

Spec == Init /\ [][Next]_vars

\* Threads and the event loop go on.
Fairness ==
    /\ \A l \in Loads : WF_vars(LoadStep(l))
    /\ \A r \in Requests : WF_vars(Resume(r))

FairSpec == Spec /\ Fairness

-----------------------------------------------------------------------------
(* Properties *)

\* The registry, the requests and the counters keep their types: no execution
\* is released twice.
TypeOK ==
    /\ retain \in BOOLEAN
    /\ versions \in Loads \cup {NoLoad}
    /\ loadTask \in Loads \cup {NoLoad}
    /\ load \in [Loads -> {"none", "loaded", "failed"} \cup UnderWay]
    /\ version \in [Loads -> [state : {"READY", "DRAINING"}, inflight : Nat]]
    /\ modules \in Loads \cup {NoLoad, Bare}
    /\ files \in BOOLEAN
    /\ removals \in Nat
    /\ request \in [Requests -> [pc : {"idle", "waiting", "running", "ended"}, load : Loads \cup {NoLoad}]]

Running(l) == {r \in Requests : request[r] = [pc |-> "running", load |-> l]}

\* inflight counts the executions of a version, whoever drains, waits or is
\* cancelled meanwhile.
InflightIsExact == \A l \in Loads : version[l].inflight = Cardinality(Running(l))

\* An execution has the modules of its version until it ends, although drain
\* and release unload by key and a reload uses the same names.
RunningIsLoaded == \A l \in Loads : Running(l) # {} => versions = l /\ modules = l

\* One load at a time, and none while a version is registered: a load empties
\* the directory and imports under names that are in use otherwise.
OneLoad ==
    /\ Cardinality({l \in Loads : load[l] \in UnderWay}) <= 1
    /\ \A l \in Loads : load[l] \in UnderWay => loadTask = l /\ versions = NoLoad

\* A drained version without executions is gone, so that the revision can be
\* loaded again instead of being refused for ever.
DrainedIsUnloaded ==
    \A l \in Loads : version[l].state = "DRAINING" /\ version[l].inflight = 0 => versions # l

\* No modules stay behind a version that is unloaded, or a load that failed or
\* lost its waiters: they belong to the registered version or to a load about to
\* register it.  (A bare namespace, which the next load uses, may stay.)
ModulesBelong ==
    \A l \in Loads : modules = l <=> versions = l \/ load[l] = "register"

\* A worker that keeps the files of a version ("reuse the verified archive and
\* extracted files", README.md 480-481) has them whenever the version is loaded.
RetainedFilesStay == retain /\ versions # NoLoad => files

\* However loads, drains, unloads and cancellations interleave, they leave
\* nothing behind that the next load of the revision would stumble over.
LoadsAreClean == OneLoad /\ DrainedIsUnloaded /\ ModulesBelong /\ RetainedFilesStay

\* A waiter learns how the load it shares ends, though the request that began
\* it was cancelled ("A cancelled waiter must not abandon the imported modules
\* or cancel another request's initialization", loader.py 326-328).
WaitersLearn == \A r \in Requests : request[r].pc = "waiting" ~> request[r].pc # "waiting"
=============================================================================
