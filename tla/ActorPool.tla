------------------------------ MODULE ActorPool ------------------------------
(***************************************************************************)
(* The pool of IO actors of one runtime profile: ProfilePoolScheduler and  *)
(* the Ray cluster it drives.  The manager is one asyncio process; its     *)
(* coroutines (requests in reserve, creation tasks, the idle reaper, a     *)
(* retirement) interleave at every await, and an actor answers a remote    *)
(* call at some moment between the call and its return.                    *)
(*                                                                         *)
(* An actor is abstracted to what LeaseSlots promises: a set of requests   *)
(* that hold a lease, at most MaxIo, none added once it drains.  Actors of *)
(* older wire protocols (the legacy names) are left out.                   *)
(***************************************************************************)
EXTENDS Integers, FiniteSets

CONSTANTS
    Requests,      \* concurrent requests for the profile
    Handles,       \* Ray actor handles; a handle nobody remembers is used again
    NoActor,       \* None
    MaxReplicas,   \* actor_max_per_profile
    MaxIo,         \* actor_max_io
    Target,        \* actor_target_io_concurrency
    WarmSpares,    \* actor_warm_spares
    HotTraffic,    \* the request rate may call for more than the concurrency does
    SlowClock,     \* the idle timeouts exceed the time a request spends in reserve
    Budgets,       \* bounds of a behaviour, see below
    DrainCanFail   \* a drain_actor call of retire_profile may fail

\* The bounds: the requests that come, again and again; actors lost with their node, manager
\* restarts and lost connections, together; calls of retire_profile.

\* A creation task: none, not started yet, awaiting the status of the actor it
\* made, or cancelled before it started (its entry is then never removed).
None == "none"
Scheduled == "scheduled"
Defunct == "defunct"

ASSUME PoolAssumption ==
    /\ NoActor \notin Handles
    /\ {MaxReplicas, MaxIo, Target} \subseteq Nat \ {0}
    /\ WarmSpares \in Nat
    /\ Budgets \subseteq [requests : SUBSET Requests, faults : Nat, retirements : Nat]
    /\ {HotTraffic, SlowClock, DrainCanFail} \subseteq BOOLEAN
    /\ IsFiniteSet(Requests)
    /\ {None, Scheduled, Defunct} \cap Handles = {}

Replicas == 0..MaxReplicas-1

VARIABLES
    alive,       \* running actors
    name,        \* Ray's table of named actors, by replica
    draining,    \* actors that were told to drain
    holds,       \* requests with a lease, by actor
    idle,        \* idle time of an actor: 0, 1 (hot timeout) or 2 (warm timeout)
    actors,      \* ProfilePoolScheduler._actors of the profile
    creating,    \* _actor_creation_tasks of the profile
    registered,  \* the profile is in _profiles
    recent,      \* last_request_at is less than the warm timeout ago
    req,         \* where each request stands in reserve
    reaper,      \* where reap_idle_actors stands
    retire,      \* where retire_profile stands; history: whether a request was in reserve meanwhile
    budget       \* what is left of the bounds

cluster == <<alive, name, draining, holds, idle>>
manager == <<actors, creating, registered, recent>>
vars == <<cluster, manager, req, reaper, retire, budget>>

IdleRequest == [pc |-> "idle", list |-> {}, eligible |-> {}, grow |-> 0, tasks |-> {}]
IdleReaper == [pc |-> "idle", list |-> {}, todo |-> {}, current |-> 0, desired |-> 0]
IdleRetire == [pc |-> "idle", list |-> {}, crossed |-> FALSE]

Init ==
    /\ alive = {}
    /\ name = [r \in Replicas |-> NoActor]
    /\ draining = {}
    /\ holds = [h \in Handles |-> {}]
    /\ idle = [h \in Handles |-> 0]
    /\ actors = [r \in Replicas |-> NoActor]
    /\ creating = [r \in Replicas |-> None]
    /\ registered = FALSE
    /\ recent = FALSE
    /\ req = [q \in Requests |-> IdleRequest]
    /\ reaper = IdleReaper
    /\ retire = IdleRetire
    /\ budget \in Budgets

-----------------------------------------------------------------------------
(* Helpers of the scheduler *)

Least(S) == CHOOSE x \in S : \A y \in S : x <= y
Greatest(S) == CHOOSE x \in S : \A y \in S : x >= y
AtLeast1(n) == IF n < 1 THEN 1 ELSE n
AtMostMax(n) == IF n > MaxReplicas THEN MaxReplicas ELSE n

Running(tasks) == {r \in Replicas : tasks[r] \notin {None, Defunct}}

\* Mutant: also adopt actors that a creation task is waiting for.
DiscoveredAll ==
    [r \in Replicas |-> IF actors[r] = NoActor THEN name[r] ELSE actors[r]]

\* _discover_actors: adopt the named actor of every replica that has neither a
\* handle nor a creation task.
Discovered ==
    [r \in Replicas |-> IF actors[r] = NoActor /\ creating[r] = None THEN name[r] ELSE actors[r]]

Listed(table) == {<<r, table[r]>> : r \in {x \in Replicas : table[x] # NoActor}}

Fault == budget.faults > 0 /\ budget' = [budget EXCEPT !.faults = @ - 1]

\* A RayError of a call is the death of the actor, or a lost connection.
CallFails(h) ==
    \/ h \notin alive /\ UNCHANGED budget
    \/ h \in alive /\ Fault

Live(list) == {x \in list : x[2] \in alive}

\* _actor_statuses: the status calls that return are those to live actors, or
\* some of them when a connection is lost.
Answer(list, seen) ==
    \/ seen = Live(list) /\ UNCHANGED budget
    \/ seen # Live(list) /\ Fault

\* The handles that did not answer are forgotten, if still registered.
WithoutSilent(list, seen) ==
    [r \in Replicas |-> IF <<r, actors[r]>> \in list \ seen THEN NoActor ELSE actors[r]]

\* _desired_actor_count: enough actors for the leases seen on actors that do
\* not drain, and the warm spares when that is more than one.  The rate of
\* recent requests, times their duration, may raise it.
DesiredCounts(seen, pending) ==
    LET active == UNION {holds[x[2]] : x \in {y \in seen : y[2] \notin draining}}
        hot == AtLeast1((Cardinality(active) + pending + Target - 1) \div Target)
        wanted == IF hot > 1 THEN hot + WarmSpares ELSE hot
    IN  IF HotTraffic /\ recent THEN AtMostMax(wanted)..MaxReplicas
                                ELSE {AtMostMax(wanted)}

\* _schedule_actor_count: start creation tasks for the lowest free replicas.
ScheduledTasks(table, desired) ==
    LET free == {r \in Replicas : table[r] = NoActor /\ creating[r] = None}
        missing == AtMostMax(desired) - (MaxReplicas - Cardinality(free))
        start == {r \in free : Cardinality({x \in free : x < r}) < missing}
    IN  [r \in Replicas |-> IF r \in start THEN Scheduled ELSE creating[r]]

Accepts(h) == h \notin draining /\ Cardinality(holds[h]) < MaxIo

SetReq(q, fields) == req' = [req EXCEPT ![q] = fields]
At(q, pc) == req[q].pc = pc

\* Mutant: a creation that fails wakes nobody.
WokenByActors(ended, made) ==
    [q \in Requests |->
        IF req[q].pc = "wait" /\ req[q].tasks \cap ended # {} /\ made
        THEN [IdleRequest EXCEPT !.pc = "snapshot"] ELSE req[q]]

\* Requests that wait for the creation task of r learn that it ended: they go
\* round the loop again when it made an actor, else they poll.
Woken(ended, made) ==
    [q \in Requests |->
        IF req[q].pc = "wait" /\ req[q].tasks \cap ended # {}
        THEN [IdleRequest EXCEPT !.pc = IF made THEN "snapshot" ELSE "poll"]
        ELSE [req[q] EXCEPT !.tasks = @ \ ended]]

Kill(H) ==
    /\ alive' = alive \ H
    /\ name' = [r \in Replicas |-> IF name[r] \in H THEN NoActor ELSE name[r]]
    /\ draining' = draining \ H
    /\ holds' = [h \in Handles |-> IF h \in H THEN {} ELSE holds[h]]
    /\ idle' = [h \in Handles |-> IF h \in H THEN 0 ELSE idle[h]]

-----------------------------------------------------------------------------
(* reserve, and the execution under the lease *)

Arrive(q) ==
    /\ At(q, "idle")
    /\ q \in budget.requests
    /\ registered' = TRUE
    /\ recent' = TRUE
    /\ SetReq(q, [IdleRequest EXCEPT !.pc = "snapshot"])
    /\ retire' = [retire EXCEPT !.crossed = @ \/ retire.pc \in {"discover", "drain", "status", "kill"}]
    /\ UNCHANGED <<cluster, actors, creating, reaper, budget>>

PreparePool(q) ==
    /\ At(q, "snapshot")
    /\ actors' = Discovered
    /\ SetReq(q, [IdleRequest EXCEPT !.pc = "status", !.list = Listed(Discovered)])
    /\ UNCHANGED <<cluster, creating, registered, recent, reaper, retire, budget>>

\* The statuses are in: scale up if needed and order the candidates.
ReadStatuses(q) ==
    /\ At(q, "status")
    /\ \E seen \in SUBSET Live(req[q].list) :
           /\ Answer(req[q].list, seen)
           /\ actors' = WithoutSilent(req[q].list, seen)
           /\ \E desired \in DesiredCounts(seen, 1) :
                creating' = ScheduledTasks(actors', desired)
           /\ SetReq(q, [pc |-> "try", list |-> {},
                         eligible |-> {x[2] : x \in {y \in seen : Accepts(y[2])}},
                         grow |-> IF Running(creating') = {} /\ Cardinality(seen) < MaxReplicas
                                  THEN Cardinality(seen) + 1 ELSE 0,
                         tasks |-> Running(creating')])
    /\ UNCHANGED <<cluster, registered, recent, reaper, retire>>

\* Try the candidates in turn.  An actor that died meanwhile, or that cannot be
\* reached, makes the call, and the request, fail.
TryCandidate(q, h) ==
    /\ At(q, "try")
    /\ h \in req[q].eligible
    /\ \/ /\ h \in alive /\ Accepts(h)
          /\ holds' = [holds EXCEPT ![h] = @ \cup {q}]
          /\ idle' = [idle EXCEPT ![h] = 0]
          /\ SetReq(q, [IdleRequest EXCEPT !.pc = "leased"])
          /\ UNCHANGED budget
       \/ /\ h \in alive /\ ~Accepts(h)
          /\ SetReq(q, [req[q] EXCEPT !.eligible = @ \ {h}])
          /\ UNCHANGED <<holds, idle, budget>>
       \/ /\ CallFails(h)
          /\ SetReq(q, IdleRequest)
          /\ UNCHANGED <<holds, idle>>
    /\ UNCHANGED <<alive, name, draining, manager, reaper, retire>>

\* Nobody accepted: start one more replica unless some were being created
\* (grow = 0), and wait for a creation task to end if there is one.
NoCandidate(q) ==
    /\ At(q, "try")
    /\ req[q].eligible = {}
    /\ creating' = IF req[q].grow > 0 THEN ScheduledTasks(actors, req[q].grow) ELSE creating
    /\ LET tasks == IF req[q].grow > 0 THEN Running(creating') ELSE req[q].tasks
       IN  SetReq(q, [IdleRequest EXCEPT !.pc = IF tasks = {} THEN "poll" ELSE "wait",
                                         !.tasks = tasks])
    /\ UNCHANGED <<cluster, actors, registered, recent, reaper, retire, budget>>

\* Go round again after actor_scheduler_poll_seconds.
Poll(q) ==
    /\ At(q, "poll")
    /\ SetReq(q, [IdleRequest EXCEPT !.pc = "snapshot"])
    /\ UNCHANGED <<cluster, manager, reaper, retire, budget>>

\* The deadline has passed: PoolOverloadedError.
Overload(q) ==
    /\ At(q, "poll")
    /\ SetReq(q, IdleRequest)
    /\ UNCHANGED <<cluster, manager, reaper, retire, budget>>

\* The execution ends, or the lease is cancelled or expires; a request whose
\* actor died fails.
Finish(q) ==
    /\ At(q, "leased")
    /\ holds' = [h \in Handles |-> holds[h] \ {q}]
    /\ SetReq(q, IdleRequest)
    /\ UNCHANGED <<alive, name, draining, idle, manager, reaper, retire, budget>>

-----------------------------------------------------------------------------
(* _create_actor_replica *)

\* Handles that somebody still remembers.
Remembered ==
    alive \cup {actors[r] : r \in Replicas} \cup {creating[r] : r \in Replicas}
    \cup (UNION {{x[2] : x \in req[q].list} \cup req[q].eligible : q \in Requests})
    \cup {x[2] : x \in reaper.list} \cup {x.handle : x \in reaper.todo}
    \cup {x[2] : x \in retire.list}

EndTask(r, made) ==
    /\ creating' = [creating EXCEPT ![r] = None]
    /\ req' = Woken({r}, made)

\* Mutant: what get_actor returns is taken without a look.
StartCreationUnchecked(r) ==
    /\ creating[r] = Scheduled
    /\ creating' = [creating EXCEPT ![r] = name[r]]
    /\ UNCHANGED <<cluster, actors, registered, recent, req, reaper, retire, budget>>

\* Take the named actor, or create it: _create_actor needs the profile.
StartCreation(r) ==
    /\ creating[r] = Scheduled
    /\ \/ /\ name[r] # NoActor
          /\ creating' = [creating EXCEPT ![r] = name[r]]
          /\ UNCHANGED <<alive, name, req>>
       \/ /\ name[r] = NoActor /\ registered
          /\ \E h \in Handles \ Remembered :
                /\ alive' = alive \cup {h}
                /\ name' = [name EXCEPT ![r] = h]
                /\ creating' = [creating EXCEPT ![r] = h]
          /\ UNCHANGED req
       \/ /\ name[r] = NoActor /\ (~registered \/ Handles \subseteq Remembered)
          /\ EndTask(r, FALSE)
          /\ UNCHANGED <<alive, name>>
    /\ UNCHANGED <<draining, holds, idle, actors, registered, recent, reaper, retire, budget>>

\* status() answered or failed.
FinishCreation(r) ==
    /\ creating[r] \in Handles
    /\ \/ /\ creating[r] \in alive
          /\ actors' = [actors EXCEPT ![r] = creating[r]]
          /\ EndTask(r, TRUE)
          /\ UNCHANGED budget
       \/ /\ CallFails(creating[r])
          /\ EndTask(r, FALSE)
          /\ UNCHANGED actors
    /\ UNCHANGED <<cluster, registered, recent, reaper, retire>>

-----------------------------------------------------------------------------
(* reap_idle_actors *)

\* A candidate of the scan, with what its status said.
Candidate(x) ==
    [replica |-> x[1], handle |-> x[2], draining |-> x[2] \in draining,
     empty |-> holds[x[2]] = {}, idle |-> idle[x[2]]]

\* Mutant: an actor that drains is left to others.
ReapableIdle(c, current, desired) ==
    /\ c.empty /\ ~c.draining
    /\ c.idle >= (IF current = 1 THEN 2 ELSE 1)
    /\ IF current = 1 THEN ~recent ELSE current > desired

\* The last actor needs the warm timeout and a cold profile, the others only
\* that there are more than desired.
Reapable(c, current, desired) ==
    /\ c.empty
    /\ c.draining \/ c.idle >= (IF current = 1 THEN 2 ELSE 1)
    /\ IF current = 1 THEN ~recent ELSE current > desired

\* Go down the replicas to the next actor to reap; it is the greatest of todo.
Scan(todo, current, desired) ==
    LET fit == {c \in todo : Reapable(c, current, desired)}
        next == CHOOSE c \in fit : \A d \in fit : d.replica <= c.replica
    IN  IF fit = {} THEN IdleReaper
        ELSE [pc |-> IF next.draining THEN "check" ELSE "drain", list |-> {},
              todo |-> {c \in todo : c.replica <= next.replica},
              current |-> current, desired |-> desired]

ReapTarget == CHOOSE c \in reaper.todo : \A d \in reaper.todo : d.replica <= c.replica
ReapRest(current) == Scan(reaper.todo \ {ReapTarget}, current, reaper.desired)

ReapStart ==
    /\ reaper.pc = "idle"
    /\ registered
    /\ actors' = Discovered
    /\ reaper' = [IdleReaper EXCEPT !.pc = "status", !.list = Listed(Discovered)]
    /\ UNCHANGED <<cluster, creating, registered, recent, req, retire, budget>>

ReapStatus ==
    /\ reaper.pc = "status"
    /\ \E seen \in SUBSET Live(reaper.list) :
          /\ Answer(reaper.list, seen)
          /\ actors' = WithoutSilent(reaper.list, seen)
          /\ \E desired \in DesiredCounts(seen, 0) :
                reaper' = Scan({Candidate(x) : x \in seen}, Cardinality(Listed(actors')), desired)
    /\ UNCHANGED <<cluster, creating, registered, recent, req, retire>>

\* drain_actor; when the call fails the whole pass is given up, and a live actor
\* may have got it or not.
ReapDrain ==
    /\ reaper.pc = "drain"
    /\ LET h == ReapTarget.handle
       IN  \/ /\ h \in alive
              /\ draining' = draining \cup {h}
              /\ reaper' = [reaper EXCEPT !.pc = "check"]
              /\ UNCHANGED budget
           \/ /\ CallFails(h)
              /\ reaper' = IdleReaper
              /\ draining' \in {draining, draining \cup ({h} \cap alive)}
    /\ UNCHANGED <<alive, name, holds, idle, manager, req, retire>>

\* Mutant: the latest status is not looked at.
ReapCheckTrusting ==
    /\ reaper.pc = "check"
    /\ LET h == ReapTarget.handle
       IN  reaper' = IF h \notin alive THEN IdleReaper ELSE [reaper EXCEPT !.pc = "kill"]
    /\ UNCHANGED <<cluster, manager, req, retire, budget>>

\* The latest status: an actor that got a lease meanwhile is left alone.
ReapCheck ==
    /\ reaper.pc = "check"
    /\ LET h == ReapTarget.handle
       IN  \/ /\ CallFails(h)
              /\ reaper' = IdleReaper
           \/ /\ h \in alive
              /\ reaper' = IF holds[h] # {} THEN ReapRest(reaper.current)
                           ELSE [reaper EXCEPT !.pc = "kill"]
              /\ UNCHANGED budget
    /\ UNCHANGED <<cluster, manager, req, retire>>

\* ray.kill; _actors is popped by its key, whatever the handle.
ReapKill ==
    /\ reaper.pc = "kill"
    /\ Kill({ReapTarget.handle})
    /\ actors' = [actors EXCEPT ![ReapTarget.replica] = NoActor]
    /\ reaper' = ReapRest(reaper.current - 1)
    /\ UNCHANGED <<creating, registered, recent, req, retire, budget>>

-----------------------------------------------------------------------------
(* retire_profile *)

\* Mutant: the actors to retire are the ones in _actors.
TakeSnapshotKnown(crossed) ==
    LET list == Listed(actors)
    IN  /\ actors' = actors
        /\ registered' = (registered /\ list # {})
        /\ recent' = (recent /\ list # {})
        /\ retire' = [pc |-> IF list = {} THEN "retired" ELSE "drain", list |-> list, crossed |-> crossed]

\* The actors to retire are the ones known now; without any, the profile is
\* forgotten at once.
TakeSnapshot(crossed) ==
    LET list == Listed(Discovered)
    IN  /\ actors' = Discovered
        /\ registered' = (registered /\ list # {})
        /\ recent' = (recent /\ list # {})
        /\ retire' = [pc |-> IF list = {} THEN "retired" ELSE "drain", list |-> list, crossed |-> crossed]

InReserve == {q \in Requests : req[q].pc \notin {"idle", "leased"}}

\* Cancel the creation tasks and wait for them, if there are any.  One that did
\* not start yet never runs the clause that removes its entry.
RetireStart ==
    /\ retire.pc = "idle"
    /\ budget.retirements > 0
    /\ budget' = [budget EXCEPT !.retirements = @ - 1]
    /\ creating' = [r \in Replicas |-> IF creating[r] \in {Scheduled, Defunct}
                                       THEN Defunct ELSE None]
    /\ req' = Woken(Running(creating), FALSE)
    /\ \/ /\ \A r \in Replicas : creating[r] = None
          /\ TakeSnapshot(InReserve # {})
       \/ /\ \E r \in Replicas : creating[r] # None
          /\ retire' = [pc |-> "discover", list |-> {}, crossed |-> InReserve # {}]
          /\ UNCHANGED <<actors, registered, recent>>
    /\ UNCHANGED <<cluster, reaper>>

RetireDiscover ==
    /\ retire.pc = "discover"
    /\ TakeSnapshot(retire.crossed)
    /\ UNCHANGED <<cluster, creating, req, reaper, budget>>

\* drain_actor on each; a call that fails is not looked at.  The retirement
\* gives up if the timeout passes before all of them returned.
RetireDrain ==
    /\ retire.pc = "drain"
    /\ LET listed == {x[2] : x \in retire.list} \cap alive
       IN  \E drained \in SUBSET listed :
             /\ draining' = draining \cup drained
             /\ \/ /\ drained = listed \/ DrainCanFail
                   /\ retire' = [retire EXCEPT !.pc = "status"]
                \/ retire' = IdleRetire
    /\ UNCHANGED <<alive, name, holds, idle, manager, req, reaper, budget>>

\* Wait until no listed actor has a lease.
RetireStatus ==
    /\ retire.pc = "status"
    /\ \A x \in retire.list : x[2] \in alive => holds[x[2]] = {}
    /\ retire' = [retire EXCEPT !.pc = "kill"]
    /\ UNCHANGED <<cluster, manager, req, reaper, budget>>

\* The timeout passed while one of them was busy, or a status failed.
RetireGiveUp ==
    /\ retire.pc = "status"
    /\ retire' = IdleRetire
    /\ UNCHANGED <<cluster, manager, req, reaper, budget>>

RetireKill ==
    /\ retire.pc = "kill"
    /\ Kill({x[2] : x \in retire.list})
    /\ actors' = [r \in Replicas |-> IF \E x \in retire.list : x[1] = r
                                     THEN NoActor ELSE actors[r]]
    /\ registered' = FALSE
    /\ recent' = FALSE
    /\ retire' = [retire EXCEPT !.pc = "retired", !.list = {}]
    /\ UNCHANGED <<creating, req, reaper, budget>>

-----------------------------------------------------------------------------
(* The environment *)

\* A node is lost with its actor (max_restarts = 0).
Die(h) ==
    /\ h \in alive
    /\ Fault
    /\ Kill({h})
    /\ UNCHANGED <<manager, req, reaper, retire>>

\* The manager restarts: its memory is gone, the actors are detached, and what
\* runs under a lease runs on.
Restart ==
    /\ Fault
    /\ actors' = [r \in Replicas |-> NoActor]
    /\ creating' = [r \in Replicas |-> None]
    /\ registered' = FALSE
    /\ recent' = FALSE
    /\ req' = [q \in Requests |-> IF At(q, "leased") THEN req[q] ELSE IdleRequest]
    /\ reaper' = IdleReaper
    /\ retire' = IdleRetire
    /\ UNCHANGED cluster

\* With the default timeouts (300 s and 1800 s against 30 s) neither runs out
\* while a request is in reserve, unless it waits for a slow creation.
TimePasses == SlowClock => \A q \in Requests : req[q].pc \in {"idle", "wait", "leased"}

\* Time passes for an actor without a lease: the hot, then the warm timeout.
AgeIdle(h) ==
    /\ h \in alive
    /\ holds[h] = {}
    /\ idle[h] < 2
    /\ TimePasses
    /\ SlowClock => \A r \in Replicas : creating[r] # h
    /\ idle' = [idle EXCEPT ![h] = @ + 1]
    /\ UNCHANGED <<alive, name, draining, holds, manager, req, reaper, retire, budget>>

\* The last request is a warm timeout ago.
CoolDown ==
    /\ recent
    /\ TimePasses
    /\ recent' = FALSE
    /\ UNCHANGED <<cluster, actors, creating, registered, req, reaper, retire, budget>>

\* list_actor_pools registers the profiles of the database that are not
\* RETIRED and asks their actors for their status, in one step here.
ListActorPools ==
    /\ registered' = TRUE
    /\ \E seen \in SUBSET Live(Listed(Discovered)) :
          /\ Answer(Listed(Discovered), seen)
          /\ actors' = [r \in Replicas |-> IF <<r, Discovered[r]>> \in seen THEN Discovered[r] ELSE NoActor]
    /\ UNCHANGED <<cluster, creating, recent, req, reaper, retire>>

-----------------------------------------------------------------------------
RequestStep(q) ==
    \/ PreparePool(q) \/ ReadStatuses(q) \/ NoCandidate(q) \/ Poll(q) \/ Finish(q)
    \/ \E h \in Handles : TryCandidate(q, h)

Creation(r) == StartCreation(r) \/ FinishCreation(r)
Reap == ReapStart \/ ReapStatus \/ ReapDrain \/ ReapCheck \/ ReapKill
Retire == RetireStart \/ RetireDiscover \/ RetireDrain \/ RetireStatus \/ RetireGiveUp \/ RetireKill

Next ==
    \/ \E q \in Requests : Arrive(q) \/ RequestStep(q) \/ Overload(q)
    \/ \E r \in Replicas : Creation(r)
    \/ Reap \/ Retire
    \/ \E h \in Handles : Die(h) \/ AgeIdle(h)
    \/ Restart \/ CoolDown \/ ListActorPools

Spec == Init /\ [][Next]_vars

\* Every coroutine that can go on does, remote calls return, executions end,
\* time passes and brings the deadline of a request that keeps polling.
Fairness ==
    /\ \A q \in Requests : WF_vars(RequestStep(q)) /\ SF_vars(Overload(q))
    /\ \A r \in Replicas : WF_vars(Creation(r))
    /\ WF_vars(Reap) /\ WF_vars(CoolDown)
    /\ \A h \in Handles : WF_vars(AgeIdle(h))

FairSpec == Spec /\ Fairness

-----------------------------------------------------------------------------
(* Properties *)

Pcs == {"idle", "snapshot", "status", "try", "wait", "poll", "leased"}
HandleOrNone == Handles \cup {NoActor}
Lists == {list \in SUBSET (Replicas \X Handles) : IsFiniteSet(list)}
Candidates ==
    [replica : Replicas, handle : Handles, draining : BOOLEAN, empty : BOOLEAN, idle : 0..2]

\* Every variable keeps its type.
TypeOK ==
    /\ alive \subseteq Handles
    /\ draining \subseteq alive
    /\ name \in [Replicas -> HandleOrNone]
    /\ actors \in [Replicas -> HandleOrNone]
    /\ creating \in [Replicas -> Handles \cup {None, Scheduled, Defunct}]
    /\ holds \in [Handles -> SUBSET Requests]
    /\ idle \in [Handles -> 0..2]
    /\ registered \in BOOLEAN
    /\ recent \in BOOLEAN
    /\ req \in [Requests -> [pc : Pcs, list : Lists, eligible : SUBSET Handles, grow : Nat,
                            tasks : SUBSET Replicas]]
    /\ reaper \in [pc : {"idle", "status", "drain", "check", "kill"}, list : Lists,
                   todo : SUBSET Candidates, current : Int, desired : Int]
    /\ retire \in [pc : {"idle", "discover", "drain", "status", "kill", "retired"}, list : Lists,
                   crossed : BOOLEAN]
    /\ budget \in [requests : SUBSET Requests, faults : Nat, retirements : Nat]

\* Whoever kills an actor, reaper or retirement, kills an empty one: an actor
\* with leases goes only with its node, or with a retirement whose drain_actor
\* call failed.  (directory.py 165-179 and 731-780.)
KillOnlyEmpty ==
    [][\A h \in Handles : h \in alive /\ holds[h] # {} =>
          \/ h \in alive'
          \/ budget'.faults # budget.faults
          \/ DrainCanFail /\ retire.pc = "kill" /\ retire'.pc = "retired"]_vars

\* A replica is either in _actors or being created, and the handle remembered
\* for it is the named actor unless that one is dead: no live actor is hidden
\* behind a stale entry.
ReplicaHasOneOwner ==
    \A r \in Replicas : actors[r] # NoActor =>
        /\ creating[r] = None
        /\ actors[r] \in alive => actors[r] = name[r]

\* Once requests stop, a pool the manager knows scales to zero (README.md
\* 466-471): the reaper finds every actor again, also those whose creation or
\* death it missed.  A manager that restarted knows no pool, and reaps none,
\* until a request or list_actor_pools names the profile.
ScaleToZero ==
    <>[](\A q \in Requests : At(q, "idle")) => <>[](alive = {} \/ ~registered)

\* A request in reserve gets a lease or fails, whatever happens to creations and
\* actors, unless other requests get leases again and again: nobody waits for
\* ever in a pool where nothing happens, for a creation nobody will end or an
\* actor nobody may use.  More cannot be had: the loop does not look at its
\* deadline after a creation that succeeded (directory.py 344-349), so the
\* others may take every new actor before it does.
StarvedOnlyByOthers ==
    \A q \in Requests :
        <>[](q \in InReserve) =>
            []<><<\E p \in Requests \ {q} : ~At(p, "leased") /\ At(p, "leased")'>>_vars

\* An actor nobody can adopt: its replica still has the entry of a creation
\* task that was cancelled before it started.
Hidden(h) == \E r \in Replicas : name[r] = h /\ creating[r] = Defunct

\* retire_profile: "Stop new admission, then remove the profile's actors once
\* leases finish." (directory.py 717): when the profile is retired and nothing
\* is on its way, no actor of it is left, not even one whose creation was cut
\* off, but one that the entry of a cancelled task hides; unless a request was
\* in reserve while the retirement went on.
RetiredPoolIsGone ==
    retire.pc = "retired" /\ ~retire.crossed /\ ~registered /\ Running(creating) = {}
      /\ (\A q \in Requests : At(q, "idle"))
    => \A h \in alive : Hidden(h)

\* No live actor is hidden from those who would use, reap or retire it.
NoActorIsForgotten == TypeOK /\ ReplicaHasOneOwner /\ RetiredPoolIsGone
=============================================================================
