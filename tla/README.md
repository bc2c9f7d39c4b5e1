# A formal model of pyscripts

pyscripts runs user modules as HTTP and gRPC services on a Ray cluster.  A
*manager* process (FastAPI plus a gRPC gateway) keeps services, revisions,
runtime profiles and invocations in PostgreSQL, and a scheduler inside it
hands each invocation to a Ray actor (IO endpoints) or to a Ray task (compute
endpoints).  This directory holds TLA+ modules translated from
`src/src/pyscripts`, TLC configurations that check them on small instances, and
TLAPS proofs of what matters most for every instance.

## 1. Inventory

Paths are relative to `src/src/pyscripts`.

| Component | Code | State | Operations | Why it is hard |
|---|---|---|---|---|
| Actor admission | `runtime/admission.py`, `runtime/actor.py` | `active_io`, `leases`, `actor_draining`, `idle_since`, `_executions` | `try_reserve`, `start`, `finish`, `cancel_reservation`, `cancel_execution`, `drain_actor`, `status`, expiry | calls of one request served in any order; expiry races start; holders vanish |
| Actor pool | `runtime/directory.py` | `_actors`, `_actor_creation_tasks`, `_profiles`, traffic, per-profile locks | `reserve`, `_schedule_actor_count`, `_create_actor_replica`, `_discover_actors`, `_actor_statuses`, `reap_idle_actors`, `retire_profile` | every remote call is an `await` at which reaper, requests, creation tasks and retirement interleave; actors die |
| Compute admission | `runtime/directory.py`, `runtime/compute.py` | `_compute_limits` | `_execute_compute`, `run_compute_task` | a bounded semaphore per profile, looked up by key, replaced by retirement |
| Version loader | `runtime/loader.py` | `_registry`, `_loading`, per-version state, in-flight count, module tables, files | `ensure_loaded`, `execute`, `drain`, `_unload`, artifact cache | shared load tasks; drain while running; unload by key; file system shared with a reload |
| Output capture | `runtime/output.py`, `runtime/actor.py` | buffer of a call: chunks, pending text, byte count, truncation | `write_at`, `close`, `snapshot`, `replay_captured_output` | byte limits cut inside UTF-8 sequences; streams, threads and callees write to one buffer; threads outlive their call |
| Runtime profiles | `repository.py`, `api.py` | label, version status, bindings, retirement tasks | create, validate, activate, retire, reconcile, finalise | long validation between two transactions; sessions read stale rows; manager restarts |
| Services and revisions | `repository.py`, `api.py` | service and revision status, active revision, synchronisation locks | push webhooks, publish (Git, artifact), activate, stop, start, delete | publication spans several transactions; the row read first is used last; webhooks arrive at any time |
| gRPC routes | `grpc_gateway/*.py`, `repository.py` | snapshot of routes, generation, active paths | `refresh`, `__call__`, pinned handlers, path uniqueness | read-then-install refresh from several tasks; pinned routes outlive a stop |
| Invocations | `repository.py`, `api.py`, `grpc_gateway/server.py` | invocation status, retained history | begin, finish (succeeded, failed, cancelled, timed out), prune | cancellation and crash between begin and finish |
| Contracts | `contracts/generator.py`, `contracts/builder.py`, `repository.py` | published fields, numbers, versions, digests | `generate_contract`, `_assign_numbers`, `register_contract` | field numbers must survive changes over many versions; a contract is registered against a latest one that may not be the latest any more |
| Credentials | `auth.py`, `api_tokens.py`, `repository.py`, `api.py` | password hash, session version, sessions, API tokens, webhook tokens | login, change password, create / revoke token, rotate / disable webhook | a credential is checked at one moment and used at a later one; two changes start from one session |
| Environments, workers | `runtime/profiles.py`, `runtime/worker_pools.py`, `ray_client.py` | uv projects, worker pools, Ray connection | materialise, validate, list pools, connect | external tools; little state |
| Storage | `storage.py`, `runtime/loader.py` (`ArtifactArchiveCache`) | stored object, archive of a node, file lock, temporary files | `publish_blob`, `obtain` | several publishers without a lock, several processes under one, killed half-way; crashes after a rename |
| Git source | `git_source.py` | a temporary clone | build | external tool |
| Schemas, metadata, protobuf, hook, UI | `schemas.py`, `interface_metadata.py`, `runtime/protobuf.py`, `pyscripts_hook`, `ui` | none, or per request | conversions | data, not control |

How they interact: an HTTP or gRPC request resolves an endpoint and records an
invocation in one transaction (*invocations*), asks the *actor pool* for a lease
(*actor admission*) or the *compute admission* for a permit, and runs in an actor
whose *version loader* holds the revision's modules, taken from the archive
cache of the node (*storage*); *output capture* returns the log with the result; the invocation is finished in a second transaction.
Publishing resolves the service's *runtime profile*, builds and registers the
*contract*, creates the *revision*, maybe activates it, and refreshes the *gRPC
routes*.  Retiring a runtime profile version marks it RETIRING in the database and
a background task drains the *actor pool* of that profile, waits until no
*invocation* of it is active, and marks it RETIRED.

## 2. Plan

Modules in order of importance.  A component module declares its parameters as
CONSTANTS with a named assumption, has one action per operation or handler (one
per stretch between two `await`s where those interleave), and uses no RECURSIVE
operator, so that it can be proved about.  `MC<Module>.tla` and its `.cfg` files
give it instances.  Its theorems are in a module that extends it; three of these hold the
theorems of two components, and the second one's definitions have names of their own
(`RoutesSpec`, `CacheSpec`, `OutputSpec`) so that both can be extended.

| | Module | Composes, abstracts | State |
|---|---|---|---|
| A | `ActorAdmission` over the abstract `LeaseSlots` | one actor and its callers; refines a bounded set of slots | done, proved |
| B | `ActorPool` | uses the promise of `LeaseSlots` for each actor | done, proved |
| C | `RuntimeProfiles` | abstracts the pool to "the drain ended, or timed out" | done, proved |
| D | `Publication` | one service: publications, the webhooks that ask for them, the branch | done, proved |
| E | `GrpcRoutes` | several services; abstracts Publication to a status that may be stale | done, proved |
| F | `Invocations` | the row, the queue of compute tasks, the task, the pruning of one endpoint's history | done, proved |
| G | `RevisionLoader` | shared loads, drains and unloads by key over the module table and the files | done, proved |
| H | `OutputCapture` | the buffers of an invocation and its internal calls | done, proved |
| I | `ContractNumbers` | numbers and versions of contracts over a history of overlapping publications of one service | done, proved |
| J | `Credentials` | sessions, API tokens and one webhook token | done, proved |
| K | `ArtifactCache` | one artifact: publishers, the store, the archive of a node, its loaders | done, proved |

Proved means every safety and action property of its runs; liveness is model-checked
(section 6).  What is left: that the pool keeps for each actor what `LeaseSlots` promises, as a
refinement, the recovery of contract artifacts (`ensure_contract_artifacts`), several revisions of a
service in `RuntimeProfiles`.

## 3. Modules and code

### LeaseSlots, ActorAdmission

`LeaseSlots` is what the scheduler relies on: requests claim one of `MaxIo`
slots, work in it, give it back; a claim that is not used may be dropped, work
never; once closed, nothing is claimed.  `ActorAdmission` is the code of
`runtime/admission.py` and its callers.  `active_io`, `actor_draining`, `lease`
(state of `AdmissionController.leases`), `executions` (`UnifiedActor._executions`)
keep the names of the code; `ttl` and `idle_for` are its time stamps relative to
the clock.  A method of the controller never awaits under its lock, so it is one
action: `TryReserve` (with the sweep of expired leases), `Execute`
(`start` and the creation of the task), `EndExecution`, `CancelExecution`
(`cancel_reservation` or the cancellation of the task), `Status`, `DrainActor`.
The scheduler's half is `Submit`, `ReceiveGrant`, `ReceiveDenial`,
`AbandonReservation` (the request is cancelled while it awaits `try_reserve`),
`RequestCancellation`, `ReceiveCancelled`, `GiveUpWaiting`.  A remote call is a
member of `calls[r]` until it is served and of `replies[r]` until it is received,
and calls of one request are served in any order, as on an asynchronous Ray
actor.  A lease id is abstracted to its request: the scheduler generates one lease
per request and actor.

### ActorPool

The scheduler of one profile in the manager (`runtime/directory.py`) and the Ray
cluster.  `actors`, `creating`, `registered`, `recent` are `_actors`,
`_actor_creation_tasks`, membership in `_profiles` and "last request within the
warm timeout"; `alive`, `name`, `draining`, `holds`, `idle` are the cluster: the
running actors, Ray's name table, and of each actor what `LeaseSlots` keeps.
`req[q]` is where a request stands in `reserve` (snapshot of the pool, statuses,
candidates, waiting for a creation, polling, leased); `reaper` and `retire` hold
the local variables of `reap_idle_actors` and `retire_profile` across their
awaits, stale or not.  A remote call fails if the actor is dead, and also, as a fault, if
only the connection to it is lost (`CallFails`, `Answer`): the code takes every `RayError` for a
death and forgets the handle (518-533, 660-668), which `_discover_actors` finds again by its name.
`budget` says which requests a behaviour has and how many faults (deaths of actors,
restarts, lost connections) and retirements; `Budgets` are the combinations of an instance.
Choices: candidates are tried in any order (the code sorts
them); the statuses of a `gather` are those at the moment it returns, of any subset of the live
actors if connections are lost; `HotTraffic` lets
`_desired_actor_count` ask for any larger number instead of computing a rate;
`list_actor_pools` is one step; actors of older protocols are left out; a handle
nobody remembers is used again.  `retire.crossed` records that a request was in
`reserve` while a retirement went on (section 5).  `SlowClock` says that idle timeouts (300 s and
1800 s) do not run out during the time a request spends in `reserve` (30 s) unless
it waits for a creation.  A retirement drains every actor in one step (`RetireDrain`), and gives up
if the calls time out or a status fails.

### RuntimeProfiles

One label, its versions, the services bound to it, and the background retirement
tasks.  Rows: `active`, `status`, `bound` (the binding of a service's revision:
its version and whether it follows the label), `running` (RUNNING invocations).
What a process carries across an await is a variable too: `validation` (the active
version its session saw), `activations` (the version and the status each request to activate
read before it locked the label; any number of requests may have read the same), `publication` (the version resolved before a
build), `arriving` (the endpoint resolved before the invocation is recorded), `task`
(check, drain, finalise).  `expire_on_commit=False` (`db.py` 28) keeps objects as they
were read, and `SELECT ... FOR UPDATE` without `populate_existing` does not refresh
them, so a stale attribute is written only where it differs from what was read; the
actions say which value each decision sees.  Every request overlaps with every other.
A write decided on a value that has changed since it was read is an ordinary step, and the
behaviour goes on after it.  Three history variables say what such a write has touched and no
later one has repaired: `marred` (versions whose status does not follow from the last decision
about them), `lateBound` (services bound to a version that was replaced or retired while their
revision was built), `lateRun` (services whose invocation began on a version RETIRED by then).
The properties say how far the damage goes.  `Activate` is one step although it reads the bindings it
moves a little before it commits.

### Publication

One service: `service` (status and active revision), `revision` (status of each),
`pub` (the service row a publication read before its build), `head` (the last commit of
the branch), `task` (a webhook delivery or a request to synchronise: received, waiting
for the lock of the service, building, ended).  Revisions of the branch are numbered in
its order.  `ReceiveWebhook` reads the service before the body of the delivery,
`AcceptWebhook` makes the background task, `BeginSync` runs once the lock is free
and only then looks at the branch; a revision that is stored already is not built
again.  `Publish` is the last transaction (`create_revision`, maybe
`activate_revision`), with the service row as it was read before the build.
`ActivateRevision`, `StopService`, `StartService`, `DeleteService` are the
administrative requests.  Git synchronisations exclude each other (a lock in
`api.py`), imports (`BeginImport`) do not.  `overtaken` records the revisions
that were activated while another was being built and were routed past by it; `stop`, also
a history variable, keeps the revision the service was stopped with (or that was activated since)
and the publications that were under way when it was stopped.

### GrpcRoutes

Several services.  `tx[s]` is the one transaction that can hold the row of service
`s` (locked, advisory lock taken, others looked at), `advisory` the holder of
`pg_advisory_xact_lock`, `seen` the status the transaction decides on, which for a
publication may be an earlier one.  `routes` is the registry, `refresh[x]` a refresh
of a request or of the loop between its SELECT and `replace`, `rpc` a call with its
pinned route.  A revision is its set of gRPC methods; that a gRPC service name must be
unique too is the same check.

### Invocations

The invocations of one compute endpoint, in the order of `started_at`: `row` is
`Invocation.status`, `call` where its HTTP or gRPC handler stands, `limit` the entry of
the profile in `_compute_limits`, `value` the value of every semaphore that somebody
still refers to, `task` the Ray task.  `BeginInvocation` is the first transaction;
`EnterQueue`, `Submit`, `Overload`, `TaskReturns`, `Interrupt` are `_execute_compute`
under the `wait_for` of the handler, where `Interrupt` is a client that goes away or
the invocation time-out, and `FailEarly` an error before the semaphore is reached
(`_ensure_ray`, the registration of the profile, 368-369); `WriteOutcome` and `CommitOutcome` are the second transaction,
which selects the rows to prune among those it can see and deletes them when it
commits.  A change of the retention policy is such a transaction too (`change`): `SelectStale`
selects what the new number leaves out, `CommitRetention` writes the number and deletes the rows,
or `AbandonRetention` rolls back.  A handler cancelled anywhere else loses its invocation
(`LoseHandler`), and so does a restart: nothing ever finishes such a row.  `RetireProfile` is the only part of
`retire_profile` that compute tasks notice.

### RevisionLoader

`VersionedRuntime` for one service and revision.  `versions` and `loadTask` are the
entries of `_versions` and `_load_tasks`, `load` the stage of each `_load_version`
thread, `version` the `state` and `inflight` of each `LoadedVersion`, `modules` whose
modules `sys.modules` holds under the prefix of the revision (`Bare`: its namespace and nothing
else, which a load leaves that does not find its files: `_create_namespace` comes before
the `try` that cleans up, 366-376), `files` whether its
directory is complete, `removals` the `rmtree` threads.  No section under
`_registry_lock` or the lock of a version awaits, so neither lock is ever contended and
`ensure_loaded`, `drain`, `_release` with `_unload` are one step each (`FindVersion`,
`ShareLoad`, `BeginLoad`, `Drain`, `Release`); what interleaves is the thread of a load
(`Prepare`, `Extract`, `Import`), its task (`EndLoad`), the waiters (`Resume`,
`CancelWaiter`) and `RemoveFiles`.  `retain` is TRUE in compute workers, which call
`drain` after each task, and FALSE in actors.

### ContractNumbers

The generated gRPC contracts of one service.  `contracts` are the rows of
`api_contracts`, each with its version, its methods and its messages; `stamp` orders
`created_at`.  A message is what a descriptor says of it: number and signature of each
field, reserved numbers and names.  `Numbered` is `_assign_numbers` of one message,
`Generated` is `generate_contract` with the comparison of `prepare_generated_artifact`
that keeps the version of an unchanged descriptor.  A publication (`pub`) generates
against the contract that is the latest then (`Prepare`); `InsertContract` and
`ReuseContract` are the reads and checks of `register_contract`, `CommitContract` the
end of its transaction with the unique constraints: nothing locks the service between.
Since `created_at` is the time at which a transaction began, the latest contract need
not be the one that was committed last.  Field names are naturals in the order in which
the generator sorts them; a signature is one value.  Left out: the band 19000-19999,
messages of nested structures, which are numbered like the others, the response field
`execution`, which every contract has, contracts that an artifact brings itself, and
a change of the service's name.

### OutputCapture

The buffers of an invocation and its internal calls.  `content`, `bytes` and
`truncated` are the fields of `CaptureBuffer`; `_chunks` is one text (`logs`) with the
places where its chunks end (`ends`), next to it what is `pending`.  `snapshot` is what is in an
`ExecutionOutcome`, `merged` how far `replay_captured_output` has come in an outcome.
A character is the number of bytes of its encoding (the line feed is its own, and so is a lone
`Surrogate`, which has none), tagged
with the call and the stream it was printed on, so that a text says where it came from.
`Width` is the encoding with `errors="replace"`, in which a surrogate is a question mark
(`Replaced`, 107-116); the strict encoding of 137 raises (`Raises`), when the text is appended
already and its bytes are not yet counted.  `print` in the module gets the exception, a replay
that gets it ends there (`actor.py` 156).
A write holds the lock of its buffer and is one step (`WriteAt`: limit, cut at a
character, `_append`); `MakeOutcome`, `Close` and `Abort` are the three ends of
`capture_output`; `Replay` writes one chunk of a callee into its caller at a time, while threads
(`Threaded`), which may outlive their call, write between them.  The two loops of `_append`
are the set of places where they cut: `Cuts` is the least set that has the next cut after the
beginning and after each of its members (`Cut`), so no definition is recursive.

### ArtifactCache

One artifact, seen as what a digest says of a file: good, another, cut short.
Publishers (`pub`) look for the object, copy the source, compare the digest and rename
or upload; they have no lock.  Loaders (`fetch`) take the file lock of the archive
(`holder`), look at it, download, compare, rename, release, and read the archive
afterwards without the lock.  `Die` kills a process at any point (the system releases
its lock), `NodeCrash` stops all of them and may cut short every file that was renamed
without having been flushed: the archive, and the object of a file store.

### Credentials

`credential` is the row of the administrator, `rowLock` who has it `FOR UPDATE`,
`sessions` the signed sessions (version, expiry), `tokens` the API tokens, `hook` the webhook
token of one service and whether it is tracked by webhook (`SetTracking` is `update_service`), `req` the requests between their steps.  A request to `/admin/`
is checked by the middleware in a database session of its own (`Admit`) and acts
later, a call checks its token and then begins the invocation (`ValidateToken`, `Proceed`), a
delivery reads the service and then starts its synchronisation (`ReadService`,
`Proceed`).  `changes` (of the password, and how many a session knows of) and `late`
(the credential was over when the request came) are history variables: the
properties compare what the code accepts with them and not with its versions.

## 4. Runs

| Run | Instance | Shows |
|---|---|---|
| `admission` | 3 requests, 2 slots, lease time of one tick | the books agree, settled requests hold nothing, refinement of `LeaseSlots`; every lease comes back |
| `pool` | 2 handles, 2 replicas of one slot; 2 requests, or one with a fault and a retirement | nobody kills an actor under a lease, no live actor is hidden or survives its retired profile but for two exceptions (section 5) |
| `pool_live` | 2 handles, 2 replicas of one slot; 2 requests, or one and a fault | a replica has one owner; a request waits for ever only if others get leases for ever; an idle pool scales to zero |
| `profiles` | 2 versions, 2 services, one of them invoked; any number of requests and restarts | trackers follow the one ACTIVE version, what is used is valid, a retired version nobody has in hand never comes back, retirement ends |
| `publication` | 3 commits, 1 import, 3 webhooks or requests | the routed revision is ACTIVE, others only if overtaken; a stopped service keeps its revision, or gets one that was under way, and stays stopped; commits are stored in order; accepted pushes are published |
| `grpc_routes` | 2 services, one method, 4 requests | a method has one publisher; the registry converges |
| `invocations` | 3 invocations, one permit, retention 1 or 2 | tasks have a permit and a caller, answers are in the history, pruning spares the newest and the running; an invocation ends unless its handler was lost |
| `loader` | 4 requests, 3 loads, drains at any time, files kept or not | executions keep their modules, loads exclude each other and leave nothing behind, waiters learn |
| `contracts` | 2 publications at a time, 4 contracts, 6 interfaces of 2 methods | field numbers stay distinct and off the reserved ones; contracts of one major version are compatible |
| `output` | 3 calls, one with a thread, 4 characters printed (a lone surrogate among them), 4 bytes, chunks of 3 | limits and chunks are right, output belongs to its call and keeps its order, nothing is lost without a mark or added late |
| `artifacts` | 2 publishers, 3 loaders, 3 faults | loaders read what was published, what a revision names is stored, archives are obtained |
| `credentials` | 2 requests, 2 passwords, 2 changes, 1 API token, 2 webhook tokens, one tick | what is over is refused, what is valid is accepted, no change is lost |

**Bounds.**  Capacity two is the least at which a slot can leak while another is in
use, three requests the least at which one is refused; leases of one tick expire at
every point of the protocol.  Two replicas are the least at which the reaper
distinguishes the last actor, two requests the least that compete for one; two
handles let a replica be created again under a stale entry; one fault, at every point of the
life of one request, is a death, a restart or a lost connection; with two replicas
`WarmSpares` adds nothing to what concurrency asks for, so only `HotTraffic` varies the
desired number: `pool_live` has it, `pool`, where a fault meets a retirement, has not.  Two versions give an active one and one that is validated, activated or
retired against it, while any number of calls to activate are under way; two services are one that follows the label and one that is
pinned, in every combination.  Three commits give one that is built, one pushed meanwhile
and one after it; three requests one that builds and two that wait; the import
is the publication that no lock excludes.  Two services and one method are the
least that conflict.  Three invocations are the least at which two finish under
different policies while a third runs; one permit makes every second one wait.  Three loads let a
revision be drained and loaded again while requests of the first load are still to resume.
Characters of one and two bytes, a line feed inside a text and two streams against a limit of
four bytes and chunks of three make every branch of `write_at` and `_append` happen,
a cut inside a character among them, and a surrogate makes the strict encoding raise; three calls are the least that nest.  Three
loaders let one wait while another dies and a third reads; three faults are a killed holder, a
crash after a rename, and one more.  Two requests of a kind race for the row of the
administrator; two changes lead from a password to another and back, so that only
versions tell sessions apart.  Four contracts are the least at which
a field changes twice and a publication that began before registers afterwards; the six
interfaces have a change of each kind the generator distinguishes (a field or a method
more, another type, a field or a method less).  Counters that only bound the state space
(`MaxRequests`, `Budgets`, `Invoked`, `IdleCap`, `MaxContracts`, `MaxStamp`,
`MaxPrinted`, `MaxFaults`, `MaxTime`, `MaxChanges`, `MaxHooks`) are named in the guards; they
stop the environment, never the system's own steps, except that a change of the password
beyond `MaxChanges` is not committed.

**Type invariants** that are proved together with the rest (`OutputTypeOK` among them) are not
repeated in the runs of their modules, nor is `InflightIsExact`; those of `ActorPool` and `ArtifactCache` are part
of `NoActorIsForgotten` and `KnownIsStored`.

**Deadlock** is checked except for `RuntimeProfiles`, `Publication`, `Invocations`, `RevisionLoader`,
`OutputCapture` and `ContractNumbers`, where the system may really stop: every version retired, the service deleted, no more requests, output or publications.

**Symmetry** is used in runs without liveness, over requests and handles, or over the
parties of a publication or a login.

**Switches.**  `DrainCanFail = TRUE` lets a `drain_actor` of `retire_profile` fail
(`directory.py` 750-757 ignores it).  An actor that never heard of the drain may admit a request
between its status and the kill, which `KillOnlyEmpty` then excepts, and only for the kill of a
retirement; the runs have it FALSE, the theorems hold for both values.

**Fairness.**  *ActorAdmission*: remote calls are delivered, the clock runs, the
reaper asks for `status()` for ever (its loop never ends; this is what runs expiry),
a request that got a lease goes on with it or cancels it (an invocation has a
timeout), and module code that is cancelled stops; module code that is not cancelled
need not stop.  *ActorPool*: each coroutine that can go on does (asyncio), executions end, time passes,
and a creation ends: `await status.remote()` has no time-out (`_create_actor_replica`), so this is
an assumption about Ray, which places the actor or reports that it cannot; strong fairness for `Overload`, because a request
that polls comes back to its deadline again and again and the deadline passes.
*Publication*: the lock of a service serves
who waits for it (strong fairness of `BeginSync`; `asyncio.Lock` is first come, first
served), and a build ends, one way or the other.  *ArtifactCache*: a process that is not killed
goes on, and the file lock serves those who wait (strong fairness of `Acquire`).
*RuntimeProfiles*: weak fairness of the retirement task and of the reconciliation
loop, and of invocations, which end (they have a timeout); restarts end, too; an attempt times out only
while an execution is running.  *GrpcRoutes*: the refresh loop goes round and a refresh
ends.  *Invocations*: a handler goes on, because both its waits have a time-out and the
transactions end.  *RevisionLoader*: threads end (a download has a time-out) and the event
loop resumes who waited; executions need not end.  Nothing is assumed of clients and administrators.

## 5. Observations

What the modules except from their properties, and what was seen while modelling.  No
run is expected to fail; where a property has an exception, the exception is named in
its formula and explained here.

*Excepted by name.*

1. `crossed` (`NoActorIsForgotten`): `retire_profile` takes its list of actors once; a
   request that was already in `reserve` starts a creation afterwards, and the
   detached actor outlives the profile (`directory.py` 717 against 729-796).
   `Hidden`: a creation task that a retirement cancels before its first step never removes
   its entry (725), so its replica counts as being created for ever, nobody adopts the
   actor of that name (818), and the retirement leaves it.
2. `marred`, `lateBound`, `lateRun` (`TrackersFollow`, `UsedIsValid`): two validations of a new
   label both make their version ACTIVE, because the session still shows a label without one
   (README 261-262 against `api.py` 523); an activation that read READY leaves a version ACTIVE
   that was retired meanwhile, and one that read ACTIVE leaves it READY or RETIRING
   (`repository.py` 641-650); a validation overwrites RETIRED (610-611); a publication binds the
   version it resolved before the build; an invocation is recorded on a version that retired in
   between (README 492-493).  The behaviours go on after each of these: a version is excepted
   until an activation or a retirement decides on it again, a service until it is bound again, an
   invocation until it ends.  `RetiredStaysGone` has no exception, but speaks of a RETIRED version
   only once no request that read it before is under way.
3. Publications (`StopIsKept`, `overtaken`): a publication decides to activate on the row it read
   before the build (`api.py` 1246-1247).  So a service that is stopped meanwhile gets another
   revision than the one it was stopped with, although starting it again "restores that same
   Revision" (README 207-211); and one that was REGISTERED when the build began is started,
   although it was activated and stopped meanwhile.  `StopIsKept` says that nothing else does this:
   only publications that were under way at that stop (`stop.crossing`), each once, and of these only one that saw the
   service REGISTERED starts it.  The revision a publication drains is that of the same row, so two
   that overlap leave two revisions ACTIVE (`repository.py` 1079, README 15).
4. Orphans (`RetirementCompletes`, `EveryInvocationEnds`): an invocation that was RUNNING
   at a restart, or whose handler was cancelled between its two transactions
   (`grpc_gateway/server.py` 169), stays RUNNING and blocks the retirement of its version.
5. `ScaleToZero`: after a restart the reaper knows no profile until something names it
   (`directory.py` 130).  `StarvedOnlyByOthers`: a request may be
   in `reserve` for ever, although the configuration gives it `actor_queue_timeout_seconds`: after
   a creation that succeeded the loop goes round without looking at its deadline (344-349), and
   others may have taken the new actor by then.  The property says that this is the only way: it
   needs others that get leases again and again.  (Neither the creation it awaits nor the status
   calls have a time-out, see fairness.)

*Scheduling and routes.*  Refreshes of the routes install their snapshots in any order, so
that for one period of the loop calls are routed again to a service that was stopped
(`registry.py` 57-63; README 207-208), until the loop repairs it (`RoutesConverge`).  An
actor that an earlier pass of the reaper left DRAINING counts as an actor, so the only ready
one may be reaped after the short timeout (`directory.py` 133; README 470).  A request whose
candidate is reaped meanwhile starts two actors (335).  A profile that is retired while its
compute tasks run gets a second semaphore with the next request, so that together they
exceed `COMPUTE_MAX_PENDING_PER_PROFILE` (746).

*Publication.*  A push that resets the branch to a commit that is stored already does not
activate its revision again; the tracking mode "poll" has no poller.  An accepted webhook
starts its synchronisation also after its token was rotated or its service deleted (it
then fails), and is forgotten when the manager stops.

*Contracts.*  Of two registrations that overlap, the one with the older version may get the
later `created_at` and stay the latest contract, and then every change that breaks is
refused, because its major version exists (`repository.py` 896-910); a contract of a new
major version is registered over a minor one that it was not generated against, and gives
the numbers of its fields to others (README 421).

*Loader and archive.*  A runtime that does not keep extracted files may remove those of a
version loaded again meanwhile (`loader.py` 684), but the manager never drains a version of
an actor.  A synchronous function runs on in its thread after its execution was cancelled
and released (601-606); `LateOutputIsDropped` says its output goes nowhere.  Files are not
flushed before they are renamed; the archive is checked at every use, so a crash costs a
download, but a damaged object of the file store is repaired only by the next publication.
The bucket store trusts the digest in the metadata of an object.  Temporary files of killed
processes stay.  A URL signed before a wait for the lock may have expired after it.  With
the digest checked before each rename the file lock only saves downloads.

*Output.*  A lone surrogate in what is printed passes the measure of `output.py` 107, where it is
a question mark, and raises in the strict encoding of 137, after the text was appended and before
118 counts it.  The `print` of the module fails; every further write to the stream fails too, until a line feed or
a write to the other stream flushes the text, and all of them are kept and none counted, so that a buffer exceeds
`max_bytes` (README 507-511).  `OutputIsBounded` says therefore that the count is exact, and
within the limit, for a buffer without surrogates, and that with them it never exceeds the limit
nor what is kept.  When a replay gets the exception, `actor.py` 156 ends there: the remaining chunks of the callee are
lost without a mark, which `NothingLostSilently` excepts.  What becomes of a stored surrogate in the answer
and in the database is not modelled.  `logs_truncated` of a callee is not handed on to its caller: the log of the
caller lacks a part and is not marked, which `NothingLostSilently` takes into account by
speaking of what the outcomes of callees had.  After a cut inside a character a smaller one may still fit, so
what follows a gap may be kept.  A line longer than `chunk_bytes` is one chunk of its own
(README 510).  What a thread writes between the snapshot and `close` is lost.  The branch
of `_split_utf8` for a first character longer than a chunk cannot be reached with the
least chunk size of the settings.

*Credentials.*  A request that was admitted before a change of the password, a revocation
or a rotation completes after it; SQLite ignores `FOR UPDATE`, on which `ChangesAreKnowing`
depends.

## 6. Proofs

Checked by `tlapm`, from the named assumptions of each module and nothing else.

* **ActorAdmissionProofs** (any finite set of requests, any `MaxIo`, `LeaseTtl >= 1`).
  None of the invariants is inductive alone: that a settled request holds nothing
  depends on which of its calls may still be on their way.  `IInv` adds, for each
  state of a client, the calls and replies that can exist (`NewIsClean`,
  `ReservingWaits`, `TryReserveIsFirst`, `AnswerMeansReleased`, `ExecuteOnce`).  Two
  lemmas carry the arithmetic: a sweep and a release keep `active_io` equal to the
  cardinality of the lease table.  From `IInv` follow the invariants (three of them
  together are `BooksAgree`), the two
  action properties, and `Refinement`: every step of an actor is a step of
  `LeaseSlots` under `claimed` = RESERVED leases, `working` = RUNNING leases,
  `closed` = `actor_draining`, or a stutter.
* **PublicationProofs** (any set of publications, overlapping or not).  The routed
  revision is ACTIVE: a publication never drains the revision that is routed unless it
  routes another in the same step, because a revision it activates is new.  `Core` adds
  that the revision a publication read is stored, or the service was deleted, which
  makes `overtaken` complete.  `StopBooks` adds, for `StopIsKept`, that while a service is
  STOPPED every publication under way that was not under way at the stop saw it STOPPED, and
  that the routed revision is the one remembered or one of those that crossed.  `InOrder` is about the branch: a build of a commit has the
  task that holds the lock, at most one builds, everything stored is at most `head`, and
  nothing later than the commit under way is stored; hence commits are stored in order,
  although the lock says nothing of the order in which tasks wait.
* **RuntimeProfilesProofs** (any versions and services, any number of requests and restarts).
  `IInv` is the types, `Judgement` and `Life`.  `Judgement` carries the rest: a version in
  anybody's hands, be it the label's, a binding's or a request's (`InHand`), was validated and its
  validation is over, and while it is under way the version is VALIDATING or was retired from
  there; so neither an outdated activation nor a late publication reaches a version that was
  never valid.  `Life` says, outside what the history variables name: one version is ACTIVE, the
  one the label names (`ActiveIsOne`), trackers are bound to it (`TrackersAreBound`), bound
  versions are not retiring (`BoundIsUsable`), running ones are not retired (`RunningIsThere`).
  Every action keeps both, those that decide on outdated rows included.  `RetiredStaysGone`
  follows from the types, action by action: each action that could write the version or take it up starts from a
  request that has it in hand, or from a status that is not RETIRED.
* **ActorPoolProofs** (any pool, any finite set of requests, any number of faults and
  retirements, `DrainCanFail` or not).  Everything rests on what the tables say of the
  cluster (`Tables`): names are those of live actors, every live actor has one, and what
  the manager remembers of a replica is the named actor unless that is dead.  A handle in
  anybody's hands is not used again, and an actor in them that drains goes on draining and
  gets no new lease (`ActorsKept`), so what reaper and retirement read before an await is
  still so after it: the reaper's candidate drains, and has no lease once it was seen empty
  (`ReaperSawDraining`); so has every actor on the list of a retirement (`RetireeIsDrained`).
  While no request crosses a retirement nothing is on its way, and every actor is on its
  list or hidden (`RetirementIsQuiet`).  Hence `KillOnlyEmpty` and `NoActorIsForgotten`.
* **AccessProofs**, first part, *Credentials* (any requests, passwords, tokens, times).  `IInv` says that the version
  of the row counts the changes of the password, that every session was issued at or
  before the present count, that a request past its check had a credential that was good
  when it came, and that the row a change has locked is still what it read.  A credential
  that is over stays over (`OverStays`), so what was late when it came is refused at its check; whoever changes
  the password compared the one given with the row under its lock.
* **AccessProofs**, second part, *GrpcRoutes* (any services, methods, calls, number of requests).
  `RoutesTypeOK` contains the exclusion: the advisory lock is held exactly by the transaction that
  is past it.  `RoutesIInv` adds that what such a transaction saw when it looked is still so
  (`CheckedIsFree`): only the holder of the lock can make a service publish more, and
  a transaction that does not take it publishes nothing, because the STOPPED it read
  cannot have changed while it holds the row.  Hence methods have one publisher, and
  so does every snapshot that a refresh has read.
* **InvocationsProofs**, first part, *Invocations* (any number of invocations, any limit, any retention counts).
  `IInv` joins three parts.  *Permits*: a call refers to a semaphore exactly while it waits
  or holds a permit (`SemaphoreOfCall`), so by counting there is always one that nobody
  refers to, and it is full; a permit goes back to the semaphore it came from.
  *History*: the row of an invocation follows its call (`RowFollowsCall`), and what a
  transaction selected for pruning is over (`StaleIsOver`), be it the end of an invocation or a
  change of the policy, so no RUNNING row is pruned although the transaction commits later.  *Retention*: of the rows newer than one that is to
  be pruned, those that are over and the transaction's own are at least as many as the least
  anybody asked to keep (`EnoughAreNewer`).  This survives another transaction that prunes
  some of them, because the newest of those it prunes has as many newer ones itself.
* **InvocationsProofs**, second part, *OutputCapture* (any calls, streams, limit, printed texts;
  any chunk size that holds one character of any kind, which the least size of the settings
  does).  `OutputIInv` joins three parts.
  *Keeping*: buffers count their bytes, exactly unless a surrogate is among them (`KeptIsExact`), and consist of chunks, and so does an outcome, in which a
  replay always stands at the end of one (`BuffersAreWell`, `OutcomesAreChunked`,
  `MergingCallerRuns`, `MergedSoFar`).  The lemmas behind it are about texts: the size of a
  concatenation is the sum of the sizes, a limit cuts a text in at most that many bytes
  (`FitsInFits`), the cut after a cut is the next one (`NextCut`), what lies between is a line
  or a part of at most a chunk (`CutsMakeChunks`), what stays pending is less (`RestIsShort`).
  *Lineage*: a call that was not made has no callees, no call is within one of its
  callees, and two callees of a call have no call in common (`CallerIsOutside`, `CalleesAreApart`).
  *Accounted*: what is kept was printed at its place by its call, a question mark in the place of
  a surrogate (`Alike`, `AllIsGenuine`), by a call within (`KeptBelongs`, `OutcomesBelong`), in
  its order (`AllIsInOrder`), by the call itself or in what was replayed of a callee
  (`KeptHasSource`), and without truncation it is all of that (`AllIsKept`).  Since callees
  are apart, what one of them printed comes into a buffer along one way only, and in one
  replay, which goes forward; hence the order, and that nothing is lost without the mark.
* **RevisionLoaderProofs** (any requests, any number of loads, files kept or not).  All
  is done by key, so `IInv` says what a key names: a load is under way exactly if it is
  the one in `_load_tasks` and nothing is registered meanwhile; what is registered was
  loaded; what was loaded and is no longer registered is DRAINING (`LoadsInOrder`), so a
  waiter that resumes late is refused.  With the exact count of executions, a release that
  unloads is the last one, hence an execution never loses its modules.  The second part is about
  *ArtifactCache* (any publishers, loaders and faults).  `CacheIInv` adds to the two invariants
  of the run that a file past its check has the digest (`CheckedIsGood`), and that a loader
  between acquisition and release is the holder of the lock (`LockIsExclusive`): an archive
  that somebody obtained is only ever replaced by a checked one.
* **ContractNumbersProofs** (any methods, any finite set of names, any interfaces and
  publications).  *Numbers*: numbering a message whose numbers are bounded, distinct and
  off its reserved ones gives such a message again (`NumberedIsGood`), because a new
  number is above everything in use or reserved (`LargestBounds`, by well-foundedness of
  the naturals) and new numbers grow with the order of the names (`RankGrows`).
  *Versions*: a contract under way with a minor version above 0 preserves the stored
  contract one minor version below (`Derives`), and stored versions have no gap
  (`NoGap`).  So when the unique constraint lets it commit, no later minor version
  can exist, and every earlier one is compatible with its base, hence with it; which
  contract was the latest by then does not matter.

Properties of a run that are conjunctions (`BooksAgree`, `TasksArePermitted`, `LoadsAreClean`)
have a theorem for the whole and one for each part.

Every invariant and every action property that a run checks is a theorem.  Only
model-checked is all liveness (`LeasesAreReturned`, `StarvedOnlyByOthers`,
`ScaleToZero`, `RetirementCompletes`, `RoutesConverge`, `EveryInvocationEnds`,
`WaitersLearn`, `AcceptedPushIsPublished`, `ArchiveIsObtained`), which needs fairness and
ENABLED.

## 7. Not modelled

Environments, worker pools and the Ray connection, and Git (external tools without state of
their own); conversions of messages, schemas and interface metadata; the publishing hook
and the user interface (clients); configuration and start-up.  Inside the modelled
components: several manager replicas, several labels, several revisions per service bound
to different versions (`RuntimeProfiles`), contract
readiness (`GrpcRoutes`), actors of older wire protocols (`ActorPool`), updates of a
service other than its tracking mode (`Credentials`) and of its endpoint policies (`Publication`), time stamps of chunks and their storage
(`OutputCapture`), the recovery of lost contract artifacts, which publishes to
the store as `ArtifactCache` does, and what section 3 says of `ContractNumbers`, failures
of the database other than a transaction rolled back.
