--------------------------- MODULE ActorAdmission ---------------------------
(***************************************************************************)
(* One UnifiedActor: its AdmissionController (the table of IO leases), the *)
(* tasks that execute under a lease, and the scheduler's side of the       *)
(* reserve / execute / cancel protocol, call by call.                      *)
(*                                                                         *)
(* A method of AdmissionController never awaits while it holds its lock,   *)
(* so each is one action.  A remote call is two steps, a member of         *)
(* calls[r] and a member of replies[r]; the actor is asynchronous and may  *)
(* serve the calls of one request in any order.                            *)
(*                                                                         *)
(* A lease belongs to one request and a request holds at most one lease of *)
(* an actor, so a lease is named by its request.  Time is relative:        *)
(* ttl[r] is expires_at - now and idle_for is now - idle_since.            *)
(***************************************************************************)
EXTENDS Integers, FiniteSets

CONSTANTS
    Requests,   \* requests that try this actor
    MaxIo,      \* actor_max_io_concurrency
    LeaseTtl,   \* lease_ttl_seconds, in clock ticks
    IdleCap     \* bound: idle times above it are not told apart

ASSUME AdmissionAssumption ==
    /\ IsFiniteSet(Requests)
    /\ MaxIo \in Nat \ {0}
    /\ LeaseTtl \in Nat \ {0}
    /\ IdleCap \in Nat

VARIABLES
    active_io,       \* AdmissionController.active_io
    actor_draining,  \* AdmissionController.actor_draining
    lease,           \* state of each request's lease, "ABSENT" if not in leases
    ttl,             \* time left of a RESERVED lease
    idle_for,        \* time since idle_since, NotIdle when it is None
    executions,      \* keys of UnifiedActor._executions
    cancelling,      \* executions whose task has been cancelled
    calls,           \* remote calls not yet served
    replies,         \* results not yet received
    client           \* where the scheduler's call for the request stands

actorVars == <<active_io, actor_draining, lease, ttl, idle_for, executions, cancelling>>
vars == <<actorVars, calls, replies, client>>

NotIdle == -1
LeaseStates == {"ABSENT", "RESERVED", "RUNNING"}
CallKinds == {"try_reserve", "execute", "cancel_execution"}
ReplyKinds == {"granted", "denied", "returned", "raised", "cancelled"}
Settled == {"done", "cancelled"}
ClientStates == {"new", "reserving", "assigned", "cancelling", "abandoned"} \cup Settled

Init ==
    /\ active_io = 0
    /\ actor_draining = FALSE
    /\ lease = [r \in Requests |-> "ABSENT"]
    /\ ttl = [r \in Requests |-> 0]
    /\ idle_for = 0
    /\ executions = {}
    /\ cancelling = {}
    /\ calls = [r \in Requests |-> {}]
    /\ replies = [r \in Requests |-> {}]
    /\ client = [r \in Requests |-> "new"]

-----------------------------------------------------------------------------
(* The lease table *)

Held == {r \in Requests : lease[r] # "ABSENT"}

\* Mutant: a consumed lease still expires.
ExpiredAnyState == {r \in Requests : lease[r] # "ABSENT" /\ ttl[r] = 0}

Expired == {r \in Requests : lease[r] = "RESERVED" /\ ttl[r] = 0}

\* Mutants: expiry forgets to release the slots, or to restart the idle clock.
SweptIoKept == active_io
SweptIdleKept == idle_for

\* The lease table, the counter and the idle clock after _expire_unlocked.
Swept == [r \in Requests |-> IF r \in Expired THEN "ABSENT" ELSE lease[r]]
SweptIo == active_io - Cardinality(Expired)
SweptIdle == IF Expired # {} /\ SweptIo = 0 THEN 0 ELSE idle_for

\* _release_capacity_unlocked: one lease fewer, and the idle clock restarts
\* when it was the last.
ReleaseCapacity ==
    /\ active_io' = active_io - 1
    /\ idle_for' = IF active_io = 1 THEN 0 ELSE idle_for

SweepOnly ==
    /\ lease' = Swept
    /\ active_io' = SweptIo
    /\ idle_for' = SweptIdle
    /\ UNCHANGED ttl

Serve(r, call, answer) ==
    /\ call \in calls[r]
    /\ calls' = [calls EXCEPT ![r] = @ \ {call}]
    /\ replies' = [replies EXCEPT ![r] = @ \cup answer]

\* Mutants: one lease too many; leases granted while draining.
HasCapacityOffByOne == ~actor_draining /\ SweptIo <= MaxIo
HasCapacityWhileDraining == SweptIo < MaxIo

HasCapacity == ~actor_draining /\ SweptIo < MaxIo

GrantReservation(r) ==
    /\ Serve(r, "try_reserve", {"granted"})
    /\ HasCapacity
    /\ lease' = [Swept EXCEPT ![r] = "RESERVED"]
    /\ ttl' = [ttl EXCEPT ![r] = LeaseTtl]
    /\ active_io' = SweptIo + 1
    /\ idle_for' = IF SweptIo = 0 THEN NotIdle ELSE SweptIdle
    /\ UNCHANGED <<actor_draining, executions, cancelling, client>>

RefuseReservation(r) ==
    /\ Serve(r, "try_reserve", {"denied"})
    /\ ~HasCapacity
    /\ SweepOnly
    /\ UNCHANGED <<actor_draining, executions, cancelling, client>>

TryReserve(r) == GrantReservation(r) \/ RefuseReservation(r)

\* execute and execute_grpc up to the first suspension: start consumes the
\* reservation and the task is registered before anything else can run.
StartExecution(r) ==
    /\ Serve(r, "execute", {})
    /\ Swept[r] = "RESERVED"
    /\ lease' = [Swept EXCEPT ![r] = "RUNNING"]
    /\ active_io' = SweptIo
    /\ idle_for' = SweptIdle
    /\ executions' = executions \cup {r}
    /\ UNCHANGED <<actor_draining, ttl, cancelling, client>>

\* InvalidLeaseError: the lease expired, was cancelled or was consumed.
RejectExecution(r) ==
    /\ Serve(r, "execute", {"raised"})
    /\ Swept[r] # "RESERVED"
    /\ SweepOnly
    /\ UNCHANGED <<actor_draining, executions, cancelling, client>>

Execute(r) == StartExecution(r) \/ RejectExecution(r)

\* The finally clause: leave _executions, then finish the lease.  A caller
\* of cancel_execution that awaits the task is answered by the same step.
EndExecution(r, result) ==
    /\ r \in executions
    /\ executions' = executions \ {r}
    /\ cancelling' = cancelling \ {r}
    /\ lease' = [lease EXCEPT ![r] = "ABSENT"]
    /\ ReleaseCapacity
    /\ replies' = [replies EXCEPT ![r] = @ \cup {result}
                      \cup (IF r \in cancelling THEN {"cancelled"} ELSE {})]
    /\ UNCHANGED <<actor_draining, ttl, calls, client>>

FinishExecution(r) == \E result \in {"returned", "raised"} : EndExecution(r, result)

\* cancel_execution of a running task: cancel it and await it.
CancelTask(r) ==
    /\ r \in executions
    /\ Serve(r, "cancel_execution", {})
    /\ cancelling' = cancelling \cup {r}
    /\ UNCHANGED <<active_io, actor_draining, lease, ttl, idle_for, executions, client>>

\* Mutants: the reservation is left to expire; the slot of a lease that is
\* already gone is released again.
CancelReservationLeft(r) ==
    /\ r \notin executions
    /\ Serve(r, "cancel_execution", {"cancelled"})
    /\ UNCHANGED actorVars
    /\ UNCHANGED client

\* cancel_execution that overtook execute: drop the reservation.
CancelReservation(r) ==
    /\ r \notin executions
    /\ Serve(r, "cancel_execution", {"cancelled"})
    /\ IF lease[r] = "RESERVED"
       THEN /\ lease' = [lease EXCEPT ![r] = "ABSENT"]
            /\ ReleaseCapacity
       ELSE UNCHANGED <<lease, active_io, idle_for>>
    /\ UNCHANGED <<actor_draining, ttl, executions, cancelling, client>>

CancelExecution(r) == CancelTask(r) \/ CancelReservation(r)

\* Mutant: status() only reads the table.
StatusReadOnly == Expired # {} /\ UNCHANGED vars

\* status() also expires reservations.
Status ==
    /\ Expired # {}
    /\ SweepOnly
    /\ UNCHANGED <<actor_draining, executions, cancelling, calls, replies, client>>

DrainActor ==
    /\ ~actor_draining
    /\ actor_draining' = TRUE
    /\ UNCHANGED <<active_io, lease, ttl, idle_for, executions, cancelling,
                   calls, replies, client>>

\* time.monotonic() advances.
Tick ==
    /\ ttl' = [r \in Requests |-> IF ttl[r] > 0 THEN ttl[r] - 1 ELSE 0]
    /\ idle_for' = IF idle_for \in 0..IdleCap-1 THEN idle_for + 1 ELSE idle_for
    /\ UNCHANGED <<active_io, actor_draining, lease, executions, cancelling,
                   calls, replies, client>>

-----------------------------------------------------------------------------
(* The scheduler's side: ProfilePoolScheduler.reserve, execute, execute_grpc *)

Move(r, from, to) ==
    /\ client[r] = from
    /\ client' = [client EXCEPT ![r] = to]

Send(r, call) == calls' = [calls EXCEPT ![r] = @ \cup {call}]

Submit(r) ==
    /\ Move(r, "new", "reserving")
    /\ Send(r, "try_reserve")
    /\ UNCHANGED <<actorVars, replies>>

\* The granted lease is used at once: reserve returns and execute is sent.
ReceiveGrant(r) ==
    /\ "granted" \in replies[r]
    /\ Move(r, "reserving", "assigned")
    /\ Send(r, "execute")
    /\ replies' = [replies EXCEPT ![r] = @ \ {"granted"}]
    /\ UNCHANGED actorVars

\* Refused: poll again, or give up with PoolOverloadedError.
ReceiveDenial(r) ==
    /\ "denied" \in replies[r]
    /\ \E next \in {"new", "done"} : Move(r, "reserving", next)
    /\ replies' = [replies EXCEPT ![r] = @ \ {"denied"}]
    /\ UNCHANGED <<actorVars, calls>>

\* The request is cancelled while it awaits try_reserve: nobody learns the
\* lease it may be granted.
AbandonReservation(r) ==
    /\ Move(r, "reserving", "abandoned")
    /\ UNCHANGED <<actorVars, calls, replies>>

ReceiveResult(r) ==
    /\ "returned" \in replies[r]
    /\ Move(r, "assigned", "done")
    /\ replies' = [replies EXCEPT ![r] = @ \ {"returned"}]
    /\ UNCHANGED <<actorVars, calls>>

\* except BaseException: the invocation timed out, the caller went away, or
\* execute raised; each asks the actor to cancel the lease.
RequestCancellation(r) ==
    /\ Move(r, "assigned", "cancelling")
    /\ Send(r, "cancel_execution")
    /\ UNCHANGED <<actorVars, replies>>

ReceiveCancelled(r) ==
    /\ "cancelled" \in replies[r]
    /\ Move(r, "cancelling", "cancelled")
    /\ UNCHANGED <<actorVars, calls, replies>>

\* The shielded wait for the cancellation is bounded by five seconds.
GiveUpWaiting(r) ==
    /\ Move(r, "cancelling", "abandoned")
    /\ UNCHANGED <<actorVars, calls, replies>>

\* Another request: nothing of the old one is left in the actor or on its way.
NextRequest(r) ==
    /\ client[r] \in Settled \cup {"abandoned"}
    /\ calls[r] = {}
    /\ lease[r] = "ABSENT"
    /\ client' = [client EXCEPT ![r] = "new"]
    /\ replies' = [replies EXCEPT ![r] = {}]
    /\ UNCHANGED <<actorVars, calls>>

Actor(r) == TryReserve(r) \/ Execute(r) \/ FinishExecution(r) \/ CancelExecution(r)

Client(r) ==
    \/ Submit(r) \/ ReceiveGrant(r) \/ ReceiveDenial(r) \/ AbandonReservation(r)
    \/ ReceiveResult(r) \/ RequestCancellation(r) \/ ReceiveCancelled(r)
    \/ GiveUpWaiting(r) \/ NextRequest(r)

Next ==
    \/ \E r \in Requests : Actor(r) \/ Client(r)
    \/ Status
    \/ DrainActor
    \/ Tick

Spec == Init /\ [][Next]_vars

\* Calls are delivered, the clock runs, the reaper polls status() for ever, an
\* invocation has a timeout, and module code that is cancelled stops.  Module
\* code that is not cancelled need not stop.
Fairness ==
    /\ WF_vars(Tick)
    /\ WF_vars(Status)
    /\ \A r \in Requests :
        /\ WF_vars(TryReserve(r))
        /\ WF_vars(Execute(r))
        /\ WF_vars(CancelExecution(r))
        /\ WF_vars(r \in cancelling /\ FinishExecution(r))
        /\ WF_vars(ReceiveGrant(r))
        /\ WF_vars(RequestCancellation(r))

FairSpec == Spec /\ Fairness

-----------------------------------------------------------------------------
(* Refinement of LeaseSlots *)

Claimed == {r \in Requests : lease[r] = "RESERVED"}
Working == {r \in Requests : lease[r] = "RUNNING"}

Slots == INSTANCE LeaseSlots
            WITH claimed <- Claimed, working <- Working, closed <- actor_draining

-----------------------------------------------------------------------------
(* Properties *)

\* Every variable keeps its type; active_io never goes negative, so nothing is
\* released that was not held (admission.py 154-161).
TypeOK ==
    /\ active_io \in Nat
    /\ actor_draining \in BOOLEAN
    /\ lease \in [Requests -> LeaseStates]
    /\ ttl \in [Requests -> 0..LeaseTtl]
    /\ idle_for \in {NotIdle} \cup 0..IdleCap
    /\ executions \subseteq Requests
    /\ cancelling \subseteq executions
    /\ calls \in [Requests -> SUBSET CallKinds]
    /\ replies \in [Requests -> SUBSET ReplyKinds]
    /\ client \in [Requests -> ClientStates]

\* However reservations, expiry, cancellation and completion interleave, each
\* lease in the table is counted exactly once (no slot leaks and none is
\* released twice), and the table never exceeds max_io.
CapacityExact ==
    /\ active_io = Cardinality(Held)
    /\ active_io <= MaxIo

\* A RUNNING lease always has its task in _executions and a task always has its
\* lease: cancel_execution can reach every execution, and expiry or
\* cancel_reservation never takes the slot of work in progress.
TaskOwnsLease == \A r \in Requests : lease[r] = "RUNNING" <=> r \in executions

\* idle_since is set exactly when no lease is held: the reaper's idle time is
\* never that of a busy actor, and an empty actor always becomes reapable.
IdleClockExact == idle_for = NotIdle <=> Held # {}

\* The three books an actor keeps of its work never disagree, in any order of
\* the calls: the counter that admits (active_io), the tasks that run
\* (_executions) and the clock by which the reaper retires it (idle_since).
BooksAgree == CapacityExact /\ TaskOwnsLease /\ IdleClockExact

\* Once the scheduler has a result, or the answer to its cancel_execution, the
\* request holds no slot and nothing of it runs, even if execute is still on
\* its way because the cancellation overtook it.
SettledHoldsNothing == \A r \in Requests : client[r] \in Settled => lease[r] = "ABSENT"

\* After drain_actor an actor with no lease never gets another one: the reaper
\* may kill it when status(), called after drain_actor, reports no lease.
DrainedStaysEmpty == [][actor_draining /\ Held = {} => Held' = {}]_vars

\* A running execution is never evicted: its lease disappears only in the step
\* that ends its task.
RunningIsNeverEvicted ==
    [][\A r \in Requests : lease[r] = "RUNNING" /\ lease'[r] # "RUNNING"
            => r \in executions /\ r \notin executions']_vars

\* Every lease is given back in the end, although its holder may have vanished
\* before it learned the lease, or its cancellation may arrive before execute.
LeasesAreReturned ==
    \A r \in Requests : lease[r] # "ABSENT" ~> lease[r] = "ABSENT"

\* The actor, seen by its lease table alone, is a bounded set of slots.
ImplementsLeaseSlots == Slots!Spec
=============================================================================
