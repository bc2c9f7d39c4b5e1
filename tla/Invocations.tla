----------------------------- MODULE Invocations -----------------------------
(***************************************************************************)
(* The invocations of one compute endpoint, from the row that records them *)
(* to the answer: begin_invocation, the submission queue of the profile, a *)
(* Ray task, finish_invocation with the pruning of the endpoint's history. *)
(* REST and gRPC follow the same steps.  The invocation of an IO endpoint  *)
(* records itself in the same way; its execution is ActorPool's.           *)
(*                                                                         *)
(* An invocation is its position in the order of started_at.  A finishing  *)
(* transaction reads what was committed when it selects the rows to prune, *)
(* and becomes visible when it commits.                                    *)
(***************************************************************************)
EXTENDS Integers, FiniteSets

CONSTANTS
    Count,         \* bound: invocations
    Limit,         \* compute_max_pending_per_profile
    Retentions,    \* values of EndpointInvocationPolicy.retention_count
    NoSemaphore

ASSUME InvocationsAssumption ==
    /\ Count \in Nat
    /\ Limit \in Nat \ {0}
    /\ Retentions \subseteq Nat \ {0} /\ Retentions # {}
    /\ NoSemaphore \notin Nat

Invocations == 1..Count
Semaphores == 0..Count

VARIABLES
    row,        \* Invocation.status, "none" before and "pruned" after
    retention,  \* the policy of the endpoint
    change,     \* the transaction that replaces it: the new number, the rows it deletes
    call,       \* where the handler of an invocation stands
    limit,      \* _compute_limits of the profile
    value,      \* value of each BoundedSemaphore
    task,       \* Ray task of an invocation
    lost        \* invocations whose handler ended without finish_invocation

vars == <<row, retention, change, call, limit, value, task, lost>>

Outcomes == {"SUCCEEDED", "FAILED", "TIMED_OUT", "CANCELLED"}
NotOutcome == "none"
NoChange == [to |-> 0, stale |-> {}]
Idle == [pc |-> "idle", semaphore |-> NoSemaphore, outcome |-> NotOutcome, stale |-> {}]

Init ==
    /\ row = [i \in Invocations |-> "none"]
    /\ retention \in Retentions
    /\ change = NoChange
    /\ call = [i \in Invocations |-> Idle]
    /\ limit = NoSemaphore
    /\ value = [s \in Semaphores |-> Limit]
    /\ task = [i \in Invocations |-> "none"]
    /\ lost = {}

At(i, pc) == call[i].pc = pc
Terminal == {i \in Invocations : row[i] \in Outcomes}

-----------------------------------------------------------------------------
(* The row, and the queue *)

BeginInvocation(i) ==
    /\ row[i] = "none"
    /\ \A j \in Invocations : j < i => row[j] # "none"
    /\ row' = [row EXCEPT ![i] = "RUNNING"]
    /\ call' = [call EXCEPT ![i].pc = "begun"]
    /\ UNCHANGED <<retention, change, limit, value, task, lost>>

Ended(i, outcome) ==
    call' = [call EXCEPT ![i] = [Idle EXCEPT !.pc = "finish", !.outcome = outcome]]

\* Semaphores that nobody refers to: the next one made is among them.
Unreferenced == Semaphores \ ({limit} \cup {call[i].semaphore : i \in Invocations})

\* setdefault: the semaphore of the profile, a new one if there is none.
EnterQueue(i) ==
    /\ At(i, "begun")
    /\ limit' = IF limit = NoSemaphore THEN CHOOSE s \in Unreferenced : TRUE ELSE limit
    /\ call' = [call EXCEPT ![i].pc = "queued", ![i].semaphore = limit']
    /\ UNCHANGED <<row, retention, change, value, task, lost>>

\* The profile, or Ray, cannot be had.
FailEarly(i) ==
    /\ At(i, "begun")
    /\ Ended(i, "FAILED")
    /\ UNCHANGED <<row, retention, change, limit, value, task, lost>>

Submit(i) ==
    /\ At(i, "queued")
    /\ value[call[i].semaphore] > 0
    /\ value' = [value EXCEPT ![call[i].semaphore] = @ - 1]
    /\ task' = [task EXCEPT ![i] = "running"]
    /\ call' = [call EXCEPT ![i].pc = "running"]
    /\ UNCHANGED <<row, retention, change, limit, lost>>

\* actor_queue_timeout_seconds have passed: PoolOverloadedError.
Overload(i) ==
    /\ At(i, "queued")
    /\ Ended(i, "FAILED")
    /\ UNCHANGED <<row, retention, change, limit, value, task, lost>>

\* Mutant: the semaphore the profile has now is released.
ReleaseCurrent(i) ==
    LET s == IF limit = NoSemaphore THEN call[i].semaphore ELSE limit
    IN  value' = [value EXCEPT ![s] = @ + 1]

Release(i) == value' = [value EXCEPT ![call[i].semaphore] = @ + 1]

\* Mutant: the semaphore is released by whoever leaves.
InterruptReleasing(i, outcome) ==
    /\ call[i].pc \in {"queued", "running"}
    /\ Release(i)
    /\ task' = [task EXCEPT ![i] = IF @ = "running" THEN "cancelled" ELSE @]
    /\ Ended(i, outcome)
    /\ UNCHANGED <<row, retention, change, limit, lost>>

\* Mutant: the task is left alone.
InterruptCallOnly(i, outcome) ==
    /\ \/ call[i].pc \in {"begun", "queued"} /\ UNCHANGED value
       \/ At(i, "running") /\ Release(i)
    /\ Ended(i, outcome)
    /\ UNCHANGED <<row, retention, change, limit, task, lost>>

\* Mutant: nothing is recorded.
InterruptUnrecorded(i, outcome) ==
    /\ \/ call[i].pc \in {"begun", "queued"} /\ UNCHANGED <<value, task>>
       \/ At(i, "running") /\ Release(i) /\ task' = [task EXCEPT ![i] = "cancelled"]
    /\ call' = [call EXCEPT ![i] = [Idle EXCEPT !.pc = "answered", !.outcome = outcome]]
    /\ UNCHANGED <<row, retention, change, limit, lost>>

\* The client goes away, or invocation_timeout_seconds have passed: ray.cancel
\* and release.
Interrupt(i, outcome) ==
    /\ \/ call[i].pc \in {"begun", "queued"} /\ UNCHANGED <<value, task>>
       \/ At(i, "running") /\ Release(i) /\ task' = [task EXCEPT ![i] = "cancelled"]
    /\ Ended(i, outcome)
    /\ UNCHANGED <<row, retention, change, limit, lost>>

\* Mutant: a result is taken also when its call has given up.
TaskReturnsLate(i, outcome) ==
    /\ task[i] # "none"
    /\ task' = [task EXCEPT ![i] = "none"]
    /\ IF At(i, "running") THEN Release(i) ELSE UNCHANGED value
    /\ Ended(i, outcome)
    /\ UNCHANGED <<row, retention, change, limit, lost>>

\* The task returned an outcome, raised, or was lost (max_retries = 0).
TaskReturns(i, outcome) ==
    /\ At(i, "running")
    /\ task' = [task EXCEPT ![i] = "none"]
    /\ Release(i)
    /\ Ended(i, outcome)
    /\ UNCHANGED <<row, retention, change, limit, lost>>

\* A cancelled task is killed (force = True), or ends before.
TaskKilled(i) ==
    /\ task[i] = "cancelled"
    /\ task' = [task EXCEPT ![i] = "none"]
    /\ UNCHANGED <<row, retention, change, call, limit, value, lost>>

-----------------------------------------------------------------------------
(* finish_invocation *)

\* Mutants: one row too many is stale; running rows are not spared.
StaleOffByOne(terminal, keep) ==
    {i \in terminal : Cardinality({j \in terminal : j >= i}) >= keep}
StaleRunning(terminal, keep) ==
    LET shown == {i \in Invocations : row[i] \notin {"none", "pruned"}}
    IN  {i \in shown : Cardinality({j \in shown : j > i}) >= keep}

\* _prune_endpoint_invocations: all but the newest.
Stale(terminal, keep) ==
    {i \in terminal : Cardinality({j \in terminal : j > i}) >= keep}

\* The row is written and the history read; nothing is visible yet.
WriteOutcome(i) ==
    /\ At(i, "finish")
    /\ call' = [call EXCEPT ![i].pc = "commit",
                            ![i].stale = Stale(Terminal \cup {i}, retention)]
    /\ UNCHANGED <<row, retention, change, limit, value, task, lost>>

CommitOutcome(i) ==
    /\ At(i, "commit")
    /\ row' = [j \in Invocations |->
                 IF j \in call[i].stale THEN "pruned" ELSE IF j = i THEN call[i].outcome ELSE row[j]]
    /\ call' = [call EXCEPT ![i] = [Idle EXCEPT !.pc = "answered", !.outcome = call[i].outcome]]
    /\ UNCHANGED <<retention, change, limit, value, task, lost>>

\* A cancellation outside the execution, or an error of the database: the
\* transaction is rolled back and nobody tries again.
LoseHandler(i) ==
    /\ call[i].pc \in {"begun", "finish", "commit"}
    /\ call' = [call EXCEPT ![i] = [Idle EXCEPT !.pc = "gone"]]
    /\ lost' = lost \cup {i}
    /\ UNCHANGED <<row, retention, change, limit, value, task>>

\* update_endpoint_invocation_policy: the flush that writes the policy locks
\* its row, then the rows to prune are selected and deleted.
SelectStale(n) ==
    /\ change.to = 0
    /\ n # retention
    /\ change' = [to |-> n, stale |-> Stale(Terminal, n)]
    /\ UNCHANGED <<row, retention, call, limit, value, task, lost>>

CommitRetention ==
    /\ change.to # 0
    /\ retention' = change.to
    /\ row' = [j \in Invocations |-> IF j \in change.stale THEN "pruned" ELSE row[j]]
    /\ change' = NoChange
    /\ UNCHANGED <<call, limit, value, task, lost>>

\* The request is cancelled, or the database fails it.
AbandonRetention ==
    /\ change.to # 0
    /\ change' = NoChange
    /\ UNCHANGED <<row, retention, call, limit, value, task, lost>>

-----------------------------------------------------------------------------
(* The scheduler and the manager *)

\* retire_profile forgets the semaphore, whoever holds its permits.
RetireProfile ==
    /\ limit # NoSemaphore
    /\ limit' = NoSemaphore
    /\ UNCHANGED <<row, retention, change, call, value, task, lost>>

\* The manager restarts: its handlers are gone and Ray ends its tasks.
Restart ==
    /\ \E i \in Invocations : call[i].pc \notin {"idle", "answered", "gone"}
    /\ lost' = lost \cup {i \in Invocations : row[i] = "RUNNING"}
    /\ call' = [i \in Invocations |->
                  IF call[i].pc \in {"idle", "answered"} THEN call[i] ELSE [Idle EXCEPT !.pc = "gone"]]
    /\ limit' = NoSemaphore
    /\ value' = [s \in Semaphores |-> Limit]
    /\ task' = [i \in Invocations |-> "none"]
    /\ change' = NoChange
    /\ UNCHANGED <<row, retention>>

-----------------------------------------------------------------------------
Handler(i) ==
    \/ EnterQueue(i) \/ FailEarly(i) \/ Submit(i) \/ Overload(i)
    \/ \E outcome \in {"TIMED_OUT", "CANCELLED"} : Interrupt(i, outcome)
    \/ \E outcome \in {"SUCCEEDED", "FAILED"} : TaskReturns(i, outcome)
    \/ WriteOutcome(i) \/ CommitOutcome(i)

Next ==
    \/ \E i \in Invocations : BeginInvocation(i) \/ Handler(i) \/ TaskKilled(i) \/ LoseHandler(i)
    \/ \E n \in Retentions : SelectStale(n)
    \/ CommitRetention
    \/ AbandonRetention
    \/ RetireProfile
    \/ Restart

Spec == Init /\ [][Next]_vars

\* A handler goes on: both waits have a timeout.
Fairness == \A i \in Invocations : WF_vars(Handler(i)) /\ WF_vars(TaskKilled(i))

FairSpec == Spec /\ Fairness

-----------------------------------------------------------------------------
(* Properties *)

Pcs == {"idle", "begun", "queued", "running", "finish", "commit", "answered", "gone"}
CallRecords == [pc : Pcs, semaphore : Semaphores \cup {NoSemaphore},
                outcome : Outcomes \cup {NotOutcome},
                stale : SUBSET Invocations]

\* Every variable keeps its type: no semaphore is released more often than it
\* was acquired, which a BoundedSemaphore answers with an error.
TypeOK ==
    /\ row \in [Invocations -> {"none", "RUNNING", "pruned"} \cup Outcomes]
    /\ retention \in Retentions
    /\ change \in [to : Retentions \cup {0}, stale : SUBSET Invocations]
    /\ call \in [Invocations -> CallRecords]
    /\ limit \in Semaphores \cup {NoSemaphore}
    /\ value \in [Semaphores -> 0..Limit]
    /\ task \in [Invocations -> {"none", "running", "cancelled"}]
    /\ lost \subseteq Invocations

Fewest == CHOOSE n \in Retentions : \A m \in Retentions : n <= m

Holders(s) == {i \in Invocations : At(i, "running") /\ call[i].semaphore = s}

\* A permit is held by exactly the calls whose task was submitted under it,
\* however a call leaves the queue, so no permit is lost and a semaphore never
\* admits more than "COMPUTE_MAX_PENDING_PER_PROFILE" (README.md 472-474).
PermitsAreExact ==
    \A s \in Semaphores : value[s] + Cardinality(Holders(s)) = Limit

\* "Cancelling or timing out a Compute invocation cancels its Ray ObjectRef"
\* (README.md 485): a task that runs on has a call that awaits it.
NoTaskWithoutCall == \A i \in Invocations : task[i] = "running" <=> At(i, "running")

\* The permits of a profile bound its running tasks: nothing runs without a
\* permit, or a permit without something that runs.
TasksArePermitted == PermitsAreExact /\ NoTaskWithoutCall

\* Whoever got an answer finds it in the history, unless newer invocations
\* pushed it out, and a row that is RUNNING has a handler or lost it.
AnswerIsRecorded ==
    \A i \in Invocations :
        /\ At(i, "answered") => row[i] \in {call[i].outcome, "pruned"}
        /\ row[i] = "RUNNING" => call[i].pc \notin {"idle", "answered"}
        /\ At(i, "gone") /\ row[i] # "pruned" => i \in lost /\ row[i] = "RUNNING"

\* An outcome is final; a result that comes late changes nothing.
OutcomeIsFinal ==
    [][\A i \in Invocations : row[i] \in Outcomes => row'[i] \in {row[i], "pruned"}]_vars

\* Pruning takes only "the oldest completed invocations without touching
\* running work" (README.md 507-509), also when transactions that prune
\* overlap and the policy changes between them: at least the smallest number
\* anybody asked to keep is left, and all of them are newer.
NewestAreKept ==
    [][\A i \in Invocations : row[i] # "pruned" /\ row'[i] = "pruned" =>
          /\ row[i] \in Outcomes \/ At(i, "commit")
          /\ Cardinality({j \in Invocations : j > i /\ row'[j] \in Outcomes}) >= Fewest]_vars

\* Every invocation ends as something, unless its handler was lost.
EveryInvocationEnds ==
    \A i \in Invocations : row[i] = "RUNNING" ~> (row[i] # "RUNNING" \/ i \in lost)
=============================================================================
