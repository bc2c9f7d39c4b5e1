-------------------------- MODULE InvocationsProofs --------------------------
(***************************************************************************)
(* An invocation, for any number of them, any limits and any printed text. *)
(* Invocations: a semaphore that nobody refers to has all its permits, so  *)
(* the one made after a retirement starts full; a row follows the call     *)
(* that handles it until the answer; what a transaction selected for       *)
(* pruning was over before it began, and enough newer rows outlast it.     *)
(* OutputCapture: a buffer keeps its limit and its chunks, and what is in  *)
(* it was printed by its call or replayed from the outcome of a callee.    *)
(***************************************************************************)
EXTENDS Invocations, OutputCapture, FiniteSetTheorems, WellFoundedInduction, SequenceTheorems, TLAPS

InHandler == {"begun", "queued", "running", "finish", "commit"}

\* A call refers to a semaphore while it waits for it or holds a permit of it.
SemaphoreOfCall ==
    \A i \in Invocations :
        call[i].pc \in {"queued", "running"} <=> call[i].semaphore # NoSemaphore

\* The row of an invocation is RUNNING from its first transaction to its last,
\* and for ever if its handler is lost between them.
RowFollowsCall ==
    \A i \in Invocations :
        /\ At(i, "idle") <=> row[i] = "none"
        /\ call[i].pc \in InHandler \cup {"gone"} => row[i] = "RUNNING"
        /\ call[i].pc \in {"finish", "commit", "answered"} => call[i].outcome \in Outcomes
        /\ At(i, "answered") => row[i] \in {call[i].outcome, "pruned"}
        /\ At(i, "gone") => i \in lost

\* What a transaction is about to prune is its own row or one that is over.
StaleIsOver ==
    /\ \A i \in Invocations : At(i, "commit") =>
          \A j \in call[i].stale : j = i \/ row[j] \in Outcomes \cup {"pruned"}
    /\ \A j \in change.stale : row[j] \in Outcomes \cup {"pruned"}

\* However many transactions pruned since it was selected, each row that a
\* transaction is about to prune still has enough newer rows, its own among them.
Newer(A, x) == {j \in A : j > x}
EnoughAreNewer ==
    /\ \A i \in Invocations : At(i, "commit") =>
          \A x \in call[i].stale : Cardinality(Newer(Terminal \cup {i}, x)) >= Fewest
    /\ \A x \in change.stale : Cardinality(Newer(Terminal, x)) >= Fewest

Permits == TypeOK /\ SemaphoreOfCall /\ PermitsAreExact /\ NoTaskWithoutCall
History == RowFollowsCall /\ StaleIsOver
IInv == Permits /\ History /\ EnoughAreNewer

-----------------------------------------------------------------------------
(* Permits *)

\* CallRecords are records of these four fields, and stay so when one is replaced.
LEMMA CallTyped ==
  ASSUME TypeOK, NEW i \in Invocations, NEW p \in Pcs,
         NEW s \in Semaphores \cup {NoSemaphore}, NEW stale \in SUBSET Invocations
  PROVE  /\ [call EXCEPT ![i].pc = p, ![i].semaphore = s] \in [Invocations -> CallRecords]
         /\ [call EXCEPT ![i].pc = p, ![i].stale = stale] \in [Invocations -> CallRecords]
<1>1. call[i] \in CallRecords
  BY DEF TypeOK
<1>2. [call[i] EXCEPT !.pc = p, !.semaphore = s] \in CallRecords
  BY <1>1 DEF CallRecords
<1>3. [call[i] EXCEPT !.pc = p, !.stale = stale] \in CallRecords
  BY <1>1 DEF CallRecords
<1> QED
  BY <1>2, <1>3 DEF TypeOK

LEMMA HoldersFinite ==
  ASSUME NEW s
  PROVE  IsFiniteSet(Holders(s)) /\ Cardinality(Holders(s)) \in Nat
<1>1. IsFiniteSet(Invocations)
  BY InvocationsAssumption, FS_Interval DEF Invocations
<1>2. Holders(s) \in SUBSET Invocations
  BY DEF Holders
<1> QED
  BY <1>1, <1>2, FS_Subset, FS_CardinalityType

\* There is always a semaphore that nobody refers to.
LEMMA SemaphoreLeft ==
  ASSUME TypeOK, limit = NoSemaphore, NEW i \in Invocations, call[i].semaphore = NoSemaphore
  PROVE  Unreferenced # {}
<1> DEFINE Used == {call[j].semaphore : j \in Invocations}
           f == [j \in Invocations |-> call[j].semaphore]
<1>1. IsFiniteSet(Invocations) /\ Cardinality(Invocations) = Count
  <2>1. Count \in Nat /\ 1 \in Int /\ Count \in Int
    BY InvocationsAssumption
  <2>2. /\ IsFiniteSet(1..Count)
        /\ Cardinality(1..Count) = IF 1 > Count THEN 0 ELSE Count - 1 + 1
    BY <2>1, FS_Interval
  <2> QED
    BY <2>1, <2>2 DEF Invocations
<1>2. f \in Surjection(Invocations, Used)
  BY DEF Surjection
<1>3. IsFiniteSet(Used) /\ Cardinality(Used) <= Count
  BY <1>1, <1>2, FS_Surjection
<1>4. IsFiniteSet(Semaphores) /\ Cardinality(Semaphores) = Count + 1
  <2>1. Count \in Nat /\ 0 \in Int /\ Count \in Int
    BY InvocationsAssumption
  <2>2. /\ IsFiniteSet(0..Count)
        /\ Cardinality(0..Count) = IF 0 > Count THEN 0 ELSE Count - 0 + 1
    BY <2>1, FS_Interval
  <2> QED
    BY <2>1, <2>2 DEF Semaphores
<1>5. ~(Semaphores \subseteq Used)
  <2>1. SUFFICES ASSUME Semaphores \subseteq Used PROVE FALSE
    OBVIOUS
  <2>2. Cardinality(Semaphores) <= Cardinality(Used)
    BY <1>3, <2>1, FS_Subset
  <2>3. Cardinality(Used) \in Nat
    BY <1>3, FS_CardinalityType
  <2> QED
    BY <1>3, <1>4, <2>2, <2>3, InvocationsAssumption
<1>6. NoSemaphore \notin Semaphores
  BY InvocationsAssumption DEF Semaphores
<1> QED
  BY <1>5, <1>6 DEF Unreferenced

\* A step that changes no permit and no task.
LEMMA NoPermitMoves ==
  ASSUME Permits, TypeOK', SemaphoreOfCall', UNCHANGED value,
         \A j \in Invocations : (At(j, "running"))' <=> At(j, "running"),
         \A j \in Invocations : At(j, "running") => call'[j].semaphore = call[j].semaphore,
         \A j \in Invocations : task'[j] = "running" <=> task[j] = "running"
  PROVE  Permits'
<1>1. \A s \in Semaphores : (Holders(s))' = Holders(s)
  BY DEF Holders
<1> QED
  BY <1>1 DEF Permits, PermitsAreExact, NoTaskWithoutCall

\* A call takes a permit of the semaphore it waits for.
LEMMA SubmitKeepsPermits ==
  ASSUME Permits, NEW i \in Invocations, Submit(i)
  PROVE  Permits'
<1> USE InvocationsAssumption DEF Permits
<1>0. call[i].semaphore \in Semaphores
  BY DEF Submit, TypeOK, CallRecords, SemaphoreOfCall, At
<1> PICK s \in Semaphores : s = call[i].semaphore
  BY <1>0
<1>1. At(i, "queued") /\ value[s] > 0
  BY DEF Submit
<1>2. value' = [value EXCEPT ![s] = @ - 1] /\ task' = [task EXCEPT ![i] = "running"]
      /\ call' = [call EXCEPT ![i].pc = "running"]
  BY DEF Submit
<1>3. call' \in [Invocations -> CallRecords]
  BY <1>2 DEF TypeOK, CallRecords, Pcs
<1>4. value' \in [Semaphores -> 0..Limit]
  BY <1>1, <1>2 DEF TypeOK
<1>5. TypeOK'
  BY <1>2, <1>3, <1>4 DEF TypeOK, Submit
<1>6. SemaphoreOfCall' /\ NoTaskWithoutCall'
  BY <1>1, <1>2 DEF SemaphoreOfCall, NoTaskWithoutCall, At, TypeOK, CallRecords
<1>7. /\ (Holders(s))' = Holders(s) \cup {i} /\ i \notin Holders(s)
      /\ \A z \in Semaphores \ {s} : (Holders(z))' = Holders(z)
  BY <1>1, <1>2 DEF Holders, At, TypeOK, CallRecords
<1>8. Cardinality(Holders(s) \cup {i}) = Cardinality(Holders(s)) + 1
  BY <1>7, HoldersFinite, FS_AddElement
<1>9. PermitsAreExact'
  <2> SUFFICES ASSUME NEW z \in Semaphores
               PROVE  value'[z] + Cardinality((Holders(z))') = Limit
    BY DEF PermitsAreExact
  <2>1. CASE z = s
    BY <2>1, <1>1, <1>2, <1>7, <1>8, HoldersFinite DEF PermitsAreExact, TypeOK
  <2>2. CASE z # s
    BY <2>2, <1>2, <1>7 DEF PermitsAreExact, TypeOK
  <2> QED
    BY <2>1, <2>2
<1> QED
  BY <1>5, <1>6, <1>9

\* A call that ran gives its permit back to the semaphore it came from, and its
\* task has ended or is cancelled.
LEMMA ReleaseKeepsPermits ==
  ASSUME Permits, NEW i \in Invocations, At(i, "running"), NEW outcome \in Outcomes,
         NEW t \in {"none", "cancelled"},
         Release(i), Ended(i, outcome), task' = [task EXCEPT ![i] = t],
         UNCHANGED <<row, retention, change, limit, lost>>
  PROVE  Permits'
<1> USE InvocationsAssumption DEF Permits
<1>1. call[i].semaphore \in Semaphores
  BY DEF TypeOK, CallRecords, SemaphoreOfCall, At
<1> PICK s \in Semaphores : s = call[i].semaphore
  BY <1>1
<1>2. value' = [value EXCEPT ![s] = @ + 1]
  BY DEF Release
<1>3. call' = [call EXCEPT ![i] = [Idle EXCEPT !.pc = "finish", !.outcome = outcome]]
  BY DEF Ended
<1>4. [Idle EXCEPT !.pc = "finish", !.outcome = outcome] \in CallRecords
  BY DEF Idle, CallRecords, Pcs
<1>5. call' \in [Invocations -> CallRecords]
  BY <1>3, <1>4 DEF TypeOK
<1>6. /\ (Holders(s))' = Holders(s) \ {i} /\ i \in Holders(s)
      /\ \A z \in Semaphores \ {s} : (Holders(z))' = Holders(z)
  BY <1>1, <1>3 DEF Holders, At, TypeOK, CallRecords, Idle
<1>7. Cardinality(Holders(s) \ {i}) = Cardinality(Holders(s)) - 1
  <2>1. IsFiniteSet(Holders(s)) /\ i \in Holders(s)
    BY <1>6, HoldersFinite
  <2> QED
    BY <2>1, FS_RemoveElement, Zenon
<1>8. Cardinality(Holders(s) \ {i}) \in Nat
  BY HoldersFinite, FS_RemoveElement, FS_CardinalityType
<1>9. value[s] + Cardinality(Holders(s)) = Limit /\ value[s] \in 0..Limit
  BY <1>1 DEF PermitsAreExact, TypeOK
<1>10. value' \in [Semaphores -> 0..Limit]
  <2>1. value[s] + 1 \in 0..Limit
    BY <1>7, <1>8, <1>9, HoldersFinite
  <2> QED
    BY <2>1, <1>2 DEF TypeOK
<1>11. TypeOK'
  BY <1>5, <1>10 DEF TypeOK
<1>12. SemaphoreOfCall' /\ NoTaskWithoutCall'
  BY <1>3 DEF SemaphoreOfCall, NoTaskWithoutCall, At, TypeOK, CallRecords, Idle
<1>13. PermitsAreExact'
  <2> SUFFICES ASSUME NEW z \in Semaphores
               PROVE  value'[z] + Cardinality((Holders(z))') = Limit
    BY DEF PermitsAreExact
  <2>1. CASE z = s
    BY <2>1, <1>2, <1>6, <1>7, <1>9, HoldersFinite DEF TypeOK
  <2>2. CASE z # s
    BY <2>2, <1>2, <1>6 DEF PermitsAreExact, TypeOK
  <2> QED
    BY <2>1, <2>2
<1> QED
  BY <1>11, <1>12, <1>13

\* A call leaves the queue, or never comes to it, without a permit.
LEMMA LeaveQueueKeepsPermits ==
  ASSUME Permits, NEW i \in Invocations, call[i].pc \in {"begun", "queued"}, NEW outcome \in Outcomes,
         Ended(i, outcome), UNCHANGED <<row, retention, change, limit, value, task, lost>>
  PROVE  Permits'
<1> USE DEF Permits
<1>1. call' = [call EXCEPT ![i] = [Idle EXCEPT !.pc = "finish", !.outcome = outcome]]
  BY DEF Ended
<1>2. [Idle EXCEPT !.pc = "finish", !.outcome = outcome] \in CallRecords
  BY DEF Idle, CallRecords, Pcs
<1>3. TypeOK'
  BY <1>1, <1>2 DEF TypeOK
<1>4. SemaphoreOfCall'
  BY <1>1 DEF SemaphoreOfCall, TypeOK, CallRecords, Idle
<1>5. /\ \A j \in Invocations : (At(j, "running"))' <=> At(j, "running")
      /\ \A j \in Invocations : At(j, "running") => call'[j].semaphore = call[j].semaphore
  BY <1>1 DEF At, TypeOK, CallRecords, Idle
<1> QED
  BY <1>3, <1>4, <1>5, NoPermitMoves

\* No permit is held at the start.
LEMMA InitPermits == Init => Permits
<1> SUFFICES ASSUME Init PROVE Permits
  OBVIOUS
<1> USE InvocationsAssumption DEF Init
<1>1. Idle \in CallRecords /\ Idle.pc = "idle" /\ Idle.semaphore = NoSemaphore
  BY DEF Idle, CallRecords, Pcs
<1>2. TypeOK
  BY <1>1 DEF TypeOK, NoChange
<1>3. SemaphoreOfCall /\ NoTaskWithoutCall
  BY <1>1 DEF SemaphoreOfCall, NoTaskWithoutCall, At
<1>4. PermitsAreExact
  <2>1. \A s : Holders(s) = {}
    BY <1>1 DEF Holders, At
  <2> QED
    BY <2>1, FS_EmptySet DEF PermitsAreExact
<1> QED
  BY <1>2, <1>3, <1>4 DEF Permits

\* Every step keeps the permits: only Submit, TaskReturns and Interrupt move
\* one, and a restart gives all back.
LEMMA NextPermits == IInv /\ [Next]_vars => Permits'
<1> SUFFICES ASSUME IInv, [Next]_vars PROVE Permits'
  OBVIOUS
<1> USE InvocationsAssumption DEF IInv, History
<1>1. CASE UNCHANGED vars
  BY <1>1 DEF vars, Permits, TypeOK, SemaphoreOfCall, PermitsAreExact, NoTaskWithoutCall,
              Holders, At
<1>2. ASSUME NEW i \in Invocations, BeginInvocation(i) PROVE Permits'
  <2>1. /\ row' = [row EXCEPT ![i] = "RUNNING"] /\ call' = [call EXCEPT ![i].pc = "begun"]
        /\ UNCHANGED <<retention, change, limit, value, task, lost>> /\ call[i].pc = "idle"
    BY <1>2 DEF BeginInvocation, RowFollowsCall, At
  <2>2. call' \in [Invocations -> CallRecords]
    <3>1. call \in [Invocations -> CallRecords]
      BY DEF Permits, TypeOK
    <3>2. [call[i] EXCEPT !.pc = "begun"] \in CallRecords
      <4> HIDE DEF IInv, History
      <4> QED
        BY <3>1 DEF CallRecords, Pcs
    <3> HIDE DEF IInv, History
    <3> QED
      BY <2>1, <3>1, <3>2
  <2>3. TypeOK'
    BY <2>1, <2>2 DEF Permits, TypeOK
  <2>4. SemaphoreOfCall'
    BY <2>1 DEF Permits, SemaphoreOfCall, TypeOK, CallRecords
  <2>5. /\ \A j \in Invocations : (At(j, "running"))' <=> At(j, "running")
        /\ \A j \in Invocations : At(j, "running") => call'[j].semaphore = call[j].semaphore
    BY <2>1 DEF At, Permits, TypeOK, CallRecords
  <2> QED
    BY <2>1, <2>3, <2>4, <2>5, NoPermitMoves
<1>3. ASSUME NEW i \in Invocations, EnterQueue(i) PROVE Permits'
  <2>1. /\ limit' = IF limit = NoSemaphore THEN CHOOSE s \in Unreferenced : TRUE ELSE limit
        /\ call' = [call EXCEPT ![i].pc = "queued", ![i].semaphore = limit']
        /\ UNCHANGED <<row, retention, change, value, task, lost>> /\ call[i].pc = "begun"
    BY <1>3 DEF EnterQueue, At
  <2>2. limit' \in Semaphores
    <3>1. CASE limit = NoSemaphore
      <4>1. Unreferenced # {}
        BY <3>1, <2>1, SemaphoreLeft DEF Permits, SemaphoreOfCall
      <4> QED
        BY <3>1, <2>1, <4>1 DEF Unreferenced
    <3>2. CASE limit # NoSemaphore
      BY <3>2, <2>1 DEF Permits, TypeOK
    <3> QED
      BY <3>1, <3>2
  <2>3. limit' # NoSemaphore
    BY <2>2 DEF Semaphores
  <2>4. call' \in [Invocations -> CallRecords]
    <3>1. PICK z \in Semaphores : z = limit'
      BY <2>2
    <3>2. "queued" \in Pcs
      BY DEF Pcs
    <3> QED
      BY <2>1, <3>1, <3>2, CallTyped DEF Permits
  <2>5. TypeOK'
    BY <2>1, <2>2, <2>4 DEF Permits, TypeOK
  <2>6. SemaphoreOfCall'
    BY <2>1, <2>3 DEF Permits, SemaphoreOfCall, TypeOK, CallRecords
  <2>7. /\ \A j \in Invocations : (At(j, "running"))' <=> At(j, "running")
        /\ \A j \in Invocations : At(j, "running") => call'[j].semaphore = call[j].semaphore
    BY <2>1 DEF At, Permits, TypeOK, CallRecords
  <2> QED
    BY <2>1, <2>5, <2>6, <2>7, NoPermitMoves
<1>4. ASSUME NEW i \in Invocations, Submit(i) PROVE Permits'
  BY <1>4, SubmitKeepsPermits
<1>5. ASSUME NEW i \in Invocations, Overload(i) \/ FailEarly(i) PROVE Permits'
  BY <1>5, LeaveQueueKeepsPermits DEF Overload, FailEarly, Outcomes, At
<1>6. ASSUME NEW i \in Invocations, NEW outcome \in {"TIMED_OUT", "CANCELLED"}, Interrupt(i, outcome)
      PROVE Permits'
  <2>1. outcome \in Outcomes
    BY DEF Outcomes
  <2>2. CASE call[i].pc \in {"begun", "queued"} /\ UNCHANGED <<value, task>>
    BY <1>6, <2>1, <2>2, LeaveQueueKeepsPermits DEF Interrupt
  <2>3. CASE At(i, "running") /\ Release(i) /\ task' = [task EXCEPT ![i] = "cancelled"]
    BY <1>6, <2>1, <2>3, ReleaseKeepsPermits DEF Interrupt
  <2> QED
    BY <1>6, <2>2, <2>3 DEF Interrupt
<1>7. ASSUME NEW i \in Invocations, NEW outcome \in {"SUCCEEDED", "FAILED"}, TaskReturns(i, outcome)
      PROVE Permits'
  <2>1. outcome \in Outcomes
    BY DEF Outcomes
  <2> QED
    BY <1>7, <2>1, ReleaseKeepsPermits DEF TaskReturns
<1>8. ASSUME NEW i \in Invocations, TaskKilled(i) PROVE Permits'
  <2>1. /\ task[i] = "cancelled" /\ task' = [task EXCEPT ![i] = "none"]
        /\ UNCHANGED <<row, retention, change, call, limit, value, lost>>
    BY <1>8 DEF TaskKilled
  <2>2. TypeOK' /\ SemaphoreOfCall'
    BY <2>1 DEF Permits, TypeOK, SemaphoreOfCall
  <2>3. \A j \in Invocations : task'[j] = "running" <=> task[j] = "running"
    BY <2>1 DEF Permits, TypeOK
  <2> QED
    BY <2>1, <2>2, <2>3, NoPermitMoves DEF At
<1>9. ASSUME NEW i \in Invocations, WriteOutcome(i) PROVE Permits'
  <2>1. PICK stale \in SUBSET Invocations :
          /\ call' = [call EXCEPT ![i].pc = "commit", ![i].stale = stale]
          /\ UNCHANGED <<row, retention, change, limit, value, task, lost>> /\ call[i].pc = "finish"
    BY <1>9 DEF WriteOutcome, Stale, Terminal, At
  <2>2. call' \in [Invocations -> CallRecords]
    BY <2>1, CallTyped DEF Permits, Pcs
  <2>3. TypeOK'
    BY <2>1, <2>2 DEF Permits, TypeOK
  <2>4. SemaphoreOfCall'
    BY <2>1 DEF Permits, SemaphoreOfCall, TypeOK, CallRecords
  <2>5. /\ \A j \in Invocations : (At(j, "running"))' <=> At(j, "running")
        /\ \A j \in Invocations : At(j, "running") => call'[j].semaphore = call[j].semaphore
    BY <2>1 DEF At, Permits, TypeOK, CallRecords
  <2> QED
    BY <2>1, <2>3, <2>4, <2>5, NoPermitMoves
<1>10. ASSUME NEW i \in Invocations, CommitOutcome(i) PROVE Permits'
  <2>1. /\ row' = [j \in Invocations |->
                     IF j \in call[i].stale THEN "pruned"
                     ELSE IF j = i THEN call[i].outcome ELSE row[j]]
        /\ call' = [call EXCEPT ![i] = [Idle EXCEPT !.pc = "answered", !.outcome = call[i].outcome]]
        /\ UNCHANGED <<retention, change, limit, value, task, lost>> /\ call[i].pc = "commit"
    BY <1>10 DEF CommitOutcome, At
  <2>2. call[i].outcome \in Outcomes
    BY <2>1 DEF RowFollowsCall
  <2>3. [Idle EXCEPT !.pc = "answered", !.outcome = call[i].outcome] \in CallRecords
    BY <2>2 DEF Idle, CallRecords, Pcs
  <2>4. TypeOK'
    BY <2>1, <2>2, <2>3 DEF Permits, TypeOK
  <2>5. SemaphoreOfCall'
    BY <2>1 DEF Permits, SemaphoreOfCall, TypeOK, CallRecords, Idle
  <2>6. /\ \A j \in Invocations : (At(j, "running"))' <=> At(j, "running")
        /\ \A j \in Invocations : At(j, "running") => call'[j].semaphore = call[j].semaphore
    BY <2>1 DEF At, Permits, TypeOK, CallRecords, Idle
  <2> QED
    BY <2>1, <2>4, <2>5, <2>6, NoPermitMoves
<1>11. ASSUME NEW i \in Invocations, LoseHandler(i) PROVE Permits'
  <2>1. /\ call[i].pc \in {"begun", "finish", "commit"}
        /\ call' = [call EXCEPT ![i] = [Idle EXCEPT !.pc = "gone"]] /\ lost' = lost \cup {i}
        /\ UNCHANGED <<row, retention, change, limit, value, task>>
    BY <1>11 DEF LoseHandler
  <2>2. [Idle EXCEPT !.pc = "gone"] \in CallRecords
    BY DEF Idle, CallRecords, Pcs
  <2>3. TypeOK'
    BY <2>1, <2>2 DEF Permits, TypeOK
  <2>4. SemaphoreOfCall'
    BY <2>1 DEF Permits, SemaphoreOfCall, TypeOK, CallRecords, Idle
  <2>5. /\ \A j \in Invocations : (At(j, "running"))' <=> At(j, "running")
        /\ \A j \in Invocations : At(j, "running") => call'[j].semaphore = call[j].semaphore
    BY <2>1 DEF At, Permits, TypeOK, CallRecords, Idle
  <2> QED
    BY <2>1, <2>3, <2>4, <2>5, NoPermitMoves
<1>12. CASE CommitRetention
  <2>1. /\ retention' = change.to /\ change' = NoChange /\ UNCHANGED <<call, limit, value, task, lost>>
        /\ row' = [j \in Invocations |-> IF j \in change.stale THEN "pruned" ELSE row[j]]
        /\ change.to # 0
    BY <1>12 DEF CommitRetention
  <2>2. TypeOK' /\ SemaphoreOfCall'
    BY <2>1 DEF Permits, TypeOK, SemaphoreOfCall, NoChange
  <2> QED
    BY <2>1, <2>2, NoPermitMoves DEF At
<1>15. ASSUME NEW n \in Retentions, SelectStale(n) PROVE Permits'
  <2>1. PICK stale \in SUBSET Invocations :
          change' = [to |-> n, stale |-> stale] /\ UNCHANGED <<row, retention, call, limit, value, task, lost>>
    BY <1>15 DEF SelectStale, Stale, Terminal
  <2>2. TypeOK' /\ SemaphoreOfCall'
    BY <2>1 DEF Permits, TypeOK, SemaphoreOfCall
  <2> QED
    BY <2>1, <2>2, NoPermitMoves DEF At
<1>16. CASE AbandonRetention
  <2>1. change' = NoChange /\ UNCHANGED <<row, retention, call, limit, value, task, lost>>
    BY <1>16 DEF AbandonRetention
  <2>2. TypeOK' /\ SemaphoreOfCall'
    BY <2>1 DEF Permits, TypeOK, SemaphoreOfCall, NoChange
  <2> QED
    BY <2>1, <2>2, NoPermitMoves DEF At
<1>13. CASE RetireProfile
  <2>1. limit' = NoSemaphore /\ UNCHANGED <<row, retention, change, call, value, task, lost>>
    BY <1>13 DEF RetireProfile
  <2>2. TypeOK' /\ SemaphoreOfCall'
    BY <2>1 DEF Permits, TypeOK, SemaphoreOfCall
  <2> QED
    BY <2>1, <2>2, NoPermitMoves DEF At
<1>14. CASE Restart
  <2>1. /\ lost' = lost \cup {i \in Invocations : row[i] = "RUNNING"}
        /\ call' = [i \in Invocations |->
                      IF call[i].pc \in {"idle", "answered"} THEN call[i]
                      ELSE [Idle EXCEPT !.pc = "gone"]]
        /\ limit' = NoSemaphore /\ value' = [s \in Semaphores |-> Limit]
        /\ task' = [i \in Invocations |-> "none"] /\ change' = NoChange /\ UNCHANGED <<row, retention>>
    BY <1>14 DEF Restart
  <2>2. [Idle EXCEPT !.pc = "gone"] \in CallRecords
    BY DEF Idle, CallRecords, Pcs
  <2>3. TypeOK'
    BY <2>1, <2>2 DEF Permits, TypeOK, NoChange
  <2>4. SemaphoreOfCall' /\ NoTaskWithoutCall'
    BY <2>1 DEF Permits, SemaphoreOfCall, NoTaskWithoutCall, At, TypeOK, CallRecords, Idle
  <2>5. \A s \in Semaphores : (Holders(s))' = {}
    BY <2>1 DEF Holders, At, Idle
  <2>6. PermitsAreExact'
    <3>1. Cardinality({}) = 0
      BY FS_EmptySet
    <3>2. \A s \in Semaphores : value'[s] = Limit
      BY <2>1
    <3>3. Limit + 0 = Limit
      OBVIOUS
    <3> QED
      BY <2>5, <3>1, <3>2, <3>3 DEF PermitsAreExact
  <2> QED
    BY <2>3, <2>4, <2>6 DEF Permits
<1> QED
  BY <1>1, <1>2, <1>3, <1>4, <1>5, <1>6, <1>7, <1>8, <1>9, <1>10, <1>11, <1>12, <1>13, <1>14,
     <1>15, <1>16
  DEF Next, Handler

-----------------------------------------------------------------------------
(* The history *)

\* Nothing is recorded at the start.
LEMMA InitHistory == Init => History
  BY DEF Init, History, RowFollowsCall, StaleIsOver, At, Idle, NoChange, InHandler

\* A step of one handler that leaves the rows alone.
LEMMA HandlerKeepsHistory ==
  ASSUME Permits, History, NEW i \in Invocations, NEW c \in CallRecords,
         call' = [call EXCEPT ![i] = c], row' = row, change' = change, lost \subseteq lost',
         call[i].pc \in InHandler, c.pc \in InHandler \cup {"gone"},
         c.pc \in {"finish", "commit"} => c.outcome \in Outcomes,
         c.pc = "commit" => \A j \in c.stale : j = i \/ row[j] \in Outcomes \cup {"pruned"},
         c.pc = "gone" => i \in lost'
  PROVE  History'
<1>1. RowFollowsCall'
  BY DEF Permits, TypeOK, History, RowFollowsCall, At, InHandler
<1>2. StaleIsOver'
  BY DEF Permits, TypeOK, History, StaleIsOver, At
<1> QED
  BY <1>1, <1>2 DEF History

\* Every step keeps the history.
LEMMA NextHistory == IInv /\ [Next]_vars => History'
<1> SUFFICES ASSUME IInv, [Next]_vars PROVE History'
  OBVIOUS
<1> USE InvocationsAssumption DEF IInv
<1>0. \A i \in Invocations : call[i] \in CallRecords
  BY DEF Permits, TypeOK
<1>1. CASE UNCHANGED vars
  BY <1>1 DEF vars, History, RowFollowsCall, StaleIsOver, At
<1>2. ASSUME NEW i \in Invocations, BeginInvocation(i) PROVE History'
  <2>1. /\ row' = [row EXCEPT ![i] = "RUNNING"] /\ call' = [call EXCEPT ![i].pc = "begun"]
        /\ change' = change /\ lost' = lost /\ row[i] = "none"
    BY <1>2 DEF BeginInvocation
  <2>2. RowFollowsCall'
    BY <2>1 DEF Permits, TypeOK, CallRecords, History, RowFollowsCall, At, InHandler
  <2>3. StaleIsOver'
    BY <2>1 DEF Permits, TypeOK, CallRecords, History, StaleIsOver, At, Outcomes
  <2> QED
    BY <2>2, <2>3 DEF History
<1>3. ASSUME NEW i \in Invocations, EnterQueue(i) PROVE History'
  <2>1. PICK s : s = limit'
    OBVIOUS
  <2>2. /\ call' = [call EXCEPT ![i].pc = "queued", ![i].semaphore = s]
        /\ row' = row /\ change' = change /\ lost' = lost /\ call[i].pc = "begun"
    BY <1>3, <2>1 DEF EnterQueue, At
  <2>3. RowFollowsCall'
    BY <2>2 DEF Permits, TypeOK, CallRecords, History, RowFollowsCall, At, InHandler
  <2>4. StaleIsOver'
    BY <2>2 DEF Permits, TypeOK, CallRecords, History, StaleIsOver, At
  <2> QED
    BY <2>3, <2>4 DEF History
<1>4. ASSUME NEW i \in Invocations, Submit(i) PROVE History'
  <2>1. /\ call' = [call EXCEPT ![i].pc = "running"] /\ call[i].pc = "queued"
        /\ row' = row /\ change' = change /\ lost' = lost
    BY <1>4 DEF Submit, At
  <2>2. RowFollowsCall'
    BY <2>1 DEF Permits, TypeOK, CallRecords, History, RowFollowsCall, At, InHandler
  <2>3. StaleIsOver'
    BY <2>1 DEF Permits, TypeOK, CallRecords, History, StaleIsOver, At
  <2> QED
    BY <2>2, <2>3 DEF History
<1>5. ASSUME NEW i \in Invocations, NEW outcome \in Outcomes, Ended(i, outcome),
             row' = row, change' = change, lost' = lost,
             call[i].pc \in {"begun", "queued", "running"}
      PROVE History'
  <2>1. PICK c \in CallRecords : c = [Idle EXCEPT !.pc = "finish", !.outcome = outcome]
    BY DEF Idle, CallRecords, Pcs
  <2>2. call' = [call EXCEPT ![i] = c] /\ c.pc = "finish" /\ c.outcome = outcome
    BY <1>5, <2>1 DEF Ended, Idle
  <2> QED
    BY <1>5, <2>1, <2>2, HandlerKeepsHistory DEF InHandler
<1>6. ASSUME NEW i \in Invocations, TaskKilled(i) PROVE History'
  BY <1>6 DEF TaskKilled, History, RowFollowsCall, StaleIsOver, At
<1>7. ASSUME NEW i \in Invocations, WriteOutcome(i) PROVE History'
  <2>1. Stale(Terminal \cup {i}, retention) \in SUBSET Invocations
    BY DEF Stale, Terminal
  <2>2. PICK stale \in SUBSET Invocations : stale = Stale(Terminal \cup {i}, retention)
    BY <2>1
  <2>3. \A j \in stale : j = i \/ row[j] \in Outcomes
    BY <2>2 DEF Stale, Terminal
  <2>4. /\ call' = [call EXCEPT ![i].pc = "commit", ![i].stale = stale]
        /\ row' = row /\ change' = change /\ lost' = lost /\ call[i].pc = "finish"
    BY <1>7, <2>2 DEF WriteOutcome, At
  <2>5. PICK c : c = [call[i] EXCEPT !.pc = "commit", !.stale = stale]
    OBVIOUS
  <2>6. c \in CallRecords /\ c.pc = "commit" /\ c.stale = stale /\ c.outcome = call[i].outcome
    <3>1. call[i] \in CallRecords /\ "commit" \in Pcs
      BY <1>0 DEF Pcs
    <3> QED
      BY <2>5, <3>1 DEF CallRecords
  <2>7. call' = [call EXCEPT ![i] = c]
    BY <1>0, <2>4, <2>5 DEF Permits, TypeOK, CallRecords
  <2>8. c.outcome \in Outcomes
    BY <2>4, <2>6 DEF History, RowFollowsCall
  <2> QED
    BY <2>3, <2>4, <2>6, <2>7, <2>8, HandlerKeepsHistory DEF InHandler
<1>8. ASSUME NEW i \in Invocations, CommitOutcome(i) PROVE History'
  <2>1. /\ row' = [j \in Invocations |->
                     IF j \in call[i].stale THEN "pruned"
                     ELSE IF j = i THEN call[i].outcome ELSE row[j]]
        /\ call' = [call EXCEPT ![i] = [Idle EXCEPT !.pc = "answered", !.outcome = call[i].outcome]]
        /\ change' = change /\ lost' = lost /\ call[i].pc = "commit"
    BY <1>8 DEF CommitOutcome, At
  <2>2. call[i].outcome \in Outcomes /\ row[i] = "RUNNING"
    BY <2>1 DEF History, RowFollowsCall, InHandler
  <2>3. /\ row'[i] \in {call[i].outcome, "pruned"}
        /\ \A j \in Invocations \ {i} :
              row'[j] = row[j] \/ (row[j] \in Outcomes \cup {"pruned"} /\ row'[j] = "pruned")
    BY <2>1 DEF History, StaleIsOver, At
  <2>4. /\ call'[i].pc = "answered" /\ call'[i].outcome = call[i].outcome
        /\ \A j \in Invocations \ {i} : call'[j] = call[j]
    BY <2>1 DEF Permits, TypeOK, CallRecords, Idle
  <2>5. RowFollowsCall'
    <3> SUFFICES ASSUME NEW j \in Invocations
                 PROVE  /\ (At(j, "idle"))' <=> row'[j] = "none"
                        /\ call'[j].pc \in InHandler \cup {"gone"} => row'[j] = "RUNNING"
                        /\ call'[j].pc \in {"finish", "commit", "answered"} => call'[j].outcome \in Outcomes
                        /\ (At(j, "answered"))' => row'[j] \in {call'[j].outcome, "pruned"}
                        /\ (At(j, "gone"))' => j \in lost'
      BY DEF RowFollowsCall
    <3>1. CASE j = i
      BY <3>1, <2>2, <2>3, <2>4 DEF At, InHandler, Outcomes
    <3>2. CASE j # i
      BY <3>2, <2>1, <2>3, <2>4 DEF At, InHandler, Outcomes, History, RowFollowsCall
    <3> QED
      BY <3>1, <3>2
  <2>6. StaleIsOver'
    BY <2>1, <2>2, <2>3, <2>4, <1>0 DEF History, StaleIsOver, At, CallRecords, Permits, TypeOK, Outcomes
  <2> QED
    BY <2>5, <2>6 DEF History
<1>9. ASSUME NEW i \in Invocations, LoseHandler(i) PROVE History'
  <2>1. PICK c \in CallRecords : c = [Idle EXCEPT !.pc = "gone"]
    BY DEF Idle, CallRecords, Pcs
  <2>2. /\ call' = [call EXCEPT ![i] = c] /\ c.pc = "gone" /\ row' = row /\ change' = change
        /\ lost' = lost \cup {i} /\ call[i].pc \in InHandler
    BY <1>9, <2>1 DEF LoseHandler, Idle, InHandler
  <2> QED
    BY <2>1, <2>2, HandlerKeepsHistory
<1>10. CASE CommitRetention
  <2>1. /\ call' = call /\ change' = NoChange /\ lost' = lost
        /\ row' = [j \in Invocations |-> IF j \in change.stale THEN "pruned" ELSE row[j]]
    BY <1>10 DEF CommitRetention
  <2>2. \A j \in Invocations :
          row'[j] = row[j] \/ (row[j] \in Outcomes \cup {"pruned"} /\ row'[j] = "pruned")
    BY <2>1 DEF History, StaleIsOver
  <2>3. RowFollowsCall'
    BY <2>1, <2>2 DEF History, RowFollowsCall, At, Outcomes, InHandler
  <2>4. StaleIsOver'
    BY <2>1, <2>2, <1>0 DEF History, StaleIsOver, At, NoChange, CallRecords
  <2> QED
    BY <2>3, <2>4 DEF History
<1>16. ASSUME NEW n \in Retentions, SelectStale(n) PROVE History'
  <2>1. PICK stale : stale = Stale(Terminal, n)
    OBVIOUS
  <2>2. \A j \in stale : row[j] \in Outcomes
    BY <2>1 DEF Stale, Terminal
  <2>3. UNCHANGED <<row, call, lost>> /\ change' = [to |-> n, stale |-> stale]
    BY <1>16, <2>1 DEF SelectStale
  <2>4. change'.stale = stale
    BY <2>3
  <2> QED
    BY <2>2, <2>3, <2>4 DEF History, RowFollowsCall, StaleIsOver, At
<1>17. CASE AbandonRetention
  BY <1>17 DEF AbandonRetention, NoChange, History, RowFollowsCall, StaleIsOver, At
<1>11. CASE RetireProfile
  BY <1>11 DEF RetireProfile, History, RowFollowsCall, StaleIsOver, At
<1>12. CASE Restart
  <2>1. /\ lost' = lost \cup {i \in Invocations : row[i] = "RUNNING"} /\ row' = row /\ change' = NoChange
        /\ call' = [i \in Invocations |->
                      IF call[i].pc \in {"idle", "answered"} THEN call[i]
                      ELSE [Idle EXCEPT !.pc = "gone"]]
    BY <1>12 DEF Restart
  <2>2. RowFollowsCall'
    BY <2>1, <1>0 DEF History, RowFollowsCall, At, Idle, InHandler, CallRecords, Pcs
  <2>3. StaleIsOver'
    BY <2>1 DEF StaleIsOver, At, Idle, NoChange
  <2> QED
    BY <2>2, <2>3 DEF History
<1>13. ASSUME NEW i \in Invocations, Overload(i) \/ FailEarly(i) PROVE History'
  BY <1>13, <1>5 DEF Overload, FailEarly, At, Outcomes
<1>14. ASSUME NEW i \in Invocations, NEW outcome \in {"TIMED_OUT", "CANCELLED"}, Interrupt(i, outcome)
       PROVE History'
  BY <1>14, <1>5 DEF Interrupt, At, Outcomes
<1>15. ASSUME NEW i \in Invocations, NEW outcome \in {"SUCCEEDED", "FAILED"}, TaskReturns(i, outcome)
       PROVE History'
  BY <1>15, <1>5 DEF TaskReturns, At, Outcomes
<1> QED
  BY <1>1, <1>2, <1>3, <1>4, <1>6, <1>7, <1>8, <1>9, <1>10, <1>11, <1>12, <1>13, <1>14, <1>15,
     <1>16, <1>17
  DEF Next, Handler

-----------------------------------------------------------------------------
(* Pruning.  Two transactions that prune may overlap, and the second does not
   see what the first takes away. *)

\* A set of naturals has a least one.
LEMMA Least ==
  ASSUME NEW S \in SUBSET Nat, S # {}
  PROVE  \E m \in S : \A x \in S : m <= x
<1>1. PICK m \in S : \A y \in S : ~(<<y, m>> \in OpToRel(<, Nat))
  BY NatLessThanWellFounded, WFMin
<1>2. \A y \in S : ~(y < m)
  BY <1>1 DEF OpToRel
<1> QED
  BY <1>2

\* ... and a greatest one, if it has a bound.
LEMMA Greatest ==
  ASSUME NEW n \in Nat, NEW S \in SUBSET (0..n), S # {}
  PROVE  \E m \in S : \A x \in S : x <= m
<1> DEFINE T == {n - x : x \in S}
<1>1. \A x \in S : x \in Int /\ n - x \in T /\ n - x \in Nat
  OBVIOUS
<1>2. T \in SUBSET Nat /\ T # {}
  BY <1>1
<1>3. PICK t \in T : \A y \in T : t <= y
  BY <1>2, Least
<1>4. PICK m \in S : t = n - m
  BY <1>2
<1>5. \A x \in S : n - m <= n - x
  BY <1>1, <1>3, <1>4
<1> HIDE DEF T
<1> QED
  BY <1>1, <1>5

\* A set of invocations that is not empty has a last one.
LEMMA LastOne ==
  ASSUME NEW S \in SUBSET Invocations, S # {}
  PROVE  \E m \in S : \A x \in S : x <= m
<1>1. Count \in Nat /\ S \in SUBSET (0..Count)
  BY InvocationsAssumption DEF Invocations
<1> QED
  BY <1>1, Greatest

\* The smallest number anybody asked to keep.
LEMMA FewestIsLeast == Fewest \in Retentions /\ \A n \in Retentions : Fewest <= n
<1>1. Retentions \in SUBSET Nat /\ Retentions # {}
  BY InvocationsAssumption
<1>2. \E x \in Retentions : \A y \in Retentions : x <= y
  BY <1>1, Least
<1> QED
  BY <1>2 DEF Fewest

LEMMA NewerFinite ==
  ASSUME NEW A \in SUBSET Invocations, NEW x
  PROVE  IsFiniteSet(Newer(A, x)) /\ Cardinality(Newer(A, x)) \in Nat
<1>1. IsFiniteSet(Invocations)
  BY InvocationsAssumption, FS_Interval DEF Invocations
<1>2. Newer(A, x) \in SUBSET Invocations
  BY DEF Newer
<1> QED
  BY <1>1, <1>2, FS_Subset, FS_CardinalityType

\* More rows are newer than an older row.
LEMMA NewerGrows ==
  ASSUME NEW A \in SUBSET Invocations, NEW B \in SUBSET Invocations, NEW x, NEW y,
         Newer(A, y) \subseteq Newer(B, x), NEW n \in Nat, Cardinality(Newer(A, y)) >= n
  PROVE  Cardinality(Newer(B, x)) >= n
<1>1. Cardinality(Newer(A, y)) <= Cardinality(Newer(B, x))
  BY NewerFinite, FS_Subset
<1>2. Cardinality(Newer(A, y)) \in Nat /\ Cardinality(Newer(B, x)) \in Nat
  BY NewerFinite
<1> QED
  BY <1>1, <1>2

\* S is pruned, each row of which had n newer rows in A; what is left of A is
\* in B.  The rows of A that are newer than the last of S are left, and are n.
LEMMA PruningLeavesNewer ==
  ASSUME NEW S \in SUBSET Invocations, NEW A \in SUBSET Invocations,
         NEW B \in SUBSET Invocations, NEW n \in Nat,
         \A s \in S : Cardinality(Newer(A, s)) >= n,
         A \ S \subseteq B,
         NEW x \in Invocations, \E s \in S : x <= s
  PROVE  Cardinality(Newer(B, x)) >= n
<1>1. PICK m \in S : \A s \in S : s <= m
  BY LastOne
<1>2. \A j \in Invocations : j \in Int
  BY InvocationsAssumption DEF Invocations
<1>3. Newer(A, m) \subseteq Newer(B, x)
  BY <1>1, <1>2 DEF Newer
<1>4. Cardinality(Newer(A, m)) >= n
  OBVIOUS
<1> QED
  BY <1>3, <1>4, NewerGrows

\* What _prune_endpoint_invocations selects has as many newer rows as are to be kept.
LEMMA StaleHasNewer ==
  ASSUME NEW A \in SUBSET Invocations, NEW n \in Retentions, NEW x \in Stale(A, n)
  PROVE  x \in Invocations /\ Cardinality(Newer(A, x)) >= Fewest
<1>1. Cardinality(Newer(A, x)) >= n /\ x \in A
  BY DEF Stale, Newer
<1>2. Cardinality(Newer(A, x)) \in Nat
  BY NewerFinite
<1>3. Fewest \in Nat /\ n \in Nat /\ Fewest <= n
  BY FewestIsLeast, InvocationsAssumption
<1> QED
  BY <1>1, <1>2, <1>3

\* Nothing is pruned at the start.
LEMMA InitNewer == Init => EnoughAreNewer
  BY DEF Init, EnoughAreNewer, At, Idle, NoChange

\* No row gets or loses an outcome, and no transaction comes to its commit.
LEMMA NothingPruned ==
  ASSUME EnoughAreNewer, Terminal' = Terminal, change'.stale \subseteq change.stale,
         \A i \in Invocations : (At(i, "commit"))' => At(i, "commit") /\ call'[i].stale = call[i].stale
  PROVE  EnoughAreNewer'
<1>1. ASSUME NEW i \in Invocations, (At(i, "commit"))', NEW x \in call'[i].stale
      PROVE  Cardinality(Newer(Terminal \cup {i}, x)) >= Fewest
  BY <1>1 DEF EnoughAreNewer
<1>2. ASSUME NEW x \in change'.stale PROVE Cardinality(Newer(Terminal, x)) >= Fewest
  BY <1>2 DEF EnoughAreNewer
<1> QED
  BY <1>1, <1>2 DEF EnoughAreNewer, Newer

\* A step of one handler that leaves the rows alone and is not the first half
\* of finish_invocation.
LEMMA HandlerPrunesNothing ==
  ASSUME TypeOK, EnoughAreNewer, NEW i \in Invocations, NEW c \in CallRecords,
         call' = [call EXCEPT ![i] = c], row' = row, change' = change, c.pc # "commit"
  PROVE  EnoughAreNewer'
<1>1. Terminal' = Terminal /\ change'.stale \subseteq change.stale
  BY DEF Terminal
<1>2. \A j \in Invocations : (At(j, "commit"))' => At(j, "commit") /\ call'[j].stale = call[j].stale
  BY DEF At, TypeOK
<1> QED
  BY <1>1, <1>2, NothingPruned

\* S is pruned, each row of which had enough newer ones in A; a row that had
\* enough in C has enough in B, if what was in A or C and is not pruned is there.
LEMMA OneKeepsNewer ==
  ASSUME NEW S \in SUBSET Invocations, NEW A \in SUBSET Invocations,
         NEW B \in SUBSET Invocations, NEW C \in SUBSET Invocations,
         \A s \in S : Cardinality(Newer(A, s)) >= Fewest,
         A \ S \subseteq B, C \ S \subseteq B,
         NEW x \in Invocations, Cardinality(Newer(C, x)) >= Fewest
  PROVE  Cardinality(Newer(B, x)) >= Fewest
<1>1. PICK n \in Nat : n = Fewest
  BY FewestIsLeast, InvocationsAssumption
<1>2. \A s \in S : Cardinality(Newer(A, s)) >= n
  BY <1>1
<1>3. CASE \E s \in S : x <= s
  <2>1. Cardinality(Newer(B, x)) >= n
    BY <1>2, <1>3, PruningLeavesNewer
  <2> QED
    BY <1>1, <2>1
<1>4. CASE ~\E s \in S : x <= s
  <2>1. Newer(C, x) \subseteq Newer(B, x)
    <3>1. \A j \in Invocations : j \in Int
      BY InvocationsAssumption DEF Invocations
    <3> QED
      BY <1>4, <3>1 DEF Newer
  <2>2. Cardinality(Newer(B, x)) >= n
    BY <1>1, <2>1, NewerGrows
  <2> QED
    BY <1>1, <2>2
<1> QED
  BY <1>3, <1>4

\* S is pruned by a transaction: every row of S had enough newer ones in A,
\* and whatever is over and not in S is over afterwards.
LEMMA PruningKeepsNewer ==
  ASSUME TypeOK, EnoughAreNewer, change'.stale \subseteq change.stale,
         NEW S \in SUBSET Invocations, NEW A \in SUBSET Invocations,
         \A s \in S : Cardinality(Newer(A, s)) >= Fewest,
         A \ S \subseteq Terminal', Terminal \ S \subseteq Terminal',
         Terminal' \subseteq Invocations,
         \A i \in Invocations : (At(i, "commit"))' =>
            At(i, "commit") /\ call'[i].stale = call[i].stale /\ i \notin S
  PROVE  EnoughAreNewer'
<1>1. PICK T \in SUBSET Invocations : T = Terminal'
  OBVIOUS
<1>2. Terminal \in SUBSET Invocations /\ A \ S \subseteq T /\ Terminal \ S \subseteq T
  BY <1>1 DEF Terminal
<1>3. ASSUME NEW i \in Invocations, (At(i, "commit"))', NEW x \in call'[i].stale
      PROVE  Cardinality(Newer(T \cup {i}, x)) >= Fewest
  <2>1. At(i, "commit") /\ call'[i].stale = call[i].stale
    BY <1>3
  <2>2. x \in Invocations /\ Cardinality(Newer(Terminal \cup {i}, x)) >= Fewest
    BY <1>3, <2>1 DEF EnoughAreNewer, TypeOK, CallRecords
  <2>3. PICK B \in SUBSET Invocations, C \in SUBSET Invocations :
          B = T \cup {i} /\ C = Terminal \cup {i}
    BY <1>2
  <2>4. A \ S \subseteq B /\ C \ S \subseteq B
    BY <1>2, <2>3
  <2>5. Cardinality(Newer(C, x)) >= Fewest
    BY <2>2, <2>3
  <2>6. Cardinality(Newer(B, x)) >= Fewest
    BY <2>2, <2>4, <2>5, OneKeepsNewer
  <2> QED
    BY <2>3, <2>6
<1>4. ASSUME NEW x \in change'.stale PROVE Cardinality(Newer(T, x)) >= Fewest
  <2>1. x \in Invocations /\ Cardinality(Newer(Terminal, x)) >= Fewest
    BY <1>4 DEF EnoughAreNewer, TypeOK
  <2>2. PICK C \in SUBSET Invocations : C = Terminal
    BY <1>2
  <2> QED
    BY <1>2, <2>1, <2>2, OneKeepsNewer
<1> QED
  BY <1>1, <1>3, <1>4 DEF EnoughAreNewer, Newer

\* What the commit of i prunes, and what is over afterwards.
LEMMA CommitPrunes ==
  ASSUME TypeOK, RowFollowsCall, StaleIsOver, EnoughAreNewer,
         NEW i \in Invocations, CommitOutcome(i)
  PROVE  /\ call[i].stale \in SUBSET Invocations
         /\ \A s \in call[i].stale : Cardinality(Newer(Terminal \cup {i}, s)) >= Fewest
         /\ Terminal' \in SUBSET Invocations
         /\ (Terminal \cup {i}) \ call[i].stale \subseteq Terminal'
         /\ row[i] = "RUNNING"
         /\ \A j \in Invocations : row'[j] = "pruned" => row[j] = "pruned" \/ j \in call[i].stale
<1>1. /\ row' = [j \in Invocations |->
                   IF j \in call[i].stale THEN "pruned"
                   ELSE IF j = i THEN call[i].outcome ELSE row[j]]
      /\ At(i, "commit") /\ call[i].pc = "commit"
  BY DEF CommitOutcome, At
<1>2. call[i].outcome \in Outcomes /\ row[i] = "RUNNING"
  BY <1>1 DEF RowFollowsCall, InHandler
<1>3. call[i].stale \in SUBSET Invocations
  BY DEF TypeOK, CallRecords
<1>4. Terminal' \in SUBSET Invocations
  BY DEF Terminal
<1>5. (Terminal \cup {i}) \ call[i].stale \subseteq Terminal'
  BY <1>1, <1>2 DEF Terminal
<1>6. \A j \in Invocations : row'[j] = "pruned" => row[j] = "pruned" \/ j \in call[i].stale
  BY <1>1, <1>2 DEF Outcomes
<1> QED
  BY <1>1, <1>2, <1>3, <1>4, <1>5, <1>6 DEF EnoughAreNewer

\* The same for a change of the policy.
LEMMA PolicyPrunes ==
  ASSUME TypeOK, StaleIsOver, EnoughAreNewer, CommitRetention
  PROVE  /\ change.stale \in SUBSET Invocations
         /\ Terminal \in SUBSET Invocations /\ Terminal' \in SUBSET Invocations
         /\ \A s \in change.stale : Cardinality(Newer(Terminal, s)) >= Fewest
         /\ \A s \in change.stale : row[s] \in Outcomes \cup {"pruned"}
         /\ Terminal \ change.stale \subseteq Terminal'
         /\ \A j \in Invocations : row'[j] = "pruned" => row[j] = "pruned" \/ j \in change.stale
<1>1. row' = [j \in Invocations |-> IF j \in change.stale THEN "pruned" ELSE row[j]]
  BY DEF CommitRetention
<1>2. Terminal \in SUBSET Invocations /\ Terminal' \in SUBSET Invocations
  BY DEF Terminal
<1>3. change.stale \in SUBSET Invocations
  BY DEF TypeOK
<1>4. Terminal \ change.stale \subseteq Terminal'
  BY <1>1 DEF Terminal
<1>5. \A j \in Invocations : row'[j] = "pruned" => row[j] = "pruned" \/ j \in change.stale
  BY <1>1
<1> QED
  BY <1>2, <1>3, <1>4, <1>5 DEF EnoughAreNewer, StaleIsOver

\* Every step keeps enough newer rows for what is about to be pruned.
LEMMA NextNewer == IInv /\ [Next]_vars => EnoughAreNewer'
<1> SUFFICES ASSUME IInv, [Next]_vars PROVE EnoughAreNewer'
  OBVIOUS
<1>0. /\ TypeOK /\ RowFollowsCall /\ StaleIsOver /\ EnoughAreNewer
      /\ \A i \in Invocations : call[i] \in CallRecords
  BY DEF IInv, Permits, History, TypeOK
<1>1. CASE row' = row /\ call' = call /\ change'.stale \subseteq change.stale
  BY <1>0, <1>1, NothingPruned DEF Terminal, At
<1>2. ASSUME NEW i \in Invocations, BeginInvocation(i) PROVE EnoughAreNewer'
  <2>1. /\ row' = [row EXCEPT ![i] = "RUNNING"] /\ row[i] = "none"
        /\ call' = [call EXCEPT ![i].pc = "begun"] /\ change' = change
    BY <1>2 DEF BeginInvocation
  <2>2. Terminal' = Terminal
    BY <2>1, <1>0 DEF Terminal, TypeOK, Outcomes
  <2>3. \A j \in Invocations : (At(j, "commit"))' => At(j, "commit") /\ call'[j].stale = call[j].stale
    BY <2>1, <1>0 DEF At, TypeOK, CallRecords
  <2> QED
    BY <2>1, <2>2, <2>3, <1>0, NothingPruned
<1>3. ASSUME NEW i \in Invocations, EnterQueue(i) \/ Submit(i) PROVE EnoughAreNewer'
  <2>1. Terminal' = Terminal /\ change' = change
    BY <1>3 DEF EnterQueue, Submit, Terminal
  <2>2. \A j \in Invocations : (At(j, "commit"))' => At(j, "commit") /\ call'[j].stale = call[j].stale
    <3>1. PICK s : s = limit'
      OBVIOUS
    <3>2. \/ call' = [call EXCEPT ![i].pc = "queued", ![i].semaphore = s]
          \/ call' = [call EXCEPT ![i].pc = "running"]
      BY <1>3, <3>1 DEF EnterQueue, Submit
    <3> QED
      BY <3>2, <1>0 DEF At, TypeOK, CallRecords
  <2> QED
    BY <2>1, <2>2, <1>0, NothingPruned
<1>4. ASSUME NEW i \in Invocations, NEW outcome \in Outcomes, Ended(i, outcome), row' = row, change' = change
      PROVE  EnoughAreNewer'
  <2>1. PICK c \in CallRecords : c = [Idle EXCEPT !.pc = "finish", !.outcome = outcome]
    BY DEF Idle, CallRecords, Pcs
  <2>2. call' = [call EXCEPT ![i] = c] /\ c.pc = "finish"
    BY <1>4, <2>1 DEF Ended, Idle
  <2> QED
    BY <1>0, <1>4, <2>2, HandlerPrunesNothing
<1>5. ASSUME NEW i \in Invocations, LoseHandler(i) PROVE EnoughAreNewer'
  <2>1. PICK c \in CallRecords : c = [Idle EXCEPT !.pc = "gone"]
    BY DEF Idle, CallRecords, Pcs
  <2>2. call' = [call EXCEPT ![i] = c] /\ c.pc = "gone" /\ row' = row /\ change' = change
    BY <1>5, <2>1 DEF LoseHandler, Idle
  <2> QED
    BY <1>0, <2>2, HandlerPrunesNothing
<1>6. ASSUME NEW i \in Invocations, WriteOutcome(i) PROVE EnoughAreNewer'
  <2>1. PICK A \in SUBSET Invocations : A = Terminal \cup {i}
    BY DEF Terminal
  <2>2. PICK n \in Retentions : n = retention
    BY <1>0 DEF TypeOK
  <2>3. /\ call' = [call EXCEPT ![i].pc = "commit", ![i].stale = Stale(A, n)] /\ row' = row /\ change' = change
    BY <1>6, <2>1, <2>2 DEF WriteOutcome
  <2>4. Terminal' = Terminal
    BY <2>3 DEF Terminal
  <2>5. /\ call'[i].stale = Stale(A, n)
        /\ \A j \in Invocations \ {i} : call'[j] = call[j]
    BY <2>3, <1>0 DEF TypeOK, CallRecords
  <2>6. \A x \in Stale(A, n) : Cardinality(Newer(A, x)) >= Fewest
    BY StaleHasNewer
  <2>7. ASSUME NEW j \in Invocations, (At(j, "commit"))', NEW x \in call'[j].stale
        PROVE  Cardinality(Newer(Terminal \cup {j}, x)) >= Fewest
    <3>1. CASE j = i
      BY <2>1, <2>5, <2>6, <2>7, <3>1
    <3>2. CASE j # i
      BY <1>0, <2>5, <2>7, <3>2 DEF EnoughAreNewer, At
    <3> QED
      BY <3>1, <3>2
  <2>8. \A x \in change'.stale : Cardinality(Newer(Terminal, x)) >= Fewest
    BY <1>0, <2>3 DEF EnoughAreNewer
  <2> QED
    BY <2>4, <2>7, <2>8 DEF EnoughAreNewer, Newer
<1>7. ASSUME NEW i \in Invocations, CommitOutcome(i) PROVE EnoughAreNewer'
  <2>1. PICK S, A : S = call[i].stale /\ A = Terminal \cup {i}
    OBVIOUS
  <2>2. /\ S \in SUBSET Invocations /\ \A s \in S : Cardinality(Newer(A, s)) >= Fewest
        /\ A \in SUBSET Invocations /\ Terminal' \in SUBSET Invocations
        /\ A \ S \subseteq Terminal' /\ Terminal \ S \subseteq Terminal'
    BY <1>0, <1>7, <2>1, CommitPrunes DEF Terminal
  <2>3. ASSUME NEW j \in Invocations, (At(j, "commit"))'
        PROVE  At(j, "commit") /\ call'[j].stale = call[j].stale /\ j \notin S
    <3>1. call' = [call EXCEPT ![i] = [Idle EXCEPT !.pc = "answered", !.outcome = call[i].outcome]]
      BY <1>7 DEF CommitOutcome
    <3>2. j # i /\ At(j, "commit") /\ call'[j].stale = call[j].stale
      BY <3>1, <2>3, <1>0 DEF At, TypeOK, Idle
    <3>3. row[j] = "RUNNING"
      BY <3>2, <1>0 DEF RowFollowsCall, At, InHandler
    <3>4. row[j] \notin Outcomes \cup {"pruned"}
      BY <3>3 DEF Outcomes
    <3>5. At(i, "commit")
      BY <1>7 DEF CommitOutcome
    <3> QED
      BY <3>2, <3>4, <3>5, <2>1, <1>0 DEF StaleIsOver
  <2>4. change' = change
    BY <1>7 DEF CommitOutcome
  <2> QED
    BY <1>0, <2>2, <2>3, <2>4, PruningKeepsNewer
<1>8. CASE CommitRetention
  <2>1. PICK S, A : S = change.stale /\ A = Terminal
    OBVIOUS
  <2>2. /\ S \in SUBSET Invocations /\ \A s \in S : Cardinality(Newer(A, s)) >= Fewest
        /\ A \in SUBSET Invocations /\ Terminal' \in SUBSET Invocations
        /\ A \ S \subseteq Terminal' /\ Terminal \ S \subseteq Terminal'
    BY <1>0, <1>8, <2>1, PolicyPrunes
  <2>3. ASSUME NEW j \in Invocations, (At(j, "commit"))'
        PROVE  At(j, "commit") /\ call'[j].stale = call[j].stale /\ j \notin S
    <3>1. call' = call
      BY <1>8 DEF CommitRetention
    <3>2. At(j, "commit") /\ call'[j].stale = call[j].stale
      BY <3>1, <2>3 DEF At
    <3>3. row[j] = "RUNNING"
      BY <3>2, <1>0 DEF RowFollowsCall, At, InHandler
    <3> QED
      BY <3>2, <3>3, <2>1, <1>0 DEF StaleIsOver, Outcomes
  <2>4. change'.stale \subseteq change.stale
    BY <1>8 DEF CommitRetention, NoChange
  <2> QED
    BY <1>0, <2>2, <2>3, <2>4, PruningKeepsNewer
<1>14. ASSUME NEW n \in Retentions, SelectStale(n) PROVE EnoughAreNewer'
  <2>1. PICK A \in SUBSET Invocations : A = Terminal
    BY DEF Terminal
  <2>2. PICK stale : stale = Stale(A, n)
    OBVIOUS
  <2>3. UNCHANGED <<row, call>> /\ change' = [to |-> n, stale |-> stale]
    BY <1>14, <2>1, <2>2 DEF SelectStale
  <2>4. Terminal' = Terminal /\ change'.stale = stale
    BY <2>3 DEF Terminal
  <2>5. \A x \in stale : Cardinality(Newer(A, x)) >= Fewest
    BY <2>2, StaleHasNewer
  <2>6. ASSUME NEW j \in Invocations, (At(j, "commit"))', NEW x \in call'[j].stale
        PROVE  Cardinality(Newer(Terminal \cup {j}, x)) >= Fewest
    BY <1>0, <2>3, <2>6 DEF EnoughAreNewer, At
  <2> QED
    BY <2>1, <2>4, <2>5, <2>6 DEF EnoughAreNewer, Newer
<1>15. CASE AbandonRetention
  BY <1>15, <1>1 DEF AbandonRetention, NoChange
<1>9. CASE Restart
  <2>1. call' = [i \in Invocations |->
                  IF call[i].pc \in {"idle", "answered"} THEN call[i] ELSE [Idle EXCEPT !.pc = "gone"]]
    BY <1>9 DEF Restart
  <2>2. \A j \in Invocations : ~(At(j, "commit"))'
    BY <2>1 DEF At, Idle
  <2>3. change'.stale = {}
    BY <1>9 DEF Restart, NoChange
  <2> QED
    BY <2>2, <2>3 DEF EnoughAreNewer
<1>10. ASSUME NEW i \in Invocations,
              \/ Overload(i) \/ FailEarly(i)
              \/ \E outcome \in {"TIMED_OUT", "CANCELLED"} : Interrupt(i, outcome)
              \/ \E outcome \in {"SUCCEEDED", "FAILED"} : TaskReturns(i, outcome)
       PROVE  EnoughAreNewer'
  <2>1. row' = row /\ change' = change /\ \E outcome \in Outcomes : Ended(i, outcome)
    BY <1>10 DEF Overload, FailEarly, Interrupt, TaskReturns, Outcomes
  <2> QED
    BY <2>1, <1>4
<1>11. CASE RetireProfile
  BY <1>11, <1>1 DEF RetireProfile
<1>12. ASSUME NEW i \in Invocations, TaskKilled(i) PROVE EnoughAreNewer'
  BY <1>12, <1>1 DEF TaskKilled
<1>13. CASE UNCHANGED vars
  BY <1>13, <1>1 DEF vars
<1> QED
  BY <1>2, <1>3, <1>5, <1>6, <1>7, <1>8, <1>9, <1>10, <1>11, <1>12, <1>13,
     <1>14, <1>15 DEF Next, Handler

-----------------------------------------------------------------------------
(* Theorems *)

LEMMA Invariance == Spec => []IInv
<1>1. Init => IInv
  BY InitPermits, InitHistory, InitNewer DEF IInv
<1>2. IInv /\ [Next]_vars => IInv'
  BY NextPermits, NextHistory, NextNewer DEF IInv
<1> QED
  BY <1>1, <1>2, PTL DEF Spec

\* Every variable keeps its type: no semaphore gets a permit back that nobody
\* took.
THEOREM TypeCorrect == Spec => []TypeOK
  BY Invariance, PTL DEF IInv, Permits

\* The permits of a semaphore are held by exactly the calls whose task was
\* submitted under it (_execute_compute), also across retirements.
THEOREM PermitsExact == Spec => []PermitsAreExact
  BY Invariance, PTL DEF IInv, Permits

\* A task that runs and is not cancelled has a call that awaits it.
THEOREM TasksHaveCalls == Spec => []NoTaskWithoutCall
  BY Invariance, PTL DEF IInv, Permits

\* Tasks and permits correspond, for any limit and any number of semaphores.
THEOREM TasksStayPermitted == Spec => []TasksArePermitted
<1>1. PermitsAreExact /\ NoTaskWithoutCall => TasksArePermitted
  BY DEF TasksArePermitted
<1> QED BY <1>1, PermitsExact, TasksHaveCalls, PTL

\* What a client was answered is in the history or was pruned, and a RUNNING
\* row has a handler or is known lost.
THEOREM AnswersAreRecorded == Spec => []AnswerIsRecorded
<1>1. IInv => AnswerIsRecorded
  <2> SUFFICES ASSUME IInv, NEW i \in Invocations
               PROVE /\ At(i, "answered") => row[i] \in {call[i].outcome, "pruned"}
                     /\ row[i] = "RUNNING" => call[i].pc \notin {"idle", "answered"}
                     /\ At(i, "gone") /\ row[i] # "pruned" => i \in lost /\ row[i] = "RUNNING"
    BY DEF AnswerIsRecorded
  <2> QED
    BY DEF IInv, History, RowFollowsCall, At, InHandler, Outcomes
<1> QED
  BY <1>1, Invariance, PTL

\* A recorded outcome changes no more, except that the row may be pruned: no
\* late result, no second finish and no restart writes over it.
THEOREM OutcomesAreFinal == Spec => OutcomeIsFinal
<1>1. IInv /\ [Next]_vars => [\A i \in Invocations : row[i] \in Outcomes => row'[i] \in {row[i], "pruned"}]_vars
  <2> SUFFICES ASSUME IInv, Next, NEW i \in Invocations, row[i] \in Outcomes
               PROVE  row'[i] \in {row[i], "pruned"}
    OBVIOUS
  <2>1. CASE UNCHANGED row
    BY <2>1
  <2>2. ASSUME NEW j \in Invocations, BeginInvocation(j) PROVE row'[i] = row[i]
    BY <2>2 DEF BeginInvocation, IInv, Permits, TypeOK, Outcomes
  <2>3. ASSUME NEW j \in Invocations, CommitOutcome(j) PROVE row'[i] \in {row[i], "pruned"}
    <3>1. row[j] = "RUNNING"
      BY <2>3 DEF CommitOutcome, At, IInv, History, RowFollowsCall, InHandler
    <3>2. j # i
      BY <3>1 DEF Outcomes
    <3> QED
      BY <2>3, <3>2 DEF CommitOutcome
  <2>4. CASE CommitRetention
    BY <2>4 DEF CommitRetention
  <2> QED
    BY <2>1, <2>2, <2>3, <2>4 DEF Next, Handler, EnterQueue, FailEarly, Submit, Overload, Interrupt,
       SelectStale, AbandonRetention, TaskReturns, TaskKilled, WriteOutcome, LoseHandler, RetireProfile, Restart
<1> QED
  BY <1>1, Invariance, PTL DEF Spec, OutcomeIsFinal

\* Whatever is pruned was over, or is the row of the transaction that prunes
\* it, and as many newer outcomes stay as anybody ever asked to keep at least,
\* however many transactions that prune overlap and however often the policy
\* changes between them (_prune_endpoint_invocations).
THEOREM NewestStay == Spec => NewestAreKept
<1>1. IInv /\ [Next]_vars =>
        [\A i \in Invocations : row[i] # "pruned" /\ row'[i] = "pruned" =>
          /\ row[i] \in Outcomes \/ At(i, "commit")
          /\ Cardinality({j \in Invocations : j > i /\ row'[j] \in Outcomes}) >= Fewest]_vars
  <2> SUFFICES ASSUME IInv, Next, NEW x \in Invocations, row[x] # "pruned", row'[x] = "pruned"
               PROVE  /\ row[x] \in Outcomes \/ At(x, "commit")
                      /\ Cardinality({j \in Invocations : j > x /\ row'[j] \in Outcomes}) >= Fewest
    OBVIOUS
  <2>0. TypeOK /\ RowFollowsCall /\ StaleIsOver /\ EnoughAreNewer
    BY DEF IInv, Permits, History
  <2>1. ASSUME NEW S, NEW A \in SUBSET Invocations, S \in SUBSET Invocations, x \in S,
               \A s \in S : Cardinality(Newer(A, s)) >= Fewest,
               A \ S \subseteq Terminal', Terminal' \in SUBSET Invocations
        PROVE  Cardinality({j \in Invocations : j > x /\ row'[j] \in Outcomes}) >= Fewest
    <3>1. PICK n \in Nat : n = Fewest
      BY FewestIsLeast, InvocationsAssumption
    <3>2. PICK B \in SUBSET Invocations : B = Terminal'
      BY <2>1
    <3>3. Cardinality(Newer(B, x)) >= n
      <4>1. \E s \in S : x <= s
        BY <2>1, InvocationsAssumption DEF Invocations
      <4>2. \A s \in S : Cardinality(Newer(A, s)) >= n
        BY <2>1, <3>1
      <4> QED
        BY <2>1, <3>2, <4>1, <4>2, PruningLeavesNewer
    <3>4. Newer(B, x) = {j \in Invocations : j > x /\ row'[j] \in Outcomes}
      BY <3>2 DEF Newer, Terminal
    <3> QED
      BY <3>1, <3>3, <3>4
  <2>2. ASSUME NEW i \in Invocations, CommitOutcome(i)
        PROVE  /\ row[x] \in Outcomes \/ At(x, "commit")
               /\ Cardinality({j \in Invocations : j > x /\ row'[j] \in Outcomes}) >= Fewest
    <3>1. PICK S, A : S = call[i].stale /\ A = Terminal \cup {i}
      OBVIOUS
    <3>2. /\ S \in SUBSET Invocations /\ \A s \in S : Cardinality(Newer(A, s)) >= Fewest
          /\ A \in SUBSET Invocations /\ Terminal' \in SUBSET Invocations
          /\ A \ S \subseteq Terminal' /\ x \in S
      BY <2>0, <2>2, <3>1, CommitPrunes DEF Terminal
    <3>3. At(i, "commit")
      BY <2>2 DEF CommitOutcome
    <3>4. row[x] \in Outcomes \/ At(x, "commit")
      BY <2>0, <3>1, <3>2, <3>3 DEF StaleIsOver
    <3> QED
      BY <2>1, <3>2, <3>4
  <2>3. ASSUME CommitRetention
        PROVE  /\ row[x] \in Outcomes \/ At(x, "commit")
               /\ Cardinality({j \in Invocations : j > x /\ row'[j] \in Outcomes}) >= Fewest
    <3>1. PICK S, A : S = change.stale /\ A = Terminal
      OBVIOUS
    <3>2. /\ S \in SUBSET Invocations /\ \A s \in S : Cardinality(Newer(A, s)) >= Fewest
          /\ A \in SUBSET Invocations /\ Terminal' \in SUBSET Invocations
          /\ A \ S \subseteq Terminal' /\ x \in S
      BY <2>0, <2>3, <3>1, PolicyPrunes
    <3>3. row[x] \in Outcomes
      BY <2>0, <3>1, <3>2 DEF StaleIsOver
    <3> QED
      BY <2>1, <3>2, <3>3
  <2>4. ASSUME NEW i \in Invocations, BeginInvocation(i) PROVE FALSE
    BY <2>4, <2>0 DEF BeginInvocation, TypeOK
  <2>5. CASE UNCHANGED row
    BY <2>5
  <2> QED
    BY <2>2, <2>3, <2>4, <2>5 DEF Next, Handler, EnterQueue, FailEarly, Submit, Overload, Interrupt,
       SelectStale, AbandonRetention, TaskReturns, TaskKilled, WriteOutcome, LoseHandler, RetireProfile, Restart
<1> QED
  BY <1>1, Invariance, PTL DEF Spec, NewestAreKept

-----------------------------------------------------------------------------
(* The output of an invocation.  A buffer is a text and the places where its
   chunks end; first what texts are, how many bytes they take and where they
   are divided, then what a write, a flush and a replay leave in a buffer. *)

(* The bytes of a text *)

LEMMA BytesOfText ==
  ASSUME NEW t \in Texts
  PROVE  /\ \A i, b : <<i, b>> \in BytesOf(t) <=> i \in 1..Len(t) /\ b \in 1..Width(t[i].char)
         /\ \A x \in BytesOf(t) : x = <<x[1], x[2]>>
         /\ \A i \in 1..Len(t) : Width(t[i].char) \in 1..(ChunkBytes - 1)
<1>1. DOMAIN t = 1..Len(t) /\ \A i \in 1..Len(t) : t[i] \in Tags
  BY DEF Texts
<1>2. \A i, b : <<i, b>> \in BytesOf(t) <=> i \in 1..Len(t) /\ b \in 1..Width(t[i].char)
  BY <1>1 DEF BytesOf
<1>3. \A x \in BytesOf(t) : x = <<x[1], x[2]>>
  BY DEF BytesOf
<1>4. \A i \in 1..Len(t) : Width(t[i].char) \in 1..(ChunkBytes - 1)
  BY <1>1, OutputCaptureAssumption DEF Tags, Characters, Width, LineFeed, Surrogate
<1> QED
  BY <1>2, <1>3, <1>4

LEMMA SizeType ==
  ASSUME NEW t \in Texts
  PROVE  IsFiniteSet(BytesOf(t)) /\ Size(t) \in Nat
<1>1. BytesOf(t) \subseteq (1..Len(t)) \X (1..ChunkBytes)
  <2> SUFFICES ASSUME NEW x \in BytesOf(t) PROVE x \in (1..Len(t)) \X (1..ChunkBytes)
    OBVIOUS
  <2>1. PICK i, b : x = <<i, b>>
    BY BytesOfText
  <2>2. i \in 1..Len(t) /\ b \in 1..Width(t[i].char) /\ Width(t[i].char) \in 1..(ChunkBytes - 1)
    BY <2>1, BytesOfText
  <2>3. b \in 1..ChunkBytes
    BY <2>2, OutputCaptureAssumption
  <2> QED
    BY <2>1, <2>2, <2>3
<1>2. IsFiniteSet(1..Len(t)) /\ IsFiniteSet(1..ChunkBytes)
  <2>1. Len(t) \in Int /\ ChunkBytes \in Int /\ 1 \in Int
    BY OutputCaptureAssumption DEF Texts
  <2> QED
    BY <2>1, FS_Interval
<1>3. IsFiniteSet((1..Len(t)) \X (1..ChunkBytes))
  BY <1>2, FS_Product
<1> QED
  BY <1>1, <1>3, FS_Subset, FS_CardinalityType DEF Size

LEMMA SizeEmpty == Size(<<>>) = 0
<1>1. BytesOf(<<>>) = {}
  BY DEF BytesOf
<1> QED
  BY <1>1, FS_EmptySet DEF Size

\* A text takes the bytes of its parts.
LEMMA SizeConcat ==
  ASSUME NEW s \in Texts, NEW t \in Texts
  PROVE  s \o t \in Texts /\ Size(s \o t) = Size(s) + Size(t)
<1> DEFINE shifted == {<<x[1] + Len(s), x[2]>> : x \in BytesOf(t)}
<1>1. /\ s \o t \in Texts /\ Len(s \o t) = Len(s) + Len(t)
      /\ Len(s) \in Nat /\ Len(t) \in Nat
      /\ \A i \in 1..Len(s) : (s \o t)[i] = s[i]
      /\ \A i \in 1..Len(t) : (s \o t)[i + Len(s)] = t[i]
  BY DEF Texts
<1>2. BytesOf(s \o t) \subseteq BytesOf(s) \cup shifted
  <2> SUFFICES ASSUME NEW i, NEW b, <<i, b>> \in BytesOf(s \o t), <<i, b>> \notin BytesOf(s)
               PROVE  <<i, b>> \in shifted
    BY <1>1, BytesOfText
  <2>1. i \in 1..(Len(s) + Len(t)) /\ b \in 1..Width((s \o t)[i].char)
    BY <1>1, BytesOfText
  <2>2. i \notin 1..Len(s)
    BY <1>1, <2>1, BytesOfText
  <2>3. PICK j \in 1..Len(t) : i = j + Len(s)
    <3>1. i - Len(s) \in 1..Len(t) /\ i = (i - Len(s)) + Len(s)
      BY <1>1, <2>1, <2>2
    <3> QED
      BY <3>1
  <2>4. <<j, b>> \in BytesOf(t)
    BY <1>1, <2>1, <2>3, BytesOfText
  <2> QED
    BY <2>3, <2>4
<1>3. BytesOf(s) \cup shifted \subseteq BytesOf(s \o t)
  <2>1. BytesOf(s) \subseteq BytesOf(s \o t)
    <3> SUFFICES ASSUME NEW i, NEW b, <<i, b>> \in BytesOf(s) PROVE <<i, b>> \in BytesOf(s \o t)
      BY BytesOfText
    <3>1. i \in 1..Len(s) /\ b \in 1..Width(s[i].char)
      BY BytesOfText
    <3>2. i \in 1..Len(s \o t) /\ b \in 1..Width((s \o t)[i].char)
      BY <1>1, <3>1
    <3> QED
      BY <1>1, <3>2, BytesOfText
  <2>2. \A x \in BytesOf(t) : <<x[1] + Len(s), x[2]>> \in BytesOf(s \o t)
    <3> SUFFICES ASSUME NEW i, NEW b, <<i, b>> \in BytesOf(t)
                 PROVE  <<i + Len(s), b>> \in BytesOf(s \o t)
      BY BytesOfText
    <3>1. i \in 1..Len(t) /\ b \in 1..Width(t[i].char)
      BY BytesOfText
    <3>2. i + Len(s) \in 1..Len(s \o t) /\ b \in 1..Width((s \o t)[i + Len(s)].char)
      BY <1>1, <3>1
    <3> QED
      BY <1>1, <3>2, BytesOfText
  <2> QED
    BY <2>1, <2>2
<1>4. BytesOf(s) \cap shifted = {}
  <2> SUFFICES ASSUME NEW x \in BytesOf(t), <<x[1] + Len(s), x[2]>> \in BytesOf(s) PROVE FALSE
    OBVIOUS
  <2>1. x[1] \in 1..Len(t) /\ x[1] + Len(s) \in 1..Len(s)
    BY BytesOfText
  <2> QED
    BY <1>1, <2>1
<1>5. IsFiniteSet(shifted) /\ Cardinality(shifted) = Size(t)
  <2> DEFINE f == [x \in BytesOf(t) |-> <<x[1] + Len(s), x[2]>>]
  <2>1. \A x, y \in BytesOf(t) : f[x] = f[y] => x = y
    <3> TAKE x, y \in BytesOf(t)
    <3>1. /\ x = <<x[1], x[2]>> /\ y = <<y[1], y[2]>>
          /\ x[1] \in 1..Len(t) /\ y[1] \in 1..Len(t)
      BY BytesOfText
    <3> QED
      BY <1>1, <3>1
  <2>2. f \in Bijection(BytesOf(t), shifted)
    BY <2>1 DEF Bijection, Injection, Surjection, IsInjective
  <2> QED
    BY <2>2, SizeType, FS_Bijection DEF ExistsBijection, Size
<1>6. IsFiniteSet(BytesOf(s)) /\ Cardinality(BytesOf(s)) = Size(s) /\ Size(s) \in Nat /\ Size(t) \in Nat
  BY SizeType DEF Size
<1>7. Size(s \o t) = Cardinality(BytesOf(s) \cup shifted)
  <2>1. BytesOf(s \o t) = BytesOf(s) \cup shifted
    BY <1>2, <1>3
  <2> QED
    BY <2>1 DEF Size
<1> HIDE DEF shifted
<1>8. Cardinality(BytesOf(s) \cup shifted) = Size(s) + Size(t) - Cardinality({})
  BY <1>4, <1>5, <1>6, FS_Union
<1> QED
  BY <1>1, <1>6, <1>7, <1>8, FS_EmptySet

LEMMA TextBasics ==
  ASSUME NEW t \in Texts
  PROVE  /\ Len(t) \in Nat /\ DOMAIN t = 1..Len(t)
         /\ \A i \in 1..Len(t) : t[i] \in Tags
         /\ t = <<>> <=> Len(t) = 0
  BY DEF Texts

LEMMA TextsEqual ==
  ASSUME NEW t \in Texts, NEW u \in Texts, Len(t) = Len(u), \A i \in 1..Len(t) : t[i] = u[i]
  PROVE  t = u
  BY SeqEqual DEF Texts

LEMMA Joined ==
  ASSUME NEW t \in Texts, NEW u \in Texts
  PROVE  /\ t \o u \in Texts /\ Len(t \o u) = Len(t) + Len(u)
         /\ \A i \in 1..Len(t) : (t \o u)[i] = t[i]
         /\ \A i \in 1..Len(u) : (t \o u)[Len(t) + i] = u[i]
         /\ t \o <<>> = t /\ <<>> \o t = t /\ <<>> \in Texts
  BY DEF Texts

LEMMA Parts ==
  ASSUME NEW t \in Texts, NEW k \in 0..Len(t)
  PROVE  /\ Before(t, k) \in Texts /\ After(t, k) \in Texts
         /\ Len(Before(t, k)) = k /\ Len(After(t, k)) = Len(t) - k
         /\ \A i \in 1..k : Before(t, k)[i] = t[i]
         /\ \A i \in 1..(Len(t) - k) : After(t, k)[i] = t[i + k]
         /\ Before(t, k) \o After(t, k) = t
<1>1. /\ Before(t, k) \in Texts /\ After(t, k) \in Texts
      /\ Len(Before(t, k)) = k /\ Len(After(t, k)) = Len(t) - k
      /\ \A i \in 1..k : Before(t, k)[i] = t[i]
      /\ \A i \in 1..(Len(t) - k) : After(t, k)[i] = t[i + k]
  BY DEF Texts, Before, After
<1>2. Before(t, k) \o After(t, k) = t
  <2>1. Len(t) \in Nat /\ k \in Nat /\ k <= Len(t)
    BY DEF Texts
  <2>2. 1 \in 1..(Len(t) + 1) /\ k \in (1 - 1)..Len(t) /\ Len(t) \in k..Len(t)
    BY <2>1
  <2>3. SubSeq(t, 1, k) \o SubSeq(t, k + 1, Len(t)) = SubSeq(t, 1, Len(t))
    BY <2>2, ConcatAdjacentSubSeq DEF Texts
  <2>4. SubSeq(t, 1, Len(t)) = t
    BY SubSeqFull DEF Texts
  <2> QED
    BY <2>3, <2>4, Zenon DEF Before, After
<1> QED
  BY <1>1, <1>2

LEMMA SubText ==
  ASSUME NEW t \in Texts, NEW s \in 0..Len(t), NEW k \in s..Len(t)
  PROVE  /\ SubSeq(t, s + 1, k) \in Texts /\ Len(SubSeq(t, s + 1, k)) = k - s
         /\ DOMAIN SubSeq(t, s + 1, k) = 1..(k - s)
         /\ \A i \in 1..(k - s) : SubSeq(t, s + 1, k)[i] = t[s + i]
<1>1. Len(t) \in Nat /\ s + 1 \in Int /\ k \in Int /\ \A i \in (s + 1)..k : t[i] \in Tags
  BY DEF Texts
<1>2. /\ SubSeq(t, s + 1, k) \in Seq(Tags)
      /\ Len(SubSeq(t, s + 1, k)) = IF s + 1 <= k THEN k - (s + 1) + 1 ELSE 0
      /\ \A i \in 1..(k - (s + 1) + 1) : SubSeq(t, s + 1, k)[i] = t[s + 1 + i - 1]
  BY <1>1, SubSeqProperties
<1>3. PICK u \in Texts : u = SubSeq(t, s + 1, k)
  BY <1>2 DEF Texts
<1>4. Len(u) = k - s /\ \A i \in 1..(k - s) : u[i] = t[s + i]
  BY <1>1, <1>2, <1>3
<1>5. DOMAIN u = 1..(k - s)
  BY <1>4 DEF Texts
<1> QED
  BY <1>3, <1>4, <1>5

LEMMA SizeOfParts ==
  ASSUME NEW t \in Texts, NEW k \in 0..Len(t)
  PROVE  /\ Size(Before(t, k)) \in Nat /\ Size(After(t, k)) \in Nat
         /\ Size(t) = Size(Before(t, k)) + Size(After(t, k))
<1>1. Before(t, k) \in Texts /\ After(t, k) \in Texts /\ Before(t, k) \o After(t, k) = t
  BY Parts
<1> QED
  BY <1>1, SizeType, SizeConcat

\* One character is smaller than a chunk.
LEMMA SizeOfOne ==
  ASSUME NEW t \in Texts, Len(t) = 1
  PROVE  Size(t) < ChunkBytes
<1>1. PICK w \in 1..(ChunkBytes - 1) : w = Width(t[1].char)
  <2>1. 1 \in 1..Len(t)
    OBVIOUS
  <2> QED
    BY <2>1, BytesOfText
<1>2. BytesOf(t) = {1} \X (1..w)
  <2>1. \A x \in BytesOf(t) : x \in {1} \X (1..w)
    <3> SUFFICES ASSUME NEW i, NEW b, <<i, b>> \in BytesOf(t) PROVE <<i, b>> \in {1} \X (1..w)
      BY BytesOfText
    <3>1. i \in 1..1 /\ b \in 1..Width(t[i].char)
      BY BytesOfText
    <3> QED
      BY <1>1, <3>1
  <2>2. \A b \in 1..w : <<1, b>> \in BytesOf(t)
    BY <1>1, BytesOfText
  <2> QED
    BY <2>1, <2>2
<1>3. IsFiniteSet(1..w) /\ Cardinality(1..w) = w
  <2>1. w \in Int /\ 1 \in Int /\ 1 <= w
    BY OutputCaptureAssumption
  <2>2. Cardinality(1..w) = w - 1 + 1
    BY <2>1, FS_Interval
  <2> QED
    BY <2>1, <2>2, FS_Interval
<1>4. IsFiniteSet({1}) /\ Cardinality({1}) = 1
  BY FS_Singleton
<1>5. Cardinality({1} \X (1..w)) = 1 * w
  BY <1>3, <1>4, FS_Product
<1> QED
  BY <1>2, <1>5, OutputCaptureAssumption DEF Size

\* What FitsIn returns, for there is a longest beginning that fits.
LEMMA FitsInFits ==
  ASSUME NEW t \in Texts, NEW n \in Nat
  PROVE  /\ FitsIn(t, n) \in 0..Len(t)
         /\ Size(Before(t, FitsIn(t, n))) <= n
         /\ FitsIn(t, n) = Len(t) \/ Size(Before(t, FitsIn(t, n) + 1)) > n
<1> DEFINE S == {k \in 0..Len(t) : Size(Before(t, k)) <= n}
<1>1. Len(t) \in Nat
  BY DEF Texts
<1>2. 0 \in S
  <2>1. Before(t, 0) = <<>>
    BY DEF Before, Texts
  <2> QED
    BY <1>1, <2>1, SizeEmpty
<1>3. PICK m \in S : \A x \in S : x <= m
  BY <1>1, <1>2, Greatest
<1>4. m = Len(t) \/ Size(Before(t, m + 1)) > n
  <2> SUFFICES ASSUME m # Len(t), ~(Size(Before(t, m + 1)) > n) PROVE FALSE
    OBVIOUS
  <2>1. m + 1 \in 0..Len(t)
    BY <1>1
  <2>2. Size(Before(t, m + 1)) \in Nat
    BY <2>1, SizeOfParts
  <2>3. m + 1 \in S
    BY <2>1, <2>2
  <2> QED
    BY <1>1, <1>3, <2>3
<1>5. m \in 0..Len(t) /\ Size(Before(t, m)) <= n
  OBVIOUS
<1> HIDE DEF S
<1> QED
  BY <1>4, <1>5 DEF FitsIn

\* What is made of a character keeps its place.
Alike(x, y) == x.by = y.by /\ x.pos = y.pos /\ x.stream = y.stream

\* A question mark takes the byte for which the surrogate counted.
LEMMA ReplacedText ==
  ASSUME NEW t \in Texts
  PROVE  /\ Replaced(t) \in Texts /\ Len(Replaced(t)) = Len(t) /\ Size(Replaced(t)) = Size(t)
         /\ \A i \in 1..Len(t) : Alike(Replaced(t)[i], t[i])
<1> DEFINE made(x) == IF x.char = Surrogate THEN [x EXCEPT !.char = QuestionMark] ELSE x
<1>1. Len(t) \in Nat /\ DOMAIN t = 1..Len(t) /\ \A i \in 1..Len(t) : t[i] \in Tags
  BY TextBasics
<1>2. PICK u : u = [i \in 1..Len(t) |-> made(t[i])]
  OBVIOUS
<1>3. u = Replaced(t)
  BY <1>1, <1>2 DEF Replaced
<1>4. ASSUME NEW x \in Tags
      PROVE  made(x) \in Tags /\ Alike(made(x), x) /\ Width(made(x).char) = Width(x.char)
  <2>1. x = [by |-> x.by, pos |-> x.pos, stream |-> x.stream, char |-> x.char] /\ x.char \in Characters
    BY DEF Tags
  <2>2. CASE x.char # Surrogate
    BY <2>2 DEF Alike
  <2>3. CASE x.char = Surrogate
    <3>1. made(x) = [by |-> x.by, pos |-> x.pos, stream |-> x.stream, char |-> QuestionMark]
      BY <2>1, <2>3
    <3>2. QuestionMark \in Characters
      BY <2>1, <2>3, OutputCaptureAssumption DEF Characters, Width, LineFeed, Surrogate, QuestionMark
    <3>3. Width(QuestionMark) = Width(Surrogate)
      BY DEF Width, LineFeed, Surrogate, QuestionMark
    <3>4. made(x) \in Tags
      BY <3>1, <3>2 DEF Tags
    <3>5. Alike(made(x), x)
      BY <3>1 DEF Alike
    <3>6. Width(made(x).char) = Width(x.char)
      BY <2>3, <3>1, <3>3
    <3> QED
      BY <3>4, <3>5, <3>6
  <2> QED
    BY <2>2, <2>3
<1> HIDE DEF made
<1>5. /\ u \in Texts /\ Len(u) = Len(t)
      /\ \A i \in 1..Len(t) : u[i] = made(t[i])
  <2>1. u \in [1..Len(t) -> Tags]
    BY <1>1, <1>2, <1>4
  <2>2. u \in Seq(Tags) /\ Len(u) = Len(t)
    BY <1>1, <2>1
  <2> QED
    BY <1>2, <2>2 DEF Texts
<1>6. \A i \in 1..Len(t) : Alike(u[i], t[i]) /\ Width(u[i].char) = Width(t[i].char)
  BY <1>1, <1>4, <1>5
<1>7. BytesOf(u) = BytesOf(t)
  <2>1. \A i, b : <<i, b>> \in BytesOf(u) <=> <<i, b>> \in BytesOf(t)
    BY <1>5, <1>6, BytesOfText
  <2>2. (\A x \in BytesOf(u) : x = <<x[1], x[2]>>) /\ (\A x \in BytesOf(t) : x = <<x[1], x[2]>>)
    BY <1>5, BytesOfText
  <2>3. BytesOf(u) \subseteq BytesOf(t)
    BY <2>1, <2>2
  <2>4. BytesOf(t) \subseteq BytesOf(u)
    BY <2>1, <2>2
  <2> QED
    BY <2>3, <2>4
<1>8. Size(u) = Size(t)
  BY <1>7 DEF Size
<1> QED
  BY <1>3, <1>5, <1>6, <1>8

\* What is taken of a text fits, and is the text or the beginning of one alike.
LEMMA FittingText ==
  ASSUME NEW t \in Texts, NEW n \in Nat
  PROVE  /\ Fitting(t, n) \in Texts /\ Size(Fitting(t, n)) <= n
         /\ Len(Fitting(t, n)) <= Len(t)
         /\ \A i \in 1..Len(Fitting(t, n)) : Alike(Fitting(t, n)[i], t[i])
         /\ ~(FitsIn(t, n) < Len(t)) => Fitting(t, n) = t
<1>1. PICK k \in 0..Len(t) : k = FitsIn(t, n) /\ Size(Before(t, k)) <= n
  BY FitsInFits
<1>2. Len(t) \in Nat /\ (~(k < Len(t)) <=> k = Len(t))
  BY TextBasics
<1>3. PICK u \in Texts : u = Before(t, k) /\ Len(u) = k /\ \A i \in 1..k : u[i] = t[i]
  BY Parts
<1>4. CASE k = Len(t)
  <2>1. Fitting(t, n) = t
    BY <1>1, <1>4 DEF Fitting
  <2>2. u = t
    BY <1>3, <1>4, TextsEqual
  <2>3. \A i \in 1..Len(t) : Alike(t[i], t[i])
    BY DEF Alike
  <2> QED
    BY <1>1, <1>2, <1>3, <2>1, <2>2, <2>3
<1>5. CASE k # Len(t)
  <2>1. PICK v : v = Replaced(u)
    OBVIOUS
  <2>2. Fitting(t, n) = v
    BY <1>1, <1>3, <1>5, <2>1 DEF Fitting
  <2>3. v \in Texts /\ Len(v) = k /\ Size(v) <= n /\ \A i \in 1..k : Alike(v[i], u[i])
    BY <1>1, <1>3, <2>1, ReplacedText
  <2>4. \A i \in 1..k : Alike(v[i], t[i])
    BY <1>3, <2>3
  <2>5. k <= Len(t)
    BY <1>2
  <2> QED
    BY <1>1, <1>2, <1>5, <2>2, <2>3, <2>4, <2>5
<1> QED
  BY <1>4, <1>5

\* A text that can be encoded has no part that cannot.
LEMMA EncodableParts ==
  ASSUME NEW t \in Texts, NEW u \in Texts, Encodable(t \o u)
  PROVE  Encodable(t) /\ Encodable(u)
<1>1. /\ Len(t \o u) = Len(t) + Len(u) /\ t \o u \in Texts
      /\ \A i \in 1..Len(t) : (t \o u)[i] = t[i]
      /\ \A i \in 1..Len(u) : (t \o u)[Len(t) + i] = u[i]
  BY Joined
<1>2. /\ DOMAIN t = 1..Len(t) /\ DOMAIN u = 1..Len(u)
      /\ DOMAIN (t \o u) = 1..(Len(t) + Len(u)) /\ Len(t) \in Nat /\ Len(u) \in Nat
  BY <1>1, TextBasics
<1>3. \A i \in 1..(Len(t) + Len(u)) : (t \o u)[i].char # Surrogate
  BY <1>2 DEF Encodable
<1>4. \A i \in 1..Len(t) : i \in 1..(Len(t) + Len(u))
  BY <1>2
<1>5. \A i \in 1..Len(u) : Len(t) + i \in 1..(Len(t) + Len(u))
  BY <1>2
<1>6. \A i \in 1..Len(t) : t[i].char # Surrogate
  BY <1>1, <1>3, <1>4
<1>7. \A i \in 1..Len(u) : u[i].char # Surrogate
  BY <1>1, <1>3, <1>5
<1> QED
  BY <1>2, <1>6, <1>7 DEF Encodable

\* A chunk takes at least one character.
LEMMA ChunkTakesOne ==
  ASSUME NEW t \in Texts, t # <<>>
  PROVE  FitsIn(t, ChunkBytes) \in 1..Len(t)
<1>1. Len(t) \in Nat \ {0} /\ 1 \in 0..Len(t) /\ ChunkBytes \in Nat
  BY OutputCaptureAssumption DEF Texts
<1>2. FitsIn(t, ChunkBytes) # 0
  <2> SUFFICES ASSUME FitsIn(t, ChunkBytes) = 0 PROVE FALSE
    OBVIOUS
  <2>1. Size(Before(t, 1)) > ChunkBytes
    BY <1>1, FitsInFits
  <2>2. Before(t, 1) \in Texts /\ Len(Before(t, 1)) = 1
    BY <1>1, Parts
  <2>3. Size(Before(t, 1)) < ChunkBytes /\ Size(Before(t, 1)) \in Nat
    BY <2>2, SizeOfOne, SizeType
  <2> QED
    BY <1>1, <2>1, <2>3
<1> QED
  BY <1>1, <1>2, FitsInFits

-----------------------------------------------------------------------------
(* How a text is divided *)

\* A text that is divided once more is divided further on.
LEMMA CutIsAhead ==
  ASSUME NEW t \in Texts, NEW s \in 0..Len(t), IsLong(t, s)
  PROVE  Cut(t, s) \in (s + 1)..Len(t)
<1>0. Len(t) \in Nat /\ DOMAIN t = 1..Len(t)
  BY DEF Texts
<1>1. CASE LineEnds(t, s) # {}
  <2>1. LineEnds(t, s) \in SUBSET Nat
    BY <1>0 DEF LineEnds, LineFeeds
  <2>2. \E i \in LineEnds(t, s) : \A j \in LineEnds(t, s) : i <= j
    BY <1>1, <2>1, Least
  <2>3. Cut(t, s) \in LineEnds(t, s)
    BY <1>1, <2>2 DEF Cut
  <2> QED
    BY <1>0, <2>3 DEF LineEnds, LineFeeds
<1>2. CASE LineEnds(t, s) = {}
  <2>1. Size(After(t, s)) >= ChunkBytes
    BY <1>2 DEF IsLong
  <2>2. After(t, s) # <<>>
    BY <2>1, SizeEmpty, OutputCaptureAssumption
  <2>3. After(t, s) \in Texts /\ Len(After(t, s)) = Len(t) - s
    BY Parts
  <2>4. FitsIn(After(t, s), ChunkBytes) \in 1..(Len(t) - s)
    BY <2>2, <2>3, ChunkTakesOne
  <2> QED
    BY <1>0, <1>2, <2>4 DEF Cut
<1> QED
  BY <1>1, <1>2

\* Cuts is the least division.
LEMMA CutsDivide ==
  ASSUME NEW t \in Texts
  PROVE  Cuts(t) \in SUBSET (1..Len(t)) /\ IsDivided(t, Cuts(t))
<1>0. Len(t) \in Nat /\ DOMAIN t = 1..Len(t)
  BY DEF Texts
<1>1. Cuts(t) \in SUBSET (1..Len(t))
  BY <1>0 DEF Cuts
<1>2. ASSUME NEW s \in {0} \cup Cuts(t), IsLong(t, s) PROVE Cut(t, s) \in Cuts(t)
  <2>1. s \in 0..Len(t)
    BY <1>0, <1>1
  <2>2. Cut(t, s) \in DOMAIN t
    BY <1>0, <1>2, <2>1, CutIsAhead
  <2>3. ASSUME NEW cuts \in SUBSET DOMAIN t, IsDivided(t, cuts) PROVE Cut(t, s) \in cuts
    <3>1. s \in {0} \cup cuts
      BY <2>3 DEF Cuts
    <3> QED
      BY <1>2, <2>3, <3>1 DEF IsDivided
  <2> QED
    BY <2>2, <2>3 DEF Cuts
<1> QED
  BY <1>1, <1>2 DEF IsDivided

LEMMA CutsLeast ==
  ASSUME NEW t \in Texts, NEW cuts \in SUBSET (1..Len(t)), IsDivided(t, cuts)
  PROVE  Cuts(t) \subseteq cuts
<1>1. DOMAIN t = 1..Len(t)
  BY DEF Texts
<1> QED
  BY <1>1 DEF Cuts

\* Every cut is made at an earlier one or at the beginning.
LEMMA CutHasStart ==
  ASSUME NEW t \in Texts, NEW k \in Cuts(t)
  PROVE  \E s \in {0} \cup Cuts(t) : s < k /\ IsLong(t, s) /\ Cut(t, s) = k
<1> SUFFICES ASSUME ~\E s \in {0} \cup Cuts(t) : s < k /\ IsLong(t, s) /\ Cut(t, s) = k PROVE FALSE
  OBVIOUS
<1>0. Len(t) \in Nat /\ Cuts(t) \in SUBSET (1..Len(t)) /\ IsDivided(t, Cuts(t))
  BY CutsDivide DEF Texts
<1>1. PICK cuts : cuts = Cuts(t) \ {k}
  OBVIOUS
<1>2. ASSUME NEW s \in {0} \cup cuts, IsLong(t, s) PROVE Cut(t, s) \in cuts
  <2>1. s \in 0..Len(t) /\ s \in {0} \cup Cuts(t)
    BY <1>0, <1>1
  <2>2. Cut(t, s) \in Cuts(t)
    BY <1>0, <1>2, <2>1 DEF IsDivided
  <2>3. Cut(t, s) \in (s + 1)..Len(t)
    BY <1>2, <2>1, CutIsAhead
  <2>4. Cut(t, s) = k => s < k
    BY <2>1, <2>3
  <2> QED
    BY <1>1, <1>2, <2>1, <2>2, <2>4
<1>3. Cuts(t) \subseteq cuts
  BY <1>0, <1>1, <1>2, CutsLeast DEF IsDivided
<1> QED
  BY <1>1, <1>3

\* Nothing is cut between a cut and the next.
LEMMA NoCutBetween ==
  ASSUME NEW t \in Texts, NEW s \in {0} \cup Cuts(t), IsLong(t, s), NEW k \in Cuts(t)
  PROVE  ~(s < k /\ k < Cut(t, s))
<1>0. Len(t) \in Nat /\ Cuts(t) \in SUBSET (1..Len(t))
  BY CutsDivide DEF Texts
<1> DEFINE IsBad(x) == \E a \in {0} \cup Cuts(t) : IsLong(t, a) /\ a < x /\ x < Cut(t, a)
           bad == {x \in Cuts(t) : IsBad(x)}
<1>1. ASSUME bad # {} PROVE FALSE
  <2>1. bad \in SUBSET Nat
    BY <1>0
  <2>2. PICK x \in bad : \A y \in bad : x <= y
    BY <1>1, <2>1, Least
  <2>3. PICK a \in {0} \cup Cuts(t) : IsLong(t, a) /\ a < x /\ x < Cut(t, a)
    OBVIOUS
  <2>4. PICK b \in {0} \cup Cuts(t) : b < x /\ IsLong(t, b) /\ Cut(t, b) = x
    BY CutHasStart
  <2>5. a \in Nat /\ b \in Nat /\ x \in Nat
    BY <1>0
  <2>6. CASE a = b
    BY <2>3, <2>4, <2>5, <2>6
  <2>7. CASE a < b
    <3>1. b \in Cuts(t) /\ b < Cut(t, a)
      <4>1. Cut(t, a) \in Nat
        <5>1. a \in 0..Len(t)
          BY <1>0
        <5> QED
          BY <1>0, <2>3, <5>1, CutIsAhead
      <4> QED
        BY <2>3, <2>4, <2>5, <2>7, <4>1
    <3>2. b \in bad
      BY <2>3, <2>7, <3>1
    <3> QED
      BY <2>2, <2>4, <2>5, <3>2
  <2>8. CASE b < a
    <3>1. a \in Cuts(t) /\ a < Cut(t, b)
      BY <2>3, <2>4, <2>5, <2>8
    <3>2. a \in bad
      BY <2>4, <2>8, <3>1
    <3> QED
      BY <2>2, <2>3, <2>5, <3>2
  <2> QED
    BY <2>5, <2>6, <2>7, <2>8
<1> QED
  BY <1>1

\* Neighbouring cuts: the second is made at the first.
LEMMA NextCut ==
  ASSUME NEW t \in Texts, NEW s \in {0} \cup Cuts(t), NEW k \in Cuts(t), s < k,
         \A i \in Cuts(t) : i <= s \/ k <= i
  PROVE  IsLong(t, s) /\ Cut(t, s) = k
<1>0. Len(t) \in Nat /\ Cuts(t) \in SUBSET (1..Len(t))
  BY CutsDivide DEF Texts
<1>1. PICK a \in {0} \cup Cuts(t) : a < k /\ IsLong(t, a) /\ Cut(t, a) = k
  BY CutHasStart
<1>2. a \in Nat /\ s \in Nat /\ k \in Nat /\ a <= s
  BY <1>0, <1>1
<1>3. CASE a < s
  <2>1. s \in Cuts(t)
    BY <1>2, <1>3
  <2> QED
    BY <1>1, <1>3, <2>1, NoCutBetween
<1>4. CASE a = s
  BY <1>1, <1>4
<1> QED
  BY <1>2, <1>3, <1>4

LEMMA TextIsPart ==
  ASSUME NEW t \in Texts, NEW n \in 0..Len(t), NEW part \in Texts,
         Len(part) = n, \A i \in 1..n : part[i] = t[i]
  PROVE  Before(t, n) = part
<1>1. PICK p \in Texts : p = Before(t, n) /\ Len(p) = n /\ \A i \in 1..n : p[i] = t[i]
  BY Parts
<1>2. Len(p) = Len(part) /\ \A i \in 1..Len(p) : p[i] = part[i]
  BY <1>1
<1>3. p = part
  BY <1>2, TextsEqual
<1> QED
  BY <1>1, <1>3

\* Between neighbouring cuts there is one whole line, or a part of at most
\* chunk_bytes of one.
LEMMA CutsMakeChunks ==
  ASSUME NEW t \in Texts, NEW s \in {0} \cup Cuts(t), NEW k \in Cuts(t), s < k,
         \A i \in Cuts(t) : i <= s \/ k <= i
  PROVE  /\ LineFeeds(SubSeq(t, s + 1, k)) \subseteq {Len(SubSeq(t, s + 1, k))}
         /\ \/ Size(SubSeq(t, s + 1, k)) <= ChunkBytes
            \/ LineFeeds(SubSeq(t, s + 1, k)) # {}
<1>0. /\ Len(t) \in Nat /\ DOMAIN t = 1..Len(t)
      /\ s \in 0..Len(t) /\ k \in (s + 1)..Len(t)
  BY CutsDivide DEF Texts
<1>1. IsLong(t, s) /\ Cut(t, s) = k
  BY NextCut
<1>2. PICK part : part = SubSeq(t, s + 1, k)
  OBVIOUS
<1>3. /\ part \in Texts /\ Len(part) = k - s /\ DOMAIN part = 1..(k - s)
      /\ \A i \in 1..(k - s) : part[i] = t[s + i]
  <2>1. k \in s..Len(t)
    BY <1>0
  <2> QED
    BY <1>0, <1>2, <2>1, SubText
<1>4. \A i : i \in LineFeeds(part) <=> i \in 1..(k - s) /\ t[s + i].char = LineFeed
  BY <1>3 DEF LineFeeds
<1>5. CASE LineEnds(t, s) # {}
  <2>1. LineEnds(t, s) \in SUBSET Nat
    BY <1>0 DEF LineEnds, LineFeeds
  <2>2. \E i \in LineEnds(t, s) : \A j \in LineEnds(t, s) : i <= j
    BY <1>5, <2>1, Least
  <2>3. k \in LineEnds(t, s) /\ \A j \in LineEnds(t, s) : k <= j
    BY <1>1, <1>5, <2>2 DEF Cut
  <2>4. k - s \in LineFeeds(part)
    BY <1>0, <1>4, <2>3 DEF LineEnds, LineFeeds
  <2>5. ASSUME NEW i \in LineFeeds(part) PROVE i = k - s
    <3>1. i \in 1..(k - s) /\ s + i \in LineEnds(t, s)
      BY <1>0, <1>4 DEF LineEnds, LineFeeds
    <3> QED
      BY <1>0, <2>3, <3>1
  <2> QED
    BY <1>2, <1>3, <2>4, <2>5
<1>6. CASE LineEnds(t, s) = {}
  <2>1. LineFeeds(part) = {}
    <3> SUFFICES ASSUME NEW i \in LineFeeds(part) PROVE FALSE
      OBVIOUS
    <3>1. i \in 1..(k - s) /\ s + i \in LineEnds(t, s)
      BY <1>0, <1>4 DEF LineEnds, LineFeeds
    <3> QED
      BY <1>6, <3>1
  <2>2. PICK rest \in Texts : rest = After(t, s)
    BY <1>0, Parts
  <2>3. FitsIn(rest, ChunkBytes) = k - s
    <3>1. FitsIn(rest, ChunkBytes) \in Nat
      <4>1. FitsIn(rest, ChunkBytes) \in 0..Len(rest) /\ Len(rest) \in Nat
        <5>1. ChunkBytes \in Nat
          BY OutputCaptureAssumption
        <5>2. Len(rest) \in Nat
          BY DEF Texts
        <5> QED
          BY <5>1, <5>2, FitsInFits, Zenon
      <4> QED
        BY <4>1
    <3>2. s + FitsIn(rest, ChunkBytes) = k
      BY <1>1, <1>6, <2>2 DEF Cut
    <3> QED
      BY <1>0, <3>1, <3>2
  <2>4. Size(Before(rest, k - s)) <= ChunkBytes
    BY <2>3, FitsInFits, OutputCaptureAssumption
  <2>5. Before(rest, k - s) = part
    <3>1. Len(rest) = Len(t) - s /\ \A i \in 1..(Len(t) - s) : rest[i] = t[i + s]
      BY <1>0, <2>2, Parts
    <3>2. k - s \in 0..Len(rest)
      BY <1>0, <3>1
    <3>3. Len(part) = k - s /\ \A i \in 1..(k - s) : part[i] = rest[i]
      BY <1>0, <1>3, <3>1
    <3>4. part \in Texts
      BY <1>3
    <3> QED
      BY ONLY <2>2, <3>2, <3>3, <3>4, TextIsPart, ZenonT(40)
  <2> QED
    BY <1>2, <2>1, <2>4, <2>5
<1> QED
  BY <1>5, <1>6

\* What stays pending has no line feed and, if it can be encoded, is smaller
\* than a chunk.
LEMMA RestIsShort ==
  ASSUME NEW t \in Texts
  PROVE  /\ LastCut(t) \in {0} \cup Cuts(t) /\ LastCut(t) \in 0..Len(t)
         /\ \A i \in Cuts(t) : i <= LastCut(t)
         /\ LineFeeds(After(t, LastCut(t))) = {}
         /\ Encodable(After(t, LastCut(t))) => Size(After(t, LastCut(t))) < ChunkBytes
<1>0. /\ Len(t) \in Nat /\ DOMAIN t = 1..Len(t)
      /\ Cuts(t) \in SUBSET (1..Len(t)) /\ IsDivided(t, Cuts(t))
  BY CutsDivide DEF Texts
<1>1. \E i \in {0} \cup Cuts(t) : \A j \in Cuts(t) : j <= i
  <2>1. CASE Cuts(t) = {}
    BY <2>1
  <2>2. CASE Cuts(t) # {}
    <3>1. Cuts(t) \in SUBSET (0..Len(t))
      BY <1>0
    <3> QED
      BY <1>0, <2>2, <3>1, Greatest
  <2> QED
    BY <2>1, <2>2
<1>2. LastCut(t) \in {0} \cup Cuts(t) /\ \A j \in Cuts(t) : j <= LastCut(t)
  BY <1>1 DEF LastCut
<1>3. PICK s \in 0..Len(t) : s = LastCut(t)
  BY <1>0, <1>2
<1>4. ~IsLong(t, s)
  <2> SUFFICES ASSUME IsLong(t, s) PROVE FALSE
    OBVIOUS
  <2>1. Cut(t, s) \in Cuts(t)
    BY <1>0, <1>2, <1>3 DEF IsDivided
  <2>2. Cut(t, s) \in (s + 1)..Len(t)
    BY CutIsAhead
  <2> QED
    BY <1>2, <1>3, <2>1, <2>2
<1>5. PICK rest \in Texts : rest = After(t, s)
  BY Parts
<1>6. Encodable(rest) => Size(rest) < ChunkBytes
  BY <1>4, <1>5, SizeType, OutputCaptureAssumption DEF IsLong
<1>7. LineFeeds(rest) = {}
  <2> SUFFICES ASSUME NEW i \in LineFeeds(rest) PROVE FALSE
    OBVIOUS
  <2>1. Len(rest) = Len(t) - s /\ \A j \in 1..(Len(t) - s) : rest[j] = t[j + s]
    BY <1>5, Parts
  <2>2. i \in 1..Len(rest) /\ rest[i].char = LineFeed
    BY DEF LineFeeds, Texts
  <2>3. i + s \in LineEnds(t, s)
    BY <1>0, <2>1, <2>2 DEF LineEnds, LineFeeds
  <2> QED
    BY <1>4, <2>3 DEF IsLong
<1> QED
  BY <1>2, <1>3, <1>5, <1>6, <1>7

-----------------------------------------------------------------------------
(* What a buffer holds *)

Neighbours(ends, s, k) == s < k /\ \A f \in ends : f.at <= s \/ k <= f.at

\* The chunks of ChunksAreWellFormed.
Chunked(logs, ends) ==
    /\ \A e \in ends : e.at \in 1..Len(logs)
    /\ logs # <<>> => \E e \in ends : e.at = Len(logs)
    /\ \A e \in ends, s \in {0} \cup {f.at : f \in ends} :
         Neighbours(ends, s, e.at) => IsChunk(SubSeq(logs, s + 1, e.at), e.stream)

WellFormed(b) ==
    /\ Chunked(b.logs, b.ends)
    /\ \A i \in DOMAIN b.pending.text : b.pending.text[i].stream = b.pending.stream
    /\ LineFeeds(b.pending.text) = {}
    /\ Encodable(b.pending.text) => Size(b.pending.text) < ChunkBytes

\* A text is cut into chunks of one stream, to its end.
CutInChunks(t, cuts, stream) ==
    /\ cuts \in SUBSET (1..Len(t))
    /\ t # <<>> => Len(t) \in cuts
    /\ \A s \in {0} \cup cuts, k \in cuts :
         s < k /\ (\A i \in cuts : i <= s \/ k <= i) => IsChunk(SubSeq(t, s + 1, k), stream)

\* Chunks are added to chunks.
LEMMA AddChunks ==
  ASSUME NEW logs \in Texts, NEW ends \in SUBSET Ends, Chunked(logs, ends),
         NEW t \in Texts, NEW stream, NEW cuts, CutInChunks(t, cuts, stream)
  PROVE  Chunked(logs \o t, ends \cup {[at |-> Len(logs) + i, stream |-> stream] : i \in cuts})
<1>1. PICK all, new : /\ all = logs \o t
                      /\ new = {[at |-> Len(logs) + i, stream |-> stream] : i \in cuts}
  OBVIOUS
<1>0. /\ cuts \in SUBSET (1..Len(t))
      /\ t # <<>> => Len(t) \in cuts
  BY DEF CutInChunks
<1>2. /\ all \in Texts /\ Len(all) = Len(logs) + Len(t)
      /\ Len(logs) \in Nat /\ Len(t) \in Nat
      /\ \A e \in ends : e.at \in 1..Len(logs)
      /\ logs # <<>> => \E e \in ends : e.at = Len(logs)
  BY <1>1 DEF Texts, Chunked
<1>3. /\ \A e \in new : \E i \in cuts : e.at = Len(logs) + i /\ e.stream = stream
      /\ \A i \in cuts : \E e \in new : e.at = Len(logs) + i /\ e.stream = stream
  <2>1. \A i \in cuts : [at |-> Len(logs) + i, stream |-> stream] \in new
    BY <1>1
  <2>2. \A e \in new : \E i \in cuts : e = [at |-> Len(logs) + i, stream |-> stream]
    BY <1>1
  <2>3. \A e \in new : \E i \in cuts : e.at = Len(logs) + i /\ e.stream = stream
    BY <2>2
  <2>4. ASSUME NEW i \in cuts PROVE \E e \in new : e.at = Len(logs) + i /\ e.stream = stream
    <3>1. PICK e \in new : e = [at |-> Len(logs) + i, stream |-> stream]
      BY <2>1
    <3> QED
      BY <3>1
  <2> QED
    BY <2>3, <2>4
<1>4. \A e \in ends \cup new : e.at \in 1..Len(all)
  <2>1. \A e \in ends : e.at \in 1..Len(all)
    BY <1>2
  <2>2. \A e \in new : e.at \in 1..Len(all)
    BY <1>0, <1>2, <1>3
  <2> QED
    BY <2>1, <2>2
<1>5. all # <<>> => \E e \in ends \cup new : e.at = Len(all)
  <2>1. CASE t = <<>>
    <3>1. all = logs
      BY <1>1, <2>1, ConcatEmptySeq DEF Texts
    <3> QED
      BY <1>2, <3>1
  <2>2. CASE t # <<>>
    BY <1>0, <1>2, <1>3, <2>2
  <2> QED
    BY <2>1, <2>2
<1>6. ASSUME NEW e \in ends \cup new, NEW s \in {0} \cup {f.at : f \in ends \cup new},
             Neighbours(ends \cup new, s, e.at)
      PROVE  IsChunk(SubSeq(all, s + 1, e.at), e.stream)
  <2>0. /\ s < e.at /\ \A f \in ends \cup new : f.at <= s \/ e.at <= f.at
        /\ s \in Nat /\ e.at \in Nat
    BY <1>4, <1>6 DEF Neighbours
  <2>1. CASE e \in ends
    <3>1. e.at \in 1..Len(logs) /\ s + 1 \in 1..Len(logs)
      BY <1>2, <2>0, <2>1
    <3>2. s \in {0} \cup {f.at : f \in ends}
      <4>1. \A f \in new : f.at > Len(logs)
        BY <1>0, <1>2, <1>3
      <4> QED
        BY <2>0, <3>1, <4>1, <1>2
    <3>3. SubSeq(all, s + 1, e.at) = SubSeq(logs, s + 1, e.at)
      BY <1>1, <3>1, SubSeqOfConcat1 DEF Texts
    <3>4. Neighbours(ends, s, e.at)
      BY <2>0 DEF Neighbours
    <3>5. IsChunk(SubSeq(logs, s + 1, e.at), e.stream)
      BY <2>1, <3>2, <3>4 DEF Chunked
    <3> QED
      BY <3>3, <3>5
  <2>2. CASE e \in new
    <3>1. PICK k \in cuts : e.at = Len(logs) + k /\ e.stream = stream
      BY <1>3, <2>2
    <3>2. PICK j \in {0} \cup cuts : s = Len(logs) + j
      <4>1. CASE s \in {f.at : f \in new}
        <5>1. PICK f \in new : s = f.at
          BY <4>1
        <5> QED
          BY <1>3, <5>1
      <4>2. CASE s \in {0} \cup {f.at : f \in ends}
        <5>1. s <= Len(logs)
          BY <1>2, <4>2
        <5>2. CASE logs = <<>>
          BY <1>2, <2>0, <5>1, <5>2
        <5>3. CASE logs # <<>>
          <6>1. PICK f \in ends : f.at = Len(logs)
            BY <1>2, <5>3
          <6>2. f.at <= s
            BY <1>0, <1>2, <2>0, <3>1, <6>1
          <6> QED
            BY <1>2, <2>0, <5>1, <6>1, <6>2
        <5> QED
          BY <5>2, <5>3
      <4> QED
        BY <4>1, <4>2
    <3>3. j \in Nat /\ k \in 1..Len(t) /\ j < k
      BY <1>0, <1>2, <2>0, <3>1, <3>2
    <3>4. \A i \in cuts : i <= j \/ k <= i
      <4> SUFFICES ASSUME NEW i \in cuts PROVE i <= j \/ k <= i
        OBVIOUS
      <4>1. PICK f \in new : f.at = Len(logs) + i
        BY <1>3
      <4>2. Len(logs) + i <= Len(logs) + j \/ Len(logs) + k <= Len(logs) + i
        BY <2>0, <3>1, <3>2, <4>1
      <4> QED
        BY <1>0, <1>2, <3>3, <4>2
    <3>5. IsChunk(SubSeq(t, j + 1, k), stream)
      BY <3>3, <3>4 DEF CutInChunks
    <3>6. SubSeq(all, s + 1, e.at) = SubSeq(t, j + 1, k)
      <4>1. PICK m, n : m = Len(logs) + j + 1 /\ n = Len(logs) + k
        OBVIOUS
      <4>2. /\ m \in (Len(logs) + 1)..(Len(logs) + Len(t))
            /\ n \in (Len(logs) + 1)..(Len(logs) + Len(t))
            /\ m - Len(logs) = j + 1 /\ n - Len(logs) = k
        BY <1>2, <3>3, <4>1
      <4>3. s + 1 = m /\ e.at = n
        BY <3>1, <3>2, <4>1
      <4>4. SubSeq(logs \o t, m, n) = SubSeq(t, m - Len(logs), n - Len(logs))
        <5>1. logs \in Seq(Tags) /\ t \in Seq(Tags)
          BY DEF Texts
        <5> QED
          BY <4>2, <5>1, SubSeqOfConcat2
      <4>5. SubSeq(logs \o t, m, n) = SubSeq(t, j + 1, k)
        BY <4>2, <4>4
      <4> QED
        BY <1>1, <4>3, <4>5
    <3> QED
      BY <3>1, <3>5, <3>6
  <2> QED
    BY <2>1, <2>2
<1>7. Chunked(all, ends \cup new)
  BY <1>4, <1>5, <1>6 DEF Chunked
<1> QED
  BY <1>1, <1>7

Whole(b) == b.logs \o b.pending.text

LEMMA ContentsTyped ==
  ASSUME NEW b \in Contents
  PROVE  /\ b.logs \in Texts /\ b.ends \in SUBSET Ends /\ b.pending.text \in Texts
         /\ b.pending.stream \in Streams \cup {NoStream}
         /\ Whole(b) \in Texts
<1>1. b.logs \in Texts /\ b.ends \in SUBSET Ends /\ b.pending \in [stream : Streams \cup {NoStream}, text : Texts]
  BY DEF Contents
<1>2. b.pending.text \in Texts /\ b.pending.stream \in Streams \cup {NoStream}
  BY <1>1
<1> QED
  BY <1>1, <1>2, Joined DEF Whole

\* A flush takes what is pending as one more chunk.
LEMMA FlushKeeps ==
  ASSUME NEW b \in Contents, WellFormed(b)
  PROVE  /\ Flushed(b) \in Contents /\ WellFormed(Flushed(b))
         /\ Flushed(b).logs = Whole(b) /\ Flushed(b).pending = Empty
         /\ Whole(Flushed(b)) = Whole(b)
<1>1. PICK logs, ends, p, q : logs = b.logs /\ ends = b.ends /\ p = b.pending.text /\ q = b.pending.stream
  OBVIOUS
<1>2. logs \in Texts /\ ends \in SUBSET Ends /\ p \in Texts /\ q \in Streams \cup {NoStream}
  BY <1>1, ContentsTyped
<1>3. /\ logs \o p \in Texts /\ Len(logs \o p) = Len(logs) + Len(p)
      /\ Len(logs) \in Nat /\ Len(p) \in Nat /\ DOMAIN p = 1..Len(p)
      /\ p = <<>> <=> Len(p) = 0
  BY <1>2, Joined, TextBasics
<1>4. PICK new : new = IF p = <<>> THEN ends ELSE ends \cup {[at |-> Len(logs \o p), stream |-> q]}
  OBVIOUS
<1>5. Flushed(b) = [logs |-> logs \o p, ends |-> new, pending |-> Empty]
  BY <1>1, <1>4 DEF Flushed
<1>6. p # <<>> => q \in Streams
  <2> SUFFICES ASSUME p # <<>> PROVE q \in Streams
    OBVIOUS
  <2>1. 1 \in 1..Len(p)
    BY <1>3
  <2>2. p[1].stream \in Streams
    BY <1>2, <2>1, TextBasics DEF Tags
  <2>3. p[1].stream = q
    BY <1>1, <1>3, <2>1 DEF WellFormed
  <2> QED
    BY <2>2, <2>3
<1>7. Flushed(b) \in Contents
  <2>1. new \in SUBSET Ends
    BY <1>2, <1>3, <1>4, <1>6 DEF Ends
  <2>2. Empty \in [stream : Streams \cup {NoStream}, text : Texts]
    BY <1>2, Joined DEF Empty
  <2> QED
    BY <1>3, <1>5, <2>1, <2>2 DEF Contents
<1>8. Chunked(logs \o p, new)
  <2>1. PICK cuts : cuts = IF p = <<>> THEN {} ELSE {Len(p)}
    OBVIOUS
  <2>2. cuts \in SUBSET (1..Len(p)) /\ (p # <<>> => Len(p) \in cuts)
    BY <1>3, <2>1
  <2>3. ASSUME NEW s \in {0} \cup cuts, NEW k \in cuts, s < k PROVE IsChunk(SubSeq(p, s + 1, k), q)
    <3>0. p # <<>>
      BY <2>1
    <3>1. k = Len(p) /\ s = 0
      BY <1>3, <2>1, <2>3, <3>0
    <3>2. SubSeq(p, s + 1, k) = p
      <4>1. s + 1 = 1
        BY <3>1
      <4> QED
        BY <1>2, <3>1, <4>1, SubSeqFull DEF Texts
    <3>3. /\ \A i \in DOMAIN p : p[i].stream = q
          /\ LineFeeds(p) = {} /\ (Encodable(p) => Size(p) < ChunkBytes)
      BY <1>1 DEF WellFormed
    <3>4. Encodable(p) => Size(p) <= ChunkBytes
      BY <1>2, <3>3, SizeType, OutputCaptureAssumption
    <3> QED
      BY <3>2, <3>3, <3>4 DEF IsChunk
  <2>4. Chunked(logs, ends)
    BY <1>1 DEF WellFormed
  <2>5. Chunked(logs \o p, ends \cup {[at |-> Len(logs) + i, stream |-> q] : i \in cuts})
    <3>1. CutInChunks(p, cuts, q)
      BY <2>2, <2>3 DEF CutInChunks
    <3> QED
      BY <1>2, <2>4, <3>1, AddChunks
  <2>6. new = ends \cup {[at |-> Len(logs) + i, stream |-> q] : i \in cuts}
    BY <1>3, <1>4, <2>1
  <2> QED
    BY <2>5, <2>6
<1>9. WellFormed(Flushed(b))
  <2>1. /\ \A i \in DOMAIN Empty.text : Empty.text[i].stream = Empty.stream
        /\ LineFeeds(Empty.text) = {}
    BY DEF Empty, LineFeeds
  <2>2. Size(Empty.text) < ChunkBytes
    BY SizeEmpty, OutputCaptureAssumption DEF Empty
  <2> QED
    BY <1>5, <1>8, <2>1, <2>2 DEF WellFormed
<1>10. /\ Flushed(b).logs = Whole(b) /\ Flushed(b).pending = Empty
       /\ Whole(Flushed(b)) = Whole(b)
  <2>1. Flushed(b).logs = logs \o p /\ Flushed(b).pending = Empty
    BY <1>5
  <2>2. Flushed(b).pending.text = <<>>
    BY <2>1 DEF Empty
  <2>3. (logs \o p) \o <<>> = logs \o p
    BY <1>3, Joined
  <2> QED
    BY <1>1, <2>1, <2>2, <2>3 DEF Whole
<1> QED
  BY <1>7, <1>9, <1>10

\* What is appended follows what was kept, whole, in chunks of the right
\* streams and sizes.
LEMMA AppendKeeps ==
  ASSUME NEW b \in Contents, WellFormed(b), NEW stream \in Streams, NEW text \in Texts,
         \A i \in DOMAIN text : text[i].stream = stream
  PROVE  /\ Appended(b, stream, text) \in Contents
         /\ WellFormed(Appended(b, stream, text))
         /\ Whole(Appended(b, stream, text)) = Whole(b) \o text
<1>1. PICK base : base = IF b.pending.stream \in {NoStream, stream} THEN b ELSE Flushed(b)
  OBVIOUS
<1>2. base \in Contents /\ WellFormed(base) /\ Whole(base) = Whole(b)
  BY <1>1, FlushKeeps
<1>3. PICK logs, ends, p : logs = base.logs /\ ends = base.ends /\ p = base.pending.text
  OBVIOUS
<1>4. logs \in Texts /\ ends \in SUBSET Ends /\ p \in Texts
  BY <1>2, <1>3, ContentsTyped
<1>5. \A i \in DOMAIN p : p[i].stream = stream
  <2>1. \A i \in DOMAIN p : p[i].stream = base.pending.stream /\ p[i].stream \in Streams
    BY <1>2, <1>3, <1>4, TextBasics DEF WellFormed, Tags
  <2>2. base.pending.stream \in {NoStream, stream}
    BY <1>1, FlushKeeps DEF Empty
  <2> QED
    BY <2>1, <2>2, OutputCaptureAssumption
<1>6. PICK whole \in Texts : whole = p \o text
  BY <1>4, Joined
<1>7. \A i \in DOMAIN whole : whole[i].stream = stream
  <2> SUFFICES ASSUME NEW i \in DOMAIN whole PROVE whole[i].stream = stream
    OBVIOUS
  <2>1. /\ i \in 1..(Len(p) + Len(text)) /\ Len(p) \in Nat /\ Len(text) \in Nat
        /\ DOMAIN p = 1..Len(p) /\ DOMAIN text = 1..Len(text)
    BY <1>4, <1>6, Joined, TextBasics
  <2>2. CASE i \in 1..Len(p)
    BY <1>4, <1>5, <1>6, <2>1, <2>2, Joined
  <2>3. CASE i \notin 1..Len(p)
    <3>1. i - Len(p) \in 1..Len(text) /\ i = Len(p) + (i - Len(p))
      BY <2>1, <2>3
    <3>2. whole[i] = text[i - Len(p)]
      BY <1>4, <1>6, <3>1, Joined
    <3> QED
      BY <2>1, <3>1, <3>2
  <2> QED
    BY <2>2, <2>3
<1>8. PICK k \in 0..Len(whole) : k = LastCut(whole)
  BY RestIsShort
<1>9. PICK t, rest : t = Before(whole, k) /\ rest = After(whole, k)
  OBVIOUS
<1>10. PICK cuts : cuts = Cuts(whole)
  OBVIOUS
<1>11. /\ t \in Texts /\ rest \in Texts /\ Len(t) = k /\ t \o rest = whole
       /\ Len(rest) = Len(whole) - k
       /\ \A i \in 1..k : t[i] = whole[i]
       /\ \A i \in 1..(Len(whole) - k) : rest[i] = whole[i + k]
  BY <1>8, <1>9, Parts
<1>12. /\ cuts \in SUBSET (1..k) /\ k \in {0} \cup cuts
       /\ Len(whole) \in Nat /\ k \in Nat
  <2>1. cuts \in SUBSET (1..Len(whole)) /\ Len(whole) \in Nat
    BY <1>10, CutsDivide, TextBasics
  <2>2. k \in {0} \cup cuts /\ \A i \in cuts : i <= k
    BY <1>8, <1>10, RestIsShort
  <2> QED
    BY <2>1, <2>2
<1>13. PICK new : new = {[at |-> Len(logs) + i, stream |-> stream] : i \in cuts}
  OBVIOUS
<1>14. PICK a : a = [logs |-> logs \o t, ends |-> ends \cup new,
                     pending |-> [stream |-> stream, text |-> rest]]
  OBVIOUS
<1>15. Appended(b, stream, text) = a
  BY <1>1, <1>3, <1>6, <1>8, <1>9, <1>10, <1>13, <1>14 DEF Appended
<1>16. a \in Contents
  <2>1. Len(logs) \in Nat /\ logs \o t \in Texts
    BY <1>4, <1>11, Joined, TextBasics
  <2>2. new \in SUBSET Ends
    BY <1>12, <1>13, <2>1 DEF Ends
  <2> QED
    BY <1>4, <1>11, <1>14, <2>1, <2>2 DEF Contents
<1>17. Chunked(logs \o t, ends \cup new)
  <2>1. ASSUME NEW s \in {0} \cup cuts, NEW j \in cuts, s < j, \A i \in cuts : i <= s \/ j <= i
        PROVE  IsChunk(SubSeq(t, s + 1, j), stream)
    <3>1. /\ s \in 0..Len(t) /\ j \in s..Len(t) /\ j \in s..Len(whole) /\ s \in 0..Len(whole)
      BY <1>8, <1>11, <1>12, <2>1
    <3>2. SubSeq(t, s + 1, j) = SubSeq(whole, s + 1, j)
      <4>1. PICK u \in Texts : /\ u = SubSeq(t, s + 1, j) /\ Len(u) = j - s
                               /\ \A i \in 1..(j - s) : u[i] = t[s + i]
        BY <1>11, <3>1, SubText
      <4>2. PICK v \in Texts : /\ v = SubSeq(whole, s + 1, j) /\ Len(v) = j - s
                               /\ \A i \in 1..(j - s) : v[i] = whole[s + i]
        BY <3>1, SubText
      <4>3. \A i \in 1..(j - s) : s + i \in 1..k
        BY <1>11, <1>12, <3>1
      <4>4. Len(u) = Len(v) /\ \A i \in 1..Len(u) : u[i] = v[i]
        <5>1. \A i \in 1..(j - s) : t[s + i] = whole[s + i]
          BY <1>11, <4>3
        <5>2. \A i \in 1..(j - s) : u[i] = v[i]
          BY <4>1, <4>2, <5>1
        <5>3. Len(u) = j - s /\ Len(v) = j - s
          BY <4>1, <4>2
        <5> QED
          BY <5>2, <5>3
      <4>5. u = v
        BY <4>4, TextsEqual
      <4> QED
        BY <4>1, <4>2, <4>5
    <3>3. PICK part : part = SubSeq(whole, s + 1, j)
      OBVIOUS
    <3>4. /\ LineFeeds(part) \subseteq {Len(part)}
          /\ Size(part) <= ChunkBytes \/ LineFeeds(part) # {}
      BY <1>10, <2>1, <3>3, CutsMakeChunks
    <3>5. \A i \in DOMAIN part : part[i].stream = stream
      <4>1. DOMAIN part = 1..(j - s) /\ \A i \in 1..(j - s) : part[i] = whole[s + i]
        BY <3>1, <3>3, SubText
      <4>2. \A i \in 1..(j - s) : s + i \in DOMAIN whole
        BY <1>12, <3>1, TextBasics
      <4> QED
        BY <1>7, <4>1, <4>2
    <3> QED
      BY <3>2, <3>3, <3>4, <3>5 DEF IsChunk
  <2>2. t # <<>> => Len(t) \in cuts
    BY <1>11, <1>12, TextBasics
  <2>3. Chunked(logs, ends)
    BY <1>2, <1>3 DEF WellFormed
  <2>4. cuts \in SUBSET (1..Len(t))
    BY <1>11, <1>12
  <2>5. Chunked(logs \o t, ends \cup {[at |-> Len(logs) + i, stream |-> stream] : i \in cuts})
    <3>1. CutInChunks(t, cuts, stream)
      BY <2>1, <2>2, <2>4 DEF CutInChunks
    <3> QED
      BY <1>4, <1>11, <2>3, <3>1, AddChunks
  <2> QED
    BY <1>13, <2>5
<1>18. WellFormed(a)
  <2>1. \A i \in DOMAIN rest : rest[i].stream = stream
    <3>1. DOMAIN rest = 1..(Len(whole) - k) /\ DOMAIN whole = 1..Len(whole)
      BY <1>11, TextBasics
    <3>2. \A i \in 1..(Len(whole) - k) : i + k \in 1..Len(whole)
      BY <1>12
    <3> TAKE i \in DOMAIN rest
    <3>3. i \in 1..(Len(whole) - k) /\ rest[i] = whole[i + k] /\ i + k \in DOMAIN whole
      BY <1>11, <3>1, <3>2
    <3> QED
      BY <1>7, <3>3
  <2>2. LineFeeds(rest) = {} /\ (Encodable(rest) => Size(rest) < ChunkBytes)
    BY <1>8, <1>9, RestIsShort
  <2> QED
    BY <1>14, <1>17, <2>1, <2>2 DEF WellFormed
<1>19. Whole(a) = Whole(b) \o text
  <2>1. Whole(a) = (logs \o t) \o rest
    BY <1>14 DEF Whole
  <2>2. (logs \o t) \o rest = logs \o whole
    <3>1. logs \in Seq(Tags) /\ t \in Seq(Tags) /\ rest \in Seq(Tags)
      BY <1>4, <1>11 DEF Texts
    <3>2. (logs \o t) \o rest = logs \o (t \o rest)
      BY <3>1, ConcatAssociative, SMTT(20)
    <3> QED
      BY <1>11, <3>2, Zenon
  <2>3. logs \o whole = (logs \o p) \o text
    <3>1. (logs \o p) \o text = logs \o (p \o text)
      BY <1>4, ConcatAssociative, SMTT(20) DEF Texts
    <3> QED
      BY <1>6, <3>1, Zenon
  <2> QED
    BY <1>2, <1>3, <2>1, <2>2, <2>3 DEF Whole
<1> QED
  BY <1>15, <1>16, <1>18, <1>19


-----------------------------------------------------------------------------
(* The buffers keep their limit and their chunks *)

BuffersAreWell == \A c \in Calls : WellFormed(content[c]) /\ LimitIsExact(c)

\* A replay stands at an end of a chunk.
OutcomesAreChunked ==
    \A c \in Calls :
        /\ Chunked(snapshot[c].logs, snapshot[c].ends)
        /\ merged[c] \in {0} \cup {e.at : e \in snapshot[c].ends}

\* A call whose callee is being merged waits for it.
MergingCallerRuns ==
    \A d \in Calls : stage[d] = "merging" => caller[d] \in Calls /\ stage[caller[d]] = "running"

MergedSoFar ==
    \A d \in Calls :
        /\ stage[d] \notin {"merging", "merged", "dropped"} => merged[d] = 0
        /\ stage[d] = "merged" => merged[d] = Len(snapshot[d].logs)

Keeping == OutputTypeOK /\ BuffersAreWell /\ OutcomesAreChunked /\ MergingCallerRuns /\ MergedSoFar

LEMMA KeptIsWhole == \A c \in Calls : Kept(c) = Whole(content[c]) /\ Kept(c)' = Whole(content'[c])
  BY DEF Kept, Whole

\* What a write adds to a buffer, and when it is the text as it is.
Takes(c, stream, text, gain) ==
    /\ Kept(c)' = Kept(c) \o gain
    /\ Len(gain) <= Len(text) /\ \A i \in 1..Len(gain) : Alike(gain[i], text[i])
    /\ Open(c) /\ stream \in Captured /\ ~truncated'[c] => gain = text
    /\ ~Open(c) \/ stream \notin Captured => gain = <<>>

\* What a write counts is in the buffer, and is all of it if that can be encoded.
Counts(n, b) ==
    /\ n \in Nat /\ n <= Size(Whole(b)) /\ n <= MaxBytes
    /\ Encodable(Whole(b)) => n = Size(Whole(b))

LEMMA WriteFits ==
  ASSUME OutputTypeOK, BuffersAreWell, NEW c \in Calls, NEW stream \in Streams, NEW text \in Texts,
         \A i \in DOMAIN text : text[i].stream = stream,
         Remaining(c) > 0
  PROVE  \E gain \in Texts, b \in Contents :
            /\ gain = Fitting(text, Remaining(c))
            /\ b = Appended(content[c], stream, gain)
            /\ WellFormed(b) /\ Whole(b) = Whole(content[c]) \o gain
            /\ Counts(IF Encodable(b.pending.text) THEN bytes[c] + Size(gain) ELSE bytes[c], b)
            /\ Len(gain) <= Len(text) /\ \A i \in 1..Len(gain) : Alike(gain[i], text[i])
            /\ ~(FitsIn(text, Remaining(c)) < Len(text)) => gain = text
<1>1. PICK n, left \in Nat : n = bytes[c] /\ left = Remaining(c) /\ left = MaxBytes - n
  <2>1. bytes[c] \in Nat /\ MaxBytes \in Nat
    BY OutputCaptureAssumption DEF OutputTypeOK
  <2> QED
    BY <2>1 DEF Remaining
<1>2. PICK gain : gain = Fitting(text, left)
  OBVIOUS
<1>3. /\ gain \in Texts /\ Size(gain) <= left /\ Len(gain) <= Len(text)
      /\ \A i \in 1..Len(gain) : Alike(gain[i], text[i])
      /\ ~(FitsIn(text, left) < Len(text)) => gain = text
  BY <1>2, FittingText
<1>4. \A i \in DOMAIN gain : gain[i].stream = stream
  <2>1. /\ DOMAIN gain = 1..Len(gain) /\ DOMAIN text = 1..Len(text)
        /\ Len(gain) \in Nat /\ Len(text) \in Nat
    BY <1>3, TextBasics
  <2>2. \A i \in 1..Len(gain) : i \in DOMAIN text
    BY <1>3, <2>1
  <2> QED
    BY <1>3, <2>1, <2>2 DEF Alike
<1>5. PICK old \in Contents : old = content[c]
  BY DEF OutputTypeOK
<1>6. /\ WellFormed(old) /\ n <= Size(Whole(old))
      /\ Encodable(Whole(old)) => n = Size(Whole(old))
  BY <1>1, <1>5, KeptIsWhole DEF BuffersAreWell, LimitIsExact
<1>7. PICK b : b = Appended(old, stream, gain)
  OBVIOUS
<1>8. b \in Contents /\ WellFormed(b) /\ Whole(b) = Whole(old) \o gain
  BY <1>3, <1>4, <1>6, <1>7, AppendKeeps
<1>9. Whole(old) \in Texts /\ b.logs \in Texts /\ b.pending.text \in Texts
  BY <1>8, ContentsTyped
<1>10. /\ Size(Whole(b)) = Size(Whole(old)) + Size(gain)
       /\ Size(gain) \in Nat /\ Size(Whole(old)) \in Nat
  BY <1>3, <1>8, <1>9, SizeConcat, SizeType
<1>11. Encodable(Whole(b)) => Encodable(Whole(old)) /\ Encodable(b.pending.text)
  <2> SUFFICES ASSUME Encodable(Whole(b)) PROVE Encodable(Whole(old)) /\ Encodable(b.pending.text)
    OBVIOUS
  <2>1. Encodable(Whole(old) \o gain) /\ Encodable(b.logs \o b.pending.text)
    BY <1>8 DEF Whole
  <2> QED
    BY <1>3, <1>9, <2>1, EncodableParts
<1>12. PICK m : m = IF Encodable(b.pending.text) THEN n + Size(gain) ELSE n
  OBVIOUS
<1>13. Counts(m, b)
  <2>1. MaxBytes \in Nat
    BY OutputCaptureAssumption
  <2>2. CASE Encodable(b.pending.text)
    BY <1>1, <1>3, <1>6, <1>10, <1>11, <1>12, <2>1, <2>2 DEF Counts
  <2>3. CASE ~Encodable(b.pending.text)
    BY <1>1, <1>6, <1>10, <1>11, <1>12, <2>1, <2>3 DEF Counts
  <2> QED
    BY <2>2, <2>3
<1> QED
  BY <1>1, <1>2, <1>3, <1>5, <1>7, <1>8, <1>12, <1>13

LEMMA WriteKeeps ==
  ASSUME OutputTypeOK, BuffersAreWell, NEW c \in Calls, NEW stream \in Streams, NEW text \in Texts,
         \A i \in DOMAIN text : text[i].stream = stream,
         WriteAt(c, stream, text)
  PROVE  /\ content' \in [Calls -> Contents] /\ bytes' \in [Calls -> Nat] /\ truncated' \in [Calls -> BOOLEAN]
         /\ BuffersAreWell'
         /\ \A d \in Calls : d # c => Kept(d)' = Kept(d) /\ truncated'[d] = truncated[d]
         /\ truncated[c] => truncated'[c]
         /\ ~Open(c) => truncated'[c] = truncated[c]
         /\ \E gain \in Texts : Takes(c, stream, text, gain)
<1>1. /\ content \in [Calls -> Contents] /\ bytes \in [Calls -> Nat] /\ truncated \in [Calls -> BOOLEAN]
      /\ MaxBytes \in Nat /\ bytes[c] \in Nat /\ Len(text) \in Nat
  BY OutputCaptureAssumption, TextBasics DEF OutputTypeOK
<1>2. Kept(c) \in Texts
  BY <1>1, KeptIsWhole, ContentsTyped
<1>3. <<>> \in Texts /\ Len(<<>>) = 0 /\ 1..0 = {} /\ Kept(c) \o <<>> = Kept(c)
  <2>1. PICK kept \in Texts : kept = Kept(c)
    BY <1>2
  <2>2. kept \o <<>> = kept /\ <<>> \in Texts
    BY Joined
  <2>3. Kept(c) \o <<>> = Kept(c)
    BY <2>1, <2>2, Zenon
  <2> QED
    BY <2>2, <2>3
<1>4. CASE text = <<>> \/ ~Open(c) \/ stream \notin Captured
  <2>1. UNCHANGED buffer
    BY <1>4 DEF WriteAt
  <2>2. content' = content /\ bytes' = bytes /\ truncated' = truncated
    BY <2>1 DEF buffer
  <2>3. BuffersAreWell' /\ \A d \in Calls : Kept(d)' = Kept(d)
    BY <2>2 DEF BuffersAreWell, LimitIsExact, Kept
  <2>4. Takes(c, stream, text, <<>>)
    BY <1>1, <1>3, <1>4, <2>3 DEF Takes
  <2> QED
    BY <1>1, <1>3, <2>2, <2>3, <2>4
<1>5. CASE Open(c) /\ stream \in Captured /\ text # <<>> /\ Remaining(c) <= 0
  <2>1. truncated' = [truncated EXCEPT ![c] = TRUE] /\ content' = content /\ bytes' = bytes
    BY <1>5 DEF WriteAt
  <2>3. BuffersAreWell' /\ \A d \in Calls : Kept(d)' = Kept(d)
    BY <2>1 DEF BuffersAreWell, LimitIsExact, Kept
  <2>4. Takes(c, stream, text, <<>>)
    BY <1>1, <1>3, <1>5, <2>1, <2>3 DEF Takes
  <2> QED
    BY <1>1, <1>3, <1>5, <2>1, <2>3, <2>4
<1>6. CASE Open(c) /\ stream \in Captured /\ text # <<>> /\ ~(Remaining(c) <= 0)
  <2>0. Remaining(c) > 0
    BY <1>1, <1>6 DEF Remaining
  <2>1. PICK gain \in Texts, b \in Contents :
            /\ gain = Fitting(text, Remaining(c))
            /\ b = Appended(content[c], stream, gain)
            /\ WellFormed(b) /\ Whole(b) = Whole(content[c]) \o gain
            /\ Counts(IF Encodable(b.pending.text) THEN bytes[c] + Size(gain) ELSE bytes[c], b)
            /\ Len(gain) <= Len(text) /\ \A i \in 1..Len(gain) : Alike(gain[i], text[i])
            /\ ~(FitsIn(text, Remaining(c)) < Len(text)) => gain = text
    BY <2>0, WriteFits
  <2>2. PICK m : /\ m = IF Encodable(b.pending.text) THEN bytes[c] + Size(gain) ELSE bytes[c]
                 /\ Counts(m, b)
    BY <2>1
  <2>3. Raises(c, stream, text) <=> ~Encodable(b.pending.text)
    BY <1>6, <2>0, <2>1 DEF Raises
  <2>4. /\ content' = [content EXCEPT ![c] = b]
        /\ bytes' = [bytes EXCEPT ![c] = m]
        /\ truncated' = [truncated EXCEPT ![c] = truncated[c] \/ FitsIn(text, Remaining(c)) < Len(text)]
    BY <1>1, <1>6, <2>1, <2>2, <2>3 DEF WriteAt
  <2>5. /\ content'[c] = b /\ bytes'[c] = m
        /\ truncated'[c] = (truncated[c] \/ FitsIn(text, Remaining(c)) < Len(text))
    BY <1>1, <2>4
  <2>6. \A d \in Calls : d # c => content'[d] = content[d] /\ bytes'[d] = bytes[d] /\ truncated'[d] = truncated[d]
    BY <1>1, <2>4
  <2>7. content' \in [Calls -> Contents] /\ bytes' \in [Calls -> Nat] /\ truncated' \in [Calls -> BOOLEAN]
    <3>1. (truncated[c] \/ FitsIn(text, Remaining(c)) < Len(text)) \in BOOLEAN
      OBVIOUS
    <3>2. m \in Nat
      BY <2>2 DEF Counts
    <3> QED
      BY <1>1, <2>1, <2>4, <3>1, <3>2
  <2>8. \A d \in Calls : d # c => Kept(d)' = Kept(d)
    BY <2>6, KeptIsWhole
  <2>9. BuffersAreWell'
    <3> SUFFICES ASSUME NEW d \in Calls PROVE WellFormed(content'[d]) /\ LimitIsExact(d)'
      BY DEF BuffersAreWell
    <3>1. CASE d = c
      BY <2>1, <2>2, <2>5, <3>1, KeptIsWhole DEF LimitIsExact, Counts
    <3>2. CASE d # c
      BY <2>6, <2>8, <3>2 DEF BuffersAreWell, LimitIsExact
    <3> QED
      BY <3>1, <3>2
  <2>10. Takes(c, stream, text, gain)
    <3>1. Kept(c)' = Kept(c) \o gain
      BY <2>1, <2>5, KeptIsWhole
    <3>2. ~truncated'[c] => gain = text
      BY <2>1, <2>5
    <3> QED
      BY <1>6, <2>1, <3>1, <3>2 DEF Takes
  <2> QED
    BY <1>6, <2>1, <2>5, <2>6, <2>7, <2>8, <2>9, <2>10
<1> QED
  BY <1>4, <1>5, <1>6


LEMMA FlushesOne ==
  ASSUME OutputTypeOK, BuffersAreWell, NEW c \in Calls, FlushPending(c), bytes' = bytes
  PROVE  /\ content' \in [Calls -> Contents] /\ BuffersAreWell'
         /\ \A d \in Calls : Kept(d)' = Kept(d)
         /\ Flushed(content[c]).logs = Kept(c) /\ Flushed(content[c]).logs \in Texts
         /\ Flushed(content[c]).ends \in SUBSET Ends
         /\ Chunked(Flushed(content[c]).logs, Flushed(content[c]).ends)
<1>1. content \in [Calls -> Contents] /\ content[c] \in Contents /\ WellFormed(content[c])
  BY DEF OutputTypeOK, BuffersAreWell
<1>2. PICK b : b = Flushed(content[c])
  OBVIOUS
<1>3. /\ b \in Contents /\ WellFormed(b) /\ Whole(b) = Whole(content[c])
      /\ b.logs = Whole(content[c]) /\ b.pending = Empty
  BY <1>1, <1>2, FlushKeeps
<1>4. content' = [content EXCEPT ![c] = b]
  BY <1>2 DEF FlushPending
<1>5. /\ content' \in [Calls -> Contents] /\ content'[c] = b
      /\ \A d \in Calls : d # c => content'[d] = content[d]
  BY <1>1, <1>3, <1>4
<1>6. \A d \in Calls : Kept(d)' = Kept(d)
  BY <1>3, <1>5, KeptIsWhole
<1>7. BuffersAreWell'
  <2> SUFFICES ASSUME NEW d \in Calls PROVE WellFormed(content'[d]) /\ LimitIsExact(d)'
    BY DEF BuffersAreWell
  <2>1. WellFormed(content'[d])
    BY <1>3, <1>5 DEF BuffersAreWell
  <2>2. LimitIsExact(d)'
    BY <1>6 DEF BuffersAreWell, LimitIsExact
  <2> QED
    BY <2>1, <2>2
<1>8. b.logs \in Texts /\ b.ends \in SUBSET Ends /\ Chunked(b.logs, b.ends)
  BY <1>3, ContentsTyped DEF WellFormed
<1>9. b.logs = Kept(c)
  BY <1>3, KeptIsWhole
<1> QED
  BY <1>2, <1>5, <1>6, <1>7, <1>8, <1>9

\* What is printed is tagged with its call and its stream.
LEMMA TaggedText ==
  ASSUME OutputTypeOK, NEW c \in Calls, NEW p \in Prints
  PROVE  /\ Tagged(c, p) \in Texts /\ Len(Tagged(c, p)) = Len(p.text) /\ p.stream \in Streams
         /\ DOMAIN Tagged(c, p) = 1..Len(p.text)
         /\ \A i \in 1..Len(p.text) :
              /\ Tagged(c, p)[i].by = c /\ Tagged(c, p)[i].pos = Len(printed[c]) + i
              /\ Tagged(c, p)[i].stream = p.stream
<1>1. /\ p.stream \in Streams /\ p.text \in Seq(Characters)
      /\ Len(p.text) \in Nat /\ DOMAIN p.text = 1..Len(p.text)
      /\ \A i \in 1..Len(p.text) : p.text[i] \in Characters
  BY OutputCaptureAssumption
<1>2. PICK n \in Nat : n = Len(printed[c])
  BY TextBasics DEF OutputTypeOK
<1>3. \A i \in 1..Len(p.text) : [by |-> c, pos |-> n + i, stream |-> p.stream, char |-> p.text[i]] \in Tags
  BY <1>1 DEF Tags
<1>4. Tagged(c, p) = [i \in 1..Len(p.text) |->
                        [by |-> c, pos |-> n + i, stream |-> p.stream, char |-> p.text[i]]]
  BY <1>1, <1>2 DEF Tagged
<1>5. Tagged(c, p) \in Seq(Tags)
  BY <1>1, <1>3, <1>4
<1>6. Len(Tagged(c, p)) = Len(p.text) /\ DOMAIN Tagged(c, p) = 1..Len(p.text)
  BY <1>1, <1>4
<1> QED
  BY <1>1, <1>2, <1>4, <1>5, <1>6 DEF Texts

\* The next chunk to replay follows what was replayed, and is of one stream.
LEMMA NextChunk ==
  ASSUME OutputTypeOK, OutcomesAreChunked, NEW d \in Calls,
         NEW e \in Left(d), \A f \in Left(d) : e.at <= f.at
  PROVE  /\ snapshot[d].logs \in Texts /\ e \in snapshot[d].ends /\ e.stream \in Streams
         /\ merged[d] \in 0..Len(snapshot[d].logs) /\ e.at \in (merged[d] + 1)..Len(snapshot[d].logs)
         /\ Chunk(d, e) \in Texts
         /\ \A i \in DOMAIN Chunk(d, e) :
              Chunk(d, e)[i].stream = e.stream
<1>1. PICK logs, ends, m : logs = snapshot[d].logs /\ ends = snapshot[d].ends /\ m = merged[d]
  OBVIOUS
<1>2. logs \in Texts /\ ends \in SUBSET Ends /\ Len(logs) \in Nat
  <2>1. snapshot[d] \in [logs : Texts, ends : SUBSET Ends, truncated : BOOLEAN, printed : Texts]
    BY DEF OutputTypeOK
  <2> QED
    BY <1>1, <2>1, TextBasics
<1>3. /\ \A f \in ends : f.at \in 1..Len(logs)
      /\ m \in {0} \cup {f.at : f \in ends}
      /\ \A f \in ends, s \in {0} \cup {g.at : g \in ends} :
           Neighbours(ends, s, f.at) => IsChunk(SubSeq(logs, s + 1, f.at), f.stream)
  BY <1>1 DEF OutcomesAreChunked, Chunked
<1>4. e \in ends /\ e.at > m /\ \A f \in ends : f.at > m => e.at <= f.at
  BY <1>1 DEF Left
<1>5. m \in 0..Len(logs) /\ e.at \in (m + 1)..Len(logs) /\ e.stream \in Streams
  BY <1>2, <1>3, <1>4 DEF Ends
<1>6. Neighbours(ends, m, e.at)
  BY <1>3, <1>4, <1>5, <1>2 DEF Neighbours
<1>7. IsChunk(SubSeq(logs, m + 1, e.at), e.stream)
  BY <1>3, <1>4, <1>6
<1>8. SubSeq(logs, m + 1, e.at) \in Texts
  BY <1>2, <1>5, SubText
<1> QED
  BY <1>1, <1>2, <1>4, <1>5, <1>7, <1>8 DEF IsChunk, Chunk

\* Nothing is left to replay: all of it was replayed.
LEMMA NothingLeft ==
  ASSUME OutputTypeOK, OutcomesAreChunked, NEW d \in Calls, Left(d) = {}
  PROVE  merged[d] = Len(snapshot[d].logs)
<1>1. PICK logs, ends, m : logs = snapshot[d].logs /\ ends = snapshot[d].ends /\ m = merged[d]
  OBVIOUS
<1>2. Len(logs) \in Nat /\ (logs = <<>> <=> Len(logs) = 0)
  <2>1. snapshot[d] \in [logs : Texts, ends : SUBSET Ends, truncated : BOOLEAN, printed : Texts]
    BY DEF OutputTypeOK
  <2> QED
    BY <1>1, <2>1, TextBasics
<1>3. /\ \A f \in ends : f.at \in 1..Len(logs)
      /\ m \in {0} \cup {f.at : f \in ends}
      /\ logs # <<>> => \E f \in ends : f.at = Len(logs)
  BY <1>1 DEF OutcomesAreChunked, Chunked
<1>4. \A f \in ends : ~(f.at > m)
  BY <1>1 DEF Left
<1>5. m \in 0..Len(logs)
  BY <1>2, <1>3
<1>6. CASE logs = <<>>
  BY <1>1, <1>2, <1>5, <1>6
<1>7. CASE logs # <<>>
  <2>1. PICK f \in ends : f.at = Len(logs)
    BY <1>3, <1>7
  <2> QED
    BY <1>1, <1>2, <1>4, <1>5, <2>1
<1> QED
  BY <1>6, <1>7

LEMMA InitKeeping == OutputInit => Keeping
<1> SUFFICES ASSUME OutputInit PROVE Keeping
  OBVIOUS
<1>1. <<>> \in Texts /\ Len(<<>>) = 0 /\ <<>> \o <<>> = <<>>
  BY DEF Texts
<1>2. NoContent \in Contents
  BY <1>1 DEF NoContent, Empty, Contents
<1>3. OutputTypeOK
  BY <1>1, <1>2, OutputCaptureAssumption DEF OutputInit, OutputTypeOK, Stages
<1>4. Chunked(<<>>, {})
  BY DEF Chunked
<1>5. WellFormed(NoContent) /\ Whole(NoContent) = <<>>
  <2>1. NoContent.logs = <<>> /\ NoContent.ends = {} /\ NoContent.pending.text = <<>>
    BY DEF NoContent, Empty
  <2> QED
    BY <1>1, <1>4, <2>1, SizeEmpty, OutputCaptureAssumption DEF WellFormed, LineFeeds, Whole
<1>6. BuffersAreWell
  BY <1>5, SizeEmpty, KeptIsWhole, OutputCaptureAssumption DEF OutputInit, BuffersAreWell, LimitIsExact
<1>7. OutcomesAreChunked
  BY <1>4 DEF OutputInit, OutcomesAreChunked
<1>8. MergedSoFar /\ MergingCallerRuns
  BY DEF OutputInit, MergedSoFar, MergingCallerRuns
<1> QED
  BY <1>3, <1>6, <1>7, <1>8 DEF Keeping

LEMMA NextKeeping == Keeping /\ [OutputNext]_outputVars => Keeping'
<1> SUFFICES ASSUME Keeping, [OutputNext]_outputVars PROVE Keeping'
  OBVIOUS
<1> USE DEF Keeping
<1>0. /\ stage \in [Calls -> Stages] /\ caller \in [Calls -> Calls \cup {NoCall}]
      /\ merged \in [Calls -> Nat] /\ printed \in [Calls -> Texts]
      /\ snapshot \in [Calls -> [logs : Texts, ends : SUBSET Ends, truncated : BOOLEAN, printed : Texts]]
      /\ bytes \in [Calls -> Nat] /\ truncated \in [Calls -> BOOLEAN] /\ content \in [Calls -> Contents]
  BY DEF OutputTypeOK
<1>1. ASSUME NEW c \in Calls, NEW p \in Prints, WriteText(c, p) PROVE Keeping'
  <2>1. WriteAt(c, p.stream, Tagged(c, p)) /\ UNCHANGED <<stage, caller, snapshot, merged>>
    BY <1>1 DEF WriteText
  <2>2. Tagged(c, p) \in Texts /\ p.stream \in Streams
    BY TaggedText
  <2>3. PICK t \in Texts : t = Tagged(c, p) /\ \A i \in DOMAIN t : t[i].stream = p.stream
    <3>1. DOMAIN Tagged(c, p) = 1..Len(p.text)
      BY TaggedText
    <3>2. \A i \in 1..Len(p.text) : Tagged(c, p)[i].stream = p.stream
      BY TaggedText
    <3> QED
      BY <2>2, <3>1, <3>2
  <2>4. content' \in [Calls -> Contents] /\ bytes' \in [Calls -> Nat] /\ truncated' \in [Calls -> BOOLEAN]
        /\ BuffersAreWell'
    BY <2>1, <2>2, <2>3, WriteKeeps
  <2>5. printed' \in [Calls -> Texts]
    <3>1. printed' = printed \/ printed' = [printed EXCEPT ![c] = @ \o t]
      BY <1>1, <2>3 DEF WriteText
    <3>2. printed[c] \o t \in Texts
      BY <1>0, <2>3, Joined
    <3> QED
      BY <1>0, <3>1, <3>2
  <2>6. OutcomesAreChunked'
    BY <2>1 DEF OutcomesAreChunked
  <2> QED
    BY <1>0, <2>1, <2>4, <2>5, <2>6 DEF OutputTypeOK, MergedSoFar, MergingCallerRuns
<1>2. ASSUME NEW c \in Calls, NEW d \in Calls, Call(c, d) PROVE Keeping'
  <2>1. UNCHANGED <<buffer, snapshot, merged, printed>>
    BY <1>2 DEF Call
  <2>2. stage' \in [Calls -> Stages] /\ caller' \in [Calls -> Calls \cup {NoCall}]
    BY <1>0, <1>2 DEF Call, Stages
  <2>3. OutcomesAreChunked' /\ BuffersAreWell'
    BY <2>1 DEF buffer, OutcomesAreChunked, BuffersAreWell, LimitIsExact, Kept
  <2>4. MergedSoFar' /\ MergingCallerRuns'
    BY <1>0, <1>2 DEF Call, MergedSoFar, MergingCallerRuns
  <2> QED
    BY <1>0, <2>1, <2>2, <2>3, <2>4 DEF buffer, OutputTypeOK
<1>3. ASSUME NEW c \in Calls, MakeOutcome(c) PROVE Keeping'
  <2>1. FlushPending(c) /\ UNCHANGED <<caller, bytes, truncated, merged, printed>>
    BY <1>3 DEF MakeOutcome
  <2>2. PICK logs, ends : logs = Flushed(content[c]).logs /\ ends = Flushed(content[c]).ends
    OBVIOUS
  <2>3. /\ content' \in [Calls -> Contents] /\ BuffersAreWell'
        /\ logs \in Texts /\ ends \in SUBSET Ends /\ Chunked(logs, ends)
    BY <2>1, <2>2, FlushesOne
  <2>4. PICK outcome : outcome = [logs |-> logs, ends |-> ends, truncated |-> truncated[c], printed |-> printed[c]]
    OBVIOUS
  <2>5. snapshot' = [snapshot EXCEPT ![c] = outcome] /\ stage' = [stage EXCEPT ![c] = "returning"]
    BY <1>3, <2>2, <2>4 DEF MakeOutcome
  <2>6. outcome \in [logs : Texts, ends : SUBSET Ends, truncated : BOOLEAN, printed : Texts]
    BY <1>0, <2>3, <2>4
  <2>7. /\ snapshot' \in [Calls -> [logs : Texts, ends : SUBSET Ends, truncated : BOOLEAN, printed : Texts]]
        /\ snapshot'[c] = outcome /\ \A d \in Calls : d # c => snapshot'[d] = snapshot[d]
    BY <1>0, <2>5, <2>6
  <2>8. stage' \in [Calls -> Stages]
    BY <1>0, <2>5 DEF Stages
  <2>9. OutcomesAreChunked'
    <3> SUFFICES ASSUME NEW d \in Calls
                 PROVE  /\ Chunked(snapshot'[d].logs, snapshot'[d].ends)
                        /\ merged'[d] \in {0} \cup {e.at : e \in snapshot'[d].ends}
      BY DEF OutcomesAreChunked
    <3>1. CASE d # c
      BY <2>1, <2>7, <3>1 DEF OutcomesAreChunked
    <3>2. CASE d = c
      <4>1. merged[c] = 0
        BY <1>3 DEF MakeOutcome, MergedSoFar
      <4> QED
        BY <2>1, <2>3, <2>4, <2>7, <3>2, <4>1
    <3> QED
      BY <3>1, <3>2
  <2>10. MergedSoFar'
    BY <1>0, <1>3, <2>1, <2>5, <2>7 DEF MakeOutcome, MergedSoFar
  <2>11. MergingCallerRuns'
    BY <1>0, <1>3, <2>1, <2>5 DEF MakeOutcome, Replaying, MergingCallerRuns
  <2> QED
    BY <1>0, <2>1, <2>3, <2>7, <2>8, <2>9, <2>10, <2>11 DEF OutputTypeOK
<1>4. ASSUME NEW c \in Calls, Close(c) \/ Abort(c) PROVE Keeping'
  <2>1. FlushPending(c) /\ UNCHANGED <<caller, bytes, truncated, snapshot, merged, printed>>
    BY <1>4 DEF Close, Abort
  <2>2. content' \in [Calls -> Contents] /\ BuffersAreWell'
    BY <2>1, FlushesOne
  <2>3. stage' = [stage EXCEPT ![c] = "ended"] \/ stage' = [stage EXCEPT ![c] = "aborted"]
    BY <1>4 DEF Close, Abort
  <2>4. stage' \in [Calls -> Stages]
    BY <1>0, <2>3 DEF Stages
  <2>5. OutcomesAreChunked'
    BY <2>1 DEF OutcomesAreChunked
  <2>6. MergedSoFar'
    BY <1>0, <1>4, <2>1, <2>3 DEF Close, Abort, MergedSoFar
  <2>7. MergingCallerRuns'
    BY <1>0, <1>4, <2>1, <2>3 DEF Close, Abort, Replaying, MergingCallerRuns
  <2> QED
    BY <1>0, <2>1, <2>2, <2>4, <2>5, <2>6, <2>7 DEF OutputTypeOK
<1>5. ASSUME NEW d \in Calls, Replay(d) PROVE Keeping'
  <2>0. UNCHANGED <<caller, snapshot, printed>> /\ stage[d] \in {"ended", "merging"}
    BY <1>5 DEF Replay
  <2>1. CASE Left(d) = {} \/ ~Open(caller[d])
    <3>1. UNCHANGED <<buffer, merged>>
      BY <1>5, <2>1 DEF Replay
    <3>2. \/ Left(d) = {} /\ stage' = [stage EXCEPT ![d] = "merged"]
          \/ stage' = [stage EXCEPT ![d] = "dropped"]
      BY <1>5, <2>1 DEF Replay
    <3>3. stage' \in [Calls -> Stages]
      BY <1>0, <3>2 DEF Stages
    <3>4. BuffersAreWell' /\ OutcomesAreChunked'
      BY <2>0, <3>1 DEF buffer, BuffersAreWell, LimitIsExact, Kept, OutcomesAreChunked
    <3>5. MergedSoFar'
      <4>1. merged' = merged /\ snapshot' = snapshot
        BY <2>0, <3>1
      <4>2. stage'[d] \in {"merged", "dropped"} /\ \A c \in Calls : c # d => stage'[c] = stage[c]
        BY <1>0, <3>2
      <4>3. stage'[d] = "merged" => merged[d] = Len(snapshot[d].logs)
        <5>1. stage'[d] = "merged" => Left(d) = {}
          BY <1>0, <3>2
        <5> QED
          BY <5>1, NothingLeft
      <4> QED
        BY <4>1, <4>2, <4>3 DEF MergedSoFar
    <3>6. MergingCallerRuns'
      BY <1>0, <2>0, <3>2 DEF MergingCallerRuns
    <3> QED
      BY <1>0, <2>0, <3>1, <3>3, <3>4, <3>5, <3>6 DEF buffer, OutputTypeOK
  <2>2. CASE Left(d) # {} /\ Open(caller[d])
    <3>1. PICK e \in Left(d) :
            /\ \A f \in Left(d) : e.at <= f.at
            /\ WriteAt(caller[d], e.stream, Chunk(d, e))
            /\ merged' = [merged EXCEPT ![d] = e.at]
            /\ \E next \in {"merging", "dropped"} : stage' = [stage EXCEPT ![d] = next]
      BY <1>5, <2>2 DEF Replay
    <3>2. caller[d] \in Calls
      BY <1>0, <1>5, <2>0 DEF Replay, MergingCallerRuns
    <3>3. PICK t \in Texts : /\ t = Chunk(d, e)
                             /\ \A i \in DOMAIN t : t[i].stream = e.stream
      BY <3>1, NextChunk
    <3>4. e.stream \in Streams /\ e \in snapshot[d].ends /\ e.at \in Nat
      <4>1. e.stream \in Streams /\ e \in snapshot[d].ends
        BY <3>1, NextChunk
      <4>2. snapshot[d].ends \in SUBSET Ends
        BY <1>0
      <4> QED
        BY <4>1, <4>2 DEF Ends
    <3>5. /\ content' \in [Calls -> Contents] /\ bytes' \in [Calls -> Nat]
          /\ truncated' \in [Calls -> BOOLEAN] /\ BuffersAreWell'
      BY <3>1, <3>2, <3>3, <3>4, WriteKeeps
    <3>6. stage' \in [Calls -> Stages] /\ merged' \in [Calls -> Nat]
      BY <1>0, <3>1, <3>4 DEF Stages
    <3>7. OutcomesAreChunked'
      <4> SUFFICES ASSUME NEW c \in Calls
                   PROVE  /\ Chunked(snapshot[c].logs, snapshot[c].ends)
                          /\ merged'[c] \in {0} \cup {f.at : f \in snapshot[c].ends}
        BY <2>0 DEF OutcomesAreChunked
      <4>1. merged'[c] = IF c = d THEN e.at ELSE merged[c]
        BY <1>0, <3>1
      <4> QED
        BY <3>4, <4>1 DEF OutcomesAreChunked
    <3>8. MergedSoFar'
      BY <1>0, <2>0, <3>1 DEF MergedSoFar
    <3>9. MergingCallerRuns'
      <4>1. stage[caller[d]] = "running"
        BY <1>5, <2>2, <3>2 DEF Replay, Open, MergingCallerRuns
      <4> QED
        BY <1>0, <2>0, <3>1, <3>2, <4>1 DEF MergingCallerRuns
    <3> QED
      BY <1>0, <2>0, <3>5, <3>6, <3>7, <3>8, <3>9 DEF OutputTypeOK
  <2> QED
    BY <2>1, <2>2
<1>6. CASE UNCHANGED outputVars
  BY <1>6 DEF outputVars, buffer, OutputTypeOK, BuffersAreWell, LimitIsExact, Kept, OutcomesAreChunked,
     MergedSoFar, MergingCallerRuns
<1> QED
  BY <1>1, <1>2, <1>3, <1>4, <1>5, <1>6 DEF OutputNext


LEMMA AlwaysKeeping == OutputSpec => []Keeping
  BY InitKeeping, NextKeeping, PTL DEF OutputSpec

\* Every variable of OutputCapture keeps its type.
THEOREM OutputTypeCorrect == OutputSpec => []OutputTypeOK
<1>1. Keeping => OutputTypeOK
  BY DEF Keeping
<1> QED
  BY <1>1, AlwaysKeeping, PTL

\* A buffer never counts more than the limit nor what it does not hold; what it
\* holds is what it counts, unless it has a lone surrogate, on which a write
\* raises uncounted; its chunks are of one stream each, lines or no longer than
\* a chunk but for a lone surrogate (CaptureBuffer.write_at, _append).
THEOREM OutputStaysBounded == OutputSpec => []OutputIsBounded
<1>1. Keeping => OutputIsBounded
  <2> SUFFICES ASSUME Keeping, NEW c \in Calls PROVE LimitIsExact(c) /\ ChunksAreWellFormed(c)
    BY DEF OutputIsBounded
  <2>1. Chunked(content[c].logs, content[c].ends) /\ LimitIsExact(c)
    BY DEF Keeping, BuffersAreWell, WellFormed
  <2> QED
    BY <2>1 DEF Chunked, Neighbours, ChunksAreWellFormed
<1> QED
  BY <1>1, AlwaysKeeping, PTL

\* Once a call is over, its output stays as it is (CaptureBuffer.close).
THEOREM OutputEndsWithItsCall == OutputSpec => LateOutputIsDropped
<1>1. ASSUME Keeping, [OutputNext]_outputVars, NEW c \in Calls,
             stage[c] \notin {"idle", "running", "returning"}
      PROVE  Kept(c)' = Kept(c) /\ snapshot'[c] = snapshot[c] /\ truncated'[c] = truncated[c]
  <2>0. OutputTypeOK /\ BuffersAreWell /\ ~Open(c)
    BY <1>1 DEF Keeping, Open
  <2>1. ASSUME NEW x \in Calls, NEW stream \in Streams, NEW text \in Texts, WriteAt(x, stream, text),
               \A i \in DOMAIN text : text[i].stream = stream
        PROVE  Kept(c)' = Kept(c) /\ truncated'[c] = truncated[c]
    <3>1. CASE x = c
      BY <2>0, <2>1, <3>1 DEF WriteAt, buffer, Kept
    <3>2. CASE x # c
      BY <2>0, <2>1, <3>2, WriteKeeps
    <3> QED
      BY <3>1, <3>2
  <2>2. ASSUME NEW x \in Calls, NEW p \in Prints, WriteText(x, p)
        PROVE  Kept(c)' = Kept(c) /\ snapshot'[c] = snapshot[c] /\ truncated'[c] = truncated[c]
    <3>1. WriteAt(x, p.stream, Tagged(x, p)) /\ snapshot' = snapshot
      BY <2>2 DEF WriteText
    <3>2. Tagged(x, p) \in Texts /\ p.stream \in Streams /\ DOMAIN Tagged(x, p) = 1..Len(p.text)
      BY <2>0, TaggedText
    <3>3. \A i \in 1..Len(p.text) : Tagged(x, p)[i].stream = p.stream
      BY <2>0, TaggedText
    <3>4. PICK t \in Texts : t = Tagged(x, p) /\ \A i \in DOMAIN t : t[i].stream = p.stream
      BY <3>2, <3>3
    <3> QED
      BY <2>1, <3>1, <3>2, <3>4
  <2>3. ASSUME NEW x \in Calls, NEW d \in Calls, Call(x, d)
        PROVE  Kept(c)' = Kept(c) /\ snapshot'[c] = snapshot[c] /\ truncated'[c] = truncated[c]
    BY <2>3 DEF Call, buffer, Kept
  <2>4. ASSUME NEW x \in Calls, MakeOutcome(x) \/ Close(x) \/ Abort(x)
        PROVE  Kept(c)' = Kept(c) /\ snapshot'[c] = snapshot[c] /\ truncated'[c] = truncated[c]
    <3>1. FlushPending(x) /\ bytes' = bytes /\ truncated' = truncated
      BY <2>4 DEF MakeOutcome, Close, Abort
    <3>2. Kept(c)' = Kept(c)
      BY <2>0, <3>1, FlushesOne
    <3>3. snapshot'[c] = snapshot[c]
      <4>1. CASE x = c
        BY <1>1, <2>4, <4>1 DEF MakeOutcome, Close, Abort
      <4>2. CASE x # c
        BY <2>0, <2>4, <4>2 DEF MakeOutcome, Close, Abort, OutputTypeOK
      <4> QED
        BY <4>1, <4>2
    <3> QED
      BY <3>1, <3>2, <3>3
  <2>5. ASSUME NEW d \in Calls, Replay(d)
        PROVE  Kept(c)' = Kept(c) /\ snapshot'[c] = snapshot[c] /\ truncated'[c] = truncated[c]
    <3>1. snapshot' = snapshot
      BY <2>5 DEF Replay
    <3>2. CASE UNCHANGED buffer
      BY <3>1, <3>2 DEF buffer, Kept
    <3>3. CASE \E e \in Left(d) :
                 /\ \A f \in Left(d) : e.at <= f.at
                 /\ WriteAt(caller[d], e.stream, Chunk(d, e))
      <4>1. PICK e \in Left(d) :
                 /\ \A f \in Left(d) : e.at <= f.at
                 /\ WriteAt(caller[d], e.stream, Chunk(d, e))
        BY <3>3
      <4>2. PICK t \in Texts : /\ t = Chunk(d, e)
                               /\ \A i \in DOMAIN t : t[i].stream = e.stream
        BY <1>1, <4>1, NextChunk DEF Keeping
      <4>3. e.stream \in Streams
        BY <1>1, <4>1, NextChunk DEF Keeping
      <4>4. caller[d] \in Calls
        BY <1>1, <2>5 DEF Replay, Keeping, MergingCallerRuns, OutputTypeOK
      <4> QED
        BY <2>1, <3>1, <4>1, <4>2, <4>3, <4>4
    <3> QED
      BY <2>5, <3>2, <3>3 DEF Replay
  <2>6. CASE UNCHANGED outputVars
    BY <2>6 DEF outputVars, buffer, Kept
  <2> QED
    BY <1>1, <2>2, <2>3, <2>4, <2>5, <2>6 DEF OutputNext
<1>2. Keeping /\ [OutputNext]_outputVars =>
        [\A c \in Calls :
           stage[c] \notin {"idle", "running", "returning"} =>
             Kept(c)' = Kept(c) /\ snapshot'[c] = snapshot[c] /\ truncated'[c] = truncated[c]]_outputVars
  BY <1>1
<1> QED
  BY <1>2, AlwaysKeeping, PTL DEF OutputSpec, LateOutputIsDropped

-----------------------------------------------------------------------------
(* Who made which call *)

\* Within, for any assignment of callers.
Family(f, c) ==
    {d \in Calls : \A group \in SUBSET Calls :
        c \in group /\ (\A e \in Calls : f[e] \in group => e \in group) => d \in group}

LEMMA WithinIsFamily ==
  \A c \in Calls : Within(c) = Family(caller, c) /\ Within(c)' = Family(caller', c)
  BY DEF Within, Family

LEMMA FamilyGrows ==
  ASSUME NEW f, NEW c \in Calls
  PROVE  /\ c \in Family(f, c) /\ Family(f, c) \in SUBSET Calls
         /\ \A e \in Calls : f[e] \in Family(f, c) => e \in Family(f, c)
  BY DEF Family

LEMMA FamilyIsLeast ==
  ASSUME NEW f, NEW c \in Calls, NEW group \in SUBSET Calls, c \in group,
         \A e \in Calls : f[e] \in group => e \in group
  PROVE  Family(f, c) \subseteq group
  BY DEF Family

\* A call that nobody made is within no other one.
LEMMA OrphanIsAlone ==
  ASSUME NEW f, NEW c \in Calls, NEW d \in Family(f, c), d # c
  PROVE  f[d] \in Family(f, c)
<1> SUFFICES ASSUME f[d] \notin Family(f, c) PROVE FALSE
  OBVIOUS
<1>1. PICK group : group = Family(f, c) \ {d}
  OBVIOUS
<1>2. c \in group /\ group \in SUBSET Calls
  BY <1>1, FamilyGrows
<1>3. \A e \in Calls : f[e] \in group => e \in group
  BY <1>1, FamilyGrows
<1>4. Family(f, c) \subseteq group
  BY <1>2, <1>3, FamilyIsLeast
<1> QED
  BY <1>1, <1>4

\* One more call makes the families it is in one larger.
LEMMA FamilyOfNew ==
  ASSUME NEW f, NEW g, NEW c \in Calls, NEW d \in Calls, c # d, f[d] = NoCall,
         \A e \in Calls : f[e] # d,
         g[d] = c, \A e \in Calls : e # d => g[e] = f[e]
  PROVE  /\ Family(g, d) = {d}
         /\ \A x \in Calls : Family(f, x) \subseteq Family(g, x)
         /\ \A x \in Calls : Family(g, x) \subseteq Family(f, x) \cup {d}
         /\ \A x \in Calls : x # d /\ d \in Family(g, x) => c \in Family(f, x)
<1>1. Family(g, d) = {d}
  <2>1. \A e \in Calls : g[e] # d
    OBVIOUS
  <2>2. PICK group \in SUBSET Calls : group = {d}
    OBVIOUS
  <2>3. d \in group /\ \A e \in Calls : g[e] \in group => e \in group
    BY <2>1, <2>2
  <2>4. Family(g, d) \subseteq group
    BY <2>3, FamilyIsLeast
  <2>5. d \in Family(g, d)
    BY FamilyGrows
  <2> QED
    BY <2>2, <2>4, <2>5
<1>2. ASSUME NEW x \in Calls PROVE Family(f, x) \subseteq Family(g, x)
  <2>1. PICK group \in SUBSET Calls : group = Family(g, x)
    BY FamilyGrows
  <2>2. x \in group /\ \A e \in Calls : g[e] \in group => e \in group
    BY <2>1, FamilyGrows
  <2>3. \A e \in Calls : f[e] \in group => e \in group
    BY <2>2, OutputCaptureAssumption
  <2> QED
    BY <2>1, <2>2, <2>3, FamilyIsLeast
<1>3. ASSUME NEW x \in Calls PROVE Family(g, x) \subseteq Family(f, x) \cup {d}
  <2>1. PICK group \in SUBSET Calls : group = Family(f, x) \cup {d}
    BY FamilyGrows
  <2>2. x \in group /\ \A e \in Calls : f[e] \in Family(f, x) => e \in group
    BY <2>1, FamilyGrows
  <2>3. \A e \in Calls : g[e] \in group => e \in group
    BY <2>1, <2>2
  <2>4. Family(g, x) \subseteq group
    BY <2>2, <2>3, FamilyIsLeast
  <2> QED
    BY <2>1, <2>4
<1>4. ASSUME NEW x \in Calls, x # d, d \in Family(g, x) PROVE c \in Family(f, x)
  <2>1. c \in Family(g, x)
    BY <1>4, OrphanIsAlone
  <2> QED
    BY <1>3, <2>1
<1> QED
  BY <1>1, <1>2, <1>3, <1>4

IdleIsAlone ==
    \A c \in Calls : stage[c] = "idle" => caller[c] = NoCall /\ \A d \in Calls : caller[d] # c

\* Calls are made by no call within them, and two callees have none in common.
CallerIsOutside == \A d \in Calls : caller[d] \notin Within(d)
CalleesAreApart ==
    \A d, e \in Calls : d # e /\ caller[d] = caller[e] /\ caller[d] # NoCall => Within(d) \cap Within(e) = {}

Lineage == IdleIsAlone /\ CallerIsOutside /\ CalleesAreApart

LEMMA InitLineage == OutputInit => Lineage
<1> SUFFICES ASSUME OutputInit PROVE Lineage
  OBVIOUS
<1>1. \A c \in Calls : caller[c] = NoCall
  BY DEF OutputInit
<1>2. \A c \in Calls : Within(c) \in SUBSET Calls
  BY DEF Within
<1> QED
  BY <1>1, <1>2, OutputCaptureAssumption DEF Lineage, IdleIsAlone, CallerIsOutside, CalleesAreApart

\* What was within a call stays within it.
LEMMA NextLineage ==
  OutputTypeOK /\ Lineage /\ [OutputNext]_outputVars =>
    Lineage' /\ \A c \in Calls : Within(c) \subseteq Within(c)'
<1> SUFFICES ASSUME OutputTypeOK, Lineage, [OutputNext]_outputVars
             PROVE  Lineage' /\ \A c \in Calls : Within(c) \subseteq Within(c)'
  OBVIOUS
<1>0. stage \in [Calls -> Stages] /\ caller \in [Calls -> Calls \cup {NoCall}]
  BY DEF OutputTypeOK
<1>1. ASSUME NEW c \in Calls, NEW d \in Calls, Call(c, d)
      PROVE  Lineage' /\ \A x \in Calls : Within(x) \subseteq Within(x)'
  <2>0. PICK f \in [Calls -> Calls \cup {NoCall}] : f = caller
    BY <1>0
  <2>1. PICK g : f = caller /\ g = caller'
    BY <2>0
  <2>2. /\ g = [f EXCEPT ![d] = c] /\ c # d
        /\ f[d] = NoCall /\ \A e \in Calls : f[e] # d
    BY <1>0, <1>1, <2>1 DEF Call, Lineage, IdleIsAlone
  <2>3. /\ Family(g, d) = {d}
        /\ \A x \in Calls : Family(f, x) \subseteq Family(g, x)
        /\ \A x \in Calls : Family(g, x) \subseteq Family(f, x) \cup {d}
        /\ \A x \in Calls : x # d /\ d \in Family(g, x) => c \in Family(f, x)
    <3>1. f[d] = NoCall
      BY <2>2
    <3>2. \A e \in Calls : f[e] # d
      BY <2>2
    <3>3. g[d] = c /\ c # d
      BY <2>2
    <3>4. \A e \in Calls : e # d => g[e] = f[e]
      BY <2>2
    <3> QED
      BY <3>1, <3>2, <3>3, <3>4, FamilyOfNew, SMT
  <2>4. \A x \in Calls : Within(x) = Family(f, x) /\ Within(x)' = Family(g, x)
    BY <2>1, WithinIsFamily
  <2>5. g[d] = c /\ \A e \in Calls : e # d => g[e] = f[e]
    BY <2>2
  <2>6. IdleIsAlone'
    BY <1>0, <1>1, <2>1, <2>2, <2>5 DEF Call, Lineage, IdleIsAlone
  <2>7. \A e \in Calls : f[e] \notin Family(f, e)
    BY <2>1, <2>4 DEF Lineage, CallerIsOutside
  <2>8. \A e \in Calls : g[e] \notin Family(g, e)
    <3> SUFFICES ASSUME NEW e \in Calls, g[e] \in Family(g, e) PROVE FALSE
      OBVIOUS
    <3>1. CASE e = d
      BY <2>2, <2>3, <2>5, <3>1
    <3>2. CASE e # d
      <4>1. g[e] = f[e] /\ f[e] # d
        BY <2>2, <2>5, <3>2
      <4> QED
        BY <2>3, <2>7, <4>1
    <3> QED
      BY <3>1, <3>2
  <2>9. \A e, h \in Calls : e # h /\ f[e] = f[h] /\ f[e] # NoCall => Family(f, e) \cap Family(f, h) = {}
    BY <2>1, <2>4 DEF Lineage, CalleesAreApart
  <2>10. ASSUME NEW e \in Calls, NEW h \in Calls, e # h, g[e] = g[h], g[e] # NoCall, e # d
         PROVE  Family(g, e) \cap Family(g, h) = {}
    <3>1. CASE h = d
      <4>1. f[e] = c
        BY <2>5, <2>10, <3>1
      <4>2. d \notin Family(g, e)
        BY <2>3, <2>7, <2>10, <4>1
      <4> QED
        BY <2>3, <3>1, <4>2
    <3>2. CASE h # d
      <4>1. Family(f, e) \cap Family(f, h) = {}
        BY <2>5, <2>9, <2>10, <3>2
      <4>2. d \notin Family(g, e) \/ d \notin Family(g, h)
        BY <2>3, <2>10, <3>2, <4>1
      <4>3. Family(g, e) \subseteq Family(f, e) \cup {d} /\ Family(g, h) \subseteq Family(f, h) \cup {d}
        BY <2>3
      <4>4. d \notin Family(f, e) \/ d \notin Family(f, h)
        BY <4>1
      <4> QED
        BY <4>1, <4>2, <4>3, <4>4
    <3> QED
      BY <3>1, <3>2
  <2>11. \A e, h \in Calls : e # h /\ g[e] = g[h] /\ g[e] # NoCall => Family(g, e) \cap Family(g, h) = {}
    BY <2>10
  <2>12. CallerIsOutside' /\ CalleesAreApart'
    BY <2>1, <2>4, <2>8, <2>11 DEF CallerIsOutside, CalleesAreApart
  <2> QED
    BY <2>3, <2>4, <2>6, <2>12 DEF Lineage
<1>2. ASSUME caller' = caller, \A c \in Calls : stage'[c] = "idle" => stage[c] = "idle"
      PROVE  Lineage' /\ \A x \in Calls : Within(x) \subseteq Within(x)'
  <2>1. \A c \in Calls : Within(c)' = Within(c)
    BY <1>2 DEF Within
  <2> QED
    BY <1>2, <2>1 DEF Lineage, IdleIsAlone, CallerIsOutside, CalleesAreApart
<1>3. ASSUME NEW c \in Calls, NEW p \in Prints, WriteText(c, p)
      PROVE  caller' = caller /\ \A x \in Calls : stage'[x] = "idle" => stage[x] = "idle"
  BY <1>3 DEF WriteText
<1>4. ASSUME NEW c \in Calls, MakeOutcome(c) \/ Close(c) \/ Abort(c) \/ Replay(c)
      PROVE  caller' = caller /\ \A x \in Calls : stage'[x] = "idle" => stage[x] = "idle"
  <2>1. caller' = caller
    BY <1>4 DEF MakeOutcome, Close, Abort, Replay
  <2>2. \E new \in Stages \ {"idle"} : stage' = [stage EXCEPT ![c] = new]
    BY <1>4 DEF MakeOutcome, Close, Abort, Replay, Stages
  <2> QED
    BY <1>0, <2>1, <2>2
<1>5. CASE UNCHANGED outputVars
  BY <1>2, <1>5 DEF outputVars
<1> QED
  BY <1>1, <1>2, <1>3, <1>4, <1>5 DEF OutputNext


-----------------------------------------------------------------------------
(* Where a character is, and in which order *)

Letters(text) == {text[i] : i \in DOMAIN text}

LEMMA LettersOfText ==
  ASSUME NEW t \in Texts
  PROVE  \A x : x \in Letters(t) <=> \E i \in 1..Len(t) : x = t[i]
<1>1. DOMAIN t = 1..Len(t)
  BY TextBasics
<1> QED
  BY <1>1 DEF Letters

LEMMA LettersOfBefore ==
  ASSUME NEW t \in Texts, NEW k \in 0..Len(t)
  PROVE  \A x : x \in Letters(Before(t, k)) <=> \E i \in 1..k : x = t[i]
<1>1. PICK u \in Texts : u = Before(t, k) /\ Len(u) = k /\ \A i \in 1..k : u[i] = t[i]
  BY Parts
<1>2. \A x : x \in Letters(u) <=> \E i \in 1..k : x = u[i]
  BY <1>1, LettersOfText
<1> QED
  BY <1>1, <1>2

LEMMA LettersOfPart ==
  ASSUME NEW t \in Texts, NEW s \in 0..Len(t), NEW k \in s..Len(t)
  PROVE  \A x : x \in Letters(SubSeq(t, s + 1, k)) <=> \E i \in (s + 1)..k : x = t[i]
<1>1. PICK u \in Texts : /\ u = SubSeq(t, s + 1, k) /\ Len(u) = k - s
                         /\ \A i \in 1..(k - s) : u[i] = t[s + i]
  BY SubText
<1>2. \A x : x \in Letters(u) <=> \E i \in 1..(k - s) : x = u[i]
  <2>1. 1..Len(u) = 1..(k - s)
    BY <1>1
  <2>2. \A x : x \in Letters(u) <=> \E i \in 1..Len(u) : x = u[i]
    BY LettersOfText
  <2> QED
    BY <2>1, <2>2, Zenon
<1>3. \A i \in 1..(k - s) : s + i \in (s + 1)..k
  BY TextBasics
<1>4. \A i \in (s + 1)..k : i - s \in 1..(k - s) /\ s + (i - s) = i
  BY TextBasics
<1>5. ASSUME NEW i \in (s + 1)..k PROVE \E j \in 1..(k - s) : t[i] = u[j]
  BY <1>1, <1>4
<1>6. ASSUME NEW j \in 1..(k - s) PROVE \E i \in (s + 1)..k : u[j] = t[i]
  BY <1>1, <1>3
<1>7. \A x : x \in Letters(u) <=> \E i \in (s + 1)..k : x = t[i]
  <2> SUFFICES ASSUME NEW x PROVE x \in Letters(u) <=> \E i \in (s + 1)..k : x = t[i]
    OBVIOUS
  <2>1. ASSUME x \in Letters(u) PROVE \E i \in (s + 1)..k : x = t[i]
    <3>1. PICK j \in 1..(k - s) : x = u[j]
      BY <1>2, <2>1
    <3> QED
      BY <1>6, <3>1
  <2>2. ASSUME NEW i \in (s + 1)..k, x = t[i] PROVE x \in Letters(u)
    <3>1. PICK j \in 1..(k - s) : x = u[j]
      BY <1>5, <2>2
    <3> QED
      BY <1>2, <3>1
  <2> QED
    BY <2>1, <2>2
<1> QED
  BY <1>1, <1>7, Zenon

LEMMA LettersJoined ==
  ASSUME NEW t \in Texts, NEW u \in Texts
  PROVE  Letters(t \o u) = Letters(t) \cup Letters(u)
<1>1. PICK a \in Texts : /\ a = t \o u /\ Len(a) = Len(t) + Len(u)
                         /\ \A i \in 1..Len(t) : a[i] = t[i]
                         /\ \A i \in 1..Len(u) : a[Len(t) + i] = u[i]
  BY Joined
<1>2. Len(t) \in Nat /\ Len(u) \in Nat
  BY TextBasics
<1>3. ASSUME NEW x \in Letters(a) PROVE x \in Letters(t) \cup Letters(u)
  <2>1. PICK i \in 1..Len(a) : x = a[i]
    BY LettersOfText
  <2>2. CASE i \in 1..Len(t)
    BY <1>1, <2>1, <2>2, LettersOfText
  <2>3. CASE i \notin 1..Len(t)
    <3>1. i - Len(t) \in 1..Len(u) /\ Len(t) + (i - Len(t)) = i
      BY <1>1, <1>2, <2>3
    <3>2. x = u[i - Len(t)]
      BY <1>1, <2>1, <3>1
    <3> QED
      BY <3>1, <3>2, LettersOfText
  <2> QED
    BY <2>2, <2>3
<1>4. ASSUME NEW i \in 1..Len(t) PROVE t[i] \in Letters(a)
  <2>1. i \in 1..Len(a)
    BY <1>1, <1>2
  <2> QED
    BY <1>1, <2>1, LettersOfText
<1>5. ASSUME NEW i \in 1..Len(u) PROVE u[i] \in Letters(a)
  <2>1. Len(t) + i \in 1..Len(a)
    BY <1>1, <1>2
  <2> QED
    BY <1>1, <2>1, LettersOfText
<1>6. Letters(t) \cup Letters(u) \subseteq Letters(a)
  BY <1>4, <1>5, LettersOfText
<1> QED
  BY <1>1, <1>3, <1>6

LEMMA OrderOfText ==
  ASSUME NEW t \in Texts
  PROVE  InOrder(t) <=> \A i, j \in 1..Len(t) : i < j /\ t[i].by = t[j].by => t[i].pos < t[j].pos
<1>1. DOMAIN t = 1..Len(t)
  BY TextBasics
<1> QED
  BY <1>1 DEF InOrder

\* What comes later of a call is added behind what is there of it.
LEMMA OrderAdds ==
  ASSUME NEW t \in Texts, NEW u \in Texts, InOrder(t), InOrder(u),
         \A x \in Letters(t), y \in Letters(u) : x.by = y.by => x.pos < y.pos
  PROVE  InOrder(t \o u)
<1>1. PICK a \in Texts : /\ a = t \o u /\ Len(a) = Len(t) + Len(u)
                         /\ \A i \in 1..Len(t) : a[i] = t[i]
                         /\ \A i \in 1..Len(u) : a[Len(t) + i] = u[i]
  BY Joined
<1>2. Len(t) \in Nat /\ Len(u) \in Nat
  BY TextBasics
<1>3. ASSUME NEW i \in 1..Len(a), NEW j \in 1..Len(a), i < j, a[i].by = a[j].by
      PROVE  a[i].pos < a[j].pos
  <2>1. CASE j \in 1..Len(t)
    <3>1. i \in 1..Len(t)
      BY <1>2, <1>3, <2>1
    <3>2. a[i] = t[i] /\ a[j] = t[j]
      BY <1>1, <2>1, <3>1
    <3> QED
      BY <1>3, <2>1, <3>1, <3>2, OrderOfText
  <2>2. CASE i \in 1..Len(t) /\ j \notin 1..Len(t)
    <3>1. j - Len(t) \in 1..Len(u) /\ Len(t) + (j - Len(t)) = j
      BY <1>1, <1>2, <2>2
    <3>2. a[i] = t[i] /\ a[j] = u[j - Len(t)]
      BY <1>1, <2>2, <3>1
    <3>3. t[i] \in Letters(t) /\ u[j - Len(t)] \in Letters(u)
      BY <2>2, <3>1, LettersOfText
    <3> QED
      BY <1>3, <3>2, <3>3
  <2>3. CASE i \notin 1..Len(t)
    <3>1. PICK m \in 1..Len(u) : Len(t) + m = i
      <4>1. i - Len(t) \in 1..Len(u) /\ Len(t) + (i - Len(t)) = i
        BY <1>1, <1>2, <2>3
      <4> QED
        BY <4>1
    <3>2. PICK n \in 1..Len(u) : Len(t) + n = j
      <4>1. j - Len(t) \in 1..Len(u) /\ Len(t) + (j - Len(t)) = j
        BY <1>1, <1>2, <1>3, <2>3
      <4> QED
        BY <4>1
    <3>3. a[i] = u[m] /\ a[j] = u[n] /\ m < n
      BY <1>1, <1>2, <1>3, <3>1, <3>2
    <3> QED
      BY <1>3, <3>3, OrderOfText
  <2> QED
    BY <2>1, <2>2, <2>3
<1> QED
  BY <1>1, <1>3, OrderOfText

LEMMA OrderOfPart ==
  ASSUME NEW t \in Texts, InOrder(t), NEW s \in 0..Len(t), NEW k \in s..Len(t)
  PROVE  InOrder(SubSeq(t, s + 1, k))
<1>1. PICK u \in Texts : /\ u = SubSeq(t, s + 1, k) /\ Len(u) = k - s
                         /\ \A i \in 1..(k - s) : u[i] = t[s + i]
  BY SubText
<1>2. ASSUME NEW i \in 1..(k - s), NEW j \in 1..(k - s), i < j, u[i].by = u[j].by
      PROVE  u[i].pos < u[j].pos
  <2>1. s + i \in 1..Len(t) /\ s + j \in 1..Len(t) /\ s + i < s + j
    BY <1>2, TextBasics
  <2>2. u[i] = t[s + i] /\ u[j] = t[s + j]
    BY <1>1
  <2>3. t[s + i].by = t[s + j].by
    BY <1>2, <2>2
  <2>4. t[s + i].pos < t[s + j].pos
    BY <2>1, <2>3, OrderOfText
  <2> QED
    BY <2>2, <2>4
<1> QED
  BY <1>1, <1>2, OrderOfText

LEMMA OrderOfAlike ==
  ASSUME NEW t \in Texts, InOrder(t), NEW u \in Texts, Len(u) <= Len(t),
         \A i \in 1..Len(u) : Alike(u[i], t[i])
  PROVE  InOrder(u)
<1>1. Len(t) \in Nat /\ Len(u) \in Nat
  BY TextBasics
<1>2. ASSUME NEW i \in 1..Len(u), NEW j \in 1..Len(u), i < j, u[i].by = u[j].by
      PROVE  u[i].pos < u[j].pos
  <2>1. i \in 1..Len(t) /\ j \in 1..Len(t)
    BY <1>1
  <2>2. /\ u[i].by = t[i].by /\ u[i].pos = t[i].pos
        /\ u[j].by = t[j].by /\ u[j].pos = t[j].pos
    BY DEF Alike
  <2>3. t[i].pos < t[j].pos
    BY <1>2, <2>1, <2>2, OrderOfText
  <2> QED
    BY <2>2, <2>3
<1> QED
  BY <1>2, OrderOfText


-----------------------------------------------------------------------------
(* Where what was printed went *)

\* Whatever is kept says which of the characters that its call printed it is.
IsGenuine(x) == x.pos \in 1..Len(printed[x.by]) /\ x.stream \in Captured
AllIsGenuine ==
    \A c \in Calls : \A x \in Letters(Kept(c)) \cup Letters(snapshot[c].logs) : IsGenuine(x)

KeptBelongs == \A c \in Calls : \A x \in Letters(Kept(c)) : x.by \in Within(c)
OutcomesBelong == \A c \in Calls : \A x \in Letters(snapshot[c].logs) : x.by \in Within(c)
AllIsInOrder == \A c \in Calls : InOrder(Kept(c)) /\ InOrder(snapshot[c].logs)

\* A buffer holds what its call printed, and what was replayed of the outcomes
\* of its callees.
Replayed(d) == Letters(Before(snapshot[d].logs, merged[d]))
KeptHasSource ==
    \A c \in Calls : \A x \in Letters(Kept(c)) :
        x.by = c \/ (\E d \in Calls : caller[d] = c /\ \E y \in Replayed(d) : Alike(x, y))

\* ... just as it was, and all of it, unless it was truncated.
KeptIsExact ==
    \A c \in Calls : ~truncated[c] => \A x \in Letters(Kept(c)) :
        (x.by = c /\ x \in Letters(printed[c])) \/ (\E d \in Calls : caller[d] = c /\ x \in Replayed(d))
AllIsKept ==
    \A c \in Calls : ~truncated[c] =>
        /\ Letters(printed[c]) \subseteq Letters(Kept(c))
        /\ \A d \in Calls : caller[d] = c => Replayed(d) \subseteq Letters(Kept(c))

Accounted ==
    /\ AllIsGenuine /\ KeptBelongs /\ OutcomesBelong /\ AllIsInOrder
    /\ KeptHasSource /\ KeptIsExact /\ AllIsKept
    /\ NothingLostSilently

OutputIInv == Keeping /\ Lineage /\ Accounted

LEMMA TextsOfState ==
  OutputTypeOK => \A c \in Calls : /\ Kept(c) \in Texts /\ snapshot[c].logs \in Texts
                                   /\ printed[c] \in Texts
<1> SUFFICES ASSUME OutputTypeOK, NEW c \in Calls
             PROVE  Kept(c) \in Texts /\ snapshot[c].logs \in Texts /\ printed[c] \in Texts
  OBVIOUS
<1>1. snapshot[c] \in [logs : Texts, ends : SUBSET Ends, truncated : BOOLEAN, printed : Texts]
  BY DEF OutputTypeOK
<1>2. content[c] \in Contents /\ printed[c] \in Texts
  BY DEF OutputTypeOK
<1> QED
  BY <1>1, <1>2, KeptIsWhole, ContentsTyped

LEMMA NothingReplayed ==
  ASSUME OutputTypeOK, NEW d \in Calls, merged[d] = 0
  PROVE  Replayed(d) = {}
<1>1. PICK logs \in Texts : logs = snapshot[d].logs
  BY TextsOfState
<1>2. 0 \in 0..Len(logs) /\ 1..0 = {}
  BY TextBasics
<1>3. \A x : x \in Letters(Before(logs, 0)) <=> \E i \in 1..0 : x = logs[i]
  BY <1>2, LettersOfBefore
<1> QED
  BY <1>1, <1>2, <1>3 DEF Replayed

LEMMA AllReplayed ==
  ASSUME OutputTypeOK, NEW d \in Calls, merged[d] = Len(snapshot[d].logs)
  PROVE  Replayed(d) = Letters(snapshot[d].logs)
<1>1. PICK logs \in Texts : logs = snapshot[d].logs
  BY TextsOfState
<1>2. Len(logs) \in 0..Len(logs)
  BY TextBasics
<1>3. \A x : x \in Letters(Before(logs, Len(logs))) <=> \E i \in 1..Len(logs) : x = logs[i]
  BY <1>2, LettersOfBefore
<1>4. \A x : x \in Letters(logs) <=> \E i \in 1..Len(logs) : x = logs[i]
  BY LettersOfText
<1> QED
  BY <1>1, <1>3, <1>4 DEF Replayed

\* What was replayed is of the outcome.
LEMMA ReplayedIsOutcome ==
  ASSUME OutputTypeOK, OutcomesAreChunked, NEW d \in Calls
  PROVE  Replayed(d) \subseteq Letters(snapshot[d].logs) /\ merged[d] \in 0..Len(snapshot[d].logs)
<1>1. PICK logs \in Texts : logs = snapshot[d].logs
  BY TextsOfState
<1>2. PICK m \in 0..Len(logs) : m = merged[d]
  <2>1. \A e \in snapshot[d].ends : e.at \in 1..Len(logs)
    BY <1>1 DEF OutcomesAreChunked, Chunked
  <2>2. merged[d] \in {0} \cup {e.at : e \in snapshot[d].ends}
    BY DEF OutcomesAreChunked
  <2>3. Len(logs) \in Nat
    BY TextBasics
  <2> QED
    BY <2>1, <2>2, <2>3
<1>3. \A x : x \in Letters(Before(logs, m)) <=> \E i \in 1..m : x = logs[i]
  BY LettersOfBefore
<1>4. \A x : x \in Letters(logs) <=> \E i \in 1..Len(logs) : x = logs[i]
  BY LettersOfText
<1>5. 1..m \subseteq 1..Len(logs)
  BY TextBasics
<1>6. Letters(Before(logs, m)) \subseteq Letters(logs)
  BY <1>3, <1>4, <1>5
<1> QED
  BY <1>1, <1>2, <1>6 DEF Replayed

\* What a write adds is made of the letters of its text.
LEMMA TakesLetters ==
  ASSUME OutputTypeOK, NEW c \in Calls, NEW stream, NEW text \in Texts, NEW gain \in Texts,
         Takes(c, stream, text, gain)
  PROVE  /\ Letters(Kept(c))' = Letters(Kept(c)) \cup Letters(gain)
         /\ \A x \in Letters(gain) : \E i \in 1..Len(text) : Alike(x, text[i])
         /\ Open(c) /\ stream \in Captured /\ ~truncated'[c] => Letters(gain) = Letters(text)
         /\ ~Open(c) \/ stream \notin Captured => Letters(gain) = {}
<1>1. PICK kept \in Texts : kept = Kept(c)
  BY TextsOfState
<1>2. Letters(kept \o gain) = Letters(kept) \cup Letters(gain)
  BY LettersJoined
<1>3. Letters(Kept(c))' = Letters(kept \o gain)
  BY <1>1 DEF Takes, Letters
<1>4. ASSUME NEW x \in Letters(gain) PROVE \E i \in 1..Len(text) : Alike(x, text[i])
  <2>1. PICK i \in 1..Len(gain) : x = gain[i]
    BY LettersOfText
  <2>2. i \in 1..Len(text)
    BY TextBasics DEF Takes
  <2> QED
    BY <2>1, <2>2 DEF Takes
<1>5. gain = <<>> => Letters(gain) = {}
  BY DEF Letters
<1> QED
  BY <1>1, <1>2, <1>3, <1>4, <1>5 DEF Takes


LEMMA WriteAccounts ==
  ASSUME OutputIInv, NEW c \in Calls, NEW p \in Prints, WriteText(c, p)
  PROVE  Accounted'
<1>0. /\ OutputTypeOK /\ BuffersAreWell /\ OutcomesAreChunked /\ Accounted
      /\ stage \in [Calls -> Stages] /\ printed \in [Calls -> Texts]
  BY DEF OutputIInv, Keeping, OutputTypeOK
<1>1. /\ WriteAt(c, p.stream, Tagged(c, p))
      /\ stage' = stage /\ caller' = caller /\ snapshot' = snapshot /\ merged' = merged
  BY DEF WriteText
<1>2. PICK old \in Texts : old = printed[c]
  BY <1>0, TextsOfState
<1>3. PICK n \in Nat : n = Len(old)
  BY TextBasics
<1>4. PICK t \in Texts :
        /\ t = Tagged(c, p) /\ DOMAIN t = 1..Len(t)
        /\ \A i \in 1..Len(t) : t[i].by = c /\ t[i].pos = n + i /\ t[i].stream = p.stream
  <2>1. Tagged(c, p) \in Texts /\ Len(Tagged(c, p)) = Len(p.text) /\ DOMAIN Tagged(c, p) = 1..Len(p.text)
    BY <1>0, TaggedText
  <2>2. \A i \in 1..Len(p.text) :
              /\ Tagged(c, p)[i].by = c /\ Tagged(c, p)[i].pos = Len(printed[c]) + i
              /\ Tagged(c, p)[i].stream = p.stream
    BY <1>0, TaggedText
  <2> QED
    BY <1>2, <1>3, <2>1, <2>2
<1>5. p.stream \in Streams /\ Len(t) \in Nat
  BY OutputCaptureAssumption, TextBasics
<1>6. /\ \A d \in Calls : d # c => Kept(d)' = Kept(d) /\ truncated'[d] = truncated[d]
      /\ truncated[c] => truncated'[c]
      /\ \E gain \in Texts : Takes(c, p.stream, t, gain)
  BY <1>0, <1>1, <1>4, <1>5, WriteKeeps
<1>7. PICK gain \in Texts : Takes(c, p.stream, t, gain)
  BY <1>6
<1>8. Len(gain) <= Len(t) /\ \A i \in 1..Len(gain) : Alike(gain[i], t[i])
  BY <1>7 DEF Takes
<1>9. /\ Letters(Kept(c))' = Letters(Kept(c)) \cup Letters(gain)
      /\ \A x \in Letters(gain) : \E i \in 1..Len(t) : Alike(x, t[i])
      /\ Open(c) /\ p.stream \in Captured /\ ~truncated'[c] => Letters(gain) = Letters(t)
      /\ ~Open(c) \/ p.stream \notin Captured => Letters(gain) = {}
  BY <1>0, <1>7, TakesLetters
<1>10. /\ \A d \in Calls : d # c => Letters(Kept(d))' = Letters(Kept(d))
       /\ \A d \in Calls : Letters(Kept(d)) \subseteq Letters(Kept(d))'
  <2>1. \A d \in Calls : d # c => Letters(Kept(d))' = Letters(Kept(d))
    BY <1>6 DEF Letters
  <2>2. Letters(Kept(c)) \subseteq Letters(Kept(c))'
    BY <1>9
  <2> QED
    BY <2>1, <2>2
<1>11. PICK new \in Texts :
         /\ new = IF Open(c) /\ p.stream \in Captured THEN old \o t ELSE old
         /\ printed'[c] = new /\ \A d \in Calls : d # c => printed'[d] = printed[d]
  <2>1. printed' = IF Open(c) /\ p.stream \in Captured THEN [printed EXCEPT ![c] = old \o t] ELSE printed
    BY <1>2, <1>4 DEF WriteText
  <2>2. old \o t \in Texts
    BY Joined
  <2> QED
    BY <1>0, <1>2, <2>1, <2>2
<1>12. /\ Len(old \o t) = n + Len(t)
       /\ \A i \in 1..n : (old \o t)[i] = old[i]
       /\ \A i \in 1..Len(t) : (old \o t)[n + i] = t[i]
  BY <1>3, Joined
<1>14. \A x \in Tags : IsGenuine(x) => IsGenuine(x)'
  <2> SUFFICES ASSUME NEW x \in Tags, IsGenuine(x)
               PROVE  x.pos \in 1..Len(printed'[x.by]) /\ x.stream \in Captured
    BY DEF IsGenuine
  <2>0. x.by \in Calls /\ x.pos \in 1..Len(printed[x.by]) /\ x.stream \in Captured
    BY DEF Tags, IsGenuine
  <2>1. CASE x.by # c \/ new = old
    BY <1>2, <1>11, <2>0, <2>1
  <2>2. CASE x.by = c /\ new = old \o t
    <3>1. x.pos \in 1..(n + Len(t))
      BY <1>2, <1>3, <1>5, <2>0, <2>2
    <3> QED
      BY <1>11, <1>12, <2>0, <2>2, <3>1
  <2> QED
    BY <1>11, <2>1, <2>2
<1>15. \A x \in Letters(gain) : x.by = c /\ x.pos > n /\ x.pos \in Int /\ IsGenuine(x)'
  <2> SUFFICES ASSUME NEW x \in Letters(gain)
               PROVE  /\ x.by = c /\ x.pos > n /\ x.pos \in Int
                      /\ x.pos \in 1..Len(printed'[x.by]) /\ x.stream \in Captured
    BY DEF IsGenuine
  <2>1. PICK i \in 1..Len(t) : Alike(x, t[i])
    BY <1>9
  <2>2. x.by = c /\ x.pos = n + i /\ x.stream = p.stream
    BY <1>4, <2>1 DEF Alike
  <2>3. new = old \o t /\ p.stream \in Captured
    BY <1>9, <1>11
  <2>4. n + i \in 1..(n + Len(t)) /\ n + i > n
    BY <1>5
  <2>5. Len(printed'[c]) = n + Len(t)
    BY <1>11, <1>12, <2>3
  <2> QED
    BY <2>2, <2>3, <2>4, <2>5
<1>16. \A d \in Calls : Letters(Kept(d)) \cup Letters(snapshot[d].logs) \subseteq Tags
  <2>1. \A u \in Texts : Letters(u) \subseteq Tags
    BY LettersOfText, TextBasics
  <2> QED
    BY <1>0, <2>1, TextsOfState
<1>17. AllIsGenuine'
  <2> SUFFICES ASSUME NEW d \in Calls, NEW x \in Letters(Kept(d))' \cup Letters(snapshot[d].logs)
               PROVE  IsGenuine(x)'
    BY <1>1 DEF AllIsGenuine
  <2>1. CASE x \in Letters(gain)
    BY <1>15, <2>1
  <2>2. CASE x \in Letters(Kept(d)) \cup Letters(snapshot[d].logs)
    BY <1>0, <1>14, <1>16, <2>2 DEF Accounted, AllIsGenuine
  <2> QED
    BY <1>9, <1>10, <2>1, <2>2
<1>18. \A d \in Calls : Within(d)' = Within(d) /\ Replayed(d)' = Replayed(d) /\ d \in Within(d)
  BY <1>1 DEF Within, Replayed
<1>19. KeptBelongs' /\ OutcomesBelong'
  <2>1. KeptBelongs'
    BY <1>0, <1>9, <1>10, <1>15, <1>18 DEF Accounted, KeptBelongs
  <2>2. OutcomesBelong'
    BY <1>0, <1>1, <1>18 DEF Accounted, OutcomesBelong
  <2> QED
    BY <2>1, <2>2
<1>20. AllIsInOrder'
  <2>1. PICK kept \in Texts : kept = Kept(c)
    BY <1>0, TextsOfState
  <2>2. InOrder(kept)
    BY <1>0, <2>1 DEF Accounted, AllIsInOrder
  <2>3. InOrder(t)
    BY <1>4, <1>5, OrderOfText
  <2>4. InOrder(gain)
    BY <1>8, <2>3, OrderOfAlike
  <2>5. ASSUME NEW x \in Letters(kept), NEW y \in Letters(gain), x.by = y.by PROVE x.pos < y.pos
    <3>1. x.pos \in 1..n
      BY <1>0, <1>2, <1>3, <1>15, <2>1, <2>5 DEF Accounted, AllIsGenuine, IsGenuine
    <3>2. y.pos > n /\ y.pos \in Int
      BY <1>15
    <3> QED
      BY <3>1, <3>2
  <2>6. InOrder(kept \o gain)
    BY <2>2, <2>4, <2>5, OrderAdds
  <2>7. Kept(c)' = kept \o gain
    BY <1>7, <2>1 DEF Takes
  <2>8. InOrder(Kept(c))'
    <3>1. PICK all : all = kept \o gain
      OBVIOUS
    <3>2. InOrder(all) /\ Kept(c)' = all
      BY <2>6, <2>7, <3>1
    <3> QED
      BY <3>2 DEF InOrder
  <2> SUFFICES ASSUME NEW d \in Calls PROVE InOrder(Kept(d))' /\ InOrder(snapshot[d].logs)'
    BY DEF AllIsInOrder
  <2>9. InOrder(snapshot[d].logs)'
    BY <1>0, <1>1 DEF Accounted, AllIsInOrder, InOrder
  <2>10. CASE d # c
    BY <1>0, <1>6, <2>9, <2>10 DEF Accounted, AllIsInOrder, InOrder
  <2> QED
    BY <2>8, <2>9, <2>10
<1>21. KeptHasSource'
  BY <1>0, <1>1, <1>9, <1>10, <1>15, <1>18 DEF Accounted, KeptHasSource
<1>24. KeptIsExact'
  <2> SUFFICES ASSUME NEW d \in Calls, ~truncated'[d], NEW x \in Letters(Kept(d))'
               PROVE  \/ x.by = d /\ x \in Letters(printed'[d])
                      \/ \E e \in Calls : caller[e] = d /\ x \in Replayed(e)
    BY <1>1, <1>18 DEF KeptIsExact, Letters
  <2>0. Letters(printed[d]) \subseteq Letters(printed'[d])
    <3>1. CASE d # c \/ new = old
      BY <1>2, <1>11, <3>1
    <3>2. CASE d = c /\ new = old \o t
      BY <1>2, <1>11, <3>2, LettersJoined
    <3> QED
      BY <1>11, <3>1, <3>2
  <2>1. CASE x \in Letters(Kept(d))
    <3>1. ~truncated[d]
      BY <1>6
    <3> QED
      BY <1>0, <2>0, <2>1, <3>1 DEF Accounted, KeptIsExact
  <2>2. CASE d = c /\ x \in Letters(gain)
    <3>1. Open(c) /\ p.stream \in Captured /\ x \in Letters(t)
      BY <1>9, <2>2
    <3>2. Letters(new) = Letters(old) \cup Letters(t)
      BY <1>11, <3>1, LettersJoined
    <3> QED
      BY <1>11, <1>15, <2>2, <3>1, <3>2
  <2> QED
    BY <1>9, <1>10, <2>1, <2>2
<1>22. AllIsKept'
  <2> SUFFICES ASSUME NEW d \in Calls, ~truncated'[d]
               PROVE  /\ Letters(printed'[d]) \subseteq Letters(Kept(d))'
                      /\ \A e \in Calls : caller[e] = d => Replayed(e) \subseteq Letters(Kept(d))'
    BY <1>1, <1>18 DEF AllIsKept, Letters
  <2>1. ~truncated[d]
    BY <1>6
  <2>2. /\ Letters(printed[d]) \subseteq Letters(Kept(d))
        /\ \A e \in Calls : caller[e] = d => Replayed(e) \subseteq Letters(Kept(d))
    BY <1>0, <2>1 DEF Accounted, AllIsKept
  <2>3. Letters(printed'[d]) \subseteq Letters(Kept(d))'
    <3>1. CASE d # c \/ new = old
      BY <1>2, <1>10, <1>11, <2>2, <3>1
    <3>2. CASE d = c /\ Open(c) /\ p.stream \in Captured
      <4>1. Letters(new) = Letters(old) \cup Letters(t)
        BY <1>11, <3>2, LettersJoined
      <4> QED
        BY <1>2, <1>9, <1>11, <2>2, <3>2, <4>1
    <3> QED
      BY <1>11, <3>1, <3>2
  <2> QED
    BY <1>10, <2>2, <2>3
<1>23. NothingLostSilently'
  BY <1>0, <1>1 DEF Accounted, NothingLostSilently, PartOf
<1> QED
  BY <1>17, <1>19, <1>20, <1>21, <1>22, <1>23, <1>24 DEF Accounted


\* Steps that change no buffer but flush what is pending.
SameText == printed' = printed /\ truncated' = truncated /\ \A d \in Calls : Kept(d)' = Kept(d)

LEMMA SameTextKeeps ==
  ASSUME Accounted, SameText, \A c \in Calls : Within(c) \subseteq Within(c)'
  PROVE  /\ KeptBelongs'
         /\ \A x : IsGenuine(x)' <=> IsGenuine(x)
         /\ \A d \in Calls : Letters(Kept(d))' = Letters(Kept(d))
         /\ \A d \in Calls : InOrder(Kept(d))'
<1>1. \A x : IsGenuine(x)' <=> IsGenuine(x)
  BY DEF SameText, IsGenuine
<1>2. \A d \in Calls : Letters(Kept(d))' = Letters(Kept(d))
  BY DEF SameText, Letters
<1>3. KeptBelongs'
  BY <1>2 DEF Accounted, KeptBelongs
<1>4. \A d \in Calls : InOrder(Kept(d))'
  BY DEF SameText, Accounted, AllIsInOrder, InOrder
<1> QED
  BY <1>1, <1>2, <1>3, <1>4

LEMMA CallAccounts ==
  ASSUME OutputIInv, \A x \in Calls : Within(x) \subseteq Within(x)',
         NEW c \in Calls, NEW d \in Calls, Call(c, d)
  PROVE  Accounted'
<1>0. /\ OutputTypeOK /\ OutcomesAreChunked /\ MergedSoFar /\ IdleIsAlone /\ Accounted
      /\ stage \in [Calls -> Stages] /\ caller \in [Calls -> Calls \cup {NoCall}]
  BY DEF OutputIInv, Keeping, Lineage, OutputTypeOK
<1>1. /\ snapshot' = snapshot /\ merged' = merged
      /\ stage[d] = "idle" /\ stage'[d] = "running" /\ caller'[d] = c /\ merged[d] = 0 /\ caller[d] = NoCall
      /\ \A x \in Calls : x # d => stage'[x] = stage[x] /\ caller'[x] = caller[x]
  BY <1>0 DEF Call, MergedSoFar, IdleIsAlone
<1>2. SameText
  BY DEF Call, buffer, SameText, Kept
<1>3. /\ KeptBelongs'
      /\ \A x : IsGenuine(x)' <=> IsGenuine(x)
      /\ \A x \in Calls : Letters(Kept(x))' = Letters(Kept(x))
      /\ \A x \in Calls : InOrder(Kept(x))'
  BY <1>0, <1>2, SameTextKeeps
<1>4. \A x \in Calls : Letters(snapshot[x].logs)' = Letters(snapshot[x].logs) /\ Replayed(x)' = Replayed(x)
  BY <1>1 DEF Letters, Replayed
<1>5. AllIsGenuine'
  BY <1>0, <1>3, <1>4 DEF Accounted, AllIsGenuine
<1>6. OutcomesBelong'
  BY <1>0, <1>4 DEF Accounted, OutcomesBelong
<1>7. AllIsInOrder'
  BY <1>0, <1>1, <1>3 DEF Accounted, AllIsInOrder, InOrder
<1>8. KeptHasSource'
  <2> SUFFICES ASSUME NEW x \in Calls, NEW y \in Letters(Kept(x)), y.by # x
               PROVE  \E e \in Calls : caller'[e] = x /\ \E z \in Replayed(e) : Alike(y, z)
    BY <1>3, <1>4 DEF KeptHasSource
  <2>1. PICK e \in Calls : caller[e] = x /\ \E z \in Replayed(e) : Alike(y, z)
    BY <1>0 DEF Accounted, KeptHasSource
  <2>2. e # d
    BY <1>1, <2>1, OutputCaptureAssumption
  <2> QED
    BY <1>1, <2>1, <2>2
<1>11. KeptIsExact'
  <2> SUFFICES ASSUME NEW x \in Calls, ~truncated[x], NEW y \in Letters(Kept(x))
               PROVE  \/ y.by = x /\ y \in Letters(printed[x])
                      \/ \E e \in Calls : caller'[e] = x /\ y \in Replayed(e)
    BY <1>2, <1>3, <1>4 DEF KeptIsExact, SameText, Letters
  <2>1. \A e \in Calls : caller[e] = x => caller'[e] = x
    BY <1>1, OutputCaptureAssumption
  <2> QED
    BY <1>0, <2>1 DEF Accounted, KeptIsExact
<1>9. AllIsKept'
  <2> SUFFICES ASSUME NEW x \in Calls, ~truncated[x]
               PROVE  /\ Letters(printed[x]) \subseteq Letters(Kept(x))
                      /\ \A e \in Calls : caller'[e] = x => Replayed(e) \subseteq Letters(Kept(x))
    BY <1>2, <1>3, <1>4 DEF AllIsKept, SameText, Letters
  <2>1. Replayed(d) = {}
    BY <1>0, <1>1, NothingReplayed
  <2> QED
    BY <1>0, <1>1, <2>1 DEF Accounted, AllIsKept
<1>10. NothingLostSilently'
  <2> SUFFICES ASSUME NEW x \in Calls, stage'[x] \notin {"idle", "running", "aborted"}, ~snapshot[x].truncated
               PROVE  /\ PartOf(x, snapshot[x].logs) = PartOf(x, snapshot[x].printed)
                      /\ \A y, e \in Calls :
                           caller'[y] = x /\ stage'[y] = "merged" /\ PartOf(e, snapshot[y].logs) # {} =>
                             PartOf(e, snapshot[x].logs) = PartOf(e, snapshot[y].logs)
    BY <1>1 DEF NothingLostSilently, PartOf
  <2>1. x # d /\ stage[x] = stage'[x]
    BY <1>1
  <2>2. \A y \in Calls : stage'[y] = "merged" => caller'[y] = caller[y] /\ stage[y] = "merged"
    BY <1>1
  <2>3. stage[x] \notin {"idle", "running", "aborted"} /\ ~snapshot[x].truncated
    BY <2>1
  <2>4. /\ PartOf(x, snapshot[x].logs) = PartOf(x, snapshot[x].printed)
        /\ \A y, e \in Calls :
             caller[y] = x /\ stage[y] = "merged" /\ PartOf(e, snapshot[y].logs) # {} =>
               PartOf(e, snapshot[x].logs) = PartOf(e, snapshot[y].logs)
    BY <1>0, <2>3, Zenon DEF Accounted, NothingLostSilently
  <2> QED
    BY <2>2, <2>4
<1> QED
  BY <1>3, <1>5, <1>6, <1>7, <1>8, <1>9, <1>10, <1>11 DEF Accounted

\* An outcome has all that the buffer has, and nothing of a callee but what
\* was replayed of it.
LEMMA OutcomeIsWhole ==
  ASSUME OutputIInv, NEW c \in Calls, ~truncated[c],
         NEW d \in Calls, NEW e \in Calls, caller[d] = c, stage[d] = "merged",
         PartOf(e, snapshot[d].logs) # {}
  PROVE  PartOf(e, Kept(c)) = PartOf(e, snapshot[d].logs)
<1>0. /\ OutputTypeOK /\ OutcomesAreChunked /\ MergedSoFar /\ Accounted
      /\ CallerIsOutside /\ CalleesAreApart
  BY DEF OutputIInv, Keeping, Lineage
<1>1. \A text, y : PartOf(y, text) = {x \in Letters(text) : x.by = y}
  BY DEF PartOf, Letters
<1>2. Replayed(d) = Letters(snapshot[d].logs)
  BY <1>0, AllReplayed DEF MergedSoFar
<1>3. Letters(snapshot[d].logs) \subseteq Letters(Kept(c))
  BY <1>0, <1>2 DEF Accounted, AllIsKept
<1>4. e \in Within(d)
  BY <1>0, <1>1 DEF Accounted, OutcomesBelong
<1>5. c \notin Within(d)
  BY <1>0 DEF CallerIsOutside
<1>6. ASSUME NEW x \in Letters(Kept(c)), x.by = e PROVE x \in Letters(snapshot[d].logs)
  <2>1. PICK h \in Calls : caller[h] = c /\ x \in Replayed(h)
    BY <1>0, <1>4, <1>5, <1>6 DEF Accounted, KeptIsExact
  <2>2. x \in Letters(snapshot[h].logs)
    BY <1>0, <2>1, ReplayedIsOutcome
  <2>3. e \in Within(h)
    BY <1>0, <1>6, <2>2 DEF Accounted, OutcomesBelong
  <2>4. h = d
    BY <1>0, <1>4, <2>1, <2>3, OutputCaptureAssumption DEF CalleesAreApart
  <2> QED
    BY <2>2, <2>4
<1> QED
  BY <1>1, <1>3, <1>6

LEMMA OutcomeAccounts ==
  ASSUME OutputIInv, \A x \in Calls : Within(x) \subseteq Within(x)',
         NEW c \in Calls, MakeOutcome(c)
  PROVE  Accounted'
<1>0. /\ OutputTypeOK /\ BuffersAreWell /\ OutcomesAreChunked /\ MergedSoFar /\ Accounted
      /\ stage \in [Calls -> Stages]
      /\ snapshot \in [Calls -> [logs : Texts, ends : SUBSET Ends, truncated : BOOLEAN, printed : Texts]]
  BY DEF OutputIInv, Keeping, Lineage, OutputTypeOK
<1>1. /\ FlushPending(c) /\ bytes' = bytes /\ caller' = caller /\ merged' = merged
      /\ printed' = printed /\ truncated' = truncated
      /\ stage[c] = "running" /\ stage'[c] = "returning" /\ merged[c] = 0
      /\ \A x \in Calls : x # c => stage'[x] = stage[x]
  BY <1>0 DEF MakeOutcome, MergedSoFar
<1>2. (\A d \in Calls : Kept(d)' = Kept(d)) /\ Flushed(content[c]).logs = Kept(c)
  BY <1>0, <1>1, FlushesOne
<1>3. PICK logs \in Texts : logs = Kept(c)
  BY <1>0, TextsOfState
<1>4. /\ snapshot'[c].logs = logs /\ snapshot'[c].truncated = truncated[c] /\ snapshot'[c].printed = printed[c]
      /\ \A x \in Calls : x # c => snapshot'[x] = snapshot[x]
  <2>1. snapshot' = [snapshot EXCEPT ![c] =
           [logs |-> logs, ends |-> Flushed(content[c]).ends,
            truncated |-> truncated[c], printed |-> printed[c]]]
    BY <1>2, <1>3 DEF MakeOutcome
  <2> QED
    BY <1>0, <2>1
<1>5. /\ KeptBelongs'
      /\ \A x : IsGenuine(x)' <=> IsGenuine(x)
      /\ \A x \in Calls : Letters(Kept(x))' = Letters(Kept(x))
      /\ \A x \in Calls : InOrder(Kept(x))'
  <2>1. SameText
    BY <1>1, <1>2 DEF SameText
  <2> QED
    BY <1>0, <2>1, SameTextKeeps
<1>6. \A x \in Calls : Letters(snapshot[x].logs)' = IF x = c THEN Letters(Kept(c)) ELSE Letters(snapshot[x].logs)
  BY <1>3, <1>4 DEF Letters
<1>7. /\ \A x \in Calls : x # c => Replayed(x)' = Replayed(x)
      /\ Replayed(c) = {} /\ Replayed(c)' = {}
  <2>1. Replayed(c) = {}
    BY <1>0, <1>1, NothingReplayed
  <2>2. Replayed(c)' = Letters(Before(logs, 0))
    BY <1>1, <1>4 DEF Replayed, Letters
  <2>3. Letters(Before(logs, 0)) = {}
    <3>1. 0 \in 0..Len(logs) /\ 1..0 = {}
      BY TextBasics
    <3>2. \A x : x \in Letters(Before(logs, 0)) <=> \E i \in 1..0 : x = logs[i]
      BY <3>1, LettersOfBefore
    <3> QED
      BY <3>1, <3>2
  <2> QED
    BY <1>1, <1>4, <2>1, <2>2, <2>3 DEF Replayed, Letters
<1>8. AllIsGenuine'
  BY <1>0, <1>5, <1>6 DEF Accounted, AllIsGenuine
<1>9. OutcomesBelong'
  <2> SUFFICES ASSUME NEW x \in Calls, NEW y \in Letters(snapshot[x].logs)' PROVE y.by \in Within(x)'
    BY DEF OutcomesBelong
  <2>1. y.by \in Within(x)
    BY <1>0, <1>6 DEF Accounted, OutcomesBelong, KeptBelongs
  <2> QED
    BY <2>1
<1>10. AllIsInOrder'
  <2>1. \A x \in Calls : InOrder(snapshot'[x].logs)
    BY <1>0, <1>3, <1>4 DEF Accounted, AllIsInOrder
  <2>2. \A x \in Calls : InOrder(snapshot[x].logs)'
    BY <2>1 DEF InOrder
  <2> QED
    BY <1>5, <2>2 DEF AllIsInOrder
<1>11. KeptHasSource' /\ KeptIsExact'
  <2>1. KeptHasSource'
    BY <1>0, <1>1, <1>5, <1>7 DEF Accounted, KeptHasSource
  <2>2. \A x \in Calls : Letters(printed[x])' = Letters(printed[x])
    BY <1>1 DEF Letters
  <2>3. KeptIsExact'
    BY <1>0, <1>1, <1>5, <1>7, <2>2 DEF Accounted, KeptIsExact
  <2> QED
    BY <2>1, <2>3
<1>12. AllIsKept'
  <2> SUFFICES ASSUME NEW x \in Calls, ~truncated[x]
               PROVE  /\ Letters(printed[x]) \subseteq Letters(Kept(x))
                      /\ \A e \in Calls : caller[e] = x => Replayed(e)' \subseteq Letters(Kept(x))
    BY <1>1, <1>5 DEF AllIsKept, Letters
  <2> QED
    BY <1>0, <1>7 DEF Accounted, AllIsKept
<1>13. NothingLostSilently'
  <2> SUFFICES ASSUME NEW x \in Calls, stage'[x] \notin {"idle", "running", "aborted"}, ~snapshot'[x].truncated
               PROVE  /\ PartOf(x, snapshot'[x].logs) = PartOf(x, snapshot'[x].printed)
                      /\ \A y, e \in Calls :
                           caller[y] = x /\ stage'[y] = "merged" /\ PartOf(e, snapshot'[y].logs) # {} =>
                             PartOf(e, snapshot'[x].logs) = PartOf(e, snapshot'[y].logs)
    BY <1>1 DEF NothingLostSilently, PartOf
  <2>1. \A y \in Calls : stage'[y] = "merged" => y # c /\ stage[y] = "merged" /\ snapshot'[y] = snapshot[y]
    BY <1>1, <1>4
  <2>2. CASE x = c
    <3>1. ~truncated[c]
      BY <1>4, <2>2
    <3>2. PartOf(c, Kept(c)) = PartOf(c, printed[c])
      <4>1. Letters(printed[c]) \subseteq Letters(Kept(c))
        BY <1>0, <3>1 DEF Accounted, AllIsKept
      <4>2. PICK all \in Texts : all = printed[c]
        BY <1>0, TextsOfState
      <4>3. ASSUME NEW z \in Letters(Kept(c)), z.by = c PROVE z \in Letters(all)
        <5> SUFFICES ASSUME NEW d \in Calls, caller[d] = c, z \in Replayed(d) PROVE FALSE
          BY <1>0, <3>1, <4>2, <4>3 DEF Accounted, KeptIsExact
        <5>1. z \in Letters(snapshot[d].logs)
          BY <1>0, ReplayedIsOutcome
        <5>2. c \in Within(d)
          BY <1>0, <4>3, <5>1 DEF Accounted, OutcomesBelong
        <5> QED
          BY <5>2 DEF OutputIInv, Lineage, CallerIsOutside
      <4>4. \A text, y : PartOf(y, text) = {z \in Letters(text) : z.by = y}
        BY DEF PartOf, Letters
      <4> QED
        BY <4>1, <4>2, <4>3, <4>4
    <3>3. \A y, e \in Calls :
             caller[y] = c /\ stage[y] = "merged" /\ PartOf(e, snapshot[y].logs) # {} =>
               PartOf(e, Kept(c)) = PartOf(e, snapshot[y].logs)
      BY <3>1, OutcomeIsWhole
    <3> QED
      BY <1>3, <1>4, <2>1, <2>2, <3>2, <3>3
  <2>3. CASE x # c
    <3>1. snapshot'[x] = snapshot[x] /\ stage'[x] = stage[x]
      BY <1>1, <1>4, <2>3
    <3>2. stage[x] \notin {"idle", "running", "aborted"} /\ ~snapshot[x].truncated
      BY <3>1
    <3>3. /\ PartOf(x, snapshot[x].logs) = PartOf(x, snapshot[x].printed)
          /\ \A y, e \in Calls :
               caller[y] = x /\ stage[y] = "merged" /\ PartOf(e, snapshot[y].logs) # {} =>
                 PartOf(e, snapshot[x].logs) = PartOf(e, snapshot[y].logs)
      BY <1>0, <3>2, Zenon DEF Accounted, NothingLostSilently
    <3> QED
      BY <2>1, <3>1, <3>3
  <2> QED
    BY <2>2, <2>3
<1> QED
  BY <1>5, <1>8, <1>9, <1>10, <1>11, <1>12, <1>13 DEF Accounted


\* Steps that change no outcome and merge nothing.
MovesOn ==
    /\ SameText /\ caller' = caller /\ snapshot' = snapshot /\ merged' = merged
    /\ \A x \in Calls : stage'[x] \notin {"idle", "running", "aborted"} =>
                         stage[x] \notin {"idle", "running", "aborted"}
    /\ \A x, y \in Calls :
         stage'[y] = "merged" /\ caller[y] = x /\ stage[x] \notin {"idle", "running", "aborted"} =>
           stage[y] = "merged" \/ snapshot[y].logs = <<>>

LEMMA EndAccounts ==
  ASSUME OutputIInv, \A x \in Calls : Within(x) \subseteq Within(x)', MovesOn
  PROVE  Accounted'
<1> USE DEF MovesOn
<1>0. Accounted
  BY DEF OutputIInv
<1>1. /\ KeptBelongs'
      /\ \A x : IsGenuine(x)' <=> IsGenuine(x)
      /\ \A x \in Calls : Letters(Kept(x))' = Letters(Kept(x))
      /\ \A x \in Calls : InOrder(Kept(x))'
  BY <1>0, SameTextKeeps
<1>2. \A x \in Calls : Letters(snapshot[x].logs)' = Letters(snapshot[x].logs) /\ Replayed(x)' = Replayed(x)
  BY DEF Letters, Replayed
<1>3. AllIsGenuine'
  BY <1>0, <1>1, <1>2 DEF Accounted, AllIsGenuine
<1>4. OutcomesBelong'
  BY <1>0, <1>2 DEF Accounted, OutcomesBelong
<1>5. AllIsInOrder'
  BY <1>0, <1>1 DEF Accounted, AllIsInOrder, InOrder
<1>6. KeptHasSource' /\ KeptIsExact'
  <2>1. KeptHasSource'
    BY <1>0, <1>1, <1>2 DEF Accounted, KeptHasSource
  <2>2. \A x \in Calls : Letters(printed[x])' = Letters(printed[x]) /\ truncated'[x] = truncated[x]
    BY DEF SameText, Letters
  <2>3. KeptIsExact'
    BY <1>0, <1>1, <1>2, <2>2 DEF Accounted, KeptIsExact
  <2> QED
    BY <2>1, <2>3
<1>7. AllIsKept'
  <2> SUFFICES ASSUME NEW x \in Calls, ~truncated[x]
               PROVE  /\ Letters(printed[x]) \subseteq Letters(Kept(x))
                      /\ \A e \in Calls : caller[e] = x => Replayed(e) \subseteq Letters(Kept(x))
    BY <1>1, <1>2 DEF AllIsKept, SameText, Letters
  <2> QED
    BY <1>0 DEF Accounted, AllIsKept
<1>8. NothingLostSilently'
  <2> SUFFICES ASSUME NEW x \in Calls, stage'[x] \notin {"idle", "running", "aborted"}, ~snapshot[x].truncated
               PROVE  /\ PartOf(x, snapshot[x].logs) = PartOf(x, snapshot[x].printed)
                      /\ \A y, e \in Calls :
                           caller[y] = x /\ stage'[y] = "merged" /\ PartOf(e, snapshot[y].logs) # {} =>
                             PartOf(e, snapshot[x].logs) = PartOf(e, snapshot[y].logs)
    BY DEF NothingLostSilently, PartOf
  <2>1. stage[x] \notin {"idle", "running", "aborted"}
    OBVIOUS
  <2>2. /\ PartOf(x, snapshot[x].logs) = PartOf(x, snapshot[x].printed)
        /\ \A y, e \in Calls :
             caller[y] = x /\ stage[y] = "merged" /\ PartOf(e, snapshot[y].logs) # {} =>
               PartOf(e, snapshot[x].logs) = PartOf(e, snapshot[y].logs)
    BY <1>0, <2>1, Zenon DEF Accounted, NothingLostSilently
  <2>3. \A y, e \in Calls : snapshot[y].logs = <<>> => PartOf(e, snapshot[y].logs) = {}
    BY DEF PartOf
  <2> QED
    BY <2>1, <2>2, <2>3
<1> QED
  BY <1>1, <1>3, <1>4, <1>5, <1>6, <1>7, <1>8 DEF Accounted

LEMMA CloseAccounts ==
  ASSUME OutputIInv, \A x \in Calls : Within(x) \subseteq Within(x)',
         NEW c \in Calls, Close(c) \/ Abort(c)
  PROVE  Accounted'
<1>0. OutputTypeOK /\ BuffersAreWell /\ stage \in [Calls -> Stages]
  BY DEF OutputIInv, Keeping, OutputTypeOK
<1>1. /\ FlushPending(c) /\ UNCHANGED <<caller, bytes, truncated, snapshot, merged, printed>>
      /\ \/ stage[c] = "returning" /\ stage' = [stage EXCEPT ![c] = "ended"]
         \/ stage' = [stage EXCEPT ![c] = "aborted"]
  BY DEF Close, Abort
<1>2. SameText
  BY <1>0, <1>1, FlushesOne DEF SameText
<1>3. \A x \in Calls : stage'[x] \notin {"idle", "running", "aborted"} =>
                         stage[x] \notin {"idle", "running", "aborted"}
  BY <1>0, <1>1
<1>4. \A y \in Calls : stage'[y] = "merged" => stage[y] = "merged"
  BY <1>0, <1>1
<1>5. MovesOn
  BY <1>1, <1>2, <1>3, <1>4 DEF MovesOn
<1> QED
  BY <1>5, EndAccounts

\* Nothing is replayed, or nothing is left to replay.
LEMMA ReplayEnds ==
  ASSUME OutputIInv, \A x \in Calls : Within(x) \subseteq Within(x)',
         NEW d \in Calls, Replay(d), UNCHANGED <<buffer, merged>>,
         stage' = [stage EXCEPT ![d] = "dropped"] \/ (Left(d) = {} /\ stage' = [stage EXCEPT ![d] = "merged"])
  PROVE  Accounted'
<1>0. /\ OutputTypeOK /\ OutcomesAreChunked /\ MergedSoFar /\ MergingCallerRuns
      /\ stage \in [Calls -> Stages]
  BY DEF OutputIInv, Keeping, OutputTypeOK
<1>1. UNCHANGED <<caller, snapshot, printed>> /\ stage[d] \in {"ended", "merging"}
  BY DEF Replay
<1>2. SameText
  BY <1>1 DEF SameText, buffer, Kept
<1>3. \A x \in Calls : stage'[x] \notin {"idle", "running", "aborted"} =>
                         stage[x] \notin {"idle", "running", "aborted"}
  BY <1>0, <1>1
<1>4. ASSUME NEW y \in Calls, stage'[y] = "merged", caller[y] \in Calls,
             stage[caller[y]] \notin {"idle", "running", "aborted"}, stage[y] # "merged"
      PROVE  snapshot[y].logs = <<>>
  <2>1. y = d /\ Left(d) = {}
    BY <1>0, <1>4
  <2>2. stage[d] = "ended"
    BY <1>0, <1>1, <1>4, <2>1 DEF MergingCallerRuns
  <2>3. merged[d] = 0 /\ merged[d] = Len(snapshot[d].logs)
    BY <1>0, <2>1, <2>2, NothingLeft DEF MergedSoFar
  <2>4. snapshot[d].logs \in Texts
    BY <1>0, TextsOfState
  <2> QED
    BY <2>1, <2>3, <2>4, TextBasics
<1>5. MovesOn
  BY <1>1, <1>2, <1>3, <1>4 DEF MovesOn
<1> QED
  BY <1>5, EndAccounts

LEMMA ReplayAccounts ==
  ASSUME OutputIInv, \A x \in Calls : Within(x) \subseteq Within(x)',
         NEW d \in Calls, NEW c \in Calls, c = caller[d], Open(c),
         stage[d] \in {"ended", "merging"}, UNCHANGED <<caller, snapshot, printed>>,
         NEW e \in Left(d), \A f \in Left(d) : e.at <= f.at,
         WriteAt(c, e.stream, Chunk(d, e)),
         merged' = [merged EXCEPT ![d] = e.at],
         NEW next \in {"merging", "dropped"}, stage' = [stage EXCEPT ![d] = next]
  PROVE  Accounted'
<1>0. /\ OutputTypeOK /\ BuffersAreWell /\ OutcomesAreChunked /\ Accounted
      /\ CallerIsOutside /\ CalleesAreApart
      /\ stage \in [Calls -> Stages] /\ merged \in [Calls -> Nat]
  BY DEF OutputIInv, Keeping, Lineage, OutputTypeOK
<1>1. PICK logs \in Texts : logs = snapshot[d].logs
  BY <1>0, TextsOfState
<1>2. PICK m \in 0..Len(logs), n \in Nat : m = merged[d] /\ n = e.at
  <2>1. merged[d] \in 0..Len(logs)
    BY <1>0, <1>1, NextChunk
  <2>2. e.at \in (merged[d] + 1)..Len(logs)
    BY <1>0, <1>1, NextChunk
  <2>3. e.at \in Nat
    BY <2>1, <2>2, TextBasics
  <2> QED
    BY <2>1, <2>3
<1>3. n \in (m + 1)..Len(logs) /\ Len(logs) \in Nat /\ e.stream \in Streams
  BY <1>0, <1>1, <1>2, NextChunk, TextBasics
<1>4. PICK t \in Texts : /\ t = Chunk(d, e) /\ t = SubSeq(logs, m + 1, n)
                         /\ \A i \in DOMAIN t : t[i].stream = e.stream
  BY <1>0, <1>1, <1>2, NextChunk DEF Chunk
<1>5. n \in m..Len(logs) /\ n \in 0..Len(logs)
  BY <1>3
<1>6. \A x : x \in Letters(t) <=> \E i \in (m + 1)..n : x = logs[i]
  BY <1>4, <1>5, LettersOfPart
<1>7. /\ \A x : x \in Letters(Before(logs, m)) <=> \E i \in 1..m : x = logs[i]
      /\ \A x : x \in Letters(Before(logs, n)) <=> \E i \in 1..n : x = logs[i]
      /\ \A x : x \in Letters(logs) <=> \E i \in 1..Len(logs) : x = logs[i]
  BY <1>5, LettersOfBefore, LettersOfText
<1>8. Letters(Before(logs, n)) = Letters(Before(logs, m)) \cup Letters(t)
  <2>1. 1..n = (1..m) \cup ((m + 1)..n)
    BY <1>3
  <2> QED
    BY <1>6, <1>7, <2>1
<1>9. Letters(t) \subseteq Letters(logs)
  <2>1. (m + 1)..n \subseteq 1..Len(logs)
    BY <1>3
  <2> QED
    BY <1>6, <1>7, <2>1
<1>10. /\ Replayed(d) = Letters(Before(logs, m)) /\ Replayed(d)' = Letters(Before(logs, n))
       /\ Replayed(d)' = Replayed(d) \cup Letters(t)
       /\ \A x \in Calls : x # d => Replayed(x)' = Replayed(x)
       /\ \A x \in Calls : Replayed(x) \subseteq Replayed(x)'
  <2>1. merged'[d] = n /\ (\A x \in Calls : x # d => merged'[x] = merged[x]) /\ snapshot' = snapshot
    BY <1>0, <1>2
  <2>2. Replayed(d) = Letters(Before(logs, m))
    BY <1>1, <1>2 DEF Replayed
  <2>3. Replayed(d)' = Letters(Before(logs, n))
    BY <1>1, <2>1 DEF Replayed, Letters
  <2>4. \A x \in Calls : x # d => Replayed(x)' = Replayed(x)
    BY <2>1 DEF Replayed, Letters
  <2> QED
    BY <1>8, <2>2, <2>3, <2>4
<1>11. e.stream \in Captured
  <2>1. logs[n] \in Letters(t) /\ logs[n] \in Letters(logs)
    BY <1>3, <1>6, <1>9
  <2>2. logs[n].stream = e.stream
    BY <1>4, <2>1 DEF Letters
  <2>3. IsGenuine(logs[n]) /\ logs[n].by \in Calls
    BY <1>0, <1>1, <1>3, <2>1, TextBasics DEF Accounted, AllIsGenuine, Tags
  <2> QED
    BY <2>2, <2>3 DEF IsGenuine
<1>12. /\ \A x \in Calls : x # c => Kept(x)' = Kept(x) /\ truncated'[x] = truncated[x]
       /\ truncated[c] => truncated'[c]
       /\ \E gain \in Texts : Takes(c, e.stream, t, gain)
  BY <1>0, <1>1, <1>2, <1>3, <1>4, WriteKeeps
<1>13. PICK gain \in Texts : Takes(c, e.stream, t, gain)
  BY <1>12
<1>14. Len(gain) <= Len(t) /\ \A i \in 1..Len(gain) : Alike(gain[i], t[i])
  BY <1>13 DEF Takes
<1>15. /\ Letters(Kept(c))' = Letters(Kept(c)) \cup Letters(gain)
       /\ \A x \in Letters(gain) : \E y \in Letters(t) : Alike(x, y)
       /\ ~truncated'[c] => Letters(gain) = Letters(t)
  <2>1. /\ Letters(Kept(c))' = Letters(Kept(c)) \cup Letters(gain)
        /\ \A x \in Letters(gain) : \E i \in 1..Len(t) : Alike(x, t[i])
        /\ Open(c) /\ e.stream \in Captured /\ ~truncated'[c] => Letters(gain) = Letters(t)
        /\ ~Open(c) \/ e.stream \notin Captured => Letters(gain) = {}
    <3>1. PICK stream : stream = e.stream
      OBVIOUS
    <3>2. Takes(c, stream, t, gain)
      BY <1>13, <3>1
    <3>3. OutputTypeOK
      BY <1>0
    <3>4. /\ Letters(Kept(c))' = Letters(Kept(c)) \cup Letters(gain)
          /\ \A x \in Letters(gain) : \E i \in 1..Len(t) : Alike(x, t[i])
          /\ Open(c) /\ stream \in Captured /\ ~truncated'[c] => Letters(gain) = Letters(t)
          /\ ~Open(c) \/ stream \notin Captured => Letters(gain) = {}
      BY <3>2, <3>3, TakesLetters
    <3> QED
      BY <3>1, <3>4
  <2>2. \A i \in 1..Len(t) : t[i] \in Letters(t)
    BY LettersOfText
  <2>3. ~truncated'[c] => Letters(gain) = Letters(t)
    BY <1>11, <2>1
  <2> QED
    BY <2>1, <2>2, <2>3
<1>16. /\ \A x \in Calls : x # c => Letters(Kept(x))' = Letters(Kept(x))
       /\ \A x \in Calls : Letters(Kept(x)) \subseteq Letters(Kept(x))'
       /\ \A x \in Calls : Letters(snapshot[x].logs)' = Letters(snapshot[x].logs)
  <2>1. \A x \in Calls : x # c => Letters(Kept(x))' = Letters(Kept(x))
    BY <1>12 DEF Letters
  <2>2. \A x \in Calls : Letters(snapshot[x].logs)' = Letters(snapshot[x].logs)
    BY DEF Letters
  <2> QED
    BY <1>15, <2>1, <2>2
<1>17. \A x : IsGenuine(x)' <=> IsGenuine(x)
  BY DEF IsGenuine
<1>18. AllIsGenuine'
  <2>1. \A x \in Letters(gain) : IsGenuine(x)
    <3> SUFFICES ASSUME NEW x \in Letters(gain) PROVE IsGenuine(x)
      OBVIOUS
    <3>1. PICK y \in Letters(t) : Alike(x, y)
      BY <1>15
    <3>2. IsGenuine(y)
      BY <1>0, <1>1, <1>9 DEF Accounted, AllIsGenuine
    <3> QED
      BY <3>1, <3>2 DEF Alike, IsGenuine
  <2> QED
    BY <1>0, <1>15, <1>16, <1>17, <2>1 DEF Accounted, AllIsGenuine
<1>19. \A x \in Calls : Within(x)' = Within(x) /\ x \in Within(x)
  BY DEF Within
<1>20. Within(d) \subseteq Within(c)
  <2>1. PICK f : f = caller
    OBVIOUS
  <2>2. PICK group \in SUBSET Calls : group = Family(f, c)
    BY FamilyGrows
  <2>3. d \in group /\ \A x \in Calls : f[x] \in group => x \in group
    BY <2>1, <2>2, FamilyGrows
  <2>4. Family(f, d) \subseteq group
    BY <2>3, FamilyIsLeast
  <2> QED
    BY <2>1, <2>2, <2>4, WithinIsFamily
<1>21. \A x \in Letters(t) \cup Letters(gain) : x.by \in Within(d)
  <2>1. \A x \in Letters(t) : x.by \in Within(d)
    BY <1>0, <1>1, <1>9 DEF Accounted, OutcomesBelong
  <2> QED
    BY <1>15, <2>1 DEF Alike
<1>22. KeptBelongs'
  BY <1>0, <1>15, <1>16, <1>19, <1>20, <1>21 DEF Accounted, KeptBelongs
<1>23. OutcomesBelong'
  BY <1>0, <1>16, <1>19 DEF Accounted, OutcomesBelong
<1>24. AllIsInOrder'
  <2>1. PICK kept \in Texts : kept = Kept(c)
    BY <1>0, TextsOfState
  <2>2. InOrder(kept) /\ InOrder(logs)
    BY <1>0, <1>1, <2>1 DEF Accounted, AllIsInOrder
  <2>3. InOrder(t)
    BY <1>4, <1>5, <2>2, OrderOfPart
  <2>4. InOrder(gain)
    BY <1>14, <2>3, OrderOfAlike
  <2>5. ASSUME NEW x \in Letters(kept), NEW y \in Letters(gain), x.by = y.by PROVE x.pos < y.pos
    <3>1. PICK w \in Letters(t) : Alike(y, w)
      BY <1>15
    <3>2. y.by \in Within(d) /\ c \notin Within(d)
      BY <1>0, <1>21 DEF CallerIsOutside
    <3>3. PICK h \in Calls : caller[h] = c /\ \E z \in Replayed(h) : Alike(x, z)
      BY <1>0, <2>1, <2>5, <3>2 DEF Accounted, KeptHasSource
    <3>4. PICK z \in Replayed(h) : Alike(x, z)
      BY <3>3
    <3>5. z.by \in Within(h)
      BY <1>0, ReplayedIsOutcome DEF Accounted, OutcomesBelong
    <3>6. h = d
      BY <1>0, <2>5, <3>2, <3>3, <3>4, <3>5, OutputCaptureAssumption DEF CalleesAreApart, Alike
    <3>7. PICK i \in 1..m : z = logs[i]
      BY <1>7, <1>10, <3>4, <3>6
    <3>8. PICK j \in (m + 1)..n : w = logs[j]
      BY <1>6, <3>1
    <3>9. i \in 1..Len(logs) /\ j \in 1..Len(logs) /\ i < j
      BY <1>3
    <3>10. z.by = w.by
      BY <2>5, <3>1, <3>4 DEF Alike
    <3>11. z.pos < w.pos
      BY <2>2, <3>7, <3>8, <3>9, <3>10, OrderOfText
    <3> QED
      BY <3>1, <3>4, <3>11 DEF Alike
  <2>6. InOrder(kept \o gain)
    BY <2>2, <2>4, <2>5, OrderAdds
  <2>7. Kept(c)' = kept \o gain
    BY <1>13, <2>1 DEF Takes
  <2>8. InOrder(Kept(c))'
    <3>1. PICK all : all = kept \o gain
      OBVIOUS
    <3>2. InOrder(all) /\ Kept(c)' = all
      BY <2>6, <2>7, <3>1
    <3> QED
      BY <3>2 DEF InOrder
  <2> SUFFICES ASSUME NEW x \in Calls PROVE InOrder(Kept(x))' /\ InOrder(snapshot[x].logs)'
    BY DEF AllIsInOrder
  <2>9. InOrder(snapshot[x].logs)'
    BY <1>0 DEF Accounted, AllIsInOrder, InOrder
  <2>10. CASE x # c
    BY <1>0, <1>12, <2>9, <2>10 DEF Accounted, AllIsInOrder, InOrder
  <2> QED
    BY <2>8, <2>9, <2>10
<1>25. KeptHasSource'
  <2> SUFFICES ASSUME NEW x \in Calls, NEW y \in Letters(Kept(x))', y.by # x
               PROVE  \E h \in Calls : caller[h] = x /\ \E z \in Replayed(h)' : Alike(y, z)
    BY DEF KeptHasSource
  <2>1. CASE y \in Letters(Kept(x))
    BY <1>0, <1>10, <2>1 DEF Accounted, KeptHasSource
  <2>2. CASE x = c /\ y \in Letters(gain)
    BY <1>10, <1>15, <2>2
  <2> QED
    BY <1>15, <1>16, <2>1, <2>2
<1>28. KeptIsExact'
  <2> SUFFICES ASSUME NEW x \in Calls, ~truncated'[x], NEW y \in Letters(Kept(x))'
               PROVE  \/ y.by = x /\ y \in Letters(printed[x])
                      \/ \E h \in Calls : caller[h] = x /\ y \in Replayed(h)'
    BY DEF KeptIsExact, Letters
  <2>1. CASE y \in Letters(Kept(x))
    <3>1. ~truncated[x]
      BY <1>12
    <3> QED
      BY <1>0, <1>10, <2>1, <3>1 DEF Accounted, KeptIsExact
  <2>2. CASE x = c /\ y \in Letters(gain)
    BY <1>10, <1>15, <2>2
  <2> QED
    BY <1>15, <1>16, <2>1, <2>2
<1>26. AllIsKept'
  <2> SUFFICES ASSUME NEW x \in Calls, ~truncated'[x]
               PROVE  /\ Letters(printed[x]) \subseteq Letters(Kept(x))'
                      /\ \A h \in Calls : caller[h] = x => Replayed(h)' \subseteq Letters(Kept(x))'
    BY DEF AllIsKept, Letters
  <2>1. ~truncated[x]
    BY <1>12
  <2>2. /\ Letters(printed[x]) \subseteq Letters(Kept(x))
        /\ \A h \in Calls : caller[h] = x => Replayed(h) \subseteq Letters(Kept(x))
    BY <1>0, <2>1 DEF Accounted, AllIsKept
  <2>3. ASSUME NEW h \in Calls, caller[h] = x PROVE Replayed(h)' \subseteq Letters(Kept(x))'
    <3>1. CASE h # d
      BY <1>10, <1>16, <2>2, <2>3, <3>1
    <3>2. CASE h = d
      BY <1>10, <1>15, <1>16, <2>2, <2>3, <3>2
    <3> QED
      BY <3>1, <3>2
  <2> QED
    BY <1>16, <2>2, <2>3
<1>27. NothingLostSilently'
  <2> SUFFICES ASSUME NEW x \in Calls, stage'[x] \notin {"idle", "running", "aborted"}, ~snapshot[x].truncated
               PROVE  /\ PartOf(x, snapshot[x].logs) = PartOf(x, snapshot[x].printed)
                      /\ \A y, h \in Calls :
                           caller[y] = x /\ stage'[y] = "merged" /\ PartOf(h, snapshot[y].logs) # {} =>
                             PartOf(h, snapshot[x].logs) = PartOf(h, snapshot[y].logs)
    BY DEF NothingLostSilently, PartOf
  <2>1. stage[x] \notin {"idle", "running", "aborted"}
    BY <1>0
  <2>2. \A y \in Calls : stage'[y] = "merged" => stage[y] = "merged"
    BY <1>0
  <2>3. /\ PartOf(x, snapshot[x].logs) = PartOf(x, snapshot[x].printed)
        /\ \A y, h \in Calls :
             caller[y] = x /\ stage[y] = "merged" /\ PartOf(h, snapshot[y].logs) # {} =>
               PartOf(h, snapshot[x].logs) = PartOf(h, snapshot[y].logs)
    BY <1>0, <2>1, Zenon DEF Accounted, NothingLostSilently
  <2> QED
    BY <2>2, <2>3
<1> QED
  BY <1>18, <1>22, <1>23, <1>24, <1>25, <1>26, <1>27, <1>28 DEF Accounted

LEMMA InitAccounted == OutputInit => Accounted
<1> SUFFICES ASSUME OutputInit PROVE Accounted
  OBVIOUS
<1>1. \A c \in Calls : /\ Kept(c) = <<>> /\ snapshot[c].logs = <<>> /\ printed[c] = <<>>
                       /\ merged[c] = 0 /\ caller[c] = NoCall
                       /\ stage[c] \in {"idle", "running"}
  <2>1. <<>> \o <<>> = <<>>
    BY Joined DEF Texts
  <2> QED
    BY <2>1 DEF OutputInit, Kept, NoContent, Empty
<1>2. Letters(<<>>) = {} /\ InOrder(<<>>) /\ Len(<<>>) = 0 /\ 1..0 = {}
  BY DEF Letters, InOrder
<1>4. AllIsGenuine /\ KeptBelongs /\ OutcomesBelong /\ AllIsInOrder /\ KeptHasSource /\ KeptIsExact
  BY <1>1, <1>2 DEF AllIsGenuine, KeptBelongs, OutcomesBelong, AllIsInOrder, KeptHasSource, KeptIsExact
<1>5. AllIsKept
  BY <1>1, <1>2, OutputCaptureAssumption DEF AllIsKept
<1>6. NothingLostSilently
  BY <1>1 DEF NothingLostSilently
<1> QED
  BY <1>4, <1>5, <1>6 DEF Accounted

LEMMA NextOutput == OutputIInv /\ [OutputNext]_outputVars => OutputIInv'
<1> SUFFICES ASSUME OutputIInv, [OutputNext]_outputVars PROVE OutputIInv'
  OBVIOUS
<1>0. Keeping' /\ Lineage' /\ \A c \in Calls : Within(c) \subseteq Within(c)'
  BY NextKeeping, NextLineage DEF OutputIInv, Keeping
<1>1. ASSUME NEW c \in Calls, NEW p \in Prints, WriteText(c, p) PROVE Accounted'
  BY <1>1, WriteAccounts
<1>2. ASSUME NEW c \in Calls, NEW d \in Calls, Call(c, d) PROVE Accounted'
  BY <1>0, <1>2, CallAccounts
<1>3. ASSUME NEW c \in Calls, MakeOutcome(c) PROVE Accounted'
  BY <1>0, <1>3, OutcomeAccounts
<1>4. ASSUME NEW c \in Calls, Close(c) \/ Abort(c) PROVE Accounted'
  BY <1>0, <1>4, CloseAccounts
<1>5. ASSUME NEW d \in Calls, Replay(d) PROVE Accounted'
  <2>1. CASE UNCHANGED <<buffer, merged>>
             /\ (stage' = [stage EXCEPT ![d] = "dropped"] \/ (Left(d) = {} /\ stage' = [stage EXCEPT ![d] = "merged"]))
    BY <1>0, <1>5, <2>1, ReplayEnds
  <2>2. ASSUME NEW e \in Left(d), Open(caller[d]), \A f \in Left(d) : e.at <= f.at,
               WriteAt(caller[d], e.stream, Chunk(d, e)),
               merged' = [merged EXCEPT ![d] = e.at],
               NEW next \in {"merging", "dropped"}, stage' = [stage EXCEPT ![d] = next]
        PROVE  Accounted'
    <3>1. PICK c \in Calls : c = caller[d]
      BY <1>5 DEF Replay, OutputIInv, Keeping, MergingCallerRuns, OutputTypeOK
    <3>2. stage[d] \in {"ended", "merging"} /\ UNCHANGED <<caller, snapshot, printed>>
      BY <1>5 DEF Replay
    <3> QED
      BY <1>0, <2>2, <3>1, <3>2, ReplayAccounts
  <2> QED
    BY <1>5, <2>1, <2>2 DEF Replay
<1>6. CASE UNCHANGED outputVars
  <2>1. /\ SameText /\ UNCHANGED <<stage, caller, snapshot, merged>>
    BY <1>6 DEF outputVars, buffer, SameText, Kept
  <2>2. MovesOn
    BY <2>1 DEF MovesOn
  <2> QED
    BY <1>0, <2>2, EndAccounts DEF OutputIInv
<1>7. ASSUME OutputNext PROVE Accounted'
  BY <1>1, <1>2, <1>3, <1>4, <1>5, <1>7, Zenon DEF OutputNext
<1> QED
  BY <1>0, <1>6, <1>7 DEF OutputIInv

LEMMA AlwaysAccounted == OutputSpec => []OutputIInv
<1>1. OutputInit => OutputIInv
  BY InitKeeping, InitLineage, InitAccounted DEF OutputIInv
<1> QED
  BY <1>1, NextOutput, PTL DEF OutputSpec

\* What a buffer or an outcome holds was printed within its call, and what one
\* call printed is in its order (ActorRuntime._merge, replay_captured_output).
THEOREM OutputStaysWhereItBelongs == OutputSpec => []OutputBelongs
<1>1. OutputIInv => OutputBelongs
  <2> SUFFICES ASSUME OutputIInv, NEW c \in Calls
               PROVE  /\ \A i \in DOMAIN Kept(c) : Kept(c)[i].by \in Within(c)
                      /\ InOrder(Kept(c)) /\ InOrder(snapshot[c].logs)
    BY DEF OutputBelongs
  <2>1. KeptBelongs /\ AllIsInOrder
    BY DEF OutputIInv, Accounted
  <2> QED
    BY <2>1 DEF KeptBelongs, AllIsInOrder, Letters
<1> QED
  BY <1>1, AlwaysAccounted, PTL

\* An outcome that is not marked as truncated has everything its call printed
\* and everything that was merged into it (logs_truncated).
THEOREM NothingIsLostSilently == OutputSpec => []NothingLostSilently
<1>1. OutputIInv => NothingLostSilently
  BY DEF OutputIInv, Accounted
<1> QED
  BY <1>1, AlwaysAccounted, PTL
=============================================================================
