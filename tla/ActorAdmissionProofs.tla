------------------------ MODULE ActorAdmissionProofs ------------------------
(***************************************************************************)
(* TLAPS proofs about ActorAdmission, for every set of requests, every     *)
(* capacity and every time to live: the safety invariants, the two action  *)
(* properties, and the refinement of LeaseSlots.                           *)
(***************************************************************************)
EXTENDS ActorAdmission, FiniteSetTheorems, TLAPS

(***************************************************************************)
(* The inductive invariant.  SettledHoldsNothing is not inductive: it      *)
(* needs to know which calls and replies of a request may be on their way  *)
(* in each state of its client.                                            *)
(***************************************************************************)
Counted == active_io = Cardinality(Held)
Bounded == active_io <= MaxIo

\* A request that is new has left no trace; one that reserves has its call or
\* the answer under way, and does not run.
NewIsClean == \A r \in Requests :
    client[r] = "new" => calls[r] = {} /\ replies[r] = {} /\ lease[r] = "ABSENT"

ReservingWaits == \A r \in Requests :
    client[r] = "reserving" =>
        \/ calls[r] = {"try_reserve"} /\ replies[r] = {}
        \/ calls[r] = {} /\ replies[r] = {"granted"} /\ lease[r] # "RUNNING"
        \/ calls[r] = {} /\ replies[r] = {"denied"}

\* An undelivered try_reserve is the only thing its request has.
TryReserveIsFirst == \A r \in Requests :
    "try_reserve" \in calls[r] =>
        /\ client[r] \in {"reserving", "abandoned"}
        /\ calls[r] = {"try_reserve"}
        /\ replies[r] = {}
        /\ lease[r] = "ABSENT"

\* Every answer but a grant says that the lease is gone.
AnswerMeansReleased == \A r \in Requests :
    replies[r] \cap {"denied", "returned", "raised", "cancelled"} # {}
        => lease[r] = "ABSENT"

\* execute is sent once.
ExecuteOnce == \A r \in Requests : "execute" \in calls[r] => lease[r] # "RUNNING"

Protocol ==
    /\ NewIsClean
    /\ ReservingWaits
    /\ TryReserveIsFirst
    /\ AnswerMeansReleased
    /\ ExecuteOnce
    /\ SettledHoldsNothing

IInv ==
    /\ TypeOK
    /\ Counted
    /\ Bounded
    /\ IdleClockExact
    /\ TaskOwnsLease
    /\ Protocol

-----------------------------------------------------------------------------
(* Counting *)

\* Every set of requests is finite, so its cardinality is a natural number.
LEMMA SubsetsAreFinite ==
    ASSUME NEW S \in SUBSET Requests
    PROVE  IsFiniteSet(S) /\ Cardinality(S) \in Nat
BY AdmissionAssumption, FS_Subset, FS_CardinalityType

\* _expire_unlocked keeps the counter equal to the number of leases and the
\* idle clock set exactly when there is none.
LEMMA SweepIsExact ==
    ASSUME TypeOK, Counted, IdleClockExact
    PROVE  /\ Swept \in [Requests -> LeaseStates]
           /\ {r \in Requests : Swept[r] # "ABSENT"} = Held \ Expired
           /\ SweptIo = Cardinality(Held \ Expired)
           /\ SweptIo \in Nat
           /\ SweptIo <= active_io
           /\ SweptIdle \in {NotIdle} \cup 0..IdleCap
           /\ SweptIdle = NotIdle <=> Held \ Expired # {}
           /\ SweptIo = 0 <=> Held \ Expired = {}
<1>1. Swept \in [Requests -> LeaseStates]
  BY DEF TypeOK, Swept, LeaseStates
<1>2. {r \in Requests : Swept[r] # "ABSENT"} = Held \ Expired
  BY DEF TypeOK, Swept, Held
<1>3. Held \in SUBSET Requests /\ Expired \in SUBSET Requests /\ Held \cap Expired = Expired
  BY DEF Held, Expired
<1>4. IsFiniteSet(Held) /\ IsFiniteSet(Held \ Expired)
  BY <1>3, SubsetsAreFinite
<1>5. Cardinality(Held \ Expired) = Cardinality(Held) - Cardinality(Expired)
  BY <1>3, <1>4, FS_Difference
<1>6. /\ Cardinality(Held) \in Nat /\ Cardinality(Expired) \in Nat
      /\ Cardinality(Held \ Expired) \in Nat
  BY <1>3, SubsetsAreFinite
<1>7. SweptIo = Cardinality(Held \ Expired) /\ SweptIo \in Nat /\ SweptIo <= active_io
  BY <1>5, <1>6 DEF SweptIo, Counted
<1>8. SweptIo = 0 <=> Held \ Expired = {}
  BY <1>4, <1>7, FS_EmptySet
<1>9. SweptIdle \in {NotIdle} \cup 0..IdleCap
  BY AdmissionAssumption DEF SweptIdle, TypeOK, NotIdle
<1>10. SweptIdle = NotIdle <=> Held \ Expired # {}
  <2>1. CASE Expired = {}
    BY <2>1 DEF SweptIdle, IdleClockExact
  <2>2. CASE Expired # {}
    BY <2>2, <1>3, <1>8 DEF SweptIdle, IdleClockExact, NotIdle
  <2> QED BY <2>1, <2>2
<1> QED
  BY <1>1, <1>2, <1>7, <1>8, <1>9, <1>10

\* _release_capacity_unlocked, called when one lease leaves the table.
LEMMA ReleaseIsExact ==
    ASSUME TypeOK, Counted, IdleClockExact,
           NEW r \in Requests, lease[r] # "ABSENT",
           lease' = [lease EXCEPT ![r] = "ABSENT"],
           ReleaseCapacity
    PROVE  /\ lease' \in [Requests -> LeaseStates]
           /\ active_io' \in Nat
           /\ active_io' <= active_io
           /\ idle_for' \in {NotIdle} \cup 0..IdleCap
           /\ Counted'
           /\ IdleClockExact'
<1>1. lease' \in [Requests -> LeaseStates]
  BY DEF TypeOK, LeaseStates
<1>2. Held' = Held \ {r} /\ r \in Held
  BY <1>1 DEF Held, TypeOK
<1>3. IsFiniteSet(Held) /\ Cardinality(Held) \in Nat
  BY SubsetsAreFinite DEF Held
<1>4. IsFiniteSet(Held') /\ Cardinality(Held') \in Nat
  BY <1>2, <1>3, SubsetsAreFinite DEF Held
<1>5. Cardinality(Held') = Cardinality(Held) - 1
  BY <1>2, <1>3, FS_RemoveElement
<1>6. active_io' = Cardinality(Held') /\ active_io' \in Nat /\ active_io' <= active_io
  BY <1>3, <1>4, <1>5 DEF Counted, ReleaseCapacity
<1>7. active_io = 1 <=> Held' = {}
  BY <1>3, <1>4, <1>5, FS_EmptySet DEF Counted
<1>8. idle_for' \in {NotIdle} \cup 0..IdleCap
  BY AdmissionAssumption DEF ReleaseCapacity, TypeOK
<1>9. idle_for' = NotIdle <=> Held' # {}
  BY <1>2, <1>7 DEF ReleaseCapacity, IdleClockExact, NotIdle
<1> QED
  BY <1>1, <1>6, <1>8, <1>9 DEF Counted, IdleClockExact

-----------------------------------------------------------------------------
(* The actor's steps preserve the invariant *)

LEMMA InitInv == Init => IInv
<1> SUFFICES ASSUME Init PROVE IInv
  OBVIOUS
<1>1. TypeOK
  <2>1. active_io \in Nat /\ idle_for \in 0..IdleCap /\ ttl \in [Requests -> 0..LeaseTtl]
    BY AdmissionAssumption DEF Init
  <2>2. lease \in [Requests -> LeaseStates] /\ client \in [Requests -> ClientStates]
    BY DEF Init, LeaseStates, ClientStates
  <2>3. calls \in [Requests -> SUBSET CallKinds] /\ replies \in [Requests -> SUBSET ReplyKinds]
    BY DEF Init
  <2>4. actor_draining \in BOOLEAN /\ executions \subseteq Requests /\ cancelling \subseteq executions
    BY DEF Init
  <2> QED BY <2>1, <2>2, <2>3, <2>4 DEF TypeOK
<1>2. Held = {} /\ Cardinality(Held) = 0
  BY FS_EmptySet DEF Init, Held
<1>3. Counted /\ Bounded /\ IdleClockExact
  BY <1>2, AdmissionAssumption DEF Init, Counted, Bounded, IdleClockExact, NotIdle
<1>4. TaskOwnsLease /\ Protocol
  BY DEF Init, TaskOwnsLease, Protocol, NewIsClean, ReservingWaits, TryReserveIsFirst,
         AnswerMeansReleased, ExecuteOnce, SettledHoldsNothing, Settled
<1> QED BY <1>1, <1>3, <1>4 DEF IInv

\* A step that only expires reservations, as seen by the other parts of the
\* invariant.
LEMMA SweepOnlyIsExact ==
    ASSUME TypeOK, Counted, IdleClockExact, Bounded, SweepOnly
    PROVE  /\ lease' \in [Requests -> LeaseStates]
           /\ ttl' = ttl
           /\ active_io' \in Nat
           /\ idle_for' \in {NotIdle} \cup 0..IdleCap
           /\ Counted' /\ Bounded' /\ IdleClockExact'
           /\ \A r \in Requests : \/ lease'[r] = lease[r]
                                 \/ (lease[r] = "RESERVED" /\ lease'[r] = "ABSENT")
<1>1. lease' = Swept /\ active_io' = SweptIo /\ idle_for' = SweptIdle /\ ttl' = ttl
  BY DEF SweepOnly
<1>2. Held' = Held \ Expired
  BY <1>1, SweepIsExact DEF Held
<1>3. Counted' /\ Bounded' /\ IdleClockExact'
  BY <1>1, <1>2, SweepIsExact, AdmissionAssumption
    DEF Counted, Bounded, IdleClockExact, TypeOK
<1>4. \A r \in Requests : \/ lease'[r] = lease[r]
                         \/ (lease[r] = "RESERVED" /\ lease'[r] = "ABSENT")
  BY <1>1 DEF Swept, Expired
<1> QED BY <1>1, <1>3, <1>4, SweepIsExact

LEMMA GrantInv ==
    ASSUME IInv, NEW r \in Requests, GrantReservation(r)
    PROVE  IInv'
<1> DEFINE after == Held \ Expired
<1>1. /\ TypeOK /\ Counted /\ Bounded /\ IdleClockExact /\ TaskOwnsLease /\ Protocol
  BY DEF IInv
<1>2. "try_reserve" \in calls[r] /\ lease[r] = "ABSENT" /\ SweptIo < MaxIo
  BY <1>1 DEF GrantReservation, Serve, HasCapacity, Protocol, TryReserveIsFirst
<1>3. lease' = [Swept EXCEPT ![r] = "RESERVED"] /\ active_io' = SweptIo + 1
  BY DEF GrantReservation
<1>4. TypeOK'
  BY <1>1, <1>3, SweepIsExact, AdmissionAssumption
  DEF TypeOK, GrantReservation, Serve, LeaseStates, ReplyKinds, CallKinds
<1>5. Held' = after \cup {r} /\ r \notin after
  <2>1. {q \in Requests : Swept[q] # "ABSENT"} = after /\ Swept \in [Requests -> LeaseStates]
    BY <1>1, SweepIsExact
  <2>2. r \notin after
    BY <1>2 DEF Held
  <2> QED BY <2>1, <2>2, <1>3 DEF Held
<1>6. IsFiniteSet(after) /\ Cardinality(after) \in Nat
  BY SubsetsAreFinite DEF Held
<1>7. Cardinality(Held') = Cardinality(after) + 1
  BY <1>5, <1>6, FS_AddElement
<1>8. Counted' /\ Bounded'
  BY <1>1, <1>2, <1>3, <1>7, SweepIsExact, AdmissionAssumption DEF Counted, Bounded
<1>9. IdleClockExact'
  <2>1. SweptIo = 0 => idle_for' = NotIdle
    BY DEF GrantReservation
  <2>2. SweptIo # 0 => idle_for' = SweptIdle /\ SweptIdle = NotIdle
    BY <1>1, SweepIsExact DEF GrantReservation
  <2> QED BY <2>1, <2>2, <1>5 DEF IdleClockExact
<1>10. \A q \in Requests : q # r =>
          /\ lease'[q] = lease[q] \/ (lease[q] = "RESERVED" /\ lease'[q] = "ABSENT")
          /\ calls'[q] = calls[q] /\ replies'[q] = replies[q]
  BY <1>1, <1>3, SweepIsExact DEF Swept, Expired, GrantReservation, Serve, TypeOK
<1>11. lease'[r] = "RESERVED" /\ calls'[r] = {} /\ replies'[r] = {"granted"}
  BY <1>1, <1>3, SweepIsExact
  DEF GrantReservation, Serve, TypeOK, Protocol, TryReserveIsFirst
<1>12. executions' = executions /\ client' = client
  BY DEF GrantReservation
<1>13. TaskOwnsLease'
  BY <1>1, <1>2, <1>10, <1>11, <1>12 DEF TaskOwnsLease
<1>14. client[r] \in {"reserving", "abandoned"}
  BY <1>1, <1>2 DEF Protocol, TryReserveIsFirst
<1>15. Protocol'
  BY <1>1, <1>10, <1>11, <1>12, <1>14
  DEF Protocol, NewIsClean, ReservingWaits, TryReserveIsFirst,
      AnswerMeansReleased, ExecuteOnce, SettledHoldsNothing, Settled
<1> QED BY <1>4, <1>8, <1>9, <1>13, <1>15 DEF IInv

LEMMA RefuseInv ==
    ASSUME IInv, NEW r \in Requests, RefuseReservation(r)
    PROVE  IInv'
<1>1. /\ TypeOK /\ Counted /\ Bounded /\ IdleClockExact /\ TaskOwnsLease /\ Protocol
  BY DEF IInv
<1>2. SweepOnly
  BY DEF RefuseReservation
<1>3. TypeOK'
  BY <1>1, <1>2, SweepOnlyIsExact
  DEF TypeOK, RefuseReservation, Serve, ReplyKinds, CallKinds
<1>4. /\ executions' = executions /\ client' = client
      /\ "try_reserve" \in calls[r] /\ calls'[r] = calls[r] \ {"try_reserve"}
      /\ replies'[r] = replies[r] \cup {"denied"}
      /\ \A q \in Requests : q # r => calls'[q] = calls[q] /\ replies'[q] = replies[q]
  BY <1>1 DEF RefuseReservation, Serve, TypeOK
<1>5. TaskOwnsLease'
  BY <1>1, <1>2, <1>4, SweepOnlyIsExact DEF TaskOwnsLease
<1>6. Protocol'
  BY <1>1, <1>2, <1>4, SweepOnlyIsExact
  DEF Protocol, NewIsClean, ReservingWaits, TryReserveIsFirst,
      AnswerMeansReleased, ExecuteOnce, SettledHoldsNothing, Settled
<1> QED BY <1>1, <1>2, <1>3, <1>5, <1>6, SweepOnlyIsExact DEF IInv

LEMMA StartInv ==
    ASSUME IInv, NEW r \in Requests, StartExecution(r)
    PROVE  IInv'
<1>1. /\ TypeOK /\ Counted /\ Bounded /\ IdleClockExact /\ TaskOwnsLease /\ Protocol
  BY DEF IInv
<1>2. /\ Swept[r] = "RESERVED" /\ lease[r] = "RESERVED"
      /\ lease' = [Swept EXCEPT ![r] = "RUNNING"]
  BY DEF StartExecution, Swept
<1>3. TypeOK'
  BY <1>1, <1>2, SweepIsExact
  DEF TypeOK, StartExecution, Serve, LeaseStates, ReplyKinds, CallKinds
<1>4. Held' = Held \ Expired
  <2>1. {q \in Requests : Swept[q] # "ABSENT"} = Held \ Expired /\ Swept \in [Requests -> LeaseStates]
    BY <1>1, SweepIsExact
  <2> QED BY <2>1, <1>2 DEF Held
<1>5. Counted' /\ Bounded' /\ IdleClockExact'
  <2>1. active_io' = SweptIo /\ idle_for' = SweptIdle
    BY DEF StartExecution
  <2> QED
    BY <1>1, <1>4, <2>1, SweepIsExact, AdmissionAssumption
    DEF Counted, Bounded, IdleClockExact, TypeOK
<1>6. /\ executions' = executions \cup {r} /\ client' = client
      /\ "execute" \in calls[r] /\ calls'[r] = calls[r] \ {"execute"}
      /\ replies' = replies
      /\ lease'[r] = "RUNNING"
      /\ \A q \in Requests : q # r =>
           /\ calls'[q] = calls[q]
           /\ lease'[q] = lease[q] \/ (lease[q] = "RESERVED" /\ lease'[q] = "ABSENT")
  BY <1>1, <1>2, SweepIsExact DEF StartExecution, Serve, TypeOK, Swept, Expired
<1>7. TaskOwnsLease'
  BY <1>1, <1>6 DEF TaskOwnsLease
<1>8. Protocol'
  BY <1>1, <1>2, <1>6
  DEF Protocol, NewIsClean, ReservingWaits, TryReserveIsFirst,
      AnswerMeansReleased, ExecuteOnce, SettledHoldsNothing, Settled
<1> QED BY <1>3, <1>5, <1>7, <1>8 DEF IInv

\* Steps that only expire reservations, besides RefuseReservation.
LEMMA RejectInv ==
    ASSUME IInv, NEW r \in Requests, RejectExecution(r)
    PROVE  IInv'
<1>1. /\ TypeOK /\ Counted /\ Bounded /\ IdleClockExact /\ TaskOwnsLease /\ Protocol
  BY DEF IInv
<1>2. SweepOnly /\ Swept[r] # "RESERVED" /\ lease' = Swept
  BY DEF RejectExecution, SweepOnly
<1>3. TypeOK'
  BY <1>1, <1>2, SweepOnlyIsExact
  DEF TypeOK, RejectExecution, Serve, ReplyKinds, CallKinds
<1>4. /\ executions' = executions /\ client' = client
      /\ "execute" \in calls[r] /\ calls'[r] = calls[r] \ {"execute"}
      /\ replies'[r] = replies[r] \cup {"raised"}
      /\ \A q \in Requests : q # r => calls'[q] = calls[q] /\ replies'[q] = replies[q]
  BY <1>1 DEF RejectExecution, Serve, TypeOK
<1>5. TaskOwnsLease'
  BY <1>1, <1>2, <1>4, SweepOnlyIsExact DEF TaskOwnsLease
<1>6. lease'[r] = "ABSENT"
  <2>1. lease[r] # "RUNNING"
    BY <1>1, <1>4 DEF Protocol, ExecuteOnce
  <2>2. lease'[r] # "RESERVED" /\ lease'[r] \in LeaseStates
    BY <1>1, <1>2, <1>3 DEF TypeOK
  <2> QED BY <1>1, <1>2, <2>1, <2>2, SweepOnlyIsExact DEF LeaseStates
<1>7. Protocol'
  BY <1>1, <1>2, <1>4, <1>6, SweepOnlyIsExact
  DEF Protocol, NewIsClean, ReservingWaits, TryReserveIsFirst,
      AnswerMeansReleased, ExecuteOnce, SettledHoldsNothing, Settled
<1> QED BY <1>1, <1>2, <1>3, <1>5, <1>7, SweepOnlyIsExact DEF IInv

LEMMA StatusInv == ASSUME IInv, Status PROVE IInv'
<1>1. /\ TypeOK /\ Counted /\ Bounded /\ IdleClockExact /\ TaskOwnsLease /\ Protocol
  BY DEF IInv
<1>2. SweepOnly /\ UNCHANGED <<actor_draining, executions, cancelling, calls, replies, client>>
  BY DEF Status
<1>3. TypeOK'
  BY <1>1, <1>2, SweepOnlyIsExact DEF TypeOK
<1>4. TaskOwnsLease'
  BY <1>1, <1>2, SweepOnlyIsExact DEF TaskOwnsLease
<1>5. Protocol'
  BY <1>1, <1>2, SweepOnlyIsExact
  DEF Protocol, NewIsClean, ReservingWaits, TryReserveIsFirst,
      AnswerMeansReleased, ExecuteOnce, SettledHoldsNothing, Settled
<1> QED BY <1>1, <1>2, <1>3, <1>4, <1>5, SweepOnlyIsExact DEF IInv

LEMMA FinishInv ==
    ASSUME IInv, NEW r \in Requests, FinishExecution(r)
    PROVE  IInv'
<1>1. /\ TypeOK /\ Counted /\ Bounded /\ IdleClockExact /\ TaskOwnsLease /\ Protocol
  BY DEF IInv
<1>2. PICK result \in {"returned", "raised"} : EndExecution(r, result)
  BY DEF FinishExecution
<1>3. /\ r \in executions /\ executions' = executions \ {r} /\ cancelling' = cancelling \ {r}
      /\ lease' = [lease EXCEPT ![r] = "ABSENT"] /\ ReleaseCapacity
      /\ calls' = calls /\ client' = client /\ ttl' = ttl /\ actor_draining' = actor_draining
  BY <1>2 DEF EndExecution
<1>4. lease[r] = "RUNNING"
  BY <1>1, <1>3 DEF TaskOwnsLease
<1>5. /\ lease' \in [Requests -> LeaseStates] /\ active_io' \in Nat /\ active_io' <= active_io
      /\ idle_for' \in {NotIdle} \cup 0..IdleCap /\ Counted' /\ IdleClockExact'
  BY <1>1, <1>3, <1>4, ReleaseIsExact
<1>6. Bounded'
  BY <1>1, <1>5, AdmissionAssumption DEF Bounded, TypeOK
<1>7. replies' \in [Requests -> SUBSET ReplyKinds] /\ \A q \in Requests : q # r => replies'[q] = replies[q]
  BY <1>1, <1>2 DEF EndExecution, TypeOK, ReplyKinds
<1>8. TypeOK'
  BY <1>1, <1>3, <1>5, <1>7 DEF TypeOK
<1>9. lease'[r] = "ABSENT" /\ \A q \in Requests : q # r => lease'[q] = lease[q]
  BY <1>1, <1>3 DEF TypeOK
<1>10. TaskOwnsLease'
  BY <1>1, <1>3, <1>9 DEF TaskOwnsLease
<1>11. "try_reserve" \notin calls[r] /\ client[r] \notin {"new", "reserving"}
  BY <1>1, <1>4
  DEF Protocol, NewIsClean, ReservingWaits, TryReserveIsFirst, AnswerMeansReleased
<1>12. Protocol'
  BY <1>1, <1>3, <1>7, <1>9, <1>11
  DEF Protocol, NewIsClean, ReservingWaits, TryReserveIsFirst,
      AnswerMeansReleased, ExecuteOnce, SettledHoldsNothing, Settled
<1> QED BY <1>5, <1>6, <1>8, <1>10, <1>12 DEF IInv

LEMMA CancelTaskInv ==
    ASSUME IInv, NEW r \in Requests, CancelTask(r)
    PROVE  IInv'
<1>1. /\ TypeOK /\ Counted /\ Bounded /\ IdleClockExact /\ TaskOwnsLease /\ Protocol
  BY DEF IInv
<1>2. /\ UNCHANGED <<active_io, actor_draining, lease, ttl, idle_for, executions, client>>
      /\ r \in executions /\ cancelling' = cancelling \cup {r}
      /\ "cancel_execution" \in calls[r] /\ replies' = replies
      /\ calls' \in [Requests -> SUBSET CallKinds]
      /\ calls'[r] = calls[r] \ {"cancel_execution"}
      /\ \A q \in Requests : q # r => calls'[q] = calls[q]
  BY <1>1 DEF CancelTask, Serve, TypeOK, CallKinds
<1>3. TypeOK'
  BY <1>1, <1>2 DEF TypeOK
<1>4. Held' = Held
  BY <1>2 DEF Held
<1>5. Counted' /\ Bounded' /\ IdleClockExact' /\ TaskOwnsLease'
  BY <1>1, <1>2, <1>4 DEF Counted, Bounded, IdleClockExact, TaskOwnsLease
<1>6. Protocol'
  BY <1>1, <1>2
  DEF Protocol, NewIsClean, ReservingWaits, TryReserveIsFirst,
      AnswerMeansReleased, ExecuteOnce, SettledHoldsNothing, Settled
<1> QED BY <1>3, <1>5, <1>6 DEF IInv

LEMMA CancelReservationInv ==
    ASSUME IInv, NEW r \in Requests, CancelReservation(r)
    PROVE  IInv'
<1>1. /\ TypeOK /\ Counted /\ Bounded /\ IdleClockExact /\ TaskOwnsLease /\ Protocol
  BY DEF IInv
<1>2. /\ UNCHANGED <<actor_draining, ttl, executions, cancelling, client>>
      /\ r \notin executions
      /\ "cancel_execution" \in calls[r]
      /\ calls' \in [Requests -> SUBSET CallKinds]
      /\ replies' \in [Requests -> SUBSET ReplyKinds]
      /\ calls'[r] = calls[r] \ {"cancel_execution"}
      /\ replies'[r] = replies[r] \cup {"cancelled"}
      /\ \A q \in Requests : q # r => calls'[q] = calls[q] /\ replies'[q] = replies[q]
  BY <1>1 DEF CancelReservation, Serve, TypeOK, CallKinds, ReplyKinds
<1>3. /\ lease' \in [Requests -> LeaseStates] /\ active_io' \in Nat
      /\ idle_for' \in {NotIdle} \cup 0..IdleCap
      /\ Counted' /\ IdleClockExact' /\ Bounded'
      /\ lease'[r] = "ABSENT"
      /\ \A q \in Requests : q # r => lease'[q] = lease[q]
  <2>1. CASE lease[r] = "RESERVED"
    <3>1. lease' = [lease EXCEPT ![r] = "ABSENT"] /\ ReleaseCapacity
      BY <2>1 DEF CancelReservation
    <3>2. lease[r] # "ABSENT"
      BY <2>1
    <3>3. /\ lease' \in [Requests -> LeaseStates] /\ active_io' \in Nat /\ active_io' <= active_io
          /\ idle_for' \in {NotIdle} \cup 0..IdleCap /\ Counted' /\ IdleClockExact'
      BY <1>1, <3>1, <3>2, ReleaseIsExact
    <3>4. Bounded'
      BY <1>1, <3>3, AdmissionAssumption DEF Bounded, TypeOK
    <3> QED BY <1>1, <3>1, <3>3, <3>4 DEF TypeOK
  <2>2. CASE lease[r] # "RESERVED"
    <3>1. UNCHANGED <<lease, active_io, idle_for>>
      BY <2>2 DEF CancelReservation
    <3>2. lease[r] = "ABSENT"
      BY <1>1, <1>2, <2>2 DEF TaskOwnsLease, TypeOK, LeaseStates
    <3>3. Held' = Held
      BY <3>1 DEF Held
    <3> QED BY <1>1, <3>1, <3>2, <3>3 DEF TypeOK, Counted, IdleClockExact, Bounded
  <2> QED BY <2>1, <2>2
<1>4. TypeOK'
  BY <1>1, <1>2, <1>3 DEF TypeOK
<1>5. TaskOwnsLease'
  BY <1>1, <1>2, <1>3 DEF TaskOwnsLease
<1>6. Protocol'
  BY <1>1, <1>2, <1>3
  DEF Protocol, NewIsClean, ReservingWaits, TryReserveIsFirst,
      AnswerMeansReleased, ExecuteOnce, SettledHoldsNothing, Settled
<1> QED BY <1>3, <1>4, <1>5, <1>6 DEF IInv

LEMMA DrainInv == ASSUME IInv, DrainActor PROVE IInv'
<1>1. Held' = Held
  BY DEF Held, DrainActor
<1> QED
  BY <1>1
  DEF IInv, DrainActor, TypeOK, Counted, Bounded, IdleClockExact, TaskOwnsLease, Protocol,
      NewIsClean, ReservingWaits, TryReserveIsFirst, AnswerMeansReleased, ExecuteOnce,
      SettledHoldsNothing

LEMMA TickInv == ASSUME IInv, Tick PROVE IInv'
<1>1. /\ TypeOK /\ Counted /\ Bounded /\ IdleClockExact /\ TaskOwnsLease /\ Protocol
  BY DEF IInv
<1>2. UNCHANGED <<active_io, actor_draining, lease, executions, cancelling, calls, replies, client>>
  BY DEF Tick
<1>3. ttl' \in [Requests -> 0..LeaseTtl]
  BY <1>1, AdmissionAssumption DEF Tick, TypeOK
<1>4. /\ idle_for' \in {NotIdle} \cup 0..IdleCap
      /\ idle_for' = NotIdle <=> idle_for = NotIdle
  BY <1>1, AdmissionAssumption DEF Tick, TypeOK, NotIdle
<1>5. Held' = Held
  BY <1>2 DEF Held
<1> QED
  BY <1>1, <1>2, <1>3, <1>4, <1>5
  DEF IInv, TypeOK, Counted, Bounded, IdleClockExact, TaskOwnsLease, Protocol,
      NewIsClean, ReservingWaits, TryReserveIsFirst, AnswerMeansReleased, ExecuteOnce,
      SettledHoldsNothing

-----------------------------------------------------------------------------
(* The scheduler's steps preserve the invariant *)

\* They leave the actor alone, so only the typing of the messages and the
\* protocol part of the invariant are at stake.
LEMMA ClientStepFrame ==
    ASSUME IInv, UNCHANGED actorVars,
           calls' \in [Requests -> SUBSET CallKinds],
           replies' \in [Requests -> SUBSET ReplyKinds],
           client' \in [Requests -> ClientStates],
           Protocol'
    PROVE  IInv'
<1>1. Held' = Held
  BY DEF Held, actorVars
<1> QED
  BY <1>1 DEF IInv, actorVars, TypeOK, Counted, Bounded, IdleClockExact, TaskOwnsLease

LEMMA ClientInv ==
    ASSUME IInv, NEW r \in Requests, Client(r)
    PROVE  IInv'
<1> USE DEF Move, Send
<1>1. TypeOK /\ TaskOwnsLease /\ Protocol
  BY DEF IInv
<1>2. UNCHANGED actorVars
  BY DEF Client, Submit, ReceiveGrant, ReceiveDenial, AbandonReservation, ReceiveResult,
         RequestCancellation, ReceiveCancelled, GiveUpWaiting, NextRequest
<1>3. UNCHANGED lease
  BY <1>2 DEF actorVars
<1>4. calls' \in [Requests -> SUBSET CallKinds]
  BY <1>1 DEF Client, Submit, ReceiveGrant, ReceiveDenial, AbandonReservation, ReceiveResult,
         RequestCancellation, ReceiveCancelled, GiveUpWaiting, NextRequest, TypeOK, CallKinds
<1>5. replies' \in [Requests -> SUBSET ReplyKinds]
  BY <1>1 DEF Client, Submit, ReceiveGrant, ReceiveDenial, AbandonReservation, ReceiveResult,
         RequestCancellation, ReceiveCancelled, GiveUpWaiting, NextRequest, TypeOK
<1>6. client' \in [Requests -> ClientStates]
  BY <1>1 DEF Client, Submit, ReceiveGrant, ReceiveDenial, AbandonReservation, ReceiveResult,
         RequestCancellation, ReceiveCancelled, GiveUpWaiting, NextRequest, TypeOK,
         ClientStates, Settled
<1>7. \A q \in Requests : q # r =>
         calls'[q] = calls[q] /\ replies'[q] = replies[q] /\ client'[q] = client[q]
  BY <1>1 DEF Client, Submit, ReceiveGrant, ReceiveDenial, AbandonReservation, ReceiveResult,
         RequestCancellation, ReceiveCancelled, GiveUpWaiting, NextRequest, TypeOK
<1>8. Protocol'
  <2> USE DEF Protocol, NewIsClean, ReservingWaits, TryReserveIsFirst,
              AnswerMeansReleased, ExecuteOnce, SettledHoldsNothing, Settled
  <2>1. CASE Submit(r)
    <3>1. client'[r] = "reserving" /\ calls'[r] = {"try_reserve"} /\ replies'[r] = {} /\ lease[r] = "ABSENT"
      BY <1>1, <2>1 DEF Submit, TypeOK
    <3> QED BY <1>1, <1>3, <1>7, <3>1
  <2>2. CASE ReceiveGrant(r)
    <3>1. client[r] = "reserving" /\ replies[r] = {"granted"} /\ calls[r] = {} /\ lease[r] # "RUNNING"
      BY <1>1, <2>2 DEF ReceiveGrant
    <3>2. client'[r] = "assigned" /\ calls'[r] = {"execute"} /\ replies'[r] = {}
      BY <1>1, <2>2, <3>1 DEF ReceiveGrant, TypeOK
    <3> QED BY <1>1, <1>3, <1>7, <3>1, <3>2
  <2>3. CASE ReceiveDenial(r)
    <3>1. client[r] = "reserving" /\ replies[r] = {"denied"} /\ calls[r] = {} /\ lease[r] = "ABSENT"
      BY <1>1, <2>3 DEF ReceiveDenial
    <3>2. client'[r] \in {"new", "done"} /\ calls'[r] = {} /\ replies'[r] = {}
      BY <1>1, <2>3, <3>1 DEF ReceiveDenial, TypeOK
    <3> QED BY <1>1, <1>3, <1>7, <3>1, <3>2
  <2>4. CASE AbandonReservation(r)
    <3>1. client[r] = "reserving" /\ client'[r] = "abandoned" /\ calls' = calls /\ replies' = replies
      BY <1>1, <2>4 DEF AbandonReservation, TypeOK
    <3> QED BY <1>1, <1>3, <1>7, <3>1
  <2>5. CASE ReceiveResult(r)
    <3>1. client[r] = "assigned" /\ lease[r] = "ABSENT"
      BY <1>1, <2>5 DEF ReceiveResult
    <3>2. client'[r] = "done" /\ calls' = calls /\ replies'[r] = replies[r] \ {"returned"}
      BY <1>1, <2>5 DEF ReceiveResult, TypeOK
    <3> QED BY <1>1, <1>3, <1>7, <3>1, <3>2
  <2>6. CASE RequestCancellation(r)
    <3>1. /\ client[r] = "assigned" /\ client'[r] = "cancelling" /\ replies' = replies
          /\ calls'[r] = calls[r] \cup {"cancel_execution"}
      BY <1>1, <2>6 DEF RequestCancellation, TypeOK
    <3> QED BY <1>1, <1>3, <1>7, <3>1
  <2>7. CASE ReceiveCancelled(r)
    <3>1. /\ client[r] = "cancelling" /\ client'[r] = "cancelled" /\ replies' = replies
          /\ calls' = calls /\ lease[r] = "ABSENT"
      BY <1>1, <2>7 DEF ReceiveCancelled, TypeOK
    <3> QED BY <1>1, <1>3, <1>7, <3>1
  <2>8. CASE GiveUpWaiting(r)
    <3>1. client[r] = "cancelling" /\ client'[r] = "abandoned" /\ calls' = calls /\ replies' = replies
      BY <1>1, <2>8 DEF GiveUpWaiting, TypeOK
    <3> QED BY <1>1, <1>3, <1>7, <3>1
  <2>9. CASE NextRequest(r)
    <3>1. client'[r] = "new" /\ calls'[r] = {} /\ replies'[r] = {} /\ lease[r] = "ABSENT"
      BY <1>1, <2>9 DEF NextRequest, TypeOK
    <3> QED BY <1>1, <1>3, <1>7, <3>1
  <2> QED BY <2>1, <2>2, <2>3, <2>4, <2>5, <2>6, <2>7, <2>8, <2>9 DEF Client
<1> QED BY <1>2, <1>4, <1>5, <1>6, <1>8, ClientStepFrame

-----------------------------------------------------------------------------
(* Theorems *)

\* Every step of the actor, the scheduler and the clock preserves the
\* inductive invariant.
LEMMA StepInv == IInv /\ [Next]_vars => IInv'
<1> SUFFICES ASSUME IInv, [Next]_vars PROVE IInv'
  OBVIOUS
<1>1. ASSUME NEW r \in Requests, Actor(r) PROVE IInv'
  BY <1>1, GrantInv, RefuseInv, StartInv, RejectInv, FinishInv, CancelTaskInv, CancelReservationInv
  DEF Actor, TryReserve, Execute, CancelExecution
<1>2. ASSUME NEW r \in Requests, Client(r) PROVE IInv'
  BY <1>2, ClientInv
<1>3. CASE Status
  BY <1>3, StatusInv
<1>4. CASE DrainActor
  BY <1>4, DrainInv
<1>5. CASE Tick
  BY <1>5, TickInv
<1>6. CASE UNCHANGED vars
  <2>1. Held' = Held
    BY <1>6 DEF vars, actorVars, Held
  <2> QED
    BY <1>6, <2>1
    DEF vars, actorVars, IInv, TypeOK, Counted, Bounded, IdleClockExact, TaskOwnsLease, Protocol,
        NewIsClean, ReservingWaits, TryReserveIsFirst, AnswerMeansReleased, ExecuteOnce,
        SettledHoldsNothing
<1> QED
  BY <1>1, <1>2, <1>3, <1>4, <1>5, <1>6 DEF Next

\* The inductive invariant holds in every reachable state of an actor.
THEOREM Invariance == Spec => []IInv
BY InitInv, StepInv, PTL DEF Spec

\* The variables keep their types; in particular active_io never goes negative.
THEOREM TypeCorrect == Spec => []TypeOK
<1>1. IInv => TypeOK
  BY DEF IInv
<1> QED BY <1>1, Invariance, PTL

\* No interleaving of reservation, expiry, start, cancellation and completion
\* leaks a slot, releases one twice or exceeds max_io.
THEOREM SlotsAreCounted == Spec => []CapacityExact
<1>1. IInv => CapacityExact
  BY DEF IInv, Counted, Bounded, CapacityExact
<1> QED BY <1>1, Invariance, PTL

\* Every RUNNING lease can be reached by cancel_execution and no other lease
\* has a task.
THEOREM TasksOwnLeases == Spec => []TaskOwnsLease
<1>1. IInv => TaskOwnsLease
  BY DEF IInv
<1> QED BY <1>1, Invariance, PTL

\* The idle time the reaper reads is that of an empty actor.
THEOREM IdleClock == Spec => []IdleClockExact
<1>1. IInv => IdleClockExact
  BY DEF IInv
<1> QED BY <1>1, Invariance, PTL

\* The counter, the tasks and the idle clock of an actor agree at all times.
THEOREM BooksAlwaysAgree == Spec => []BooksAgree
<1>1. CapacityExact /\ TaskOwnsLease /\ IdleClockExact => BooksAgree
  BY DEF BooksAgree
<1> QED BY <1>1, SlotsAreCounted, TasksOwnLeases, IdleClock, PTL

\* A request that has its result or the answer to its cancellation holds
\* nothing, in whatever order its calls were served.
THEOREM SettledRequests == Spec => []SettledHoldsNothing
<1>1. IInv => SettledHoldsNothing
  BY DEF IInv, Protocol
<1> QED BY <1>1, Invariance, PTL

\* The reaper's kill is safe: an actor drained and seen empty stays empty.
THEOREM DrainIsFinal == Spec => DrainedStaysEmpty
<1>1. [Next]_vars => (actor_draining /\ Held = {} => Held' = {})
  <2> SUFFICES ASSUME [Next]_vars, actor_draining, Held = {}
               PROVE  Held' = {}
    OBVIOUS
  <2>1. \A q \in Requests : lease[q] = "ABSENT"
    BY DEF Held
  <2>2. Expired = {} /\ \A q \in Requests : Swept[q] = "ABSENT"
    BY <2>1 DEF Expired, Swept
  <2>3. ASSUME NEW r \in Requests, Actor(r) PROVE \A q \in Requests : lease'[q] = "ABSENT"
    <3>1. ~GrantReservation(r) /\ ~StartExecution(r)
      BY <2>2 DEF GrantReservation, HasCapacity, StartExecution
    <3>2. CASE RefuseReservation(r) \/ RejectExecution(r)
      BY <2>2, <3>2 DEF RefuseReservation, RejectExecution, SweepOnly
    <3>3. CASE FinishExecution(r)
      <4>1. lease' = [lease EXCEPT ![r] = "ABSENT"]
        BY <3>3 DEF FinishExecution, EndExecution
      <4> QED BY <2>1, <4>1
    <3>4. CASE CancelTask(r) \/ CancelReservation(r)
      <4>1. lease' = lease
        BY <2>1, <3>4 DEF CancelTask, CancelReservation
      <4> QED BY <2>1, <4>1
    <3> QED BY <2>3, <3>1, <3>2, <3>3, <3>4 DEF Actor, TryReserve, Execute, CancelExecution
  <2>4. ASSUME NEW r \in Requests, Client(r) PROVE lease' = lease
    BY <2>4 DEF Client, Submit, ReceiveGrant, ReceiveDenial, AbandonReservation, ReceiveResult,
         RequestCancellation, ReceiveCancelled, GiveUpWaiting, NextRequest, actorVars
  <2>5. CASE Status \/ DrainActor \/ Tick
    BY <2>1, <2>2, <2>5 DEF Status, DrainActor, Tick, Held
  <2>6. CASE UNCHANGED vars
    BY <2>1, <2>6 DEF vars, actorVars, Held
  <2> QED BY <2>1, <2>3, <2>4, <2>5, <2>6 DEF Next, Held
<1>2. [Next]_vars => [actor_draining /\ Held = {} => Held' = {}]_vars
  BY <1>1
<1> QED BY <1>2, PTL DEF Spec, DrainedStaysEmpty

\* Only the end of its own task takes the lease of a running execution.
THEOREM RunningIsSafe == Spec => RunningIsNeverEvicted
<1> DEFINE Evict == \A r \in Requests : lease[r] = "RUNNING" /\ lease'[r] # "RUNNING"
                       => r \in executions /\ r \notin executions'
<1>1. IInv /\ IInv' /\ [Next]_vars => Evict
  BY DEF IInv, TaskOwnsLease
<1>2. IInv /\ IInv' /\ [Next]_vars => [Evict]_vars
  BY <1>1
<1> QED BY <1>2, Invariance, PTL DEF Spec, RunningIsNeverEvicted

-----------------------------------------------------------------------------
(* Refinement: the actor implements LeaseSlots *)

\* The two sets a step may change, and what each actor step does to them.
LEMMA SlotsAreDisjoint ==
    ASSUME TypeOK
    PROVE  /\ Held = Claimed \cup Working
           /\ Claimed \cap Working = {}
           /\ Expired \in SUBSET Claimed
           /\ {q \in Requests : Swept[q] = "RESERVED"} = Claimed \ Expired
           /\ {q \in Requests : Swept[q] = "RUNNING"} = Working
           /\ Held \ Expired = (Claimed \ Expired) \cup Working
BY DEF TypeOK, LeaseStates, Held, Claimed, Working, Expired, Swept

LEMMA SweepDrops ==
    ASSUME TypeOK, SweepOnly, UNCHANGED actor_draining
    PROVE  Slots!Drop(Expired)
<1>1. lease' = Swept
  BY DEF SweepOnly
<1>2. Claimed' = Claimed \ Expired /\ Working' = Working
  BY <1>1, SlotsAreDisjoint DEF Claimed, Working
<1> QED BY <1>2 DEF Slots!Drop

\* Every step of the actor, the scheduler or the clock is a step of the
\* abstract slots or changes none of them.
LEMMA StepRefines == IInv /\ [Next]_vars => [Slots!Next]_(Slots!vars)
<1> SUFFICES ASSUME IInv, [Next]_vars PROVE [Slots!Next]_(Slots!vars)
  OBVIOUS
<1>1. TypeOK /\ Counted /\ IdleClockExact /\ TaskOwnsLease /\ Protocol
  BY DEF IInv
<1>2. Expired \in SUBSET Claimed /\ {} \in SUBSET Claimed
  BY <1>1, SlotsAreDisjoint
<1>3. ASSUME NEW r \in Requests, GrantReservation(r) PROVE Slots!Next
  <2>1. ~actor_draining /\ SweptIo < MaxIo /\ lease[r] = "ABSENT" /\ actor_draining' = actor_draining
    BY <1>1, <1>3 DEF GrantReservation, HasCapacity, Serve, Protocol, TryReserveIsFirst
  <2>2. lease' = [Swept EXCEPT ![r] = "RESERVED"]
    BY <1>3 DEF GrantReservation
  <2>3. Claimed' = (Claimed \ Expired) \cup {r}
    BY <1>1, <2>2, SweepIsExact, SlotsAreDisjoint DEF Claimed
  <2>4. Working' = Working
    <3>1. r \notin Working
      BY <2>1 DEF Working
    <3> QED BY <1>1, <2>2, <3>1, SweepIsExact, SlotsAreDisjoint DEF Working
  <2>5. Cardinality((Claimed \ Expired) \cup Working) < MaxIo
    BY <1>1, <2>1, SweepIsExact, SlotsAreDisjoint
  <2>6. r \notin Claimed \cup Working
    BY <2>1 DEF Claimed, Working
  <2>7. Slots!Claim(r, Expired)
    <3>1. Slots!Cardinality((Claimed \ Expired) \cup Working)
            = Cardinality((Claimed \ Expired) \cup Working)
      BY Zenon DEF Slots!Cardinality, Cardinality
    <3> QED BY <2>1, <2>3, <2>4, <2>5, <2>6, <3>1 DEF Slots!Claim
  <2> QED BY <1>2, <2>7 DEF Slots!Next
<1>4. ASSUME NEW r \in Requests, StartExecution(r) PROVE Slots!Next
  <2>1. /\ Swept[r] = "RESERVED" /\ lease' = [Swept EXCEPT ![r] = "RUNNING"]
        /\ actor_draining' = actor_draining
    BY <1>4 DEF StartExecution
  <2>2. r \in Claimed \ Expired
    BY <1>1, <2>1, SlotsAreDisjoint
  <2>3. Claimed' = Claimed \ (Expired \cup {r})
    BY <1>1, <2>1, SweepIsExact, SlotsAreDisjoint DEF Claimed
  <2>4. Working' = Working \cup {r}
    BY <1>1, <2>1, SweepIsExact, SlotsAreDisjoint DEF Working
  <2>5. Slots!Begin(r, Expired)
    BY <2>1, <2>2, <2>3, <2>4 DEF Slots!Begin
  <2> QED BY <1>2, <2>5 DEF Slots!Next
<1>5. ASSUME NEW r \in Requests, RefuseReservation(r) \/ RejectExecution(r) PROVE Slots!Next
  <2>1. SweepOnly /\ UNCHANGED actor_draining
    BY <1>5 DEF RefuseReservation, RejectExecution
  <2> QED BY <1>1, <1>2, <2>1, SweepDrops DEF Slots!Next
<1>6. ASSUME NEW r \in Requests, FinishExecution(r) PROVE Slots!Next
  <2>1. /\ r \in executions /\ lease' = [lease EXCEPT ![r] = "ABSENT"]
        /\ actor_draining' = actor_draining
    BY <1>6 DEF FinishExecution, EndExecution
  <2>2. r \in Working
    BY <1>1, <2>1 DEF TaskOwnsLease, Working
  <2>3. Working' = Working \ {r} /\ Claimed' = Claimed
    BY <1>1, <2>1, <2>2 DEF Working, Claimed, TypeOK
  <2>4. Slots!End(r)
    BY <2>1, <2>2, <2>3 DEF Slots!End
  <2> QED BY <2>4 DEF Slots!Next
<1>7. ASSUME NEW r \in Requests, CancelReservation(r) PROVE [Slots!Next]_(Slots!vars)
  <2>1. CASE lease[r] = "RESERVED"
    <3>1. lease' = [lease EXCEPT ![r] = "ABSENT"] /\ actor_draining' = actor_draining
      BY <1>7, <2>1 DEF CancelReservation
    <3>2. Claimed' = Claimed \ {r} /\ Working' = Working /\ {r} \in SUBSET Claimed
      BY <1>1, <2>1, <3>1 DEF Claimed, Working, TypeOK
    <3>3. Slots!Drop({r})
      BY <3>1, <3>2 DEF Slots!Drop
    <3> QED BY <3>2, <3>3 DEF Slots!Next
  <2>2. CASE lease[r] # "RESERVED"
    BY <1>7, <2>2 DEF CancelReservation, Slots!vars, Claimed, Working
  <2> QED BY <2>1, <2>2
<1>8. ASSUME NEW r \in Requests, CancelTask(r) \/ Client(r) PROVE UNCHANGED Slots!vars
  <2>1. UNCHANGED <<lease, actor_draining>>
    BY <1>8 DEF CancelTask, Client, Submit, ReceiveGrant, ReceiveDenial, AbandonReservation,
         ReceiveResult, RequestCancellation, ReceiveCancelled, GiveUpWaiting, NextRequest, actorVars
  <2> QED BY <2>1 DEF Slots!vars, Claimed, Working
<1>9. CASE Status
  <2>1. SweepOnly /\ UNCHANGED actor_draining
    BY <1>9 DEF Status
  <2> QED BY <1>1, <1>2, <2>1, SweepDrops DEF Slots!Next
<1>10. CASE DrainActor
  <2>1. Claimed' = Claimed /\ Working' = Working /\ actor_draining' = TRUE
    BY <1>10 DEF DrainActor, Claimed, Working
  <2> QED BY <2>1 DEF Slots!Next, Slots!Close
<1>11. CASE Tick \/ UNCHANGED vars
  BY <1>11 DEF Tick, vars, actorVars, Slots!vars, Claimed, Working
<1> QED
  BY <1>3, <1>4, <1>5, <1>6, <1>7, <1>8, <1>9, <1>10, <1>11
  DEF Next, Actor, TryReserve, Execute, CancelExecution

\* The actor implements the bounded set of slots the scheduler relies on.
THEOREM Refinement == Spec => ImplementsLeaseSlots
<1>1. Init => Slots!Init
  BY DEF Init, Slots!Init, Claimed, Working
<1> QED BY <1>1, StepRefines, Invariance, PTL DEF Spec, ImplementsLeaseSlots, Slots!Spec
=============================================================================
