----------------------------- MODULE LeaseSlots -----------------------------
(***************************************************************************)
(* What an actor promises the scheduler, without clocks, calls or tasks: a *)
(* bounded set of slots.  A request claims a free slot, may begin to work  *)
(* in it, and gives it back.  A claim may be dropped at any time, work     *)
(* never; once closed nothing is claimed.                                  *)
(***************************************************************************)
EXTENDS Integers, FiniteSets

CONSTANTS Requests, MaxIo

VARIABLES
    claimed,  \* requests with a slot they do not use yet
    working,  \* requests that work in their slot
    closed    \* no more claims

vars == <<claimed, working, closed>>

Init == claimed = {} /\ working = {} /\ closed = FALSE

Drop(D) ==
    /\ claimed' = claimed \ D
    /\ UNCHANGED <<working, closed>>

\* Stale claims D may be dropped to make room.
Claim(r, D) ==
    /\ ~closed
    /\ r \notin claimed \cup working
    /\ Cardinality((claimed \ D) \cup working) < MaxIo
    /\ claimed' = (claimed \ D) \cup {r}
    /\ UNCHANGED <<working, closed>>

Begin(r, D) ==
    /\ r \in claimed \ D
    /\ claimed' = claimed \ (D \cup {r})
    /\ working' = working \cup {r}
    /\ UNCHANGED closed

End(r) ==
    /\ r \in working
    /\ working' = working \ {r}
    /\ UNCHANGED <<claimed, closed>>

Close ==
    /\ closed' = TRUE
    /\ UNCHANGED <<claimed, working>>

Next ==
    \/ \E D \in SUBSET claimed :
        \/ Drop(D)
        \/ \E r \in Requests : Claim(r, D) \/ Begin(r, D)
    \/ \E r \in Requests : End(r)
    \/ Close

Spec == Init /\ [][Next]_vars
=============================================================================
