----------------------------- MODULE MCActorPool -----------------------------
(* Instances of ActorPool for TLC. *)
EXTENDS ActorPool, TLC

CONSTANTS q1, q2, h1, h2

TwoRequests == {q1, q2}
TwoHandles == {h1, h2}
\* Two requests at once without a fault, or one of them and a fault; a retirement
\* meets one request, before the fault or after it.
Budget(who, faults, retirements) ==
    [requests |-> who, faults |-> faults, retirements |-> retirements]
WithRetirement ==
    {Budget(TwoRequests, 0, 0)} \cup {Budget({q}, 1, 1) : q \in TwoRequests}
Enduring == {Budget(TwoRequests, 0, 0), Budget({q1}, 1, 0)}
Interchangeable == Permutations(Requests) \cup Permutations(Handles)
=============================================================================
