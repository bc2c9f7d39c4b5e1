-------------------------- MODULE MCActorAdmission --------------------------
EXTENDS ActorAdmission, TLC

Symmetry == Permutations(Requests)
=============================================================================
