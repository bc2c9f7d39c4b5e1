---------------------------- MODULE MCPublication ----------------------------
(* Three commits of a branch, an import, three requests to synchronise. *)
EXTENDS Publication

CONSTANTS i1, t1, t2, t3

MCSyncs == {1, 2, 3}
MCPublications == MCSyncs \cup {i1}

=============================================================================
