-------------------------- MODULE MCRuntimeProfiles --------------------------
(* Instances of RuntimeProfiles for TLC. *)
EXTENDS RuntimeProfiles

CONSTANTS v1, v2, s1, s2

TwoVersions == {v1, v2}
TwoServices == {s1, s2}
=============================================================================
