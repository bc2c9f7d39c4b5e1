----------------------------- MODULE MCGrpcRoutes -----------------------------
(* Instances of GrpcRoutes for TLC. *)
EXTENDS GrpcRoutes

CONSTANTS s1, s2, m1, c1

TwoServices == {s1, s2}
OneMethod == {m1}
OneCall == {c1}
=============================================================================
