---------------------------- MODULE MCCredentials ----------------------------
(* Two requests at a time, two passwords, one API token. *)
EXTENDS Credentials, TLC

CONSTANTS r1, r2, A, B, t

Symmetry == Permutations({r1, r2})

===========================================
