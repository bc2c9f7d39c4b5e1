--------------------------- MODULE MCArtifactCache ---------------------------
(* Two requests publish one artifact, two processes of the node load it. *)
EXTENDS ArtifactCache

CONSTANTS p1, p2, l1, l2, l3

===========================================
