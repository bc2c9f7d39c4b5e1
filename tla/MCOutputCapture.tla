--------------------------- MODULE MCOutputCapture ---------------------------
(* An invocation that makes two internal calls, one of which may make the other. *)
EXTENDS OutputCapture

CONSTANTS main, io, compute

MCPrints ==
    {[stream |-> "STDOUT", text |-> t] : t \in {<<1>>, <<1, 2>>, <<2, LineFeed, 1>>, <<1, Surrogate>>}}
    \cup {[stream |-> "STDERR", text |-> <<2>>]}

===========================================
