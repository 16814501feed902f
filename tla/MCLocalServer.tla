--------------------------- MODULE MCLocalServer ---------------------------
(* An instance of LocalServer for TLC. *)
EXTENDS LocalServer

CONSTANTS c1, c2, p1, p2, p3, p4, q1, q2, q3, q4, d1, d2

\* Two commands may want to start a server at once; one slot also stops and looks for it.
MCOps == [c \in Cmds |-> IF c = c1 THEN {"start", "ensure"} ELSE {"ensure", "stop", "find"}]
=============================================================================
