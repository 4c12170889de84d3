------------------------------ MODULE MCResponder ------------------------------
(* An instance of Responder for model checking.                            *)
EXTENDS Responder

MCPriorities == 0 .. 1
MCLengths == {1, 2}
=============================================================================
