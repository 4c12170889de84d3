----------------------------- MODULE MCNodeReceive -----------------------------
(* An instance of NodeReceive for model checking: two loop-back endpoints  *)
(* of subject 1 and one of subject 2, and requests of two priorities.      *)
EXTENDS NodeReceive

MCPriorities == 0 .. 1
MCLengths == {1}
MCEntries == {"a", "b", "c"}
MCSubjectOf == [e \in MCEntries |-> IF e = "c" THEN 2 ELSE 1]

Request(p, own) ==
    [kind |-> "request", port |-> p, loop_back |-> FALSE, own |-> own, ok |-> TRUE]

MCFrames ==
    {Request(0, TRUE), Request(1, TRUE), Request(0, FALSE),
     [Request(1, TRUE) EXCEPT !.ok = FALSE],
     [Request(0, FALSE) EXCEPT !.kind = "invalid"],
     [Request(1, FALSE) EXCEPT !.kind = "message"]}

MCLoopBackFrames ==
    {[kind |-> k, port |-> 1, loop_back |-> TRUE, own |-> FALSE, ok |-> TRUE] :
        k \in {"message", "response"}}
=============================================================================
