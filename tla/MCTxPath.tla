------------------------------- MODULE MCTxPath -------------------------------
(* Instances of TxPath for model checking.                                 *)
EXTENDS TxPath, TLC

CONSTANTS signal, blocking, rival, response

\* Three publishers of the less urgent of two priorities, two of them of the same
\* subject, and a responder.
MCKind == (signal :> "Signal") @@ (blocking :> "Blocking") @@ (rival :> "Blocking")
          @@ (response :> "Response")
MCSubjectOf == [e \in Entries |-> IF e = signal THEN 1 ELSE 2]
MCPriorityOf == [e \in Entries |-> 1]
MCLengths == [e \in Entries |-> CASE e = blocking -> {1, 2} [] e = rival -> {1} [] OTHER -> {2}]
MCMasks == {{0}, {0, 1}}
=============================================================================
