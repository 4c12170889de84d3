------------------------------ MODULE PriorityLines ------------------------------
(***************************************************************************)
(* What a PriorityQueue promises: a line of values for each priority, no   *)
(* more than N in all. popCall is the last call, popResult what it has     *)
(* returned. A mask is a relation to a priority.                           *)
(***************************************************************************)
EXTENDS Integers, Sequences, FiniteSetsExt, SequencesExt

CONSTANTS Priorities, N, Values, None

VARIABLES lines, popCall, popResult

Relation == {"eq", "ge", "le", "gt", "lt"}
Matches(p, relation, q) ==
    CASE relation = "eq" -> p = q
      [] relation = "ge" -> p >= q
      [] relation = "le" -> p <= q
      [] relation = "gt" -> p > q
      [] relation = "lt" -> p < q

Ready == {p \in Priorities : lines[p] # << >>}
Matching(relation, q) == {p \in Ready : Matches(p, relation, q)}
Total == MapThenSumSet(LAMBDA p : Len(lines[p]), Priorities)

Returns(method, outcome) == popCall' = method /\ popResult' = outcome

Init == lines = [p \in Priorities |-> << >>] /\ popCall = << "new" >> /\ popResult = None

Push(p, value) ==
    /\ Returns(<< "push", p, value >>, Total < N)
    /\ lines' = IF Total < N THEN [lines EXCEPT ![p] = Append(@, value)] ELSE lines

\* The oldest value of the most urgent, or of the least urgent priority.
PopOf(method, p) ==
    /\ Returns(method, << p, Head(lines[p]) >>)
    /\ lines' = [lines EXCEPT ![p] = Tail(@)]

PopFirst(relation, q) ==
    IF Matching(relation, q) = {}
    THEN Returns(<< "pop_first", relation, q >>, None) /\ UNCHANGED lines
    ELSE PopOf(<< "pop_first", relation, q >>, Min(Matching(relation, q)))

PopLast ==
    IF Ready = {} THEN Returns(<< "pop_last" >>, None) /\ UNCHANGED lines
    ELSE PopOf(<< "pop_last" >>, Max(Ready))

List(relation, q) ==
    /\ Returns(<< "list", relation, q >>, SetToSortSeq(Matching(relation, q), <))
    /\ UNCHANGED lines

Next ==
    \/ PopLast
    \/ \E p \in Priorities : \E value \in Values : Push(p, value)
    \/ \E p \in Priorities, relation \in Relation :
          PopFirst(relation, p) \/ List(relation, p)

Spec == Init /\ [][Next]_<< lines, popCall, popResult >>

================================================================================
