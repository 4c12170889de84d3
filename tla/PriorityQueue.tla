------------------------------ MODULE PriorityQueue ------------------------------
(***************************************************************************)
(* The queue of completed transfers of utils/priority_queue.rs: a class of *)
(* entries for each priority, one of free entries, and the set of the      *)
(* priorities that have one, with the calls that the TransferQueue of a    *)
(* receive buffer makes. popCall and popResult are those of the last one.  *)
(***************************************************************************)
EXTENDS Integers, Sequences

CONSTANTS
    Priorities, (* the priorities that are used                            *)
    N,          (* capacity                                                *)
    Values,
    None        (* Option::None                                            *)

P == INSTANCE PrioritySet

PRIORITY_CLASS == 0
FREE_CLASS == PRIORITY_CLASS + P!MAX + 1

VARIABLES entry_queue, entry_values, priority_set, popCall, popResult

Q == INSTANCE MultiClassQueue WITH CLASS_COUNT <- FREE_CLASS + 1, ENTRY_COUNT <- N

Returns(method, outcome) == popCall' = method /\ popResult' = outcome

Init ==
    /\ entry_queue = Q!AllIn(FREE_CLASS)
    /\ entry_values = [i \in 0 .. N - 1 |-> None]
    /\ priority_set = P!NONE
    /\ popCall = << "new" >> /\ popResult = None

\* PrioritySet::new_eq and so on.
Mask(relation, p) ==
    CASE relation = "eq" -> P!NewEq(p)
      [] relation = "ge" -> P!NewGe(p)
      [] relation = "le" -> P!NewLe(p)
      [] relation = "gt" -> P!NewGt(p)
      [] relation = "lt" -> P!NewLt(p)

Push(p, value) ==
    LET entry == Q!Front(entry_queue, FREE_CLASS)
    IN  IF entry = None
        THEN /\ Returns(<< "push", p, value >>, FALSE)
             /\ UNCHANGED << entry_queue, entry_values, priority_set >>
        ELSE /\ Returns(<< "push", p, value >>, TRUE)
             /\ entry_queue' = Q!PutBack(entry_queue, PRIORITY_CLASS + p, entry)
             /\ priority_set' = P!Insert(priority_set, p)
             /\ entry_values' = [entry_values EXCEPT ![entry] = value]

\* PriorityQueue::pop, with what its caller makes of the value.
Pop(method, p) ==
    LET class == PRIORITY_CLASS + p
        entry == Q!Front(entry_queue, class)
    IN  IF entry = None
        THEN /\ Returns(method, "panic")
             /\ UNCHANGED << entry_queue, entry_values, priority_set >>
        ELSE /\ Returns(method, << p, entry_values[entry] >>)
             /\ entry_queue' = Q!PutBack(entry_queue, FREE_CLASS, entry)
             /\ priority_set' = IF Q!IsEmpty(entry_queue', class)
                                THEN P!Remove(priority_set, p)
                                ELSE priority_set
             /\ entry_values' = [entry_values EXCEPT ![entry] = None]

\* TransferQueue::pop.
PopFirst(relation, p) ==
    LET first == P!First(P!BitAnd(priority_set, Mask(relation, p)))
    IN  IF first # None THEN Pop(<< "pop_first", relation, p >>, first)
        ELSE /\ Returns(<< "pop_first", relation, p >>, None)
             /\ UNCHANGED << entry_queue, entry_values, priority_set >>

\* TransferQueue::allocate_buffer makes room.
PopLast ==
    LET last == P!Last(priority_set)
    IN  IF last # None THEN Pop(<< "pop_last" >>, last)
        ELSE /\ Returns(<< "pop_last" >>, None)
             /\ UNCHANGED << entry_queue, entry_values, priority_set >>

List(relation, p) ==
    /\ Returns(<< "list", relation, p >>,
               P!Iterate(P!BitAnd(priority_set, Mask(relation, p))))
    /\ UNCHANGED << entry_queue, entry_values, priority_set >>

Next ==
    \/ PopLast
    \/ \E p \in Priorities : \E value \in Values : Push(p, value)
    \/ \E p \in Priorities, relation \in {"eq", "ge", "le", "gt", "lt"} :
          PopFirst(relation, p) \/ List(relation, p)

-----------------------------------------------------------------------------
\* The lines that the entries and the links stand for.
Lines == [p \in Priorities |->
            LET line == Q!Line(entry_queue, PRIORITY_CLASS + p)
            IN  [i \in DOMAIN line |-> entry_values[line[i]]]]

Abstract == INSTANCE PriorityLines WITH lines <- Lines

================================================================================
