----------------------------- MODULE MultiClassQueue -----------------------------
(***************************************************************************)
(* The intrusive lists of utils/multi_class_queue.rs: the heads of the     *)
(* classes and the entries are the nodes of one array, each in a cycle     *)
(* that holds at most one head. A list is the array of the links.          *)
(***************************************************************************)
EXTENDS Integers, Sequences, FiniteSetsExt

CONSTANTS CLASS_COUNT, ENTRY_COUNT, None

LOCAL S == INSTANCE SequencesExt

Node == 0 .. CLASS_COUNT + ENTRY_COUNT - 1

\* Every node is a cycle of its own.
New == [i \in Node |-> [next |-> i, prev |-> i]]

-----------------------------------------------------------------------------
(***************************************************************************)
(* MultiCycleList. The links are written one after the other: a node can   *)
(* be its own neighbour, and its two neighbours can be one.                *)
(***************************************************************************)
Unbind(list, node) ==
    LET next == list[node].next
        prev == list[node].prev
    IN  [list EXCEPT ![node] = [next |-> node, prev |-> node],
                     ![next].prev = prev, ![prev].next = next]

Link(list, node, prev, next) ==
    [list EXCEPT ![node] = [next |-> next, prev |-> prev],
                 ![next].prev = node, ![prev].next = node]

MoveAfter(list, node, prev) ==
    LET free == Unbind(list, node)
    IN  Link(free, node, prev, free[prev].next)

\* Mutant: the node is not taken out of the cycle it is in.
MutantMoveBefore(list, node, next) == Link(list, node, list[next].prev, next)

MoveBefore(list, node, next) ==
    LET free == Unbind(list, node)
    IN  Link(free, node, free[next].prev, next)

-----------------------------------------------------------------------------
\* The entry of a node, if it is not the head of a class.
Entry(node) == IF node < CLASS_COUNT THEN None ELSE node - CLASS_COUNT

Front(list, class) == Entry(list[class].next)
Back(list, class)  == Entry(list[class].prev)
IsEmpty(list, class) == Front(list, class) = None

Remove(list, entry) == Unbind(list, CLASS_COUNT + entry)
PutFront(list, class, entry) == MoveAfter(list, CLASS_COUNT + entry, class)
PutBack(list, class, entry) == MoveBefore(list, CLASS_COUNT + entry, class)

\* All entries in one class, as the containers begin.
AllIn(class) ==
    S!FoldLeft(LAMBDA list, i : PutBack(list, class, i - 1), New,
               [i \in 1 .. ENTRY_COUNT |-> i])

-----------------------------------------------------------------------------
(***************************************************************************)
(* The entries of a class from front to back, as a reader of the links     *)
(* meets them; the walk ends after as many steps as there are nodes.       *)
(***************************************************************************)
Line(list, class) ==
    LET at[k \in 0 .. ENTRY_COUNT + 1] == IF k = 0 THEN class ELSE list[at[k - 1]].next
        ends == {k \in 1 .. ENTRY_COUNT + 1 : at[k] < CLASS_COUNT}
        length == IF ends = {} THEN ENTRY_COUNT ELSE Min(ends) - 1
    IN  [k \in 1 .. length |-> at[k] - CLASS_COUNT]

================================================================================
