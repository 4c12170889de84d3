------------------------------- MODULE BufferQueues -------------------------------
(***************************************************************************)
(* The two containers of a receive buffer, one at a time: they share       *)
(* nothing but their links.                                                *)
(***************************************************************************)
EXTENDS Integers

CONSTANTS
    K_MAX,      (* the largest key of a session                            *)
    N,          (* capacity of both                                        *)
    Priorities, Values, None

VARIABLES
    container,  (* the one that is used                                    *)
    keys, values, index, queue, call, result,
    entry_queue, entry_values, priority_set, popCall, popResult

Sessions == INSTANCE IndexQueue
Transfers == INSTANCE PriorityQueue

sessionVars == << keys, values, index, queue, call, result >>
transferVars == << entry_queue, entry_values, priority_set, popCall, popResult >>
vars == << container, sessionVars, transferVars >>

Init ==
    /\ container \in {"sessions", "transfers"}
    /\ Sessions!Init
    /\ Transfers!Init

UseSessions ==
    /\ container = "sessions"
    /\ Sessions!Next
    /\ UNCHANGED << container, transferVars >>

UseTransfers ==
    /\ container = "transfers"
    /\ Transfers!Next
    /\ UNCHANGED << container, sessionVars >>

Next == UseSessions \/ UseTransfers

Spec == Init /\ [][Next]_vars

-----------------------------------------------------------------------------
(***************************************************************************)
(* The arrays, the index and the links of IndexQueue behave as a map of    *)
(* keys with an order on some of them: every call returns what it would    *)
(* return there, and no unwrap fails (index_queue.rs).                     *)
(***************************************************************************)
ImplementsKeyedSequence == Sessions!Abstract!Spec

(***************************************************************************)
(* The links, the bits and the shifts of PriorityQueue behave as a line of *)
(* values for each priority: a transfer is taken from the most urgent line *)
(* of a mask, and displaced from the least urgent one (priority_queue.rs). *)
(***************************************************************************)
ImplementsPriorityLines == Transfers!Abstract!Spec

================================================================================
