------------------------------- MODULE IndexQueue -------------------------------
(***************************************************************************)
(* The map with an order of utils/index_queue.rs, in which the receive     *)
(* buffers keep their sessions: the entries of an array, each in the       *)
(* queue, in the free list or, if it has a key, in neither, and an index   *)
(* from the keys to the entries. call and result are those of the last     *)
(* operation.                                                              *)
(***************************************************************************)
EXTENDS Integers

CONSTANTS
    K_MAX,      (* the largest key                                         *)
    N,          (* capacity                                                *)
    Values,
    None        (* Option::None                                            *)

QUEUE_CLASS == 0
FREE_CLASS  == 1
NO_ENTRY    == 255

VARIABLES keys, values, index, queue, call, result

Q == INSTANCE MultiClassQueue WITH CLASS_COUNT <- 2, ENTRY_COUNT <- N

Returns(method, outcome) == call' = method /\ result' = outcome

\* An unwrap of None panics.
Unwrap(option) == IF option = None THEN "panic" ELSE option

Init ==
    /\ keys = [i \in 0 .. N - 1 |-> None]
    /\ values = [i \in 0 .. N - 1 |-> None]
    /\ index = [key \in 0 .. K_MAX |-> NO_ENTRY]
    /\ queue = Q!AllIn(FREE_CLASS)
    /\ call = << "new" >> /\ result = None

\* NO_ENTRY also stands for the error NoKey.
GetIndex(key) == IF key > K_MAX THEN NO_ENTRY ELSE index[key]
Has(key) == GetIndex(key) # NO_ENTRY

Get(key) ==
    /\ Returns(<< "get", key >>, IF Has(key) THEN Unwrap(values[GetIndex(key)]) ELSE None)
    /\ UNCHANGED << keys, values, index, queue >>

\* The caller writes what it gets a reference of.
GetMut(key, value) ==
    /\ Returns(<< "get_mut", key, value >>,
               IF Has(key) THEN Unwrap(values[GetIndex(key)]) # "panic" ELSE FALSE)
    /\ values' = IF Has(key) THEN [values EXCEPT ![GetIndex(key)] = value]
                 ELSE values
    /\ UNCHANGED << keys, index, queue >>

\* Callers look the key up before: the arm of a key that is there, which
\* drops the new value, is not reached.
Insert(key, value) ==
    LET idx == Q!Front(queue, FREE_CLASS)
    IN  /\ ~Has(key)
        /\ IF key > K_MAX \/ idx = None
           THEN /\ Returns(<< "insert", key, value >>, FALSE)
                /\ UNCHANGED << keys, values, index, queue >>
           ELSE /\ Returns(<< "insert", key, value >>, TRUE)
                /\ queue' = Q!Remove(queue, idx)
                /\ keys' = [keys EXCEPT ![idx] = key]
                /\ values' = [values EXCEPT ![idx] = value]
                /\ index' = [index EXCEPT ![key] = idx]

Remove(key) ==
    LET idx == GetIndex(key)
    IN  IF ~Has(key)
        THEN /\ Returns(<< "remove", key >>, None)
             /\ UNCHANGED << keys, values, index, queue >>
        ELSE /\ Returns(<< "remove", key >>, Unwrap(values[idx]))
             /\ index' = [index EXCEPT ![key] = NO_ENTRY]
             /\ queue' = Q!PutBack(queue, FREE_CLASS, idx)
             /\ keys' = [keys EXCEPT ![idx] = None]
             /\ values' = [values EXCEPT ![idx] = None]

KeyOf(idx) == IF idx = None THEN None ELSE keys[idx]

Front ==
    /\ Returns(<< "front" >>, KeyOf(Q!Front(queue, QUEUE_CLASS)))
    /\ UNCHANGED << keys, values, index, queue >>

Back ==
    /\ Returns(<< "back" >>, KeyOf(Q!Back(queue, QUEUE_CLASS)))
    /\ UNCHANGED << keys, values, index, queue >>

EnqueueFront(key) ==
    /\ Returns(<< "enqueue_front", key >>, Has(key))
    /\ queue' = IF Has(key) THEN Q!PutFront(queue, QUEUE_CLASS, GetIndex(key))
                ELSE queue
    /\ UNCHANGED << keys, values, index >>

EnqueueBack(key) ==
    /\ Returns(<< "enqueue_back", key >>, Has(key))
    /\ queue' = IF Has(key) THEN Q!PutBack(queue, QUEUE_CLASS, GetIndex(key))
                ELSE queue
    /\ UNCHANGED << keys, values, index >>

Dequeue(key) ==
    /\ Returns(<< "dequeue", key >>, Has(key))
    /\ queue' = IF Has(key) THEN Q!Remove(queue, GetIndex(key)) ELSE queue
    /\ UNCHANGED << keys, values, index >>

Next ==
    \/ Front \/ Back
    \/ \E key \in 0 .. K_MAX + 1 :
          \/ Get(key) \/ Remove(key) \/ Dequeue(key)
          \/ EnqueueFront(key) \/ EnqueueBack(key)
          \/ \E value \in Values : GetMut(key, value) \/ Insert(key, value)

-----------------------------------------------------------------------------
(***************************************************************************)
(* The map and the order that the arrays and the links stand for.          *)
(***************************************************************************)
Map == [key \in {k \in 0 .. K_MAX : Has(k)} |-> values[index[key]]]
Order == LET line == Q!Line(queue, QUEUE_CLASS)
         IN  [i \in DOMAIN line |-> keys[line[i]]]

Abstract == INSTANCE KeyedSequence WITH map <- Map, order <- Order

================================================================================
