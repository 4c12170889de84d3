------------------------------ MODULE KeyedSequence ------------------------------
(***************************************************************************)
(* What an IndexQueue promises: a map of at most N keys to values, and a   *)
(* sequence of some of its keys. call is the last call, result what it has *)
(* returned.                                                               *)
(***************************************************************************)
EXTENDS Integers, Sequences, FiniteSets

CONSTANTS K_MAX, N, Values, None

VARIABLES map, order, call, result

Key == 0 .. K_MAX
Without(key) == SelectSeq(order, LAMBDA k : k # key)
Lookup(key) == IF key \in DOMAIN map THEN map[key] ELSE None

Returns(method, outcome) == call' = method /\ result' = outcome

Init == map = << >> /\ order = << >> /\ call = << "new" >> /\ result = None

Get(key) ==
    /\ Returns(<< "get", key >>, Lookup(key))
    /\ UNCHANGED << map, order >>

GetMut(key, value) ==
    /\ Returns(<< "get_mut", key, value >>, key \in DOMAIN map)
    /\ map' = [k \in DOMAIN map |-> IF k = key THEN value ELSE map[k]]
    /\ UNCHANGED order

Insert(key, value) ==
    LET ok == key \in Key /\ Cardinality(DOMAIN map) < N
        keys == DOMAIN map \cup (IF ok THEN {key} ELSE {})
    IN  /\ key \notin DOMAIN map
        /\ Returns(<< "insert", key, value >>, ok)
        /\ map' = [k \in keys |-> IF k = key THEN value ELSE map[k]]
        /\ UNCHANGED order

Remove(key) ==
    /\ Returns(<< "remove", key >>, Lookup(key))
    /\ map' = [k \in DOMAIN map \ {key} |-> map[k]]
    /\ order' = Without(key)

Front ==
    /\ Returns(<< "front" >>, IF order = << >> THEN None ELSE Head(order))
    /\ UNCHANGED << map, order >>

Back ==
    /\ Returns(<< "back" >>, IF order = << >> THEN None ELSE order[Len(order)])
    /\ UNCHANGED << map, order >>

EnqueueFront(key) ==
    /\ Returns(<< "enqueue_front", key >>, key \in DOMAIN map)
    /\ order' = IF key \in DOMAIN map THEN << key >> \o Without(key) ELSE order
    /\ UNCHANGED map

EnqueueBack(key) ==
    /\ Returns(<< "enqueue_back", key >>, key \in DOMAIN map)
    /\ order' = IF key \in DOMAIN map THEN Append(Without(key), key) ELSE order
    /\ UNCHANGED map

Dequeue(key) ==
    /\ Returns(<< "dequeue", key >>, key \in DOMAIN map)
    /\ order' = Without(key)
    /\ UNCHANGED map

Next ==
    \/ Front \/ Back
    \/ \E key \in 0 .. K_MAX + 1 :
          \/ Get(key) \/ Remove(key) \/ Dequeue(key)
          \/ EnqueueFront(key) \/ EnqueueBack(key)
          \/ \E value \in Values : GetMut(key, value) \/ Insert(key, value)

Spec == Init /\ [][Next]_<< map, order, call, result >>

================================================================================
