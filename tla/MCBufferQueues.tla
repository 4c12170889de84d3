------------------------------ MODULE MCBufferQueues ------------------------------
EXTENDS BufferQueues, TLC

MCPriorities == {0, 3, 7}

\* The last call is looked at by properties of steps alone, and TLC evaluates these
\* for every step, into a state it has seen, too.
MCView == << container, keys, values, index, queue,
             entry_queue, entry_values, priority_set >>

MCSymmetry == Permutations(Values)

================================================================================
