--------------------------- MODULE MCRxPriorityFifo ---------------------------
(* Instances of RxPriorityFifo for model checking.                         *)
EXTENDS RxPriorityFifo, TLC

CONSTANTS s1, s2, s3

\* A frame has its source for a payload.
Frame(source, id, sot, eot, toggle, priority) ==
    [data |-> TRUE, source |-> source, transfer_id |-> id, sot |-> sot, eot |-> eot,
     toggle |-> toggle, malformed |-> FALSE, part |-> source, priority |-> priority]

\* Transfers of one frame, and of two of the same identifier; transfers without
\* a node.
MCFrames ==
    {Frame(s, 0, TRUE, TRUE, TRUE, 1) : s \in Sources}
    \cup {Frame(s, 1, TRUE, FALSE, TRUE, 0) : s \in Sources}
    \cup {Frame(s, 1, FALSE, TRUE, FALSE, 0) : s \in Sources}
    \cup {Frame(Anonymous, 0, TRUE, TRUE, TRUE, 0)}

MCMasks == {Priorities, {0}}

\* Of one priority and with a node; and one that starts a session, but no transfer.
MCSourceFrames ==
    {[f EXCEPT !.priority = 0] : f \in {f \in MCFrames : f.source \in Sources}}
    \cup {Frame(s, 1, TRUE, TRUE, FALSE, 0) : s \in Sources}

MCCrcMatches(parts) == Len(parts) = 2

Symm == Permutations(Sources)
=============================================================================
