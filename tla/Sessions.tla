------------------------------- MODULE Sessions -------------------------------
(***************************************************************************)
(* The sessions of a receive buffer, as operators on a table of them: the  *)
(* priority queue (rx_priority_fifo.rs) and the watch (watch.rs) have the  *)
(* same ones. A table is a record of                                       *)
(*   sessions   the session of each source, or None: its Gather and the    *)
(*              index of the payload buffer it assembles in,               *)
(*   order      the sources with one, oldest transfer first,               *)
(*   base       session buffers handed out so far.                         *)
(***************************************************************************)
EXTENDS Gather

CONSTANT SN (* session slots                                               *)

ASSUME SessionsAssumption == SN \in Nat

SessionSet(Ids, Payloads) == [gather : Gathers(Ids, Payloads), buffer_idx : Nat]

Inserted(table, source, idx) ==
    [table EXCEPT !.sessions[source] = [gather |-> Default, buffer_idx |-> idx],
                  !.order = << source >> \o @]

\* Mutant: a session may be taken over at any time.
MutantExpired(table, source, timestamp) == TRUE

\* No frame of the session's last transfer is within the timeout any more.
Expired(table, source, timestamp) ==
    LET ts == LastTransferTimestamp(table.sessions[source].gather)
    IN  ts = None \/ ts + Timeout < timestamp

StartsSession(table, f) == table.sessions[f.source] = None /\ f.data /\ f.sot

\* There is no session in front to look at.
Panics(table, f) == StartsSession(table, f) /\ table.base = SN /\ table.order = << >>

\* try_start_new_session: a buffer that has not been used, or the session in
\* front, if that has expired.
TryStartNewSession(table, source, timestamp) ==
    IF table.base < SN
    THEN Inserted([table EXCEPT !.base = @ + 1], source, table.base)
    ELSE LET oldest == Head(table.order)
         IN  IF Expired(table, oldest, timestamp)
             THEN Inserted([table EXCEPT !.sessions[oldest] = None, !.order = Tail(@)],
                           source, table.sessions[oldest].buffer_idx)
             ELSE table

\* The table a frame is received with.
TableFor(table, f, timestamp) ==
    IF StartsSession(table, f) /\ ~ Panics(table, f)
    THEN TryStartNewSession(table, f.source, timestamp)
    ELSE table

\* Mutant: the session stays where it is in the order.
MutantTouch(order, source, gather, timestamp) == order

\* A frame that started a transfer makes its session the newest one.
Touch(order, source, gather, timestamp) ==
    IF LastTransferTimestamp(gather) = timestamp
    THEN Append(RemoveAt(order, CHOOSE i \in DOMAIN order : order[i] = source), source)
    ELSE order

-----------------------------------------------------------------------------
Tracked(table) == {s \in DOMAIN table.sessions : table.sessions[s] # None}

\* A source with a session is in the order once.
IsTable(table, indexes) ==
    /\ \A s \in Tracked(table) : table.sessions[s].buffer_idx \in indexes
    /\ ToSet(table.order) = Tracked(table) /\ IsInjective(table.order)
    /\ table.base \in 0 .. SN
    /\ Cardinality(Tracked(table)) = table.base

\* What of a table owns the buffer of index i.
SessionOwners(table, i) ==
    {<< "session", s >> : s \in {s \in Tracked(table) : table.sessions[s].buffer_idx = i}}
    \cup {<< "unused", n >> : n \in {n \in table.base .. SN - 1 : n = i}}

=============================================================================
