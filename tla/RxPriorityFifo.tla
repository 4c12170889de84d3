---------------------------- MODULE RxPriorityFifo ----------------------------
(***************************************************************************)
(* The receive buffer of messages and requests                             *)
(* (buffer/rx_priority_fifo.rs): a Gather for each source it tracks, and   *)
(* a queue of complete transfers in the order of their priority.           *)
(*                                                                         *)
(* Payload buffers are not copied: they change hands between the sessions, *)
(* the queue, the free ones and the reader, who looks at the one it popped *)
(* last. Two actors meet, each step under the registry's mutex: the        *)
(* receive task pushes frames, the endpoint's task polls and pops.         *)
(***************************************************************************)
EXTENDS Sessions

CONSTANTS
    Sources,    (* nodes                                                   *)
    Anonymous,  (* the source of a frame without a node                    *)
    Frames,     (* frames on the bus, each with its source                 *)
    Priorities, (* 0 is the highest                                        *)
    Masks,      (* the sets of priorities the endpoint's task asks for     *)
    TN,         (* transfer slots                                          *)
    MaxTime     (* BOUND: the last instant                                 *)

Buffers == 0 .. SN + TN

Ids      == {f.transfer_id : f \in Frames}
Payloads == {f.part : f \in Frames}

\* What is known of the last transfer of a source.
Reports == [id : Ids, timestamp : Nat, repeated : BOOLEAN]

ASSUME FifoAssumption ==
    /\ TN \in Nat \ {0} /\ Timeout \in Nat /\ MaxTime \in Nat
    /\ Priorities \subseteq 0 .. 7 /\ Masks \subseteq (SUBSET Priorities) \ {{}}
    /\ Anonymous \notin Sources
    /\ \A f \in Frames : f.source \in Sources \cup {Anonymous} /\ f.priority \in Priorities
    /\ None \notin Nat /\ None \notin Ids
    /\ None \notin SessionSet(Ids, Payloads) /\ None \notin Reports

VARIABLES
    table,              (* the sessions                                    *)
    queue,              (* the transfers queued, of each priority          *)
    free_buffers,       (* a stack of buffers for transfers to come        *)
    readout,            (* the buffer of the transfer popped last          *)
    buffers,            (* the content of each buffer                      *)
    waiting,            (* the priorities the endpoint's task sleeps for;  *)
                        (* none: it runs                                   *)
    panicked,           (* the receive task has panicked                   *)
    now,                (* the timestamp of the last frame                 *)
    last,               (* history: the last transfer of each source       *)
    lost                (* history: the priority of a transfer just lost   *)

vars == << table, queue, free_buffers, readout, buffers, waiting,
           panicked, now, last, lost >>

\* A queued transfer is its buffer. History: what was assembled in it.
Entry(idx, parts) == [buffer_idx |-> idx, parts |-> parts]

Init ==
    /\ table = [sessions |-> [s \in Sources |-> None], order |-> << >>, base |-> 0]
    /\ queue = [p \in Priorities |-> << >>]
    /\ free_buffers = [i \in 1 .. TN |-> SN + i - 1]
    /\ readout = Entry(SN + TN, << >>)
    /\ buffers = [i \in Buffers |-> << >>]
    /\ waiting = {}
    /\ panicked = FALSE
    /\ now = 0
    /\ last = [s \in Sources |-> None]
    /\ lost = None

-----------------------------------------------------------------------------
(* The transfer queue.                                                     *)

Readiness == {p \in Priorities : queue[p] # << >>}

\* Mutant: the oldest transfer of the most urgent priority is displaced.
MutantDisplaced == Min(Readiness)

\* PrioritySet::last
Displaced == Max(Readiness)

\* What allocate_buffer returns, and the queue and the free buffers it leaves.
AllocateBuffer(p) ==
    IF free_buffers # << >>
    THEN [idx |-> Last(free_buffers), free |-> Front(free_buffers),
          queue |-> queue, lost |-> None]
    ELSE IF p <= Displaced
    THEN [idx |-> Head(queue[Displaced]).buffer_idx, free |-> free_buffers,
          queue |-> [queue EXCEPT ![Displaced] = Tail(@)], lost |-> Displaced]
    ELSE [idx |-> None, free |-> free_buffers, queue |-> queue, lost |-> p]

\* Mutant: nobody is told of a transfer that displaces another one.
MutantWake(p) ==
    waiting' = IF p \in waiting /\ free_buffers # << >> THEN {} ELSE waiting

Wake(p) == waiting' = IF p \in waiting THEN {} ELSE waiting

\* The transfer is queued, in its own buffer, if a was allocated one.
Store(p, a, entry) ==
    /\ free_buffers' = a.free
    /\ lost' = a.lost
    /\ IF a.idx = None
       THEN queue' = a.queue /\ UNCHANGED waiting
       ELSE queue' = [a.queue EXCEPT ![p] = Append(@, entry)] /\ Wake(p)
    /\ UNCHANGED << readout, panicked >>

-----------------------------------------------------------------------------
(* The receive task.                                                       *)

\* History: the source's last transfer, until it sends another identifier.
\* repeated: the transfer before was the same one, within the timeout.
Remember(f, transfer) ==
    LET prev == last[f.source]
        same == prev # None /\ prev.id = f.transfer_id
    IN  last' = [last EXCEPT ![f.source] =
            IF transfer # None
            THEN [id |-> transfer.id, timestamp |-> transfer.timestamp,
                  repeated |-> same /\ transfer.timestamp <= prev.timestamp + Timeout]
            ELSE IF same THEN prev ELSE None]

\* The buffer the session assembles its next transfer in.
NextBuffer(idx, a) == IF a.idx = None THEN idx ELSE a.idx

PushTracked(f, timestamp) ==
    LET t == TableFor(table, f, timestamp)
        session == t.sessions[f.source]
        idx == session.buffer_idx
        o == PushFrame(session.gather, buffers[idx], f, timestamp)
        a == AllocateBuffer(f.priority)
        Leave(next) ==
            table' = [t EXCEPT
                !.sessions[f.source] = [gather |-> o.gather, buffer_idx |-> next],
                !.order = Touch(@, f.source, o.gather, timestamp)]
    IN  /\ session # None
        /\ buffers' = [buffers EXCEPT ![idx] = o.buffer]
        /\ Remember(f, o.transfer)
        /\ \/ /\ o.transfer = None
              /\ Leave(idx)
              /\ lost' = None
              /\ UNCHANGED << queue, free_buffers, readout, waiting, panicked >>
           \/ /\ o.transfer # None
              /\ Leave(NextBuffer(idx, a))
              /\ Store(f.priority, a, Entry(idx, o.transfer.parts))

\* A frame of a transfer that no session was started for.
PushUntracked(f, timestamp) ==
    /\ TableFor(table, f, timestamp).sessions[f.source] = None
    /\ panicked' = Panics(table, f)
    /\ Remember(f, None)
    /\ lost' = None
    /\ UNCHANGED << table, queue, free_buffers, readout, buffers, waiting >>

PushRegularFrame(f, timestamp) ==
    /\ f.source # Anonymous
    /\ PushTracked(f, timestamp) \/ PushUntracked(f, timestamp)

\* Others than single frames are ignored.
PushAnonymousFrame(f) ==
    LET a == AllocateBuffer(f.priority)
    IN  /\ f.source = Anonymous
        /\ f.data /\ f.sot /\ f.eot /\ f.toggle
        /\ Store(f.priority, a, Entry(a.idx, Parts(f)))
        /\ buffers' = IF a.idx = None THEN buffers
                                      ELSE [buffers EXCEPT ![a.idx] = Parts(f)]
        /\ UNCHANGED << table, last >>

\* push_frame of the receive buffer.
Push(f, timestamp) ==
    /\ PushRegularFrame(f, timestamp) \/ PushAnonymousFrame(f)
    /\ now' = timestamp

-----------------------------------------------------------------------------
(* The endpoint's task.                                                    *)

\* With nothing to pop the task suspends.
PollPopReadiness(mask) ==
    /\ waiting = {}
    /\ Readiness \cap mask = {}
    /\ waiting' = mask
    /\ lost' = None
    /\ UNCHANGED << table, queue, free_buffers, readout, buffers, panicked,
                    now, last >>

\* Mutant: the buffer popped is freed, not the one read before.
MutantReleased(popped) == popped.buffer_idx

\* The reader is done with the buffer it had.
Released(popped) == readout.buffer_idx

TryPop(mask) ==
    /\ waiting = {}
    /\ Readiness \cap mask # {}
    /\ LET p == Min(Readiness \cap mask)
           popped == Head(queue[p])
       IN  /\ queue' = [queue EXCEPT ![p] = Tail(@)]
           /\ free_buffers' = Append(free_buffers, Released(popped))
           /\ readout' = popped
    /\ lost' = None
    /\ UNCHANGED << table, buffers, waiting, panicked, now, last >>

\* The future is dropped, or polled because of another one of the task.
SpuriousPoll ==
    /\ waiting # {}
    /\ waiting' = {}
    /\ lost' = None
    /\ UNCHANGED << table, queue, free_buffers, readout, buffers, panicked,
                    now, last >>

\* A panic halts the system.
Next ==
    /\ ~ panicked
    /\ \/ \E f \in Frames, timestamp \in now .. MaxTime : Push(f, timestamp)
       \/ \E mask \in Masks : PollPopReadiness(mask) \/ TryPop(mask)
       \/ SpuriousPoll

Spec == Init /\ [][Next]_vars

-----------------------------------------------------------------------------
(***************************************************************************)
(* Safety.                                                                 *)
(***************************************************************************)

Queued == UNION {{queue[p][i] : i \in DOMAIN queue[p]} : p \in Priorities}

\* Where in the queue the buffer of index i is.
QueuedAt(i) ==
    UNION {{<< p, n >> : n \in {n \in DOMAIN queue[p] : queue[p][n].buffer_idx = i}} :
               p \in Priorities}

Owners(i) ==
    SessionOwners(table, i) \cup
    {<< "queued", x >> : x \in QueuedAt(i)} \cup
    {<< "free", n >> : n \in {n \in DOMAIN free_buffers : free_buffers[n] = i}} \cup
    {<< "readout", e >> : e \in {e \in {readout} : e.buffer_idx = i}}

\* Every buffer has one owner. The sessions have SN (IsTable) and the reader one, so
\* the free buffers and the queued transfers make TN.
BuffersPartition ==
    /\ {e.buffer_idx : e \in Queued \cup {readout}} \cup ToSet(free_buffers) \subseteq Buffers
    /\ \A i \in Buffers : Cardinality(Owners(i)) = 1

\* What a reader pops is what was assembled, and it stays so until the next pop,
\* although the receive task writes frames all the time: through all the exchanges the
\* unsafe references that sessions, the queue and the reader hold to the buffers of one
\* allocation never alias, and none leaks. A source with a session is in the order of
\* the sessions once (IsTable).
ContentIntact ==
    /\ BuffersPartition
    /\ IsTable(table, Buffers)
    /\ \A e \in Queued \cup {readout} : buffers[e.buffer_idx] = e.parts

SofTimestamp(s) == LastTransferTimestamp(table.sessions[s].gather)

\* The session in front, the only one looked at for a take-over, is the one whose
\* last transfer began first: enqueue_back is called for exactly the right frames.
OldestSessionFirst ==
    \A i, j \in DOMAIN table.order :
        i < j => LET ts == SofTimestamp(table.order[i])
                 IN  ts = None \/ (SofTimestamp(table.order[j]) # None
                                   /\ ts <= SofTimestamp(table.order[j]))

\* A transfer is assembled from a source at most once within the timeout of its
\* identifier, even if the source's session was taken over in between.
AtMostOncePerTimeout == \A s \in Sources : last[s] # None => ~ last[s].repeated

\* A transfer is lost, be it queued or just assembled, only if the queue is left
\* full of transfers that are at least as urgent.
LosesLeastUrgent ==
    lost # None =>
        /\ free_buffers = << >>
        /\ \A p \in Readiness : p <= lost

\* The endpoint's task does not sleep while a transfer it waits for is queued,
\* whichever way it came: assembled, anonymous, or in place of another one.
NoLostWakeup == Readiness \cap waiting = {}
=============================================================================
