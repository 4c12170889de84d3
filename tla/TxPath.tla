-------------------------------- MODULE TxPath --------------------------------
(***************************************************************************)
(* The transmit path of a CoreNode: the publishers' and responders' tasks, *)
(* the registries tx_msg and tx_resp, each a TxQueue of buffers behind a   *)
(* mutex of its own, and the driver's transmit task that polls first the   *)
(* one and then the other for a frame.                                     *)
(*                                                                         *)
(* A step is one critical section. A TxQueue is two lists for each         *)
(* priority, of the entries whose transfer has frames on the bus already   *)
(* and of the others. Started lists go first.                              *)
(***************************************************************************)
EXTENDS TxBuffers

CONSTANTS
    Entries,    (* one for each endpoint                                   *)
    Kind,       (* the kind of each entry's buffer                         *)
    PriorityOf, (* the priority of the entries of messages                 *)
    SubjectOf,  (* and their subject                                       *)
    Lengths,    (* the numbers of frames that payloads of an entry take    *)
    Masks       (* the sets of priorities the driver has mailboxes for     *)

Hubs == {"tx_msg", "tx_resp"}
QueueIds == Priorities \X {"Started", "Finished"}
HubOf(e) == IF Kind[e] = "Response" THEN "tx_resp" ELSE "tx_msg"

ASSUME TxPathAssumption ==
    /\ Kind \in [Entries -> {"Signal", "Blocking", "Response"}]
    /\ \A e \in Entries : HubOf(e) = "tx_msg" => PriorityOf[e] \in Priorities
    /\ Lengths \in [Entries -> SUBSET (Nat \ {0})]
    /\ Masks \subseteq (SUBSET Priorities) \ {{}}
    /\ None \notin Nat \cup TxTransfers \cup TxBufferStates \cup QueueIds
                    \cup [sot : BOOLEAN, eot : BOOLEAN]

VARIABLES
    buffer,     (* the buffer of each entry, None without an endpoint      *)
    started,    (* the priorities an entry has begun a transfer of         *)
    queue_mark, (* the list an entry is in, or None                        *)
    queues,     (* the lists of each hub                                   *)
    driver,     (* the transmit task: where it is, its mask, if woken      *)
    writer      (* the endpoint's task: where it is, its priorities        *)

queueVars == << started, queue_mark, queues >>
vars == << buffer, queueVars, driver, writer >>

Running == [at |-> "running", mask |-> {}]
Idle == [at |-> "running", mask |-> {}, woken |-> FALSE]

Init ==
    /\ buffer = [e \in Entries |-> None]
    /\ started = [e \in Entries |-> {}]
    /\ queue_mark = [e \in Entries |-> None]
    /\ queues = [h \in Hubs |-> [id \in QueueIds |-> << >>]]
    /\ driver = Idle
    /\ writer = [e \in Entries |-> Running]

-----------------------------------------------------------------------------
(* TxQueue.                                                                *)

\* The list an entry belongs to.
Position(b, st) ==
    IF IsEmpty(b) THEN None
    ELSE LET p == Min(PopReadiness(b))
         IN  << p, IF p \in st THEN "Started" ELSE "Finished" >>

\* Queues::dequeue: without its mark an entry is in no list.
Dequeue(lists, mark, e) ==
    IF mark = None THEN lists
    ELSE [lists EXCEPT ![mark] = RemoveAt(@, CHOOSE i \in DOMAIN @ : @[i] = e)]

\* The priorities hub h wakes the driver for: those of a poll that the hub has
\* answered with Pending. A waker left over from an earlier poll makes the task
\* poll once more, at most, which GiveUp stands for.
Trigger(h) ==
    IF \/ driver.at = "waiting"
       \/ driver.at = "responses" /\ h = "tx_msg"
    THEN driver.mask ELSE {}

\* Mutant: an entry comes to the front of its list.
MutantMoved(lists, mark, e, id) ==
    IF id = mark THEN lists
    ELSE IF id = None THEN Dequeue(lists, mark, e)
    ELSE [Dequeue(lists, mark, e) EXCEPT ![id] = << e >> \o @]

\* Where reg_update_queue_position leaves entry e of the lists given.
Moved(lists, mark, e, id) ==
    IF id = mark THEN lists
    ELSE IF id = None THEN Dequeue(lists, mark, e)
    ELSE [Dequeue(lists, mark, e) EXCEPT ![id] = Append(@, e)]

\* Mutant: only an entry that was in no list wakes the driver.
MutantWakes(h, mark, id) == mark = None /\ id # None /\ id[1] \in Trigger(h)

\* An entry that comes to a list wakes the driver, if it waits for its priority.
Wakes(h, mark, id) == id # None /\ id # mark /\ id[1] \in Trigger(h)

UpdateQueuePosition(e, b) ==
    LET id == Position(b, started[e])
        h == HubOf(e)
    IN  /\ queues' = [queues EXCEPT ![h] = Moved(@, queue_mark[e], e, id)]
        /\ queue_mark' = [queue_mark EXCEPT ![e] = id]
        /\ driver' = [driver EXCEPT !.woken = @ \/ Wakes(h, queue_mark[e], id)]

\* The lists that have entries, of the priorities asked for.
Offered(h, mask) == {id \in QueueIds : id[1] \in mask /\ queues[h][id] # << >>}

\* Mutant: transfers that were not begun go first.
MutantFirstQueueId(h, mask) ==
    LET p == Min({id[1] : id \in Offered(h, mask)})
    IN  << p, IF << p, "Finished" >> \in Offered(h, mask) THEN "Finished" ELSE "Started" >>

FirstQueueId(h, mask) ==
    LET p == Min({id[1] : id \in Offered(h, mask)})
    IN  << p, IF << p, "Started" >> \in Offered(h, mask) THEN "Started" ELSE "Finished" >>

\* At the end of its transfer an entry leaves its list, to be queued behind the
\* others if it has another one.
MarkAfter(frame, id) == IF frame # None /\ frame.eot THEN None ELSE id

StartedAfter(frame, st, p) ==
    IF frame = None THEN st ELSE IF frame.eot THEN st \ {p} ELSE st \cup {p}

\* Mutant: a writer that waits for room is not woken.
MutantWakeWriter(w, o) ==
    IF w.at = "waitEmpty" /\ o.empty THEN Running ELSE w

\* The wakers of the buffer.
WakeWriter(w, o) ==
    IF \/ w.at = "waitReady" /\ w.mask \cap o.ready # {}
       \/ w.at = "waitEmpty" /\ o.empty
    THEN Running ELSE w

\* hub_try_pop, where there are entries of the priorities asked for: the front
\* entry of the first list is asked, and comes to where it belongs then.
FrontPop(h, mask) ==
    LET id == FirstQueueId(h, mask)
        e == Head(queues[h][id])
        o == TryPop(buffer[e], id[1])
        st == StartedAfter(o.frame, started[e], id[1])
        mark == MarkAfter(o.frame, id)
        left == IF mark = None THEN Dequeue(queues[h], id, e) ELSE queues[h]
        next == Position(o.buffer, st)
    IN  [entry |-> e, outcome |-> o, started |-> st, mark |-> next,
         lists |-> Moved(left, mark, e, next)]

\* If the front entry has no frame there is none, whatever the others have.
Gives(h, mask) ==
    Offered(h, mask) # {} /\ FrontPop(h, mask).outcome.frame # None

HubTryPop(h, mask) ==
    IF Offered(h, mask) = {} THEN UNCHANGED << buffer, queueVars, writer >>
    ELSE LET r == FrontPop(h, mask)
         IN  /\ buffer' = [buffer EXCEPT ![r.entry] = r.outcome.buffer]
             /\ started' = [started EXCEPT ![r.entry] = r.started]
             /\ queue_mark' = [queue_mark EXCEPT ![r.entry] = r.mark]
             /\ queues' = [queues EXCEPT ![h] = r.lists]
             /\ writer' = [writer EXCEPT ![r.entry] = WakeWriter(@, r.outcome)]

-----------------------------------------------------------------------------
(* Endpoints and their tasks.                                              *)

\* An endpoint is made: its entry has no transfer and is in no list.
Registered(e) ==
    /\ buffer' = [buffer EXCEPT ![e] = New(Kind[e], PriorityOf[e])]
    /\ started' = [started EXCEPT ![e] = {}]
    /\ writer' = [writer EXCEPT ![e] = Running]
    /\ UNCHANGED << queue_mark, queues, driver >>

\* The tree of tx_msg has one entry of a subject.
IsOccupied(subject) ==
    \E e \in Entries : HubOf(e) = "tx_msg" /\ buffer[e] # None /\ SubjectOf[e] = subject

CreateMessage(e) ==
    /\ HubOf(e) = "tx_msg"
    /\ ~ IsOccupied(SubjectOf[e])
    /\ Registered(e)

CreateResponse(e) ==
    /\ HubOf(e) = "tx_resp"
    /\ buffer[e] = None
    /\ Registered(e)

Unregister(e) ==
    /\ buffer' = [buffer EXCEPT ![e] = None]
    /\ queue_mark' = [queue_mark EXCEPT ![e] = None]
    /\ queues' = [queues EXCEPT ![HubOf(e)] = Dequeue(@, queue_mark[e], e)]

\* An endpoint is dropped, whatever it has not sent.
Drop(e) ==
    /\ buffer[e] # None
    /\ writer[e].at # "serializing"
    /\ Unregister(e)
    /\ started' = [started EXCEPT ![e] = {}]
    /\ writer' = [writer EXCEPT ![e] = Running]
    /\ UNCHANGED driver

\* A call of the buffer's own under the registry's mutex: the queue is not told.
WithBuffer(e, b) ==
    /\ buffer' = [buffer EXCEPT ![e] = b]
    /\ UNCHANGED << queueVars, driver >>

\* Tx::try_push up to the serialization, which is done without the mutex. A push of
\* a priority that is not ready fails after the scratchpad was taken.
BeginPush(e, p) ==
    /\ buffer[e] # None
    /\ writer[e].at = "running"
    /\ WithBuffer(e, GetScratchpad(buffer[e]))
    /\ writer' = [writer EXCEPT ![e] =
           IF p \in PushReadiness(buffer[e]) THEN [at |-> "serializing", mask |-> {p}]
                                             ELSE Running]

\* Mutant: the entry is not moved to the list it belongs to.
MutantQueuePush(e, b) == UNCHANGED << queue_mark, queues, driver >>

QueuePush(e, b) == UpdateQueuePosition(e, b)

EndPush(e, p, frames) ==
    /\ writer[e] = [at |-> "serializing", mask |-> {p}]
    /\ LET b == Push(buffer[e], p, frames)
       IN  /\ buffer' = [buffer EXCEPT ![e] = b]
           /\ QueuePush(e, b)
    /\ writer' = [writer EXCEPT ![e] = Running]
    /\ UNCHANGED started

\* wait_push_readiness, where the buffer is not ready. To wait for a priority that
\* is not the one of a message's endpoint is to wait for nothing: Next leaves it out.
WaitPushReadiness(e, mask) ==
    /\ buffer[e] # None
    /\ writer[e].at = "running"
    /\ PushReadiness(buffer[e]) \cap mask = {}
    /\ writer' = [writer EXCEPT ![e] = [at |-> "waitReady", mask |-> mask]]
    /\ UNCHANGED << buffer, queueVars, driver >>

\* wait_all_sent, where the buffer is not empty.
WaitAllSent(e) ==
    /\ buffer[e] # None
    /\ writer[e].at = "running"
    /\ ~ IsEmpty(buffer[e])
    /\ writer' = [writer EXCEPT ![e] = [at |-> "waitEmpty", mask |-> {}]]
    /\ UNCHANGED << buffer, queueVars, driver >>

\* The future is dropped, or polled because of another one of its task.
StopWaiting(e) ==
    /\ writer[e].at \in {"waitReady", "waitEmpty"}
    /\ writer' = [writer EXCEPT ![e] = Running]
    /\ UNCHANGED << buffer, queueVars, driver >>

-----------------------------------------------------------------------------
(* The driver's transmit task: CoreNode::poll_pop, messages first.         *)

PollMessages(mask) ==
    /\ driver.at = "running"
    /\ HubTryPop("tx_msg", mask)
    /\ driver' = IF Gives("tx_msg", mask) THEN Idle
                 ELSE [driver EXCEPT !.at = "responses", !.mask = mask]

PollFor(p) == \E mask \in Masks : p \in mask /\ PollMessages(mask)

\* Without a frame the task sleeps, unless it was woken since the poll began.
PollResponses ==
    /\ driver.at = "responses"
    /\ HubTryPop("tx_resp", driver.mask)
    /\ driver' = IF Gives("tx_resp", driver.mask) \/ driver.woken
                 THEN Idle ELSE [driver EXCEPT !.at = "waiting"]

Resume ==
    /\ driver.at = "waiting" /\ driver.woken
    /\ driver' = Idle
    /\ UNCHANGED << buffer, queueVars, writer >>

\* The driver gives the poll up: a mailbox is free again, say.
GiveUp ==
    /\ driver.at = "waiting" /\ ~ driver.woken
    /\ driver' = Idle
    /\ UNCHANGED << buffer, queueVars, writer >>

-----------------------------------------------------------------------------
Next ==
    \/ \E e \in Entries :
           \/ CreateMessage(e) \/ CreateResponse(e) \/ Drop(e)
           \/ WaitAllSent(e) \/ StopWaiting(e)
           \/ \E p \in Priorities :
                  \/ BeginPush(e, p)
                  \/ (HubOf(e) = "tx_msg" => p = PriorityOf[e]) /\ WaitPushReadiness(e, {p})
                  \/ \E frames \in Lengths[e] : EndPush(e, p, frames)
    \/ \E mask \in Masks : PollMessages(mask)
    \/ PollResponses
    \/ Resume
    \/ GiveUp

Spec == Init /\ [][Next]_vars

\* The executor runs a woken task, and the driver's place for a frame of each
\* priority is free again after the transmission or the deadline: the driver does
\* not wait for ever for some priorities only. A poll comes to its end, and each
\* priority is asked for again and again (the fairness of PollResponses, and the
\* strong one of the polls for p, in terms of where they are enabled).
Fairness ==
    /\ WF_vars(Resume)
    /\ WF_vars(GiveUp /\ driver.mask # Priorities)
    /\ []<>(driver.at # "responses")
    /\ []<>(driver.at = "running") => \A p \in Priorities : []<><< PollFor(p) >>_vars

FairSpec == Spec /\ Fairness

-----------------------------------------------------------------------------
(***************************************************************************)
(* Safety.                                                                 *)
(***************************************************************************)

Endpoints == {e \in Entries : buffer[e] # None}

BufferOwners(b, i) ==
    LET t == TransfersOf(b)
    IN
    {<< "transfer", s >> : s \in {s \in DOMAIN t : t[s] # None /\ t[s].buffer_idx = i}} \cup
    {<< "free", n >> : n \in {n \in DOMAIN b.free : b.free[n] = i}} \cup
    {<< "scratchpad", i >> : n \in {n \in {b.scratchpad} : n = i}}

\* Each payload buffer of a Signal or a response buffer is free, the scratchpad,
\* or of one transfer: no payload is written while it is sent, and none leaks.
BuffersPartition ==
    \A e \in Endpoints : buffer[e].kind # "Blocking" =>
        \A i \in 0 .. BufferCount(buffer[e].kind) - 1 :
            Cardinality(BufferOwners(buffer[e], i)) = 1

\* Every entry is in the list its buffer belongs to, by its most urgent transfer
\* and by whether that has frames on the bus, although the scratchpad can take a
\* transfer out of the buffer without a word to the queue: hub_try_pop never meets
\* a front entry without a frame, which would hide all the others. The mark, from
\* which dequeue takes an unsafe cursor, is the one list that holds the entry, and a
\* dropped endpoint is in none.
PositionIsCurrent ==
    /\ \A e \in Endpoints : queue_mark[e] = Position(buffer[e], Begun(buffer[e]))
    /\ \A h \in Hubs, id \in QueueIds :
           /\ ToSet(queues[h][id]) =
                  {e \in Endpoints : HubOf(e) = h /\ queue_mark[e] = id}
           /\ IsInjective(queues[h][id])

\* Transfers of messages of the same priority are not mixed on the bus.
NoInterleaving ==
    \A p \in Priorities :
        Cardinality({e \in Endpoints : HubOf(e) = "tx_msg" /\ p \in Begun(buffer[e])}) <= 1

\* The driver does not sleep while an endpoint has a frame of a priority it waits
\* for, unless a more urgent response of the same endpoint is in front of it: a
\* push between the two polls, or after them, has woken it.
NoLostWakeup ==
    driver.at = "waiting" /\ ~ driver.woken =>
        \A e \in Endpoints :
            ~ IsEmpty(buffer[e]) => Min(PopReadiness(buffer[e])) \notin driver.mask

\* A writer does not sleep while its buffer is ready for what it waits for, and
\* a push that was found ready is still so after the serialization.
WriterIsWoken ==
    \A e \in Endpoints :
        /\ writer[e].at = "waitReady" => PushReadiness(buffer[e]) \cap writer[e].mask = {}
        /\ writer[e].at = "waitEmpty" => ~ IsEmpty(buffer[e])
        /\ writer[e].at = "serializing" =>
               HasScratchpad(buffer[e]) /\ writer[e].mask \subseteq PushReadiness(buffer[e])

\* "The buffer always completes a partially sent transfer regardless of updates":
\* a transfer that has frames on the bus stays as it is until its last frame is
\* fetched, whatever its publisher does meanwhile, short of dropping the endpoint.
BegunGoesOn ==
    [][\A e \in Endpoints : buffer'[e] # None =>
           \A p \in Begun(buffer[e]) :
               LET t == BegunTransfer(buffer[e], p)
               IN  IF p \in Begun(buffer'[e])
                   THEN BegunTransfer(buffer'[e], p) \in {t, Fetched(t)}
                   ELSE Exhausted(Fetched(t))]_vars

(***************************************************************************)
(* Liveness.                                                               *)
(***************************************************************************)

MostUrgentBlocking ==
    {e \in Entries : Kind[e] = "Blocking" /\ \A d \in Entries :
        HubOf(d) = "tx_msg" => PriorityOf[e] <= PriorityOf[d]}

\* A blocking publisher of the most urgent messages gets its transfer sent though
\* another one of its priority publishes without a pause: an entry queues behind
\* the others at the end of its transfer.
EvenService ==
    \A e \in MostUrgentBlocking :
        buffer[e] # None /\ buffer[e].pending # None ~>
            buffer[e] = None \/ buffer[e].pending = None

=============================================================================
