-------------------------------- MODULE NativeTx --------------------------------
(***************************************************************************)
(* The transmit task of the native driver (emcyphal-stm32-native,          *)
(* driver.rs TxRunner::run) against the mailboxes and the transmit event   *)
(* FIFO of the controller (raw.rs) and the interrupt IT1. The controller   *)
(* goes on while the task runs: every access to a register is a step.      *)
(*                                                                         *)
(* The task keeps one frame of each priority. It puts the most urgent one  *)
(* into a free mailbox, cancels the others, and waits until that mailbox   *)
(* is no longer pending.                                                   *)
(***************************************************************************)
EXTENDS Integers, FiniteSets, SequencesExt

CONSTANTS
    None,
    Priorities,     (* 0 is the most urgent one                            *)
    Mailboxes,      (* 0 .. TX_FIFO_MAX - 1                                *)
    EventMax,       (* the depth of the event FIFO, TX_EVENT_MAX           *)
    CounterRange,   (* the values of the timestamp counter, 2 ^ 16         *)
    TimestampOffsets,   (* the values of timestamp_offset                  *)
    MaxFrames,      (* BOUND: the frames the link has                      *)
    StartTime, MaxTime  (* BOUND: the first and the last instant           *)

\* There is a mailbox besides the one that is filled and the one on the bus, and the
\* FIFO has room for an event of each.
ASSUME NativeAssumption ==
    /\ Priorities \subseteq Nat /\ Mailboxes \subseteq Nat
    /\ IsFiniteSet(Mailboxes)
    /\ Cardinality(Mailboxes) > 2
    /\ EventMax \in Nat /\ Cardinality(Mailboxes) <= EventMax
    /\ CounterRange \in Nat \ {0}
    /\ TimestampOffsets \subseteq {None} \cup 0 .. CounterRange - 1
    /\ MaxFrames \in Nat /\ StartTime \in Nat /\ MaxTime \in Nat
    /\ None \notin Nat
    /\ None \notin [id : Nat, loop_back : BOOLEAN, timestamp : Nat]

VARIABLES
    pending,        (* the mailboxes with a request, TXBRP                 *)
    content,        (* the frame in each mailbox                           *)
    cancelling,     (* those whose cancellation waits for the bus          *)
    sending,        (* the mailbox whose frame is on the bus               *)
    events,         (* the transmit events: mailbox and counter            *)
    interrupt,      (* IT1 is pending                                      *)
    unpend_mask, tx_waker,          (* of Info's state: tx_waker says that *)
                                    (* tx_trigger has a waker              *)
    woken,                          (* the task is to be polled            *)
    loop_back,                      (* its channel, of one frame           *)
    frames, pending_frames, loop_back_pending,  (* of the task             *)
    pending_mailboxes, completed_mailboxes,     (* of a turn of its loop   *)
    pc, box,
    now,
    timestamp_offset,   (* the counter at the instant 0; None if the clock *)
                        (* of the system is the source, as by default      *)
    fetched,        (* how many frames the link has handed out             *)
    bus,            (* the frames that were sent, when, and when the task  *)
                    (* read the event of it                                *)
    returned,       (* the frames the receive task got back                *)
    aborted         (* mailboxes whose request was cancelled on the bus    *)
                    (* since the task looked at the one it waits for       *)

hwVars   == << pending, content, cancelling, sending, events >>
infoVars == << unpend_mask, tx_waker, woken, loop_back >>
mapVars  == << frames, pending_frames, loop_back_pending >>
turnVars == << pending_mailboxes, completed_mailboxes >>
history  == << fetched, bus, returned, aborted >>
vars == << hwVars, interrupt, infoVars, mapVars, turnVars, pc, box, now,
           timestamp_offset, history >>

First(S) == CHOOSE p \in S : \A q \in S : p <= q

\* A frame of the link: its priority is the key it is kept under.
Frame(id, lb, deadline) == [id |-> id, loop_back |-> lb, timestamp |-> deadline]

Occupied == {p \in Priorities : frames[p] # None}

Queued == Occupied \ loop_back_pending

\* Nothing was handed out but frames without a source.
Idle(time, offset, discarded) ==
    /\ pending = {} /\ cancelling = {} /\ sending = None /\ events = << >>
    /\ content = [b \in Mailboxes |-> None]
    /\ interrupt = FALSE /\ unpend_mask = Mailboxes
    /\ tx_waker = FALSE /\ woken = FALSE
    /\ loop_back = None
    /\ frames = [p \in Priorities |-> None]
    /\ pending_frames = [b \in Mailboxes |-> None]
    /\ loop_back_pending = {}
    /\ pending_mailboxes = {} /\ completed_mailboxes = {}
    /\ pc = "query" /\ box = None
    /\ now = time /\ timestamp_offset = offset
    /\ fetched = discarded /\ bus = << >> /\ returned = << >> /\ aborted = {}

Init == \E offset \in TimestampOffsets : Idle(StartTime, offset, 0)

\* The mailbox of a priority: MailboxPriorityMap is one-to-one.
MailboxesOf(p) == {b \in Mailboxes : pending_frames[b] = p}

\* A failed unwrap, expect or assertion stops the program.
Panic(reason) ==
    /\ pc' = reason
    /\ UNCHANGED << hwVars, interrupt, infoVars, mapVars, turnVars, box, now,
                    timestamp_offset, history >>

-----------------------------------------------------------------------------
(* The controller.                                                          *)

StartSending(b) ==
    /\ sending = None
    /\ b \in pending
    /\ sending' = b
    /\ UNCHANGED << pending, content, cancelling, events, interrupt, infoVars, mapVars,
                    turnVars, pc, box, now, timestamp_offset, history >>

\* The timestamp counter: offset ahead of the clock, or not started.
Counter(offset, time) ==
    IF offset = None THEN 0 ELSE (time + offset) % CounterRange

\* The request is done, also one that was to be cancelled. The interrupt is that of the
\* event, which is lost if the FIFO is full.
Sent(b) ==
    /\ sending = b
    /\ sending' = None
    /\ pending' = pending \ {b}
    /\ cancelling' = cancelling \ {b}
    /\ events' = IF Len(events) = EventMax THEN events
                 ELSE Append(events, [marker |-> b,
                                      counter |-> Counter(timestamp_offset, now)])
    /\ interrupt' = (interrupt \/ Len(events) < EventMax)
    /\ bus' = Append(bus, [id |-> content[b].id, time |-> now, read |-> None])
    /\ UNCHANGED << content, infoVars, mapVars, turnVars, pc, box, now, timestamp_offset,
                    fetched, returned, aborted >>

\* The frame loses the arbitration or is disturbed. A request that was to be cancelled
\* ends; no interrupt tells so, since the driver leaves TXBCIE alone.
NotSent(b) ==
    /\ sending = b
    /\ sending' = None
    /\ pending' = pending \ (cancelling \cap {b})
    /\ cancelling' = cancelling \ {b}
    /\ aborted' = aborted \cup (cancelling \cap {b})
    /\ UNCHANGED << content, events, interrupt, infoVars, mapVars, turnVars, pc, box,
                    now, timestamp_offset, fetched, bus, returned >>

\* IT1InterruptHandler and wake_tx. A waker wakes once.
OnInterrupt ==
    /\ interrupt
    /\ interrupt' = FALSE
    /\ LET wakes == tx_waker /\ pending \cap unpend_mask = {}
       IN  woken' = (woken \/ wakes) /\ tx_waker' = (tx_waker /\ ~ wakes)
    /\ UNCHANGED << hwVars, unpend_mask, loop_back, mapVars, turnVars, pc, box, now,
                    timestamp_offset, history >>

\* A cancellation is done at once, unless the frame is on the bus.
Cancel(boxes) ==
    /\ pending' = pending \ (boxes \ {sending})
    /\ cancelling' = cancelling \cup (boxes \cap pending \cap {sending})

-----------------------------------------------------------------------------
(* A turn of the task's loop: what has been sent, and what is free.         *)

Query ==
    /\ pc = "query"
    /\ pending_mailboxes' = pending
    /\ completed_mailboxes' = {}
    /\ box' = None
    /\ pc' = "drain"
    /\ UNCHANGED << hwVars, interrupt, infoVars, mapVars, now, timestamp_offset,
                    history >>

\* The latest instant not after the epoch with this value of the counter.
MakeTimestamp(epoch, counter) ==
    LET offset == (epoch - counter) % CounterRange
    IN  IF offset > epoch THEN 0 ELSE epoch - offset

\* Mutant: the counter is read also if it is not started.
MutantEventTimestamp(e) ==
    LET offset == IF timestamp_offset = None THEN 0 ELSE timestamp_offset
    IN  MakeTimestamp(now, (e.counter - offset) % CounterRange)

\* The time of a frame that was sent: the counter tells it, or the clock when the task
\* reads the event.
EventTimestamp(e) ==
    IF timestamp_offset = None THEN now
    ELSE MakeTimestamp(now, (e.counter - timestamp_offset) % CounterRange)

\* A frame that was sent is done, or waits to be returned.
DrainEvent ==
    LET e == Head(events)
        p == pending_frames[e.marker]
    IN  /\ pc = "drain"
        /\ events # << >>
        /\ IF p = None THEN Panic("event without a frame")
           ELSE
            /\ events' = Tail(events)
            /\ completed_mailboxes' = completed_mailboxes \cup {e.marker}
            /\ pending_frames' = [pending_frames EXCEPT ![e.marker] = None]
            /\ IF frames[p].loop_back
               THEN /\ frames' = [frames EXCEPT ![p].timestamp = EventTimestamp(e)]
                    /\ loop_back_pending' = loop_back_pending \cup {p}
               ELSE /\ frames' = [frames EXCEPT ![p] = None]
                    /\ UNCHANGED loop_back_pending
            /\ UNCHANGED << pending, content, cancelling, sending, interrupt, infoVars,
                            pending_mailboxes, pc, box, now, timestamp_offset, fetched,
                            returned, aborted >>
            /\ bus' = [i \in DOMAIN bus |->
                        IF bus[i].id = frames[p].id /\ bus[i].read = None
                        THEN [bus[i] EXCEPT !.read = now] ELSE bus[i]]

EventsRead ==
    /\ pc = "drain"
    /\ events = << >>
    /\ pc' = "free"
    /\ UNCHANGED << hwVars, interrupt, infoVars, mapVars, turnVars, box, now,
                    timestamp_offset, history >>

\* Mutant: what is pending is read after the events.
MutantFree == Mailboxes \ pending

Free == (Mailboxes \ pending_mailboxes) \cup completed_mailboxes

\* The frames of the other free mailboxes were cancelled.
Drained ==
    /\ pc = "free"
    /\ pending_frames' = [b \in Mailboxes |->
                            IF b \in Free THEN None ELSE pending_frames[b]]
    /\ pc' = "select"
    /\ UNCHANGED << hwVars, interrupt, infoVars, frames, loop_back_pending, turnVars,
                    box, now, timestamp_offset, history >>

-----------------------------------------------------------------------------
(* What the task waits for. The first that is ready is taken, in this order; *)
(* whether the link has a frame is left open.                                *)

DeadlineReady == \E p \in Queued : frames[p].timestamp <= now
ReturnReady   == loop_back_pending # {} /\ loop_back = None

\* Mutant: the deadline and the link are only looked at when the turn begins.
MutantPolls == pc = "select"

\* The task polls when the turn begins and when it is woken.
Polls == pc \in {"select", "asleep"}

\* Frames that are late are dropped and their mailboxes cancelled, also the one on the
\* bus and one that was just sent.
Expire ==
    LET late == {p \in Queued : frames[p].timestamp <= now}
    IN  /\ Polls
        /\ DeadlineReady
        /\ frames' = [p \in Priorities |-> IF p \in late THEN None ELSE frames[p]]
        /\ pending_frames' = [b \in Mailboxes |->
                                IF pending_frames[b] \in late THEN None
                                                              ELSE pending_frames[b]]
        /\ Cancel({b \in Mailboxes : pending_frames[b] \in late})
        /\ pc' = "query"
        /\ UNCHANGED << content, sending, events, interrupt, infoVars, loop_back_pending,
                        turnVars, box, now, timestamp_offset, history >>

\* The most urgent frame that was sent goes back to the receive task.
ReturnFrame ==
    LET p == First(loop_back_pending)
    IN  /\ Polls /\ ~ DeadlineReady
        /\ ReturnReady
        /\ loop_back' = frames[p]
        /\ frames' = [frames EXCEPT ![p] = None]
        /\ loop_back_pending' = loop_back_pending \ {p}
        /\ pc' = "query"
        /\ UNCHANGED << hwVars, interrupt, unpend_mask, tx_waker, woken, pending_frames,
                        turnVars, box, now, timestamp_offset, history >>

\* A frame of a priority of which there is none. One without a source is discarded.
FetchFrame(p, f, anonymous) ==
    /\ Polls /\ ~ DeadlineReady /\ ~ ReturnReady
    /\ fetched < MaxFrames  \* BOUND
    /\ p \notin Occupied
    /\ frames' = IF anonymous THEN frames ELSE [frames EXCEPT ![p] = f]
    /\ fetched' = fetched + 1
    /\ pc' = "query"
    /\ UNCHANGED << hwVars, interrupt, infoVars, pending_frames, loop_back_pending,
                    turnVars, box, now, timestamp_offset, bus, returned, aborted >>

\* The most urgent frame is to be in a mailbox.
Submit ==
    LET p == First(Queued)
    IN  /\ pc = "select" /\ ~ DeadlineReady /\ ~ ReturnReady
        /\ Queued # {}
        /\ IF MailboxesOf(p) = {} /\ Free = {} THEN Panic("no free mailbox")
           ELSE
            /\ IF MailboxesOf(p) = {} THEN box' = First(Free) /\ pc' = "add"
                                       ELSE box' \in MailboxesOf(p) /\ pc' = "register"
            /\ UNCHANGED << hwVars, interrupt, infoVars, mapVars, turnVars, now,
                            timestamp_offset, history >>

StoreTxBuffer(b, f) == content' = [content EXCEPT ![b] = f]

Add ==
    /\ pc = "add"
    /\ IF box \in pending THEN Panic("mailbox is occupied")
       ELSE
        /\ StoreTxBuffer(box, frames[First(Queued)])
        /\ pending' = pending \cup {box}
        /\ pc' = "cancel"
        /\ aborted' = aborted \ {box}
        /\ UNCHANGED << cancelling, sending, events, interrupt, infoVars, mapVars,
                        turnVars, box, now, timestamp_offset, fetched, bus, returned >>

\* Mutant: the other mailboxes stay pending.
MutantCancelOthers ==
    /\ pc = "cancel"
    /\ pc' = "insert"
    /\ UNCHANGED << hwVars, interrupt, infoVars, mapVars, turnVars, box, now,
                    timestamp_offset, history >>

CancelOthers ==
    /\ pc = "cancel"
    /\ Cancel(Mailboxes \ {box})
    /\ pc' = "insert"
    /\ UNCHANGED << content, sending, events, interrupt, infoVars, mapVars, turnVars,
                    box, now, timestamp_offset, history >>

Insert ==
    /\ pc = "insert"
    /\ IF pending = Mailboxes THEN Panic("no mailbox was cancelled")
       ELSE IF pending_frames[box] # None THEN Panic("mailbox has a frame")
       ELSE
        /\ pending_frames' = [pending_frames EXCEPT ![box] = First(Queued)]
        /\ pc' = "register"
        /\ UNCHANGED << hwVars, interrupt, infoVars, frames, loop_back_pending, turnVars,
                        box, now, timestamp_offset, history >>

\* wait_for_unpend: the waker is registered before the check.
Register ==
    /\ pc = "register"
    /\ unpend_mask' = {box}
    /\ pc' = "check"
    /\ tx_waker' = TRUE
    /\ UNCHANGED << hwVars, interrupt, woken, loop_back, mapVars, turnVars, box, now,
                    timestamp_offset, history >>

\* Mutant: the task sleeps without looking at the mailbox again.
MutantCheckUnpend ==
    /\ pc = "check"
    /\ pc' = "asleep"
    /\ aborted' = {}
    /\ UNCHANGED << hwVars, interrupt, infoVars, mapVars, turnVars, box, now,
                    timestamp_offset, fetched, bus, returned >>

CheckUnpend ==
    /\ pc = "check"
    /\ pc' = IF box \in pending THEN "asleep" ELSE "query"
    /\ aborted' = {}
    /\ UNCHANGED << hwVars, interrupt, infoVars, mapVars, turnVars, box, now,
                    timestamp_offset, fetched, bus, returned >>

\* Nothing is queued.
Sleep ==
    /\ pc = "select" /\ ~ DeadlineReady /\ ~ ReturnReady
    /\ Queued = {}
    /\ pc' = "asleep"
    /\ UNCHANGED << hwVars, interrupt, infoVars, mapVars, turnVars, box, now,
                    timestamp_offset, history >>

\* The task polls again when IT1 has woken it.
Wake ==
    /\ pc = "asleep" /\ ~ DeadlineReady /\ ~ ReturnReady
    /\ woken
    /\ woken' = FALSE
    /\ pc' = "select"
    /\ UNCHANGED << hwVars, interrupt, unpend_mask, tx_waker, loop_back, mapVars,
                    turnVars, box, now, timestamp_offset, history >>

\* The receive task takes the frame that was returned.
TakeLoopBack ==
    /\ loop_back # None
    /\ returned' = Append(returned, loop_back)
    /\ loop_back' = None
    /\ UNCHANGED << hwVars, interrupt, unpend_mask, tx_waker, woken, mapVars, turnVars,
                    pc, box, now, timestamp_offset, fetched, bus, aborted >>

Tick ==
    /\ now < MaxTime  \* BOUND
    /\ now' = now + 1
    /\ UNCHANGED << hwVars, interrupt, infoVars, mapVars, turnVars, pc, box,
                    timestamp_offset, history >>

-----------------------------------------------------------------------------
Controller == \E b \in Mailboxes : StartSending(b) \/ Sent(b) \/ NotSent(b)

Fetching ==
    \E p \in Priorities, lb, anonymous \in BOOLEAN, deadline \in now .. MaxTime :
        FetchFrame(p, Frame(fetched + 1, lb, deadline), anonymous)

Task ==
    \/ Query \/ DrainEvent \/ EventsRead \/ Drained
    \/ Expire \/ ReturnFrame \/ Submit \/ Sleep \/ Wake
    \/ Add \/ CancelOthers \/ Insert \/ Register \/ CheckUnpend

Next == Controller \/ Fetching \/ Task \/ OnInterrupt \/ TakeLoopBack \/ Tick

Spec == Init /\ [][Next]_vars

\* The executor runs the tasks, interrupts are served, and time goes on. Nothing is
\* assumed of the bus.
FairSpec ==
    Spec /\ WF_vars(Task) /\ WF_vars(OnInterrupt) /\ WF_vars(TakeLoopBack)
         /\ WF_vars(Tick)

-----------------------------------------------------------------------------
\* Of all the unwraps, expects and assertions of the loop one can fail: that of the
\* transmit event of a frame which the task gave up at its deadline while it was on the
\* bus or had just been sent (TxRunner::run, lines 486 and 567). A mailbox is always
\* free, and never are all of them pending.
PanicOnlyOnLateEvent ==
    /\ pc \in {"query", "drain", "free", "select", "add", "cancel", "insert", "register",
               "check", "asleep", "event without a frame"}
    /\ pc = "event without a frame" => content[Head(events).marker].timestamp <= now

\* No frame is sent twice, although it is taken out of its mailbox for a more urgent one
\* and put into another one, and is sent while the task looks at what is pending.
SentOnce == IsInjective([i \in DOMAIN bus |-> bus[i].id])

\* A sleeping task has its most urgent frame in a mailbox that is pending, or is about to
\* be woken. It is not if that mailbox was cancelled on the bus, for a frame that has
\* expired since, and the end of it comes now: that raises no interrupt.
LostWakeupOnlyByCancellation ==
    (pc = "asleep" /\ ~ woken /\ ~ interrupt /\ Queued # {})
        => \E b \in MailboxesOf(First(Queued)) : b \in pending \cup aborted

\* A frame comes back to the receive task only once it was sent, once, with an instant
\* between that and the reading of its event, also when the counter has wrapped. If the
\* counter tells it and has not, it is the instant at which the frame was sent.
LoopBackTellsTransmission ==
    /\ IsInjective([i \in DOMAIN returned |-> returned[i].id])
    /\ \A i \in DOMAIN returned :
        /\ returned[i].loop_back
        /\ \E j \in DOMAIN bus :
            /\ bus[j].id = returned[i].id
            /\ returned[i].timestamp \in bus[j].time .. bus[j].read
            /\ timestamp_offset # None /\ bus[j].read - bus[j].time < CounterRange
                => returned[i].timestamp = bus[j].time

\* Every frame leaves the task: it is sent, or dropped at its deadline, even if the bus
\* does not take any frame; unless the task panics. The link has MaxFrames frames.
FramesLeave == <>[](Occupied = {} \/ pc = "event without a frame")

=============================================================================
