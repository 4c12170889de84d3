# Emcyphal in TLA+

A verification project for Emcyphal, an asynchronous Cyphal/CAN stack for
embedded Rust: TLA+ modules translated from its source, TLC configurations that
check them on small instances, and theorems about them that TLAPS has checked.
Paths are relative to `src/`; line numbers are those of the modelled commit.

    tlc -workers 2 -config SubjectRegistry.cfg MCSubjectRegistry
    tlapm SubjectRegistryProofs.tla

## The system

A **node** (`emcyphal/src/node/core_node.rs`) stands between a CAN **driver** and
user **sockets**. A socket owns a **buffer** and an **endpoint** that links the
buffer into one of the node's **registries**. Everything runs as cooperating
asynchronous tasks on one microcontroller; the registries' state is behind
blocking mutexes that are held for one step and released between steps, and
tasks on executors of different interrupt priority preempt one another wherever
no mutex is held.

    reader / publisher / responder / requester tasks     socket.rs, endpoint.rs
              |  pop, insert ,  wakers, triggers
    buffers: RxPriorityFifo, Watch | Blocking, Signal    buffer/
              |  push_frame           ^  pop_frame
    registries: rx_msg, rx_req | tx_msg, tx_resp         registry/
              |  push, filter update  ^  poll_pop
    CoreNode / MinimalNode                               node/
              |                       |
    driver runners: receive, filter, transmit tasks      emcyphal-stm32-*/driver.rs

### Components

| Component | State it keeps | Operations | What makes it correct |
|---|---|---|---|
| Subject registry, regular half (`registry/rx_msg.rs`, `RegularInner`) | inactive and active entry trees, `is_active` and `is_head` flags, `next_push_ptr`, clean-up and activation queues, free slot count, filter waker | register, unregister; push a frame to every buffer of a subject; pop a filter update | a frame reaches every subscriber that stays, once; the driver's filter covers the active subjects; a stale filter slot is never forgotten; slots are accounted for |
| Subject registry, loop-back half (`LoopBackInner`) | one tree, one push pointer | register, unregister, push | as above, without a filter; the push runs on over the entries of larger subjects, whose buffers must refuse the frame |
| Driver filter task (`RxFilterRunner` of both drivers) | table of subject slots | `add_subject`, `remove_subject_range` | a slot is there for every subject asked for |
| `Gather` (`buffer/gather.rs`) | accumulator, transfer in progress, last transfer identifier, toggle | `push_frame` | the twelve rules of the comment at its head, but for malformed repetitions |
| `RxPriorityFifo` (`buffer/rx_priority_fifo.rs`) | sessions (a Gather and a buffer each), buffer pools, queue of transfers per priority, reader trigger | push a frame, `try_pop`, `poll_pop` | each buffer has one owner; transfers come out as they were assembled, the least urgent are lost first; a session is taken from the oldest source |
| `Watch` (`buffer/rx_msg/watch.rs`) | sessions, one published transfer and its minimal timestamp | push a frame, read | the newest transfer wins, whatever order transfers end in |
| `Scatter` (`buffer/scatter.rs`) | a transfer and a position in it | frames of a transfer | Gather reassembles what Scatter made |
| `tx_msg::Signal`, `Blocking`, `tx_resp::Blocking` | buffers that change hands between fragmented, pending and scratchpad; waker | scratchpad, push, pop a frame | a transfer that was begun is finished with its own payload; the writer is woken |
| `TxQueue` (`registry/tx_queue.rs`) and the registries on it | two lists of entries for each priority, the mark of each entry, trigger of the driver | register, unregister, update a position, `hub_poll_pop` | a frame is handed out while a buffer has one; begun transfers first, then in turn |
| `rx_req` registry | a map from service to buffer | register, unregister, push | one buffer for a service |
| `CoreNode`, `MinimalNode` | node address, transfer identifiers | dispatch, `poll_pop` | a frame goes to the registry of its kind; a poll that finds no message looks at the responses, and no push between its two looks is missed |
| Sockets (`socket.rs`) | masks of a `Responder` | receive, publish, process a request | a waiting task is woken; no spinning |
| Queue utilities (`utils/`) | index lists, priority bit sets, triggers | push, pop, move | they behave as a function and an order |
| Driver transmit tasks | mailboxes, deadlines, loop-back mapping | submit, complete, expire, pre-empt | every frame is sent once or dropped at its deadline; none is lost between queue and mailbox |
| Driver receive tasks | loop-back channel, receive FIFOs, wakers | interrupt, pop, push into the node | no frame waits for a task that sleeps |
| Hardware access, formats, encodings, logging | registers, bit layouts | pure or I/O | outside these models |

### Interactions and what is hard about them

* **Endpoints against the receive task.** A frame is handed to the buffers of its
  subject one at a time, the mutex released in between (`rx_msg.rs:42`), so any
  endpoint can come or go in the middle of a push.
* **Endpoints against the filter task.** The registry computes a filter update,
  the driver applies it later (`rx_msg.rs:440`, `link.rs`): the update may be
  stale when it is used. Slots are charged at registration and freed by the
  shape of the tree, two accounts of one resource.
* **Frames against time.** A transfer identifier wraps after 32 transfers; loss,
  repetition and timeouts decide whether a frame continues, repeats or begins a
  transfer. The instant of a frame is that at which its task reads it, or that
  of a counter of the controller, which wraps.
* **Bounded pools.** Sessions, buffers and queue places are taken over from their
  owners when they run out.
* **Wake-ups.** A single waker per waiter, filtered by priority: each path that
  makes work has to wake.
* **Transmission.** A frame in a mailbox can complete, expire and be pre-empted in
  any order.

`PROJECT.json` lists each hazard at its line with the properties that would catch
it.

## The modules

| Module | Models | Kind |
|---|---|---|
| `SubjectRegistry` | `registry/rx_msg.rs`, `RegularInner`, with the driver's filter task | component composed with its client |
| `SubjectRegistryProofs` | theorems about it | proofs |
| `SequenceLemmas` | what inserting into, removing from and taking apart a sequence does; the least element of a set | lemmas |
| `Gather` | `buffer/gather.rs` as operators on a record | shared operators |
| `GatherRules` | the twelve rules of the comment in `gather.rs` | abstract specification |
| `GatherSession` | one Gather that receives any frames; how far it refines `GatherRules` | component |
| `Sessions` | the session table that `rx_priority_fifo.rs` and `rx_msg/watch.rs` both have, as operators on a record, on top of `Gather` | shared operators |
| `SessionLemmas` | what the operators of `Gather` and `Sessions` do to a reception, a table and its order | lemmas |
| `RxPriorityFifo` | `buffer/rx_priority_fifo.rs` with its reader, on top of `Sessions` | component |
| `RxPriorityFifoProofs` | theorems about it | proofs |
| `Watch` | `buffer/rx_msg/watch.rs` with its reader, on top of `Sessions` | component |
| `ReassemblyProofs` | theorems about `GatherSession` and `Watch` | proofs |
| `TxBuffers` | `buffer/tx_msg/signal.rs`, `tx_msg/blocking.rs`, `tx_resp/blocking.rs` as operators on a record | shared operators |
| `Common` | the priorities, and the value of an unset `Option`, of the modules about transmission | constants |
| `TxPath` | `registry/tx_queue.rs`, `tx_msg.rs`, `tx_resp.rs`, the poll of `CoreNode`, `endpoint.rs` (`Tx`) and the driver's side of `Tx::pop` | composition |
| `Scatter` | `buffer/scatter.rs`, data lengths of `emcyphal-driver/frame.rs` as operators | shared operators |
| `CanId` | the 29 bit identifiers of both drivers' `format.rs`, their filters and their conversions, bit by bit | shared operators |
| `EmbassyTx` | the transmit task of `emcyphal-stm32-embassy/driver.rs`, `utils.rs`, and what `write_fd` does | component |
| `TransferLink` | a sender's `Scatter`, `EmbassyTx`, a faulty bus, filters and identifiers of either driver, and the receiver's `Gather` | composition |
| `TransmitProofs` | theorems about `TxPath` and about `TransferLink` with `Scatter` and `EmbassyTx` | proofs |
| `NativeTx` | the transmit task of `emcyphal-stm32-native/driver.rs` against the mailboxes and the event FIFO of `raw.rs` | component composed with the hardware |
| `NativeTxProofs` | theorems about it | proofs |
| `Responder` | `Responder` of `socket.rs` with its two buffers | component |
| `NodeReceive` | the receive task of the native driver, its interrupt, FIFOs and loop-back channel, the dispatch of `CoreNode`, `rx_req.rs` and `LoopBackInner` of `rx_msg.rs`, with a `Responder` | composition |
| `NodeReceiveProofs` | theorems about it | proofs |
| `PrioritySet` | priorities and sets of them as `emcyphal-core` computes them, in eight bits | shared operators |
| `MultiClassQueue`, `IndexQueue`, `PriorityQueue` | the containers of `utils/`, by array and link | component |
| `KeyedSequence`, `PriorityLines` | what `IndexQueue` and `PriorityQueue` promise | abstract specifications |
| `BufferQueues` | both containers and their refinements | composition |
| `MC...` | instances for TLC | |

### SubjectRegistry

Three actors; each action is one critical section of the registry's mutex.

| Action | Code |
|---|---|
| `Register(e)`: `RegisterEnqueuedSubject`, `RegisterActiveSubject`, `RegisterNewSubject` | the branches of `reg_register`; with no free slot registration fails and there is no step |
| `Unregister(e)`: `UnregisterActiveHead`, `UnregisterActiveTail`, `UnregisterInactive` | `reg_unregister` and its three parts, `push_ptr` moved on with the removal |
| `HubPushStart(s)`, `HubPushNext` | `hub_push_start` and `hub_push_next`, with the mutex free in between |
| `PollPopFilterUpdate`: `PopCleanUpQueue`, `PopCleanUpLast`, `PopRegistrationQueue`, `Suspend` | `hub_poll_pop_filter_update`; the loop over `CallAgain` is one step for each pass |
| `ApplyUpdate` | `add_subject` and `remove_subject_range` of the driver's runner |
| `SpuriousPoll` | the executor polls the task for another reason |

The active red-black tree is the sequence of its iteration order: a new entry
goes behind the entries of its subject (`upper_bound_mut`, `insert_after`). Of
the inactive tree only membership is read. `delivered` and `owed` are history:
the buffers the current frame went to, and the subscribers it was owed to at its
start. An entry can be registered again after it was dropped; a dropped entry is
taken out of both, so that a new endpoint at the same place is not owed a frame
that is half delivered.

### Gather, GatherRules, GatherSession

`PushFrame` is `Gather::push_frame`, its arms as disjoint cases in the order of
the `match`. A frame is what the arms look at: whether it has data, its transfer
identifier, the three bits of its tail byte, whether its length is a valid MTU,
and its payload, a "part". The CRC is an uninterpreted predicate `CrcMatches` on
the parts accumulated. `GatherRules` keeps a timer, a reassembly and an assembled
status for *each* transfer identifier, as the documentation words it; the code
remembers one identifier only: what Gather forgets is what the rules have stopped or
timed out. `Spec` of `GatherRules` is the rules as documented, and Gather does not
implement it (`ImplementsRules`): a malformed frame in the middle of a transfer whose
toggle bit is that of the frame before it is skipped. `SpecButRepeats` departs from the
rules for these frames (`IsMalformedRepeat`) and no others, and
`ImplementsRulesButRepeats` is the refinement.

### Sessions, RxPriorityFifo, Watch

A session of a source is a Gather and the index of a payload buffer. Buffers
move between sessions, the transfer queue, the free stack and the reader, and
are never copied. `Push` is the whole of `push_frame`: look up the session or
start one (`TryStartNewSession`), run its Gather, and if a transfer is complete
allocate a buffer (`AllocateBuffer`, which may displace a queued transfer), queue
the transfer and wake the reader. `PollPopReadiness` and `TryPop` are the
reader's. The `MultiClassQueue` appears as a sequence for each priority, the
index queue of sessions as a sequence, the readiness trigger as the set of
priorities the reader sleeps for.

A `Watch` has one transfer slot in place of the queue: a transfer is accepted if it
did not begin before the last one accepted (`Accepts`), its buffer is exchanged for
the slot's (`Exchanged`), and `TryPop` exchanges that for the reader's. `newest` and
`read` are history.

### TxBuffers, TxPath

A transfer is the number of frames its Scatter cuts it into, how many of them were
fetched, and the index of its payload buffer; `TryPop`, `GetScratchpad` and `Push`
are the methods of `DynamicTxBuffer`, with the wakers they fire in their outcome.
In `TxPath` three kinds of actor take turns at the mutexes of the two registries:

| Action | Code |
|---|---|
| `Create`, `Drop` | `reg_register`, `reg_unregister`, from `Tx::create_message`, `create_response` and `Tx::drop` |
| `BeginPush`, `EndPush` | `Tx::try_push`: the scratchpad under the mutex, serialization without it, then push and `reg_update_queue_position` under it again |
| `WaitPushReadiness`, `WaitAllSent`, `StopWaiting` | the two waits of `Tx`, where they suspend |
| `PollMessages`, `PollResponses` | the two halves of `CoreNode::poll_pop`, each a `hub_poll_pop` of its registry (`HubTryPop`); without a frame the waker is registered |
| `Resume`, `GiveUp` | the executor polls the task it woke; the driver's `select` leaves the poll because of a mailbox or a deadline |

`Position` is where `reg_update_queue_position` puts an entry: the list of its most
urgent transfer, that of begun transfers or the other. `started` is the entry's own
account of what it has begun, kept from the end-of-transfer bits of the frames.
That a front entry can yield no frame, which would hide all the others
(`hub_poll_pop` then suspends), is in the model; `PositionIsCurrent` shows that it
does not happen. `MarkAfter` is the dequeue of `tx_queue.rs:143`. With the buffers
there are, an entry leaves its list at the end of a transfer anyway: it has nothing
left, or its next transfer has another priority, or it goes from the list of begun
transfers to the other. What makes service even is that it is put at the back
(`Moved`), which the mutant of `EvenService` undoes.

### Scatter, CanId, EmbassyTx, TransferLink

`TransferLink` is the way of transfers from one node to another: two in a row of one
port, whose identifier wraps in between, and an urgent one of another port.

| Action | Code |
|---|---|
| `Publish`, `FetchFrame` | a publisher's transfer; `link.pop` hands a frame out (`Scatter::copy_frame_data`) into its queue, with the deadline of its priority |
| `ExpireFrames` | the first arm of `TxRunner::run`: the last frame of each late queue is removed |
| `WriteFrame` | `can.write_fd` and the third arm: the front frame goes to a mailbox, and what it preempts back to the front of its queue, without a deadline |
| `Transmit` | the bus: a pending frame is sent, the receiver misses it, or it is sent twice |
| `Strange` | another station sends a frame that differs in one bit of its identifier |
| `TickLink` | time |

`FetchFrameData` gives a frame as the interval of payload bytes it has, the number of
padding bytes and the interval of the CRC's bytes, for any length and both MTUs; nothing
is put together byte by byte, and which bytes of a split CRC are where is kept. The next
state relation of the composition is `LinkNext`, its specification `LinkSpec`. The
receiver decodes the identifier with the code of its driver, `NativeLoadFrameHeader` or
`EmbassyLoadFrameHeader`, behind that driver's filter. A session's reassembly is `Gather`
again, with parts that are intervals of a transfer. `write_fd` is embassy's: external,
modelled by what the driver expects of it (the mailbox of a frame the new one precedes is
taken if none is empty). `arrived`, `gone`, `preempted`, `overdue` and `strangers` are
history.

### NativeTx

The controller goes on between any two register accesses of the task, so each access is an
action.

| Action | Code (`driver.rs`, `TxRunner::run`) |
|---|---|
| `Query`, `DrainEvent`, `EventsRead`, `Drained` | 481-503: what is pending, then the transmit events, then the mailboxes that are free |
| `Expire`, `ReturnFrame`, `FetchFrame` | the arms of the `select`: deadline, room in the loop-back channel, a frame from the link |
| `Submit`, `Add`, `CancelOthers`, `Insert` | the fourth arm: the most urgent frame gets a mailbox, the others are cancelled |
| `Register`, `CheckUnpend`, `Sleep`, `Wake` | `wait_for_unpend`: the waker, then the check |
| `StartSending`, `Sent`, `NotSent`, `OnInterrupt` | the controller and `IT1InterruptHandler`; a cancellation of the frame that is on the bus waits for it |
| `TakeLoopBack`, `Tick` | the receive task's part, and time |

`timestamp_offset` is the source of timestamps, a field of the runner that is set when it is
made and never changes: `None` for `TimestampSource::System`, the
default (`config.rs:218`), with which the counter is not started (`raw.rs:131`) and the
instant told is that of reading the event; a number for the two counters, what `Driver::start`
has sampled (`driver.rs:267`). `EventTimestamp` has both branches of `driver.rs:489`. The counter is
taken to run with the clock, as the configuration demands (`config.rs:167`, `:170`), and the
sample to be exact.

A failed `unwrap`, `expect` or assertion is a value of `pc` of its own, so that a property
can say which of them can fail. `content`, `bus` and `returned` record the frames.

### Responder, NodeReceive

`Responder` is the task of `process_request`, an action for each look at a buffer under
its lock, with the two masks it collects. Its requests are those of `RxPriorityFifo`
by what they do to a reader: lines by priority, of which the least urgent is displaced when
they are full; its responses are the response buffer of `TxBuffers`. The task can be
dropped wherever it awaits, its two endpoints one after the other.

`NodeReceive` brings the requests: the controller's two FIFOs and the interrupt; the
receive task, which polls the loop-back channel first (`CheckLoopBack`), registers its
waker (`RegisterWaker`) and then looks into each FIFO (`PopFifo`); and the dispatch of
`poll_push`. `LoopBackStart` and `LoopBackNext` are one critical section each, with
endpoints coming and going in between (`CreateMessageLoopBack`, `DropLoopBack`). `Accepts`
is the buffers' check of the subject, on which the loop-back half relies: it does not mark
heads (`rx_msg.rs:553`), so a push walks over all larger subjects. `owed`, `delivered` and
`strays` are history.

### PrioritySet, MultiClassQueue, IndexQueue, PriorityQueue

The containers are translated by array and link: `MultiClassQueue` is the ring of `next`
and `prev` indices with one head for each class, `unbind` and `move_before` as in the code;
`PriorityQueue` uses the eight-bit arithmetic of `PrioritySet`. Every operation records
its call and its result, and the abstract specifications fix both: the refinements show
that no call ever returns anything else. Calls are made as the receive buffers make them
(`insert` is not called for a key that is there).

## The runs

| Run | Shows | Instance |
|---|---|---|
| `registry` | A frame reaches every subscriber that stays, once, through any arrivals and departures (`DeliversExactlyOnce`); an active subject always passes the filter, whatever stale update is in flight (`FilterCoversActive`); each registration is activated and each stale slot freed, however busy the endpoints are (`ActivationHappens`, `StaleSlotIsFreed`); flags and links are right (`HeadIsFirst`, `LinksMatchFlags`, `CleanUpGapsNonEmpty`) | 5 endpoints of 3 subjects, 2 slots, frames of the subject that has 3 endpoints, fair filter task |
| `registry_over` | **violated**: the driver is asked for a subject beyond its slots | 4 endpoints |
| `reassembly` | Gather implements the documented rules but for malformed repetitions (`ImplementsRulesButRepeats`), and reassembles in place (`BufferIsTransfer`). The newest transfer, by its first frame, is in the slot of a `Watch` or was read last (`NewestWins`); each buffer has one owner and what is read is what was assembled; the reader is woken | Gather: 2 identifiers, any frames; Watch: 2 sources, 1 session, anonymous frames, 2 priorities, three timeouts |
| `gather_rules` | **violated**: Gather implements the documented rules (`ImplementsRules`) | 2 identifiers, any frames |
| `fifo` | Each buffer has one owner and what is read is what was assembled (`ContentIntact`); only least urgent transfers are lost; the reader is woken | 2 sources, 1 session, 2 transfer slots, 2 priorities |
| `fifo_sessions` | The session that is taken over is the oldest, and no transfer is assembled twice within its timeout | 3 sources, 2 sessions, 1 transfer slot |
| `transmit` | Each payload buffer is free, written or sent (`BuffersPartition`); a begun transfer is finished as it is (`BegunGoesOn`) and not mixed with another message of its priority (`NoInterleaving`); queue positions are never stale (`PositionIsCurrent`); neither the driver nor a writer sleeps through what it waits for (`NoLostWakeup`, `WriterIsWoken`); a blocking publisher is served in turn (`EvenService`) | a signal, two blocking publishers that compete for a subject and a responder, 2 priorities, messages of 1 or 2 frames and responses of 2 |
| `link` | What the receiver completes is what was sent, all of it (`DeliveredWasSent`); a transfer whose frames arrive in a row is completed whatever came before (`UndisturbedIsDelivered`); preemption neither loses nor doubles a frame and overflows no queue (`EachFrameInOnePlace`); only preempted frames are written after their deadline (`LateFramesWerePreempted`); only the priority and the two bits without meaning can differ in what a session takes (`OnlyOwnFramesEnter`) | 5 cases of driver, MTU, kind, boundary identifiers and lengths; 2 mailboxes, one fault |
| `native` | No frame is sent twice (`SentOnce`); each leaves, also if the bus takes none (`FramesLeave`); a frame comes back only once it was sent, once, with an instant between its transmission and the reading of its event, and with that of the transmission if a counter tells it that has not wrapped since (`LoopBackTellsTransmission`); of all the unwraps only one can fail, in one way (`PanicOnlyOnLateEvent`); a wake-up is lost in one way only (`LostWakeupOnlyByCancellation`) | 3 mailboxes, 3 priorities; with a counter of 2 values that is one ahead of the clock, 3 frames at 2 instants and 2 frames at 3 instants; with the system clock, 2 frames at 2 instants |
| `service` | The worker neither panics nor oversleeps (`WorkerGoesOn`); a push through the loop-back half reaches the endpoints it is owed to, once, and no other (`LoopBackPushIsExact`); no frame waits for a receive task that sleeps (`ReceiverIsWoken`) | 3 frames of requests, invalid ones, messages and returned messages; 3 loop-back endpoints of 2 subjects; one worker |
| `responder_stuck` | **violated**: a request that has room for its response is not taken | one worker, 2 priorities |
| `queues` | The linked containers are sequences | 3 entries, keys 0 to 3, 2 values, priorities 0, 3 and 7 |

`CHECK_DEADLOCK` is off but in `queues`: with its bounds reached, or after a panic, a
model stops.

### What the violations say

* `registry_over`: `reg_unregister_active_head` (`rx_msg.rs:346`, `:351`) frees a
  slot in the account by the shape of the active tree alone, though an endpoint
  of the subject waits in the inactive tree and will take it again unpaid. The
  registry can then ask for more subjects than there are slots, and
  `add_subject` panics (`emcyphal-stm32-native/src/driver.rs:358`).
* `gather_rules`: the arms of `push_frame` that skip a frame with a repeated toggle bit
  (`gather.rs:204`, `:207`) do not look at its length, which only the arms behind them do. A
  malformed frame in the middle of a transfer leaves the reassembly running if it has the
  toggle bit of the frame before it. `gather.rs:67` says that such a frame stops the reassembly and does not
  participate in further processing.
* `responder_stuck`: with a request of one priority and room for a response of another
  one only, both futures of the `select` of `socket.rs:316` are ready at once, with what
  the masks hold already. The loop goes round for good without suspending: it looks neither
  for requests and room of other priorities nor, since the first future is ready, for the
  room that the bus makes. `socket.rs:233` says that the queues are processed
  independently. Since the loop never yields, no other task of its executor runs either.

### What the models have besides

These are in the models, met while translating the code, and not runs of their own:

* `PanicOnlyOnLateEvent` describes a panic that does happen: a frame whose deadline comes
  while it is on the bus is forgotten with its mailbox (`driver.rs:566`), and the unwrap
  of `driver.rs:486` fails at its transmit event.
* `LostWakeupOnlyByCancellation`: the end of a cancellation raises no interrupt, since
  `TXBCIE` is never written although `tcfe` is enabled (`raw.rs:190`). A frame that waits
  for the mailbox of a cancelled one can sleep through its end, until its deadline, the
  link or another event wakes the task; `FramesLeave` holds all the same.
* A frame that is preempted loses its deadline for good (`LateFramesWerePreempted`,
  `emcyphal-stm32-embassy/driver.rs:244`).
* `reg_unregister_inactive` (`rx_msg.rs:379`) does not give back the slot that
  `reg_register` (`:300`) charged: a program that creates endpoints and drops them before
  the filter task has run ends with `NoSubjectSlotLeft` for good, which `endpoint.rs:72`
  promises for unique subjects in use only.
* With `SN = 0`, allowed by `rx_msg/priority_fifo.rs:18`, `try_start_new_session` unwraps
  the front of an empty queue (`rx_priority_fifo.rs:176`, `watch.rs:263`; `Panics`).
* With the system clock as the source of timestamps, the default, a returned frame has the
  time at which its event was read, and `link.rs:40` says "transmission time for loop-back
  frames"; `config.rs:164` says that the runner task sets it. `LoopBackTellsTransmission`
  asks of it what both allow.
* `CoreNode::poll_pop` (`core_node.rs:79`) looks at responses only when there is no message
  for the mask; `link.rs:73` promises the frame with the highest matching priority.
* `IndexQueue::insert` for a key that is there moves nothing and drops the new value
  (`index_queue.rs:60`); no caller does it. The associated `_ASSERT` constants of the
  containers are never evaluated.

### Bounds

* *Registry.* The choices of the code compare an entry with its neighbours in the
  tree and ask whether it is first or last, first of its subject, and marked.
  Three endpoints of the middle subject give a head, an inner and a last tail; one
  endpoint on either side gives the gaps before, between and behind, and subjects 0
  and `MaxSubject` the ends of the range. Two slots for three subjects make the
  account run out. `MaxFreeSlots` is a cap in the guard of the steps that add to
  the account, one above the slots the driver has, so that an account that has
  gone wrong upwards is in the runs. Only frames of the middle subject come
  (`MCNext`): a push of another subject is due to one endpoint at most, and no step
  of the rest looks at what frame is pushed.
* *Gather.* `reassembly` runs a session and a `Watch`, which share nothing, each while the
  other one stays where it begins. Two identifiers, as the code only asks "the same or another"; parts
  accumulate to `MaxAcc` = 4 (a transfer with both parities twice); `Timeout` = 1
  over instants 0 to 2 has frames before, at and after the timeout.
* *Fifo.* One session for two sources makes them compete for it; two transfer
  slots and two priorities give every case of displacement. `fifo_sessions` has
  one priority and no reader: it is about the order of three sources over three
  timeouts.
* *Watch.* A transfer of two frames that another node's, or an anonymous one, overtakes,
  is there with one session and anonymous frames; the second source takes the session
  over.
* *Transmit.* The publishers share a priority, so
  that they compete for its lists, and two of them a subject, for which one is refused;
  the responder has a more urgent priority as well, so
  that its entry changes lists while it is queued. Two frames are a transfer that is
  begun and not finished; a third is another frame in the middle. The driver asks
  for both priorities or for the urgent one only, which leaves ready entries that a
  poll must not wake for.
* *Link.* The lengths are those at which a transfer no longer fits a frame, the CRC is
  split between two, and padding appears, and a transfer without data; identifiers are at the bounds of their fields.
  Two mailboxes are fewer than the hardware's three, so that the urgent frame preempts
  with two frames under way. One fault (`MaxFaults`) is a frame lost, repeated or
  strange; `StrangeBits` has a bit of each field at least, the flags and the
  reserved places. Instants 0 to 2 lie before, at and after the deadlines.
* *Native.* Three frames and three mailboxes, as in the hardware: the most urgent frame of
  three priorities can find the two others on the bus and cancelled. `EventMax` is the
  hardware's depth. The run begins in three states that
  `Spec` reaches with nothing queued (`MCInit`), each with a part of the frames and instants
  of the bounds left, since all of them together are too many states. `CounterRange` = 2
  makes the counter wrap between the instants; with three of them an event is also read a
  full turn of the counter after the transmission, with two frames, of which the urgent one
  preempts the other.
* *Service.* Two FIFO places, three frames, two subjects with an entry of a larger one
  behind the subject's two; one slot for requests, so that they displace each other.
* *Queues.* Three entries have a first, an inner and a last one, and one that is alone;
  one key more than entries fills the index. The state space is complete.

### Fairness

`SubjectRegistry` assumes weak fairness of the filter task's poll and of the application
of an update, and of nothing else (`FairSpec`, `MCSpec`). A poll is enabled while the task
is runnable,
which it is from its start and after each wake: an executor polls a woken task, and
applying an update is straight-line code in the runner. Endpoints and frames are
never obliged to happen. The properties hold while the endpoints never rest,
since clean-ups and activations are served in order and each head can be queued
for a clean-up only by a removal that follows an activation.

`FairSpec` of `TxPath` assumes that the executor polls a woken task (`Resume`), that a
poll comes to its end, and that the driver does not wait for ever with some
priorities only (`GiveUp`) and asks for each priority again and again: it keeps one
frame of each priority, which leaves on transmission or at its deadline
(`stm32-native/driver.rs:505`-`571`). Nothing is assumed of publishers. `EvenService` is
stated for the most urgent messages only: less urgent ones can be starved by design.

`FairSpec` of `NativeTx` (`MCSpec` in the run) assumes that tasks are run, interrupts served and that time goes
on; the receive task takes what is returned. Nothing is assumed of the bus. The task's
deadline wakes it through the timer, which is why `FramesLeave` holds in spite of the lost
wake-up. `Spec` of `Responder` assumes that the executor runs the task, that its handle
returns, and that the frames of a response are fetched for each priority: with all
that, the worker still does not take the request.

## What is proved

Every theorem is about the component's specification with its constants left open: any
number of endpoints, sources, sessions, slots, mailboxes, frames and instants that the
module's assumption allows, not the instance of a run. `tlapm` checks each module by
itself.

| Module | Theorem | States |
|---|---|---|
| `SubjectRegistryProofs` | `InductiveInvariant` | `Spec => []IInv` |
| | `TypeCorrect` | `Spec => []TypeOK` |
| | `HeadsDelimitSubjects` | `Spec => [](TreeInOrder /\ HeadIsFirst)` |
| | `CursorsAreSafe` | `Spec => []LinksMatchFlags`: the unchecked cursors of `reg_unregister` are to the list the entry is in |
| | `CleanUpsAreRanges` | `Spec => []CleanUpGapsNonEmpty`: `prev_subject` and `next_subject` never fail and a range is never empty |
| | `FilterInvariant`, `FilterCoversSubscribers` | `Spec => []FilterCoversActive`: an active subject passes the driver's filter whatever update is in flight |
| | `StaleSlotsAreScheduled` | `Spec => []StaleSlotIsScheduled`: no slot is forgotten |
| | `DeliversOnce` | `Spec => DeliversExactlyOnce`, an action property: a push reaches each endpoint that stays, once |
| `ReassemblyProofs` | `SessionInvariant`, `ReassemblesInPlace` | `SessionSpec => []BufferIsTransfer` |
| | `RulesAreImplementedButRepeats` | `SessionSpec => ImplementsRulesButRepeats`: the refinement of `GatherRules`, step by step, with malformed repetitions as the only exception |
| | `InductiveInvariant`, `NothingAliases` | `Spec => []ContentIntact` of `Watch` |
| | `NewestIsKept`, `ReaderIsWoken` | `Spec => []NewestWins`, `Spec => []NoLostWakeup` |
| `RxPriorityFifoProofs` | `InductiveInvariant`, `NothingAliases` | `Spec => []ContentIntact`: one owner for each buffer, and its content |
| | `LeastUrgentIsLost`, `ReaderIsWoken` | `Spec => []LosesLeastUrgent`, `Spec => []NoLostWakeup` |
| | `FrontIsOldest` | `Spec => []OldestSessionFirst` |
| | `AssembledOnce` | `Spec => []AtMostOncePerTimeout` |
| `NativeTxProofs` | `InductiveInvariant`, `SendsOnce` | `Spec => []SentOnce` |
| | `PanicsOnlyOnLateEvent` | `Spec => []PanicOnlyOnLateEvent` |
| | `LoopBackIsTrue` | `Spec => []LoopBackTellsTransmission`: for the system clock and for any range and offset of a counter |
| | `WakesUnlessCancelled` | `Spec => []LostWakeupOnlyByCancellation` |
| `NodeReceiveProofs` | `InductiveInvariant`, `ReceiverWakes` | `NodeSpec => []ReceiverIsWoken` |
| | `LoopBackIsExact` | `NodeSpec => []LoopBackPushIsExact` |
| | `WorkerNeverStalls` | `NodeSpec => []WorkerGoesOn` |
| `TransmitProofs` | `InductiveInvariant` | `Spec => []IInv`, of `TxPath` |
| | `PayloadsArePartitioned` | `Spec => []BuffersPartition` |
| | `QueuesAreCurrent` | `Spec => []PositionIsCurrent`: a queue never offers an entry that has no frame of its priority |
| | `MessagesAreNotMixed` | `Spec => []NoInterleaving` |
| | `DriverIsWoken`, `WritersAreWoken` | `Spec => []NoLostWakeup`, `Spec => []WriterIsWoken` |
| | `BegunTransfersGoOn` | `Spec => BegunGoesOn`, an action property: the payload of a begun transfer is neither replaced nor written |
| | `LinkInvariant` | `LinkSpec => []LinkIInv`, of `TransferLink` |
| | `FramesHaveOnePlace` | `LinkSpec => []EachFrameInOnePlace`: no frame is lost or doubled by preemption, no queue overflows, no frame has padding behind its CRC |
| | `LateFramesComeBack` | `LinkSpec => []LateFramesWerePreempted` |
| | `DeliveriesWereSent` | `LinkSpec => []DeliveredWasSent`: Gather completes what Scatter made, or nothing |
| | `UndisturbedTransfersComplete` | `LinkSpec => []UndisturbedIsDelivered`: Gather completes all that Scatter made, if it comes in a row |

### The arguments

*Subject registry.* `IInv` is the conjunction of `TypeOK`, `TreeInOrder`, `HeadIsFirst`,
`LinksMatchFlags`, `CleanUpGapsNonEmpty`, `PushPtrActive` and `UpdateInHand`. None
of them is inductive alone. The head flag moves to the successor of a removed
head, which keeps `HeadIsFirst` only in an ordered tree; the clean-up mark moves
with it, and that it marks a nonempty gap needs `HeadIsFirst` (a tail has no gap in
front of it). `TypeOK` needs the gaps: `LastCleanUp` is a subject only if the gap in
front of the head is not empty. On top of it stand two more invariants. `FilterInv` adds
to `FilterCoversActive` that each slot has an active subscriber or lies in a gap that is
marked, or in the range in hand: the range that is removed has no active subject, since
a gap is between neighbours in the tree, and no other subject is activated while the
driver has the update in hand. `PushInOrder` says that what was delivered lies in front of
`next_push_ptr` and what is owed at it or behind it; removals keep the order of the rest,
and a new endpoint of the subject goes behind all that are there.

*Gather.* What a state says of the other fields (`FieldsMatchState`) and that what is
accumulated is what the buffer begins with (`InBuffer`) are kept by `push_frame` for any
frame. For the refinement a step of the code is matched with the rules arm by arm: the
reassembly and the timer that the rules have for the code's one identifier are the code's,
and those of each other identifier are stopped or have timed out. The arms that skip a
repetition are matched with rule 9, or with the exception (`IsMalformedRepeat`) if the frame is malformed;
in all other arms the frame is shown not to be one of the exception.

*Receive buffers.* Both proofs share `SessionLemmas`: starting a session, taking one over
and leaving one with another buffer keep a table in which each session is in the order once
and assembles in a buffer of its own (`IsSound`), and keep the order of the instants
(`InOrder`). The invariant then says who has which buffer: of the `SN + TN + 1` buffers of
a queue the sessions, begun or not, have `SN`, the reader one, and the others
are queued or free (`IsStock`), each once. It follows that with no free buffer a transfer is
queued, so that `Displaced` is the maximum of a set that is not empty; that displacing and
popping keep the partition; and that what is queued stays what it was, since the session
that writes has another buffer. For `AtMostOncePerTimeout` the invariant keeps, for each
source, that its session remembers the last transfer, or that its timeout is over and what
is assembled began later (`IsReport`): a take-over, which forgets, happens after the
timeout only (`Expired`).

*Native transmission.* The invariant relates, for each place of the task's loop, the
controller's mailboxes and events to `pending_frames`: a mailbox that is pending, or has an
event not read yet, holds the frame the task believes it does, or one that is late
(`HoldsInv`); identifiers are unique, a queued frame that was sent has its event
(`SentInv`), an event has the counter of the time of its own frame (`EventInv`), from which arithmetic on
remainders (`OffsetIsTakenOff`, `TimestampOfCounter`) gives the instant told. All the values of `pc`
that stand for a panic are excluded by `TurnInv` but the one of `PanicOnlyOnLateEvent`.
The event FIFO does not overflow since a mailbox has one event at most and there are no
more mailboxes than places.

*Receive task, loop-back registry, responder.* Three invariants side by side: what has
woken the task or will, at each point behind the check of a source of frames (`RxInv`);
the order of the entries around `next_push_ptr` (`LoopBackInv`); and the account of the
response buffer, whose free payload buffers are as many as the priorities with room, with
the room and the sleep of the task (`WorkerInv`). The room that a worker has seen stays,
because only the worker takes it.

*Transmit path.* `IInv` says of each entry that what the registry keeps is what the buffer
says (`EntryIsGood`): the priorities it has begun are those of the buffer's begun
transfers, its mark is the position that buffer has, and what its writer waits for is not
there. `InLists` says of both hubs that an entry is in the list of its mark, once, and in no
other. These two make the front of a list an entry that has a frame, so that `hub_poll_pop`
never stops at an entry that yields none; and they depend on each other, as `MarkAfter` moves
an entry by what `TryPop` left in the buffer. `NotMixed` needs the lists as well: a
transfer of a message is begun only when the list of begun transfers of its priority is
empty, hence when no other entry has begun one. `DriverIsGood` has the
entries the driver has looked past: while it is not woken none of them is in a list of its
mask, which is kept because each move to such a list fires the waker. `NoLostWakeup` and
`WriterIsWoken` follow with the buffer's own outcome (`TryPop`, `Push`, `GetScratchpad`).

*Transmit task and link.* The queues are shown not to overflow by counting. A frame is
fetched only when there is none of its priority in its queue (`FetchMask`), so that all that are
queued but the last have come back from mailboxes: the invariant `TaskInv` bounds the frames
of a priority in queue and mailboxes *together* by `BoxCount + 1`, the depth of the queue. It
also says that only the last frame of a queue can have a deadline to meet and the others were
preempted (`IsQueue`), from which `LateFramesWerePreempted` follows, and that a queue whose deadline is
not `Never` is not empty, which the unwrap of the first arm relies on. `PlacesInv` is that the four places
partition what was fetched. For Scatter, `IsScatter` and `IsFrameData` keep that the offset
is in the payload or behind it, and what the first, the last and every other frame of a transfer has, from arithmetic on
data lengths (`NewCeil`, `NewFloor`) for any length. For the receiver `IsBegun` says that the
first part a session has accumulated is that of the first frame of a transfer with its
identifier, that arrived at the session's timestamp. Nothing of the kind holds of the parts behind it: they may be of
another transfer with the same identifier, or repeated, and that what is completed is whole is
what `CrcMatches` says of an accumulation, as a lemma (`CrcTellsTransfer`).

The converse, `UndisturbedIsDelivered`, needs to know each frame of a transfer and not only what
the last and the first have. `Cut` is the closed form of Scatter's offset behind `k` frames and
`ScatterAt` that of its state; `ScatterInv` says that each Scatter is at its closed form, and
`SegmentAt`, that the frame it returns there has the bytes from one cut to the next. The CRC of
all of them in a row is right (`AllPartsMatch`), because the cuts ascend and cover the payload.
`ProgressInv` is about every run of frames that has arrived undisturbed: its transfer has been
completed, or there are more frames to it, and if the run is the last that arrived the session
has exactly its parts (`IsAt`). A first frame brings the session there from every
state (`FirstArrives`), or finds the transfer completed already; a repeated frame changes
nothing (`FrameRepeats`), because its toggle is the old one; the next frame is appended or
completes the transfer (`NextArrives`).

Before its proof each invariant was checked by TLC on the instance of the component's run.

### The assumptions

TLC evaluates the named `ASSUME`s in the runs. They say:

* `ConstantsAssumption` (`SubjectRegistry`): the endpoints' subjects are in
  `0 .. MaxSubject`, the cap of the account is not below the slots there are, and there is
  a value that is no endpoint.
* `SessionAssumption`, `SessionsAssumption`, `FifoAssumption`, `WatchAssumption`:
  instants, timeouts and numbers of slots are naturals, there is one transfer slot at least
  in a queue (`_ASSERT_MIN_TN`, `rx_priority_fifo.rs:45`), a priority of a queue is one of
  eight, the sources of frames are those of the buffer or the anonymous one, and the value
  of an unset `Option` is no other value. `SN = 0` is allowed: the theorems hold up to the
  panic.
* `NativeAssumption`: three mailboxes or more, for each of which the event FIFO has a
  place (`TX_FIFO_MAX` and `TX_EVENT_MAX` are 3, `message_ram/mod.rs:14`, `:16`); a counter
  of one value at least, and offsets that are values of it, or none.
* `ResponderAssumption`, `NodeReceiveAssumption`: lengths and subjects are naturals, a
  request has a priority of the worker's, and again that `None` is no other value.

* `TxBuffersAssumption`, `TxPathAssumption`: priorities are a finite set of naturals, each
  publisher has one of them, a transfer has a frame at least, the driver asks for some
  priority, and `None` is no other value.
* `LinkAssumption`: times, lengths and the number of mailboxes are naturals, the MTU is one
  of the two, `NoPart` is no payload and `None` no transfer. Its other conjuncts are about identifiers, whose bits
  are sums that TLC computes and the prover does not: that a header is what is decoded from
  its own identifier, that a frame of the other port, with one bit changed or none,
  is not taken for one of the session's, and that a changed bit outside the priority does not change
  it, and one of the priority gives a natural. They concern the given headers only and TLC evaluates them for the five cases of
  the run, both drivers among them.

Nothing is assumed of Gather's `CrcMatches`, nor of how many sources, endpoints and frames there
are; `MaxTime` and the other bounds of the runs stay open.

### Only model-checked

* *Liveness* (`ActivationHappens`, `StaleSlotIsFreed`, `EvenService`, `FramesLeave`):
  fairness and ENABLED are out of the prover's reach. The safety half of
  `StaleSlotIsFreed` is `StaleSlotsAreScheduled`.
* *`OnlyOwnFramesEnter`*: for given headers it is a computation on the bits of identifiers.
* *`BufferQueues`*, whose `PrioritySet` is on the bits of `Bitwise`, which the prover's
  modules cannot use, and the identifiers of `CanId`.
* *Induction over data*, which the prover does not do; no module declares a RECURSIVE
  operator.

## What is not modelled yet, and the plan

Not modelled, and why:

* *Starting and stopping a driver* (`Driver::new`, `start`, `InfoRef`, and the tasks'
  `Drop`): the models have the tasks of one driver that runs. Two things met in the
  code wait for this: `destination_added` of `CoreNode` and the loop-back channel are not
  reset when a driver is created anew, and `TxRunner::run` that is dropped and called
  again forgets what is in its mailboxes (`driver.rs:470`).
* *The filter of destinations*, in the drivers one register, and the filter task of the
  Embassy driver, which has the shape of the native one.
* *A frame without a source in the Embassy driver*, which it drops
  (`emcyphal-stm32-embassy/driver.rs:231`): `CoreNode` hands none out, so the frames of
  `EmbassyTx` have one. `NativeTx` has that branch (`FetchFrame`).
* *The timestamps of received frames* (`emcyphal-stm32-native/driver.rs:423`): `NodeReceive`
  carries none. They are made like those of `EventTimestamp`; the models of the receive
  buffers are given instants that do not decrease, which those of one FIFO do not unless the
  counter wraps before a frame is read.
* *The heartbeat and time tasks* of the minimal node: a publisher on a timer.
* *Register and message RAM layouts, bit timing, configuration, encodings of data
  types, logging, examples*: no protocol state.

Abstracted throughout: bytes of payloads and CRC arithmetic (parts, intervals and a
predicate stand for them); truncation of payloads
longer than a buffer; the red-black trees and intrusive entry lists (sequences and sets
stand for them); the saturation of instants.

What is left to do: a proof of the refinements of `BufferQueues`, for which the sets of
priorities would have to be modelled without the bit operators of a library; and models of
the life cycle of a driver and of the destination filter.
