--------------------------- MODULE NodeReceiveProofs ---------------------------
(***************************************************************************)
(* Theorems about NodeReceive, for any frames, priorities and endpoints:   *)
(* the receive task is woken for each frame, the loop-back half of the     *)
(* subject registry delivers each returned message exactly, and the worker *)
(* behind the request registry goes on.                                    *)
(***************************************************************************)
EXTENDS NodeReceive, SequenceLemmas, FiniteSetTheorems

-----------------------------------------------------------------------------
(* The invariant of the receive task.                                       *)

RxPcs == {"loop-back", "register", "fifo 0", "fifo 1", "asleep", "push",
          "loop-back push"}

RxTypeOK ==
    /\ fifos \in [Fifos -> Seq(Frames)]
    /\ rx_interrupt \in BOOLEAN /\ loop_back_waker \in BOOLEAN
    /\ rx_waker \in BOOLEAN /\ rx_woken \in BOOLEAN
    /\ loop_back \in LoopBackFrames \cup {None}
    /\ rx_pc \in RxPcs
    /\ frame \in Frames \cup LoopBackFrames \cup {None}
    /\ rx_pc \in {"push", "loop-back push"} => frame # None

\* Past the channel, a frame in it has woken the task, or its waker is there.
ChannelWatched ==
    rx_pc \in {"register", "fifo 0", "fifo 1", "asleep"} /\ ~ rx_woken
        => loop_back = None /\ loop_back_waker

\* Past its registration, the task is known to the interrupt, or was woken by it.
InterruptWatched ==
    rx_pc \in {"fifo 0", "fifo 1", "asleep"} => rx_woken \/ rx_waker

\* Behind a FIFO, frames that came since have raised the interrupt.
FifosWatched ==
    ~ rx_woken =>
        /\ rx_pc \in {"fifo 1", "asleep"} => rx_interrupt \/ fifos[0] = << >>
        /\ rx_pc = "asleep" => rx_interrupt \/ fifos[1] = << >>

RxInv == RxTypeOK /\ ChannelWatched /\ InterruptWatched /\ FifosWatched

-----------------------------------------------------------------------------
(* The invariant of the loop-back half of the registry.                     *)

\* The entries are distinct, and sorted by subject.
IsTree(t) ==
    /\ t \in Seq(Entries)
    /\ \A i, j \in 1 .. Len(t) :
           i < j => t[i] # t[j] /\ SubjectOf[t[i]] <= SubjectOf[t[j]]

TreeInv == IsTree(entry_tree)

\* Where an entry is.
Pos(t, e) == CHOOSE i \in DOMAIN t : t[i] = e

\* A push is at an entry only while a returned message is pushed.
PushPtrInv ==
    /\ next_push_ptr \in ToSet(entry_tree) \cup {None}
    /\ next_push_ptr # None => rx_pc = "loop-back push"
    /\ rx_pc = "loop-back push" => frame.kind = "message"

\* What is due is of the frame's subject; it was delivered before the pointer, and is
\* missing at the pointer or behind it.
ProgressInv ==
    /\ strays = {}
    /\ rx_pc # "loop-back push" => owed \subseteq delivered
    /\ rx_pc = "loop-back push" =>
        /\ \A e \in delivered :
               /\ e \in ToSet(entry_tree)
               /\ next_push_ptr # None => Pos(entry_tree, e) < Pos(entry_tree, next_push_ptr)
        /\ \A e \in owed :
               e \in ToSet(entry_tree) /\ SubjectOf[e] = frame.port
        /\ \A e \in owed \ delivered :
               next_push_ptr # None /\ Pos(entry_tree, next_push_ptr) <= Pos(entry_tree, e)

LoopBackInv == TreeInv /\ PushPtrInv /\ ProgressInv

-----------------------------------------------------------------------------
(* The invariant of the worker.                                             *)

Transfers == [buffer_idx : Nat, frames : Lengths, sent : Nat]

\* The response buffer has a free payload buffer for each priority it has room at.
ResponseBufferInv ==
    /\ responses \in [kind : {"Response"}, transfers : [Priorities -> Transfers \cup {None}],
                      scratchpad : {None}, free : Seq(Nat)]
    /\ Len(responses.free) = Cardinality(Room)

\* Room that the task has seen is still there.
RoomInv ==
    /\ pc # "panicked"
    /\ pc \in {"select", "select responses", "pop"} => resp_priorities \subseteq Room
    /\ pc = "handle" => priority \in Room

\* A task that waits has left its waker.
SleepInv ==
    /\ asleep \in BOOLEAN /\ woken \in BOOLEAN
    /\ asleep => pc \in {"requests", "responses", "select"}
    /\ asleep /\ ~ woken =>
        /\ pc = "requests" => req_filter = Priorities /\ Readiness = {}
        /\ pc = "responses" => resp_filter = Priorities /\ Room = {}

WorkerInv == ResponseBufferInv /\ RoomInv /\ SleepInv

Inv == RxInv /\ LoopBackInv /\ WorkerInv

-----------------------------------------------------------------------------
(* The receive task is woken.                                               *)

\* Taking the first frame with a readable header from a FIFO, and dropping those before.
LEMMA PopFifoEffect ==
    ASSUME RxTypeOK, NEW n \in Fifos, PopFifo(n)
    PROVE  /\ fifos' \in [Fifos -> Seq(Frames)]
           /\ rx_pc = FifoPc(n)
           /\ \A m \in Fifos : m # n => fifos'[m] = fifos[m]
           /\ \/ /\ fifos'[n] = << >>
                 /\ rx_pc' = NextFifo(n)
                 /\ frame' = frame
              \/ /\ rx_pc' = "push"
                 /\ frame' \in Frames
<1> DEFINE seq == fifos[n]
           valid == {i \in DOMAIN seq : seq[i].kind # "invalid"}
           rest == IF valid = {} THEN << >> ELSE SubSeq(seq, Min(valid) + 1, Len(seq))
<1>1. seq \in Seq(Frames)
  BY DEF RxTypeOK
<1>2. /\ rx_pc = FifoPc(n)
      /\ fifos' = [fifos EXCEPT ![n] = rest]
      /\ IF valid = {} THEN rx_pc' = NextFifo(n) /\ frame' = frame
                       ELSE frame' = seq[Min(valid)] /\ rx_pc' = "push"
  BY DEF PopFifo, Take
<1>3. /\ Len(seq) \in Nat
      /\ DOMAIN seq = 1 .. Len(seq)
      /\ \A i \in 1 .. Len(seq) : seq[i] \in Frames
  BY <1>1, LenProperties, ElementOfSeq
<1>4. valid \subseteq Nat /\ valid \subseteq 1 .. Len(seq)
  BY <1>3
<1> HIDE DEF valid
<1>5. valid # {} => Min(valid) \in 1 .. Len(seq)
  BY <1>4, MinIsLeast
<1>6. rest \in Seq(Frames)
  <2>1. CASE valid = {}
    BY <2>1
  <2>2. CASE valid # {}
    <3>1. \A i \in Min(valid) + 1 .. Len(seq) : seq[i] \in Frames
      BY <1>3, <1>5, <2>2
    <3>2. Min(valid) + 1 \in Int /\ Len(seq) \in Int
      BY <1>3, <1>5, <2>2
    <3>3. SubSeq(seq, Min(valid) + 1, Len(seq)) \in Seq(Frames)
      BY <3>1, <3>2, SubSeqProperties
    <3>4. QED
      BY <2>2, <3>3
  <2>3. QED
    BY <2>1, <2>2
<1>7. valid = {} => rest = << >>
  OBVIOUS
<1> HIDE DEF rest
<1>8. /\ fifos' \in [Fifos -> Seq(Frames)]
      /\ fifos'[n] = rest
      /\ \A m \in Fifos : m # n => fifos'[m] = fifos[m]
  BY <1>2, <1>6 DEF RxTypeOK
<1>9. QED
  BY <1>2, <1>3, <1>5, <1>7, <1>8

\* The steps of the task that neither wait nor take a frame, and those of others.
LEMMA RxQuiet ==
    ASSUME RxInv, UNCHANGED << hwVars, infoVars, rxVars >>
    PROVE  RxInv'
<1>1. UNCHANGED << fifos, rx_interrupt, loop_back, loop_back_waker, rx_waker, rx_pc,
                   rx_woken, frame >>
  BY DEF hwVars, infoVars, rxVars
<1>2. RxTypeOK'
  BY <1>1 DEF RxInv, RxTypeOK
<1>3. ChannelWatched' /\ InterruptWatched' /\ FifosWatched'
  BY <1>1 DEF RxInv, ChannelWatched, InterruptWatched, FifosWatched
<1>4. QED
  BY <1>2, <1>3 DEF RxInv

\* While it pushes, the task keeps the frame until it is done with it.
LEMMA RxPushes ==
    ASSUME RxInv, UNCHANGED << hwVars, infoVars, rx_woken >>,
           \/ Done
           \/ rx_pc' = "loop-back push" /\ frame' = frame /\ frame # None
    PROVE  RxInv'
<1>1. UNCHANGED << fifos, rx_interrupt, loop_back, loop_back_waker, rx_waker, rx_woken >>
  BY DEF hwVars, infoVars
<1>2. /\ rx_pc' \in {"loop-back", "loop-back push"}
      /\ frame' \in Frames \cup LoopBackFrames \cup {None}
      /\ rx_pc' = "loop-back push" => frame' # None
  BY DEF Done, RxInv, RxTypeOK
<1>3. RxTypeOK'
  BY <1>1, <1>2 DEF RxInv, RxTypeOK, RxPcs
<1>4. ChannelWatched' /\ InterruptWatched' /\ FifosWatched'
  BY <1>2 DEF ChannelWatched, InterruptWatched, FifosWatched
<1>5. QED
  BY <1>3, <1>4 DEF RxInv

\* A frame from the bus: the interrupt is raised.
LEMMA ReceiveKeepsRx ==
    ASSUME RxInv, NEW f \in Frames, Receive(f)
    PROVE  RxInv'
<1>1. /\ fifos' = [fifos EXCEPT ![FifoOf(f)] = IF Len(@) = FifoMax THEN @ ELSE Append(@, f)]
      /\ rx_interrupt' = TRUE
      /\ UNCHANGED << loop_back, loop_back_waker, rx_waker, rx_pc, rx_woken, frame >>
  BY DEF Receive, infoVars, rxVars
<1>2. fifos' \in [Fifos -> Seq(Frames)]
  <2>1. FifoOf(f) \in Fifos
    BY DEF FifoOf, Fifos
  <2>2. fifos[FifoOf(f)] \in Seq(Frames)
    BY <2>1 DEF RxInv, RxTypeOK
  <2>3. Append(fifos[FifoOf(f)], f) \in Seq(Frames)
    BY <2>2, AppendProperties
  <2>4. QED
    BY <1>1, <2>2, <2>3 DEF RxInv, RxTypeOK
<1>3. RxTypeOK'
  BY <1>1, <1>2 DEF RxInv, RxTypeOK
<1>4. ChannelWatched' /\ InterruptWatched' /\ FifosWatched'
  BY <1>1 DEF RxInv, ChannelWatched, InterruptWatched, FifosWatched
<1>5. QED
  BY <1>3, <1>4 DEF RxInv

\* The interrupt wakes the task, if it has registered.
LEMMA OnInterruptKeepsRx ==
    ASSUME RxInv, OnInterrupt
    PROVE  RxInv'
<1>1. /\ rx_interrupt' = FALSE
      /\ rx_woken' = (rx_woken \/ rx_waker)
      /\ rx_waker' = FALSE
      /\ UNCHANGED << fifos, loop_back, loop_back_waker, rx_pc, frame >>
  BY DEF OnInterrupt
<1>2. RxTypeOK'
  BY <1>1 DEF RxInv, RxTypeOK
<1>3. ChannelWatched' /\ InterruptWatched' /\ FifosWatched'
  BY <1>1 DEF RxInv, ChannelWatched, InterruptWatched, FifosWatched
<1>4. QED
  BY <1>2, <1>3 DEF RxInv

\* So does a frame in the channel.
LEMMA ReturnFrameKeepsRx ==
    ASSUME RxInv, NEW f \in LoopBackFrames, ReturnFrame(f)
    PROVE  RxInv'
<1>1. /\ loop_back' = f
      /\ rx_woken' = (rx_woken \/ loop_back_waker)
      /\ loop_back_waker' = FALSE
      /\ UNCHANGED << fifos, rx_interrupt, rx_waker, rx_pc, frame >>
  BY DEF ReturnFrame, hwVars
<1>2. RxTypeOK'
  BY <1>1 DEF RxInv, RxTypeOK
<1>3. ChannelWatched' /\ InterruptWatched' /\ FifosWatched'
  BY <1>1 DEF RxInv, RxTypeOK, ChannelWatched, InterruptWatched, FifosWatched
<1>4. QED
  BY <1>2, <1>3 DEF RxInv

\* The steps in which the task waits.
LEMMA WaitingKeepsRx ==
    ASSUME RxInv, CheckLoopBack \/ RegisterWaker \/ Wake
    PROVE  RxInv'
<1>1. CASE CheckLoopBack
  <2>1. /\ loop_back' = None
        /\ UNCHANGED << fifos, rx_interrupt, rx_waker, rx_woken >>
        /\ \/ /\ rx_pc' = "push" /\ frame' = loop_back /\ frame' # None
              /\ loop_back_waker' = loop_back_waker
           \/ /\ rx_pc' = "register" /\ frame' = frame
              /\ loop_back_waker' = TRUE
    BY <1>1 DEF CheckLoopBack, Take, hwVars
  <2>2. RxTypeOK'
    BY <2>1 DEF RxInv, RxTypeOK, RxPcs
  <2>3. ChannelWatched' /\ InterruptWatched' /\ FifosWatched'
    BY <2>1 DEF ChannelWatched, InterruptWatched, FifosWatched
  <2>4. QED
    BY <2>2, <2>3 DEF RxInv
<1>2. CASE RegisterWaker
  <2>1. /\ rx_pc = "register" /\ rx_pc' = "fifo 0" /\ rx_waker' = TRUE
        /\ UNCHANGED << fifos, rx_interrupt, loop_back, loop_back_waker, rx_woken, frame >>
    BY <1>2 DEF RegisterWaker, hwVars
  <2>2. RxTypeOK'
    BY <2>1 DEF RxInv, RxTypeOK, RxPcs
  <2>3. ChannelWatched' /\ InterruptWatched' /\ FifosWatched'
    BY <2>1 DEF RxInv, ChannelWatched, InterruptWatched, FifosWatched
  <2>4. QED
    BY <2>2, <2>3 DEF RxInv
<1>3. CASE Wake
  <2>1. /\ rx_pc' = "loop-back" /\ rx_woken' = FALSE
        /\ UNCHANGED << fifos, rx_interrupt, loop_back, loop_back_waker, rx_waker, frame >>
    BY <1>3 DEF Wake, hwVars, infoVars
  <2>2. RxTypeOK'
    BY <2>1 DEF RxInv, RxTypeOK, RxPcs
  <2>3. ChannelWatched' /\ InterruptWatched' /\ FifosWatched'
    BY <2>1 DEF ChannelWatched, InterruptWatched, FifosWatched
  <2>4. QED
    BY <2>2, <2>3 DEF RxInv
<1>4. QED
  BY <1>1, <1>2, <1>3

\* A FIFO without a frame for the node is empty afterwards.
LEMMA PopFifoKeepsRx ==
    ASSUME RxInv, NEW n \in Fifos, PopFifo(n)
    PROVE  RxInv'
<1>1. /\ fifos' \in [Fifos -> Seq(Frames)]
      /\ rx_pc = FifoPc(n)
      /\ \A m \in Fifos : m # n => fifos'[m] = fifos[m]
      /\ \/ /\ fifos'[n] = << >>
            /\ rx_pc' = NextFifo(n)
            /\ frame' = frame
         \/ /\ rx_pc' = "push"
            /\ frame' \in Frames
  BY PopFifoEffect DEF RxInv
<1>2. UNCHANGED << rx_interrupt, loop_back, loop_back_waker, rx_waker, rx_woken >>
  BY DEF PopFifo, infoVars
<1>3. RxTypeOK'
  BY <1>1, <1>2, NodeReceiveAssumption DEF RxInv, RxTypeOK, RxPcs, NextFifo
<1>4. ChannelWatched' /\ InterruptWatched'
  BY <1>1, <1>2 DEF RxInv, ChannelWatched, InterruptWatched, NextFifo, FifoPc
<1>5. FifosWatched'
  <2>1. n = 0 \/ n = 1
    BY DEF Fifos
  <2>2. CASE rx_pc' = "push"
    BY <2>2 DEF FifosWatched
  <2>3. CASE n = 0 /\ rx_pc' # "push"
    BY <1>1, <2>3 DEF FifosWatched, NextFifo
  <2>4. CASE n = 1 /\ rx_pc' # "push"
    <3>1. /\ rx_pc = "fifo 1" /\ rx_pc' = "asleep"
          /\ fifos'[1] = << >> /\ fifos'[0] = fifos[0]
      <4>1. 0 \in Fifos /\ 0 # n
        BY <2>4 DEF Fifos
      <4>2. fifos'[0] = fifos[0]
        BY <1>1, <4>1
      <4>3. /\ rx_pc = FifoPc(n)
            /\ fifos'[n] = << >> /\ rx_pc' = NextFifo(n)
        BY <1>1, <2>4
      <4>4. NextFifo(1) = "asleep" /\ FifoPc(1) = "fifo 1"
        BY DEF NextFifo, FifoPc
      <4>5. n = 1
        BY <2>4
      <4>6. QED
        BY <4>2, <4>3, <4>4, <4>5
    <3>2. QED
      BY <1>2, <3>1 DEF RxInv, FifosWatched
  <2>5. QED
    BY <2>1, <2>2, <2>3, <2>4
<1>6. QED
  BY <1>3, <1>4, <1>5 DEF RxInv

LEMMA NextRxInv == RxInv /\ [Next]_vars => RxInv'
<1> SUFFICES ASSUME RxInv, [Next]_vars
             PROVE  RxInv'
  OBVIOUS
<1>1. CASE Bus
  BY <1>1, ReceiveKeepsRx, ReturnFrameKeepsRx DEF Bus
<1>2. CASE OnInterrupt
  BY <1>2, OnInterruptKeepsRx
<1>3. CASE ReceiveTask
  <2>1. CASE CheckLoopBack \/ RegisterWaker \/ Wake
    BY <2>1, WaitingKeepsRx
  <2>2. CASE \E n \in Fifos : PopFifo(n)
    BY <2>2, PopFifoKeepsRx
  <2>3. CASE PushOwnRequest \/ Ignore
    BY <2>3, RxPushes DEF PushOwnRequest, Ignore
  <2>4. CASE LoopBackStart
    <3>1. frame # None
      BY <2>4 DEF LoopBackStart, RxInv, RxTypeOK
    <3>2. /\ UNCHANGED << hwVars, infoVars, rx_woken >>
          /\ Done \/ (rx_pc' = "loop-back push" /\ frame' = frame)
      BY <2>4, Zenon DEF LoopBackStart
    <3>3. QED
      BY <3>1, <3>2, RxPushes
  <2>5. CASE LoopBackNext
    <3>1. frame # None /\ rx_pc = "loop-back push"
      BY <2>5 DEF LoopBackNext, RxInv, RxTypeOK
    <3>2. /\ UNCHANGED << hwVars, infoVars, rx_woken >>
          /\ Done \/ (rx_pc' = rx_pc /\ frame' = frame)
      BY <2>5, Zenon DEF LoopBackNext
    <3>3. QED
      BY <3>1, <3>2, RxPushes
  <2>6. QED
    BY <1>3, <2>1, <2>2, <2>3, <2>4, <2>5 DEF ReceiveTask
<1>4. CASE Endpoint
  <2>1. UNCHANGED << hwVars, infoVars, rxVars >>
    BY <1>4 DEF Endpoint, CreateMessageLoopBack, DropLoopBack
  <2>2. QED
    BY <2>1, RxQuiet
<1>5. CASE WorkerStep
  BY <1>5, RxQuiet DEF WorkerStep
<1>6. CASE UNCHANGED vars
  BY <1>6, RxQuiet DEF vars
<1>7. QED
  BY <1>1, <1>2, <1>3, <1>4, <1>5, <1>6 DEF Next

-----------------------------------------------------------------------------
(* The worker's response buffer.                                            *)

ResponseBuffers ==
    [kind : {"Response"}, transfers : [Priorities -> Transfers \cup {None}],
     scratchpad : {None}, free : Seq(Nat)]

\* The priorities a response buffer has room at.
LEMMA RoomOfBuffer ==
    ASSUME responses \in ResponseBuffers
    PROVE  /\ Room = {p \in Priorities : responses.transfers[p] = None}
           /\ Room = ResponsePushReadiness(responses)
           /\ Room \subseteq Priorities
           /\ IsFiniteSet(Room)
           /\ Cardinality(Room) \in Nat
<1>1. responses.kind = "Response"
  BY DEF ResponseBuffers
<1>2. Room = ResponsePushReadiness(responses)
  BY <1>1 DEF Room, PushReadiness
<1>3. Room = {p \in Priorities : responses.transfers[p] = None}
  BY <1>2 DEF ResponsePushReadiness
<1>4. Room \subseteq Priorities
  BY <1>3
<1>5. IsFiniteSet(Room)
  BY <1>4, TxBuffersAssumption, FS_Subset
<1>6. Cardinality(Room) \in Nat
  BY <1>5, FS_CardinalityType
<1>7. QED
  BY <1>2, <1>3, <1>4, <1>5, <1>6

\* An empty buffer has room and a payload buffer for each priority.
LEMMA NewResponseBuffer ==
    ASSUME NEW b, b = New("Response", None)
    PROVE  b \in ResponseBuffers /\ Len(b.free) = Cardinality(PushReadiness(b))
<1> DEFINE n == Cardinality(Priorities)
           stack == [i \in 1 .. n |-> i - 1]
<1>1. b = [kind |-> "Response", transfers |-> [p \in Priorities |-> None],
           scratchpad |-> None, free |-> stack]
  BY DEF New, ResponseNew, AllFree, BufferCount
<1>2. n \in Nat
  BY TxBuffersAssumption, FS_CardinalityType
<1>3. stack \in [1 .. n -> Nat]
  <2>1. \A i \in 1 .. n : i - 1 \in Nat
    BY <1>2
  <2>2. QED
    BY <2>1
<1> HIDE DEF stack, n
<1>4. stack \in Seq(Nat) /\ Len(stack) = n
  BY <1>2, <1>3, SeqDef, LenProperties
<1>5. [p \in Priorities |-> None] \in [Priorities -> Transfers \cup {None}]
  OBVIOUS
<1>6. b \in ResponseBuffers /\ b.free = stack
  BY <1>1, <1>4, <1>5 DEF ResponseBuffers
<1>7. b.kind = "Response" /\ \A p \in Priorities : b.transfers[p] = None
  BY <1>1
<1>8. PushReadiness(b) = Priorities
  BY <1>7 DEF PushReadiness, ResponsePushReadiness
<1>9. QED
  BY <1>4, <1>6, <1>8 DEF n

\* A priority gets room when its last frame is fetched, and its writer is woken.
LEMMA FetchResponseEffect ==
    ASSUME ResponseBufferInv, woken \in BOOLEAN, NEW p \in Priorities, FetchResponse(p)
    PROVE  /\ ResponseBufferInv'
           /\ Room \subseteq Room'
           /\ \/ woken' = TRUE
              \/ /\ woken' = woken /\ resp_filter' = resp_filter
                 /\ Room' = Room \/ p \notin resp_filter
<1> DEFINE t == responses.transfers[p]
           done == Exhausted(Fetched(t))
           o == ResponseTryPop(responses, p)
<1>1. responses \in ResponseBuffers /\ Len(responses.free) = Cardinality(Room)
  BY DEF ResponseBufferInv, ResponseBuffers
<1>2. TryPop(responses, p) = o
  BY <1>1 DEF TryPop, ResponseBuffers
<1>3. t # None
  <2>1. o.frame # None
    BY <1>2 DEF FetchResponse
  <2>2. QED
    BY <2>1 DEF ResponseTryPop, NoFrame
<1>4. t \in Transfers /\ Fetched(t) \in Transfers /\ t.buffer_idx \in Nat
  BY <1>1, <1>3 DEF ResponseBuffers, Transfers, Fetched
<1>5. Fetched(t) # None
  BY <1>4, ResponderAssumption DEF Transfers
<1>6. /\ o.ready = {q \in {p} : done}
      /\ o.buffer = [responses EXCEPT !.transfers[p] = IF done THEN None ELSE Fetched(t),
                                      !.free = IF done THEN Append(@, t.buffer_idx) ELSE @]
  BY <1>3 DEF ResponseTryPop
<1>7. /\ responses' = o.buffer
      /\ woken' = (woken \/ o.ready \cap resp_filter # {})
      /\ resp_filter' = IF o.ready \cap resp_filter # {} THEN {} ELSE resp_filter
  BY <1>2 DEF FetchResponse
<1> HIDE DEF done, o
<1>8. /\ responses'.kind = "Response" /\ responses'.scratchpad = None
      /\ responses'.transfers =
             [responses.transfers EXCEPT ![p] = IF done THEN None ELSE Fetched(t)]
      /\ responses'.free = IF done THEN Append(responses.free, t.buffer_idx)
                                   ELSE responses.free
  BY <1>1, <1>6, <1>7 DEF ResponseBuffers
<1>9. /\ Append(responses.free, t.buffer_idx) \in Seq(Nat)
      /\ Len(Append(responses.free, t.buffer_idx)) = Len(responses.free) + 1
  BY <1>1, <1>4, AppendProperties DEF ResponseBuffers
<1>10. responses' \in ResponseBuffers
  <2>1. responses' = [kind |-> "Response", transfers |-> responses'.transfers,
                      scratchpad |-> None, free |-> responses'.free]
    BY <1>1, <1>6, <1>7 DEF ResponseBuffers
  <2>2. responses'.transfers \in [Priorities -> Transfers \cup {None}]
    BY <1>1, <1>4, <1>8 DEF ResponseBuffers
  <2>3. responses'.free \in Seq(Nat)
    BY <1>1, <1>8, <1>9 DEF ResponseBuffers
  <2>4. QED
    BY <2>1, <2>2, <2>3 DEF ResponseBuffers
<1>11. /\ Room = {q \in Priorities : responses.transfers[q] = None}
       /\ Room' = {q \in Priorities : responses'.transfers[q] = None}
       /\ IsFiniteSet(Room)
  <2>1. Room' = {q \in Priorities : responses'.transfers[q] = None}
    BY <1>8 DEF Room, PushReadiness, ResponsePushReadiness
  <2>2. QED
    BY <1>1, <2>1, RoomOfBuffer
<1>12. /\ p \notin Room
       /\ Room' = IF done THEN Room \cup {p} ELSE Room
  BY <1>1, <1>3, <1>5, <1>8, <1>11 DEF ResponseBuffers
<1>13. Len(responses'.free) = Cardinality(Room')
  <2>1. CASE done
    <3>1. Cardinality(Room \cup {p}) = Cardinality(Room) + 1
      BY <1>11, <1>12, FS_AddElement
    <3>2. QED
      BY <1>1, <1>8, <1>9, <1>12, <2>1, <3>1
  <2>2. CASE ~ done
    BY <1>1, <1>8, <1>12, <2>2
  <2>3. QED
    BY <2>1, <2>2
<1>14. ResponseBufferInv'
  BY <1>10, <1>13 DEF ResponseBufferInv, ResponseBuffers
<1>15. \/ woken' = TRUE
       \/ /\ woken' = woken /\ resp_filter' = resp_filter
          /\ Room' = Room \/ p \notin resp_filter
  <2>1. CASE done /\ p \in resp_filter
    BY <1>6, <1>7, <2>1
  <2>2. CASE ~ (done /\ p \in resp_filter)
    <3>1. o.ready \cap resp_filter = {}
      BY <1>6, <2>2
    <3>2. QED
      BY <1>7, <1>12, <2>2, <3>1
  <2>3. QED
    BY <2>1, <2>2
<1>16. QED
  BY <1>12, <1>14, <1>15

\* A response takes a free payload buffer: there is one, since there is room.
LEMMA RespondEffect ==
    ASSUME ResponseBufferInv, RoomInv, NEW frames \in Lengths, Respond(frames)
    PROVE  /\ ResponseBufferInv'
           /\ pc' = "requests"
<1> DEFINE p == priority
           idx == Last(responses.free)
<1>1. /\ pc = "handle" /\ p \in Room
      /\ responses \in ResponseBuffers /\ Len(responses.free) = Cardinality(Room)
  BY DEF Respond, RoomInv, ResponseBufferInv, ResponseBuffers
<1>2. /\ Room = {q \in Priorities : responses.transfers[q] = None}
      /\ ResponsePushReadiness(responses) # {}
      /\ IsFiniteSet(Room) /\ Cardinality(Room) \in Nat
  BY <1>1, RoomOfBuffer
<1>3. responses.free \in Seq(Nat) /\ Len(responses.free) \in Nat /\ Len(responses.free) >= 1
  <2>1. Cardinality(Room) # 0
    BY <1>1, <1>2, FS_EmptySet
  <2>2. QED
    BY <1>1, <1>2, <2>1 DEF ResponseBuffers
<1>4. idx \in Nat
  BY <1>3, ElementOfSeq DEF Last
<1>5. /\ Front(responses.free) \in Seq(Nat)
      /\ Len(Front(responses.free)) = Len(responses.free) - 1
  <2> DEFINE seq == responses.free
  <2>1. \A i \in 1 .. Len(seq) - 1 : seq[i] \in Nat
    BY <1>3, ElementOfSeq
  <2>2. 1 \in Int /\ Len(seq) - 1 \in Int
    BY <1>3
  <2>3. /\ SubSeq(seq, 1, Len(seq) - 1) \in Seq(Nat)
        /\ Len(SubSeq(seq, 1, Len(seq) - 1)) =
               IF 1 <= Len(seq) - 1 THEN (Len(seq) - 1) - 1 + 1 ELSE 0
    BY <2>1, <2>2, SubSeqProperties
  <2>4. QED
    BY <1>3, <2>3 DEF Front
<1>6. GetScratchpad(responses) =
          [responses EXCEPT !.scratchpad = idx, !.free = Front(responses.free)]
  <2>1. responses.kind = "Response" /\ responses.scratchpad = None
    BY <1>1 DEF ResponseBuffers
  <2>2. QED
    BY <1>2, <2>1 DEF GetScratchpad, ResponseScratchpad
<1> DEFINE b == GetScratchpad(responses)
<1>7. b = [kind |-> "Response", transfers |-> responses.transfers,
           scratchpad |-> idx, free |-> Front(responses.free)]
  BY <1>1, <1>6 DEF ResponseBuffers
<1> HIDE DEF b
<1>8. responses' = Push(b, p, frames) /\ pc' = "requests"
  BY <1>1 DEF Respond, b
<1> HIDE DEF idx
<1>9. responses' = [kind |-> "Response",
                    transfers |-> [responses.transfers EXCEPT ![p] = Transfer(idx, frames)],
                    scratchpad |-> None, free |-> Front(responses.free)]
  <2>1. Push(b, p, frames) = ResponsePush(b, p, frames)
    BY <1>7 DEF Push
  <2>2. QED
    BY <1>7, <1>8, <2>1 DEF ResponsePush
<1>10. Transfer(idx, frames) \in Transfers /\ Transfer(idx, frames) # None
  BY <1>4, ResponderAssumption DEF Transfer, Transfers
<1>11. responses' \in ResponseBuffers
  <2>1. [responses.transfers EXCEPT ![p] = Transfer(idx, frames)]
            \in [Priorities -> Transfers \cup {None}]
    BY <1>1, <1>10 DEF ResponseBuffers
  <2>2. QED
    BY <1>5, <1>9, <2>1 DEF ResponseBuffers
<1>12. Room' = Room \ {p}
  <2>1. Room' = {q \in Priorities : responses'.transfers[q] = None}
    BY <1>9 DEF Room, PushReadiness, ResponsePushReadiness
  <2>2. responses'.transfers = [responses.transfers EXCEPT ![p] = Transfer(idx, frames)]
    BY <1>9
  <2>3. QED
    BY <1>1, <1>2, <1>10, <2>1, <2>2 DEF ResponseBuffers
<1>13. Len(responses'.free) = Cardinality(Room')
  <2>1. Cardinality(Room \ {p}) = Cardinality(Room) - 1
    BY <1>1, <1>2, FS_RemoveElement
  <2>2. QED
    BY <1>1, <1>5, <1>9, <1>12, <2>1
<1>14. QED
  BY <1>8, <1>11, <1>13 DEF ResponseBufferInv, ResponseBuffers

-----------------------------------------------------------------------------
(* The worker goes on.                                                      *)

\* The response buffer is as it was.
LEMMA SameResponses ==
    ASSUME ResponseBufferInv, responses' = responses
    PROVE  ResponseBufferInv' /\ Room' = Room
BY DEF ResponseBufferInv, Room, PushReadiness, ResponsePushReadiness

\* A step that leaves the worker alone.
LEMMA WorkerQuiet ==
    ASSUME WorkerInv, UNCHANGED responderVars
    PROVE  WorkerInv'
<1>1. UNCHANGED << requests, req_filter, responses, resp_filter, pc, asleep, woken,
                   req_priorities, resp_priorities, priority >>
  BY DEF responderVars, bufferVars, taskVars
<1>2. ResponseBufferInv' /\ Room' = Room
  BY <1>1, SameResponses DEF WorkerInv
<1>3. Readiness' = Readiness
  BY <1>1 DEF Readiness
<1>4. RoomInv' /\ SleepInv'
  BY <1>1, <1>2, <1>3 DEF WorkerInv, RoomInv, SleepInv
<1>5. QED
  BY <1>2, <1>4 DEF WorkerInv

\* A request wakes the task that waits for it.
LEMMA ReceiveRequestKeepsWorker ==
    ASSUME WorkerInv, NEW p \in Priorities, NEW ok, ReceiveRequest(p, ok)
    PROVE  WorkerInv'
<1>1. /\ UNCHANGED << responses, resp_filter, pc, asleep, resp_priorities, priority >>
      /\ \/ UNCHANGED << requests, req_filter, woken >>
         \/ /\ woken' = (woken \/ Wakes(p))
            /\ req_filter' = IF Wakes(p) THEN {} ELSE req_filter
  BY DEF ReceiveRequest, HubPush, PushRequest
<1>2. ResponseBufferInv' /\ Room' = Room
  BY <1>1, SameResponses DEF WorkerInv
<1>3. RoomInv'
  BY <1>1, <1>2 DEF WorkerInv, RoomInv
<1>4. SleepInv'
  <2>1. CASE UNCHANGED << requests, req_filter, woken >>
    <3>1. Readiness' = Readiness
      BY <2>1 DEF Readiness
    <3>2. QED
      BY <1>1, <1>2, <2>1, <3>1 DEF WorkerInv, SleepInv
  <2>2. CASE /\ woken' = (woken \/ Wakes(p))
             /\ req_filter' = IF Wakes(p) THEN {} ELSE req_filter
    <3>1. asleep /\ ~ woken /\ pc = "requests" => Wakes(p)
      BY DEF WorkerInv, SleepInv, Wakes
    <3>2. asleep' /\ ~ woken' => asleep /\ ~ woken /\ pc # "requests"
      BY <1>1, <2>2, <3>1
    <3>3. woken' \in BOOLEAN
      BY <2>2
    <3>4. QED
      BY <1>1, <1>2, <3>2, <3>3 DEF WorkerInv, SleepInv
  <2>3. QED
    BY <1>1, <2>1, <2>2
<1>5. QED
  BY <1>2, <1>3, <1>4 DEF WorkerInv

\* Room that appears wakes the task that waits for it, and none is lost.
LEMMA FetchResponseKeepsWorker ==
    ASSUME WorkerInv, NEW p \in Priorities, FetchResponse(p)
    PROVE  WorkerInv'
<1>1. /\ ResponseBufferInv'
      /\ Room \subseteq Room'
      /\ \/ woken' = TRUE
         \/ /\ woken' = woken /\ resp_filter' = resp_filter
            /\ Room' = Room \/ p \notin resp_filter
  BY FetchResponseEffect DEF WorkerInv, SleepInv
<1>2. UNCHANGED << requests, req_filter, pc, asleep, resp_priorities, priority >>
  BY DEF FetchResponse
<1>3. RoomInv'
  BY <1>1, <1>2 DEF WorkerInv, RoomInv
<1>4. SleepInv'
  <2>1. Readiness' = Readiness
    BY <1>2 DEF Readiness
  <2>2. CASE woken' = TRUE
    BY <1>2, <2>2 DEF WorkerInv, SleepInv
  <2>3. CASE /\ woken' = woken /\ resp_filter' = resp_filter
             /\ Room' = Room \/ p \notin resp_filter
    <3>1. resp_filter = Priorities => Room' = Room
      BY <2>3
    <3>2. QED
      BY <1>2, <2>1, <2>3, <3>1 DEF WorkerInv, SleepInv
  <2>4. QED
    BY <1>1, <2>2, <2>3
<1>5. QED
  BY <1>1, <1>3, <1>4 DEF WorkerInv

\* The endpoints come and go while the task is not asleep.
LEMMA CreateDropKeepsWorker ==
    ASSUME WorkerInv, Create \/ Drop
    PROVE  WorkerInv'
<1>1. CASE Create
  <2>1. /\ UNCHANGED << responses, req_filter, resp_filter, requests, asleep, woken >>
        /\ pc \in {"none", "creating"} /\ pc' \in {"creating", "requests"}
    BY <1>1 DEF Create, CreateRequest, CreateResponse, bufferVars
  <2>2. ResponseBufferInv'
    BY <2>1, SameResponses DEF WorkerInv
  <2>3. RoomInv'
    BY <2>1 DEF RoomInv
  <2>4. ~ asleep
    BY <2>1 DEF WorkerInv, SleepInv
  <2>5. SleepInv'
    BY <2>1, <2>4 DEF WorkerInv, SleepInv
  <2>6. QED
    BY <2>2, <2>3, <2>5 DEF WorkerInv
<1>2. CASE DropRequest
  <2>1. /\ responses' = responses
        /\ pc' = "dropping" /\ asleep' = FALSE /\ woken' = FALSE
    BY <1>2 DEF DropRequest
  <2>2. ResponseBufferInv'
    BY <2>1, SameResponses DEF WorkerInv
  <2>3. RoomInv' /\ SleepInv'
    BY <2>1 DEF RoomInv, SleepInv
  <2>4. QED
    BY <2>2, <2>3 DEF WorkerInv
<1>3. CASE DropResponse
  <2>1. /\ pc = "dropping" /\ pc' = "none" /\ asleep' = asleep /\ woken' = FALSE
        /\ responses' = New("Response", None)
    BY <1>3 DEF DropResponse
  <2>2. ResponseBufferInv'
    BY <2>1, NewResponseBuffer DEF ResponseBufferInv, ResponseBuffers, Room
  <2>3. ~ asleep
    BY <2>1 DEF WorkerInv, SleepInv
  <2>4. RoomInv' /\ SleepInv'
    BY <2>1, <2>3 DEF WorkerInv, RoomInv, SleepInv
  <2>5. QED
    BY <2>2, <2>4 DEF WorkerInv
<1>4. QED
  BY <1>1, <1>2, <1>3 DEF Drop

\* A wait that finds something goes on with it, and one that finds nothing leaves the
\* waker with the mask it waits for.
LEMMA WaitsKeepWorker ==
    ASSUME WorkerInv, WaitRequests \/ WaitResponses \/ SelectRequests \/ SelectResponses
    PROVE  WorkerInv'
<1>1. /\ responses' = responses /\ requests' = requests
  BY DEF WaitRequests, WaitResponses, SelectRequests, SelectResponses
<1>2. ResponseBufferInv' /\ Room' = Room /\ Readiness' = Readiness
  BY <1>1, SameResponses DEF WorkerInv, Readiness
<1>3. /\ Room \subseteq Priorities /\ Readiness \subseteq Priorities
  BY RoomOfBuffer DEF Readiness, WorkerInv, ResponseBufferInv, ResponseBuffers
<1>4. asleep \in BOOLEAN /\ woken \in BOOLEAN
  BY DEF WorkerInv, SleepInv
<1>5. CASE WaitRequests
  <2>1. \/ pc' = "responses" /\ asleep' = FALSE /\ woken' = FALSE
        \/ /\ pc' = "requests" /\ asleep' = TRUE /\ woken' = FALSE
           /\ Readiness = {} /\ req_filter' = Priorities
    BY <1>5 DEF WaitRequests, Continue, Suspend, PollRequests
  <2>2. RoomInv' /\ SleepInv'
    BY <1>2, <2>1 DEF RoomInv, SleepInv
  <2>3. QED
    BY <1>2, <2>2 DEF WorkerInv
<1>6. CASE WaitResponses
  <2>1. \/ /\ pc' \in {"select", "pop"} /\ asleep' = FALSE /\ woken' = FALSE
           /\ resp_priorities' = Room
        \/ /\ pc' = "responses" /\ asleep' = TRUE /\ woken' = FALSE
           /\ Room = {} /\ resp_filter' = Priorities
    BY <1>6 DEF WaitResponses, Continue, Suspend, PollResponses, LoopPc
  <2>2. RoomInv' /\ SleepInv'
    BY <1>2, <2>1 DEF RoomInv, SleepInv
  <2>3. QED
    BY <1>2, <2>2 DEF WorkerInv
<1>7. CASE SelectRequests
  <2>1. /\ pc = "select"
        /\ pc' \in {"select", "pop", "select responses"}
        /\ asleep' = FALSE /\ woken' = FALSE
        /\ resp_priorities' = resp_priorities
    BY <1>7 DEF SelectRequests, Continue, LoopPc
  <2>2. RoomInv' /\ SleepInv'
    BY <1>2, <2>1 DEF WorkerInv, RoomInv, SleepInv
  <2>3. QED
    BY <1>2, <2>2 DEF WorkerInv
<1>8. CASE SelectResponses
  <2>1. /\ pc = "select responses"
        /\ pc' \in {"select", "pop"}
        /\ resp_priorities' \subseteq Room \cup resp_priorities
        /\ asleep' \in BOOLEAN /\ woken' \in BOOLEAN
        /\ asleep' => pc' = "select"
    BY <1>4, <1>8 DEF SelectResponses, Continue, LoopPc
  <2>2. resp_priorities \subseteq Room
    BY <2>1 DEF WorkerInv, RoomInv
  <2>3. RoomInv' /\ SleepInv'
    BY <1>2, <2>1, <2>2 DEF RoomInv, SleepInv
  <2>4. QED
    BY <1>2, <2>3 DEF WorkerInv
<1>9. QED
  BY <1>5, <1>6, <1>7, <1>8

\* The request that is taken has room for its response.
LEMMA PopKeepsWorker ==
    ASSUME WorkerInv, Pop
    PROVE  WorkerInv'
<1>1. /\ pc = "pop" /\ pc' \in {"requests", "handle"}
      /\ responses' = responses /\ asleep' = asleep /\ woken' = woken
      /\ pc' = "handle" => Candidates # {} /\ priority' = Min(Candidates)
  BY DEF Pop
<1>2. ResponseBufferInv' /\ Room' = Room
  BY <1>1, SameResponses DEF WorkerInv
<1>3. ~ asleep
  BY <1>1 DEF WorkerInv, SleepInv
<1>4. Candidates \subseteq Nat /\ Candidates \subseteq Room
  <2>1. resp_priorities \subseteq Room
    BY <1>1 DEF WorkerInv, RoomInv
  <2>2. QED
    BY <2>1, TxBuffersAssumption DEF Candidates, Readiness
<1>5. Candidates # {} => Min(Candidates) \in Room
  BY <1>4, MinIsLeast
<1>6. RoomInv'
  BY <1>1, <1>2, <1>5 DEF RoomInv
<1>7. SleepInv'
  BY <1>1, <1>3 DEF WorkerInv, SleepInv
<1>8. QED
  BY <1>2, <1>6, <1>7 DEF WorkerInv

\* The response finds its room.
LEMMA RespondKeepsWorker ==
    ASSUME WorkerInv, NEW frames \in Lengths, Respond(frames)
    PROVE  WorkerInv'
<1>1. ResponseBufferInv' /\ pc' = "requests"
  BY RespondEffect DEF WorkerInv
<1>2. pc = "handle" /\ asleep' = asleep /\ woken' = woken
  BY DEF Respond
<1>3. ~ asleep
  BY <1>2 DEF WorkerInv, SleepInv
<1>4. RoomInv' /\ SleepInv'
  BY <1>1, <1>2, <1>3 DEF WorkerInv, RoomInv, SleepInv
<1>5. QED
  BY <1>1, <1>4 DEF WorkerInv

LEMMA NextWorkerInv == RxInv /\ WorkerInv /\ [Next]_vars => WorkerInv'
<1> SUFFICES ASSUME RxInv, WorkerInv, [Next]_vars
             PROVE  WorkerInv'
  OBVIOUS
<1>1. CASE Bus \/ OnInterrupt \/ Endpoint \/ UNCHANGED vars
  <2>1. UNCHANGED responderVars
    BY <1>1 DEF Bus, Receive, ReturnFrame, OnInterrupt, Endpoint, CreateMessageLoopBack,
                DropLoopBack, vars
  <2>2. QED
    BY <2>1, WorkerQuiet
<1>2. CASE ReceiveTask
  <2>1. CASE PushOwnRequest
    <3>1. frame.port \in Priorities /\ ReceiveRequest(frame.port, frame.ok)
      BY <2>1, NodeReceiveAssumption DEF PushOwnRequest, IsOwnRequest, RxInv, RxTypeOK
    <3>2. QED
      BY <3>1, ReceiveRequestKeepsWorker
  <2>2. CASE ~ PushOwnRequest
    <3>1. UNCHANGED responderVars
      BY <1>2, <2>2, Zenon DEF ReceiveTask, CheckLoopBack, RegisterWaker, Wake, PopFifo,
                               Ignore, LoopBackStart, LoopBackNext
    <3>2. QED
      BY <3>1, WorkerQuiet
  <2>3. QED
    BY <2>1, <2>2
<1>3. CASE WorkerStep
  <2>1. CASE Create \/ Drop
    BY <2>1, CreateDropKeepsWorker
  <2>2. CASE WaitRequests \/ WaitResponses \/ SelectRequests \/ SelectResponses
    BY <2>2, WaitsKeepWorker
  <2>3. CASE Pop
    BY <2>3, PopKeepsWorker
  <2>4. CASE \E frames \in Lengths : Respond(frames)
    BY <2>4, RespondKeepsWorker
  <2>5. CASE \E p \in Priorities : FetchResponse(p)
    BY <2>5, FetchResponseKeepsWorker
  <2>6. QED
    BY <1>3, <2>1, <2>2, <2>3, <2>4, <2>5 DEF WorkerStep, Worker
<1>4. QED
  BY <1>1, <1>2, <1>3 DEF Next

-----------------------------------------------------------------------------
(* The tree of the loop-back half.                                          *)

LEMMA TreeElements ==
    ASSUME NEW t, IsTree(t)
    PROVE  /\ Len(t) \in Nat
           /\ DOMAIN t = 1 .. Len(t)
           /\ \A i \in 1 .. Len(t) :
                  t[i] \in ToSet(t) /\ t[i] \in Entries /\ SubjectOf[t[i]] \in Nat
           /\ \A e \in ToSet(t) : e \in Entries /\ \E i \in 1 .. Len(t) : t[i] = e
           /\ \A i, j \in 1 .. Len(t) : t[i] = t[j] => i = j
<1>1. t \in Seq(Entries)
  BY DEF IsTree
<1>2. /\ ToSet(t) \subseteq Entries
      /\ DOMAIN t = 1 .. Len(t)
      /\ Len(t) \in Nat
      /\ \A i \in 1 .. Len(t) : t[i] \in ToSet(t) /\ t[i] \in Entries
      /\ \A e \in ToSet(t) : \E i \in 1 .. Len(t) : t[i] = e
  BY <1>1, ToSetElements
<1>3. \A i, j \in 1 .. Len(t) : t[i] = t[j] => i = j
  <2>1. ASSUME NEW i \in 1 .. Len(t), NEW j \in 1 .. Len(t), t[i] = t[j], i # j
        PROVE  FALSE
    <3>1. i < j \/ j < i
      BY <1>2, <2>1
    <3>2. QED
      BY <2>1, <3>1 DEF IsTree
  <2>2. QED
    BY <2>1
<1>4. \A i \in 1 .. Len(t) : SubjectOf[t[i]] \in Nat
  BY <1>2, NodeReceiveAssumption
<1>5. QED
  BY <1>2, <1>3, <1>4

LEMMA PosProperties ==
    ASSUME NEW t, IsTree(t), NEW e \in ToSet(t)
    PROVE  /\ Pos(t, e) \in 1 .. Len(t)
           /\ t[Pos(t, e)] = e
           /\ \A i \in 1 .. Len(t) : t[i] = e => i = Pos(t, e)
<1>1. PICK i \in DOMAIN t : t[i] = e
  BY TreeElements
<1>2. Pos(t, e) \in DOMAIN t /\ t[Pos(t, e)] = e
  BY <1>1 DEF Pos
<1>3. QED
  BY <1>2, TreeElements

\* The entry behind another one.
LEMMA NextInTree ==
    ASSUME NEW t, IsTree(t), NEW e \in ToSet(t), NEW nx,
           nx = IF Pos(t, e) = Len(t) THEN None ELSE t[Pos(t, e) + 1]
    PROVE  /\ nx \in ToSet(t) \cup {None}
           /\ nx # None => Pos(t, nx) = Pos(t, e) + 1
           /\ nx = None => \A x \in ToSet(t) : Pos(t, x) <= Pos(t, e)
<1>1. /\ Pos(t, e) \in 1 .. Len(t) /\ Len(t) \in Nat
  BY PosProperties, TreeElements
<1>2. CASE Pos(t, e) = Len(t)
  <2>1. \A x \in ToSet(t) : Pos(t, x) \in 1 .. Len(t)
    BY PosProperties
  <2>2. QED
    BY <1>1, <1>2, <2>1
<1>3. CASE Pos(t, e) # Len(t)
  <2>1. Pos(t, e) + 1 \in 1 .. Len(t)
    BY <1>1, <1>3
  <2>2. nx = t[Pos(t, e) + 1] /\ nx \in ToSet(t) /\ nx \in Entries
    BY <1>3, <2>1, TreeElements
  <2>3. Pos(t, e) + 1 = Pos(t, nx)
    BY <2>1, <2>2, PosProperties
  <2>4. nx # None
    BY <2>2, NodeReceiveAssumption
  <2>5. QED
    BY <2>2, <2>3, <2>4
<1>4. QED
  BY <1>2, <1>3

\* Taking an entry out keeps the others in their order.
LEMMA TreeWithout ==
    ASSUME NEW t, IsTree(t), NEW e \in ToSet(t), NEW rest, rest = RemoveAt(t, Pos(t, e))
    PROVE  /\ IsTree(rest)
           /\ ToSet(rest) = ToSet(t) \ {e}
           /\ \A x \in ToSet(rest) :
                  Pos(rest, x) = IF Pos(t, x) < Pos(t, e) THEN Pos(t, x) ELSE Pos(t, x) - 1
<1> DEFINE k == Pos(t, e)
           n == Len(t)
           from(i) == IF i < k THEN i ELSE i + 1
<1>1. /\ n \in Nat /\ k \in 1 .. n /\ t[k] = e
      /\ \A i \in 1 .. n : t[i] = e => i = k
  BY PosProperties, TreeElements
<1>2. t \in Seq(Entries)
  BY DEF IsTree
<1>3. /\ rest \in Seq(Entries) /\ Len(rest) = n - 1
      /\ \A i \in 1 .. n - 1 : rest[i] = IF i < k THEN t[i] ELSE t[i + 1]
  BY <1>1, <1>2, RemoveAtProperties
<1>4. \A i \in 1 .. n - 1 : from(i) \in 1 .. n /\ from(i) # k /\ rest[i] = t[from(i)]
  <2>1. \A i \in 1 .. n - 1 : i < k => from(i) \in 1 .. n /\ from(i) # k /\ rest[i] = t[from(i)]
    BY <1>1, <1>3
  <2>2. \A i \in 1 .. n - 1 : ~ (i < k) =>
            from(i) \in 1 .. n /\ from(i) # k /\ rest[i] = t[from(i)]
    BY <1>1, <1>3
  <2>3. QED
    BY <2>1, <2>2
<1>5. \A i, j \in 1 .. n - 1 : i < j => from(i) < from(j)
  BY <1>1
<1> HIDE DEF from, k, n
<1>6. IsTree(rest)
  BY <1>3, <1>4, <1>5 DEF IsTree, n
<1>7. ToSet(rest) = ToSet(t) \ {e}
  <2>1. IsInjective(t)
    BY TreeElements DEF IsInjective
  <2>2. k \in 1 .. Len(t)
    BY <1>1 DEF n
  <2>3. QED
    BY <1>1, <1>2, <2>1, <2>2, RemoveAtElements DEF k
<1>8. ASSUME NEW x \in ToSet(rest)
      PROVE  Pos(rest, x) = IF Pos(t, x) < k THEN Pos(t, x) ELSE Pos(t, x) - 1
  <2>1. /\ Pos(rest, x) \in 1 .. n - 1 /\ rest[Pos(rest, x)] = x
    BY <1>3, <1>6, PosProperties
  <2>2. from(Pos(rest, x)) = Pos(t, x)
    BY <1>4, <1>7, <2>1, PosProperties DEF n
  <2>3. QED
    BY <1>1, <2>1, <2>2 DEF from
<1>9. QED
  BY <1>6, <1>7, <1>8 DEF k

\* An entry is put behind those of its subject, and keeps the others in their order.
LEMMA TreeWith ==
    ASSUME NEW t, IsTree(t), NEW e \in Entries, e \notin ToSet(t), NEW k, NEW more,
           k = Min({Len(t) + 1} \cup {i \in DOMAIN t : SubjectOf[t[i]] > SubjectOf[e]}),
           more = InsertAt(t, k, e)
    PROVE  /\ IsTree(more)
           /\ ToSet(more) = ToSet(t) \cup {e}
           /\ \A x \in ToSet(t) :
                  Pos(more, x) = IF Pos(t, x) < k THEN Pos(t, x) ELSE Pos(t, x) + 1
           /\ k \in 1 .. Len(t) + 1
<1> DEFINE n == Len(t)
           T == {n + 1} \cup {i \in DOMAIN t : SubjectOf[t[i]] > SubjectOf[e]}
           to(i) == IF i < k THEN i ELSE i + 1
<1>1. /\ n \in Nat /\ DOMAIN t = 1 .. n
      /\ \A i \in 1 .. n : SubjectOf[t[i]] \in Nat
      /\ SubjectOf[e] \in Nat
      /\ t \in Seq(Entries)
  BY TreeElements, NodeReceiveAssumption DEF IsTree
<1>2. k \in T /\ \A y \in T : k <= y
  <2>1. T \subseteq Nat /\ T # {}
    BY <1>1
  <2>2. QED
    BY <2>1, MinIsLeast
<1>3. k \in 1 .. n + 1
  BY <1>1, <1>2
<1>4. \A i \in 1 .. n : i < k => SubjectOf[t[i]] <= SubjectOf[e]
  BY <1>1, <1>2, <1>3
<1>5. \A i \in 1 .. n : i >= k => SubjectOf[t[i]] > SubjectOf[e]
  <2>1. ASSUME NEW i \in 1 .. n, i >= k
        PROVE  SubjectOf[t[i]] > SubjectOf[e]
    <3>1. k \in 1 .. n /\ SubjectOf[t[k]] > SubjectOf[e]
      BY <1>1, <1>2, <1>3, <2>1
    <3>2. SubjectOf[t[k]] <= SubjectOf[t[i]]
      BY <1>1, <2>1, <3>1 DEF IsTree
    <3>3. QED
      BY <1>1, <3>1, <3>2
  <2>2. QED
    BY <2>1
<1> HIDE DEF T
<1>6. /\ more \in Seq(Entries) /\ Len(more) = n + 1
      /\ \A i \in 1 .. n + 1 : more[i] = IF i < k THEN t[i] ELSE IF i = k THEN e ELSE t[i - 1]
  <2>1. k \in 1 .. Len(t) + 1
    BY <1>3
  <2>2. more \in Seq(Entries) /\ Len(more) = Len(t) + 1
    BY <1>1, <2>1, InsertAtProperties
  <2>3. \A i \in 1 .. Len(t) + 1 :
            InsertAt(t, k, e)[i] = IF i < k THEN t[i] ELSE IF i = k THEN e ELSE t[i - 1]
    BY <1>1, <2>1, InsertAtProperties
  <2>4. QED
    BY <2>2, <2>3
<1>7. /\ \A i \in 1 .. n : to(i) \in 1 .. n + 1 /\ to(i) # k /\ more[to(i)] = t[i]
      /\ more[k] = e
  <2>1. \A i \in 1 .. n : i < k => to(i) \in 1 .. n + 1 /\ to(i) # k /\ more[to(i)] = t[i]
    BY <1>1, <1>3, <1>6
  <2>2. ASSUME NEW i \in 1 .. n, ~ (i < k)
        PROVE  to(i) \in 1 .. n + 1 /\ to(i) # k /\ more[to(i)] = t[i]
    <3>1. /\ to(i) = i + 1 /\ i + 1 \in 1 .. n + 1 /\ ~ (i + 1 < k) /\ i + 1 # k
          /\ (i + 1) - 1 = i
      BY <1>1, <1>3, <2>2
    <3>2. QED
      BY <1>6, <3>1
  <2>3. more[k] = e
    BY <1>1, <1>3, <1>6
  <2>4. QED
    BY <2>1, <2>2, <2>3
<1>8. \A a \in 1 .. n + 1 : a # k => \E i \in 1 .. n : a = to(i)
  <2>1. ASSUME NEW a \in 1 .. n + 1, a # k
        PROVE  \E i \in 1 .. n : a = to(i)
    <3>1. CASE a < k
      <4>1. a \in 1 .. n /\ a = to(a)
        BY <1>1, <1>3, <2>1, <3>1
      <4>2. QED
        BY <4>1
    <3>2. CASE a > k
      <4>1. a - 1 \in 1 .. n /\ a = to(a - 1)
        BY <1>1, <1>3, <2>1, <3>2
      <4>2. QED
        BY <4>1
    <3>3. QED
      BY <1>1, <1>3, <2>1, <3>1, <3>2
  <2>2. QED
    BY <2>1
<1>9. /\ \A i, j \in 1 .. n : to(i) < to(j) => i < j
      /\ \A i \in 1 .. n : to(i) < k => i < k
      /\ \A i \in 1 .. n : k < to(i) => i >= k
  <2>1. k \in Int /\ \A i \in 1 .. n : i \in Int
    BY <1>1, <1>3
  <2>2. \A i \in Int : /\ to(i) < k => i < k
                       /\ k < to(i) => i >= k
    BY <2>1
  <2>3. \A i, j \in Int : to(i) < to(j) => i < j
    BY <2>1
  <2> HIDE DEF to
  <2>4. QED
    BY <2>1, <2>2, <2>3
<1> HIDE DEF to
<1>10. IsTree(more)
  <2>1. ASSUME NEW a \in 1 .. n + 1, NEW b \in 1 .. n + 1, a < b
        PROVE  more[a] # more[b] /\ SubjectOf[more[a]] <= SubjectOf[more[b]]
    <3>1. CASE a # k /\ b # k
      <4>1. PICK i \in 1 .. n, j \in 1 .. n : a = to(i) /\ b = to(j)
        BY <1>8, <3>1
      <4>2. i < j
        BY <1>9, <2>1, <4>1
      <4>3. QED
        BY <1>7, <4>1, <4>2 DEF IsTree
    <3>2. CASE b = k
      <4>1. a # k
        BY <1>1, <1>3, <2>1, <3>2
      <4>2. PICK i \in 1 .. n : a = to(i)
        BY <1>8, <4>1
      <4>3. i < k /\ more[a] = t[i] /\ more[b] = e
        BY <1>7, <1>9, <2>1, <3>2, <4>2
      <4>4. t[i] \in ToSet(t)
        BY TreeElements
      <4>5. QED
        BY <1>4, <4>3, <4>4
    <3>3. CASE a = k
      <4>1. b # k
        BY <1>1, <1>3, <2>1, <3>3
      <4>2. PICK j \in 1 .. n : b = to(j)
        BY <1>8, <4>1
      <4>3. j >= k /\ more[a] = e /\ more[b] = t[j]
        BY <1>7, <1>9, <2>1, <3>3, <4>2
      <4>4. t[j] \in ToSet(t)
        BY TreeElements
      <4>5. QED
        BY <1>1, <1>5, <4>3, <4>4
    <3>4. QED
      BY <3>1, <3>2, <3>3
  <2>2. QED
    BY <1>6, <2>1 DEF IsTree
<1>11. ToSet(more) = ToSet(t) \cup {e}
  <2>1. \A x \in ToSet(more) : x \in ToSet(t) \cup {e}
    <3>1. ASSUME NEW x \in ToSet(more)
          PROVE  x \in ToSet(t) \cup {e}
      <4>1. PICK a \in 1 .. n + 1 : more[a] = x
        <5>1. \E a \in 1 .. Len(more) : more[a] = x
          BY <1>10, TreeElements
        <5>2. QED
          BY <1>6, <5>1
      <4>2. CASE a = k
        BY <1>7, <4>1, <4>2
      <4>3. CASE a # k
        <5>1. PICK i \in 1 .. n : a = to(i)
          BY <1>8, <4>3
        <5>2. x = t[i]
          BY <1>7, <4>1, <5>1
        <5>3. QED
          BY <5>2, TreeElements
      <4>4. QED
        BY <4>2, <4>3
    <3>2. QED
      BY <3>1
  <2>2. \A x \in ToSet(t) : x \in ToSet(more)
    <3>1. ASSUME NEW x \in ToSet(t)
          PROVE  x \in ToSet(more)
      <4>1. PICK i \in 1 .. n : t[i] = x
        BY TreeElements
      <4>2. QED
        BY <1>6, <1>7, <1>10, <4>1, TreeElements
    <3>2. QED
      BY <3>1
  <2>3. e \in ToSet(more)
    BY <1>3, <1>6, <1>7, <1>10, TreeElements
  <2>4. QED
    BY <2>1, <2>2, <2>3
<1>12. ASSUME NEW x \in ToSet(t)
       PROVE  Pos(more, x) = IF Pos(t, x) < k THEN Pos(t, x) ELSE Pos(t, x) + 1
  <2>1. Pos(t, x) \in 1 .. n /\ t[Pos(t, x)] = x
    BY PosProperties
  <2>2. to(Pos(t, x)) \in 1 .. n + 1 /\ more[to(Pos(t, x))] = x
    BY <1>7, <2>1
  <2>3. to(Pos(t, x)) = Pos(more, x)
    BY <1>6, <1>10, <1>11, <2>2, PosProperties
  <2>4. QED
    BY <2>3 DEF to
<1>13. QED
  BY <1>3, <1>10, <1>11, <1>12

-----------------------------------------------------------------------------
(* The loop-back push is exact.                                             *)

LEMMA IndexIsPos ==
    ASSUME NEW e
    PROVE  /\ IndexOf(e) = Pos(entry_tree, e)
           /\ IndexOf(e)' = Pos(entry_tree', e)
BY DEF IndexOf, Pos

\* Steps that leave the tree alone, in and out of a push.
LEMMA LoopBackQuiet ==
    ASSUME LoopBackInv, UNCHANGED treeVars,
           \/ rx_pc' = rx_pc /\ frame' = frame
           \/ rx_pc # "loop-back push" /\ rx_pc' # "loop-back push"
    PROVE  LoopBackInv'
<1>1. UNCHANGED << entry_tree, next_push_ptr, delivered, owed, strays >>
  BY DEF treeVars
<1>2. TreeInv'
  BY <1>1 DEF LoopBackInv, TreeInv, IsTree
<1>3. PushPtrInv'
  BY <1>1 DEF LoopBackInv, PushPtrInv
<1>4. ProgressInv'
  <2>1. CASE rx_pc' = rx_pc /\ frame' = frame
    BY <1>1, <2>1 DEF LoopBackInv, ProgressInv
  <2>2. CASE rx_pc # "loop-back push" /\ rx_pc' # "loop-back push"
    BY <1>1, <2>2 DEF LoopBackInv, ProgressInv
  <2>3. QED
    BY <2>1, <2>2
<1>5. QED
  BY <1>2, <1>3, <1>4 DEF LoopBackInv

\* A push starts at the first entry of the frame's subject, if it has one.
LEMMA LoopBackStartKeepsPush ==
    ASSUME RxInv, LoopBackInv, LoopBackStart
    PROVE  LoopBackInv'
<1> DEFINE t == entry_tree
           behind == {i \in DOMAIN t : SubjectOf[t[i]] >= frame.port}
           first == t[Min(behind)]
           found == behind # {} /\ SubjectOf[first] = frame.port
<1>1. /\ rx_pc = "push" /\ frame.kind = "message"
      /\ delivered' = {}
      /\ owed' = {e \in ToSet(t) : SubjectOf[e] = frame.port}
      /\ IF found THEN next_push_ptr' = first /\ rx_pc' = "loop-back push" /\ frame' = frame
                  ELSE next_push_ptr' = None /\ frame' = None /\ rx_pc' = "loop-back"
      /\ entry_tree' = entry_tree /\ strays' = strays
  BY Zenon DEF LoopBackStart, IsLoopBackMessage, Done
<1>2. IsTree(t)
  BY DEF LoopBackInv, TreeInv
<1>3. frame.port \in Nat
  BY <1>1, NodeReceiveAssumption DEF RxInv, RxTypeOK
<1>4. behind \subseteq Nat /\ \A i \in behind : i \in 1 .. Len(t)
  BY <1>2, TreeElements
<1>5. behind # {} => /\ Min(behind) \in behind
                     /\ \A i \in behind : Min(behind) <= i
  BY <1>4, MinIsLeast
<1>6. \A e \in owed' :
          /\ e \in ToSet(t) /\ SubjectOf[e] = frame.port
          /\ Pos(t, e) \in behind /\ t[Pos(t, e)] = e /\ Pos(t, e) \in 1 .. Len(t)
  <2>1. ASSUME NEW e \in owed'
        PROVE  /\ e \in ToSet(t) /\ SubjectOf[e] = frame.port
               /\ Pos(t, e) \in behind /\ t[Pos(t, e)] = e /\ Pos(t, e) \in 1 .. Len(t)
    <3>1. e \in ToSet(t) /\ SubjectOf[e] = frame.port
      BY <1>1, <2>1
    <3>2. Pos(t, e) \in 1 .. Len(t) /\ t[Pos(t, e)] = e
      BY <1>2, <3>1, PosProperties
    <3>3. Pos(t, e) \in DOMAIN t
      BY <1>2, <3>2, TreeElements
    <3>4. QED
      BY <1>3, <3>1, <3>2, <3>3
  <2>2. QED
    BY <2>1
<1>7. behind # {} => /\ Min(behind) \in 1 .. Len(t)
                     /\ first \in ToSet(t)
                     /\ Pos(t, first) = Min(behind)
                     /\ SubjectOf[first] \in Nat
                     /\ SubjectOf[first] >= frame.port
  <2>1. ASSUME behind # {}
        PROVE  /\ Min(behind) \in 1 .. Len(t)
               /\ SubjectOf[first] >= frame.port
    BY <1>4, <1>5, <2>1
  <2>2. ASSUME behind # {}
        PROVE  /\ first \in ToSet(t) /\ SubjectOf[first] \in Nat
               /\ Pos(t, first) = Min(behind)
    <3>1. Min(behind) \in 1 .. Len(t)
      BY <2>1, <2>2
    <3>2. first \in ToSet(t) /\ SubjectOf[first] \in Nat
      BY <1>2, <3>1, TreeElements
    <3>3. Min(behind) = Pos(t, first)
      BY <1>2, <3>1, <3>2, PosProperties
    <3>4. QED
      BY <3>2, <3>3
  <2>3. QED
    BY <2>1, <2>2
<1> HIDE DEF behind, first
<1>8. TreeInv'
  BY <1>1, <1>2 DEF TreeInv
<1>9. CASE found
  <2>1. /\ next_push_ptr' = first /\ rx_pc' = "loop-back push" /\ frame' = frame
        /\ first \in ToSet(t) /\ Pos(t, first) = Min(behind)
    BY <1>1, <1>7, <1>9
  <2>2. PushPtrInv'
    BY <1>1, <2>1 DEF PushPtrInv
  <2>3. first # None
    BY <1>2, <2>1, TreeElements, NodeReceiveAssumption
  <2>4. \A e \in owed' : Pos(entry_tree', next_push_ptr') <= Pos(entry_tree', e)
    BY <1>1, <1>5, <1>6, <1>9, <2>1
  <2>5. ProgressInv'
    <3>1. strays' = {} /\ delivered' = {} /\ rx_pc' = "loop-back push"
      BY <1>1, <2>1 DEF LoopBackInv, ProgressInv
    <3>2. \A e \in owed' : e \in ToSet(entry_tree') /\ SubjectOf[e] = frame'.port
      BY <1>1, <1>6, <2>1
    <3>3. \A e \in owed' : next_push_ptr' # None /\ Pos(entry_tree', next_push_ptr') <= Pos(entry_tree', e)
      BY <2>1, <2>3, <2>4
    <3>4. QED
      BY <3>1, <3>2, <3>3 DEF ProgressInv
  <2>6. QED
    BY <1>8, <2>2, <2>5 DEF LoopBackInv
<1>10. CASE ~ found
  <2>1. owed' = {}
    <3>1. ASSUME NEW e \in owed'
          PROVE  FALSE
      <4>1. /\ behind # {} /\ Min(behind) <= Pos(t, e) /\ Pos(t, e) \in 1 .. Len(t)
            /\ t[Pos(t, e)] = e /\ SubjectOf[e] = frame.port
        BY <1>5, <1>6, <3>1
      <4>2. SubjectOf[first] <= SubjectOf[e]
        <5>1. CASE Min(behind) = Pos(t, e)
          <6>1. first = e
            BY <4>1, <5>1 DEF first
          <6>2. QED
            BY <1>3, <4>1, <6>1
        <5>2. CASE Min(behind) < Pos(t, e)
          BY <1>2, <1>7, <4>1, <5>2 DEF IsTree, first
        <5>3. QED
          BY <1>7, <4>1, <5>1, <5>2
      <4>3. QED
        BY <1>3, <1>7, <1>10, <4>1, <4>2
    <3>2. QED
      BY <3>1
  <2>2. next_push_ptr' = None /\ rx_pc' = "loop-back"
    BY <1>1, <1>10
  <2>3. PushPtrInv' /\ ProgressInv'
    BY <1>1, <2>1, <2>2 DEF LoopBackInv, PushPtrInv, ProgressInv
  <2>4. QED
    BY <1>8, <2>3 DEF LoopBackInv
<1>11. QED
  BY <1>9, <1>10

\* Each step of a push serves the entry at the pointer and goes on to the next.
LEMMA LoopBackNextKeepsPush ==
    ASSUME RxInv, LoopBackInv, LoopBackNext
    PROVE  LoopBackInv'
<1> DEFINE t == entry_tree
           e == next_push_ptr
<1>1. /\ rx_pc = "loop-back push"
      /\ IF e # None /\ SubjectOf[e] = frame.port
         THEN /\ delivered' = delivered \cup {e}
              /\ strays' = strays \cup {x \in {e} : x \in delivered \/ SubjectOf[x] # frame.port}
         ELSE delivered' = delivered /\ strays' = strays
      /\ next_push_ptr' = IF e = None THEN None ELSE Following(e)
      /\ IF next_push_ptr' = None THEN rx_pc' = "loop-back"
                                  ELSE rx_pc' = rx_pc /\ frame' = frame
      /\ entry_tree' = entry_tree /\ owed' = owed
  BY Zenon DEF LoopBackNext, Accepts, Done
<1>2. IsTree(t) /\ TreeInv'
  BY <1>1 DEF LoopBackInv, TreeInv
<1>3. /\ strays = {}
      /\ e \in ToSet(t) \cup {None}
      /\ \A x \in delivered : x \in ToSet(t) /\ (e # None => Pos(t, x) < Pos(t, e))
      /\ \A x \in owed : x \in ToSet(t) /\ SubjectOf[x] = frame.port
      /\ \A x \in owed \ delivered : e # None /\ Pos(t, e) <= Pos(t, x)
      /\ frame.kind = "message"
  BY <1>1 DEF LoopBackInv, ProgressInv, PushPtrInv
<1>4. \A x \in ToSet(t) : Pos(t, x) \in Int /\ t[Pos(t, x)] = x
  BY <1>2, PosProperties
<1>5. CASE e = None
  <2>1. /\ next_push_ptr' = None /\ rx_pc' = "loop-back"
        /\ delivered' = delivered /\ strays' = {} /\ owed' \subseteq delivered'
    BY <1>1, <1>3, <1>5
  <2>2. PushPtrInv' /\ ProgressInv'
    BY <2>1 DEF PushPtrInv, ProgressInv
  <2>3. QED
    BY <1>2, <2>2 DEF LoopBackInv
<1>6. CASE e # None
  <2> DEFINE nx == Following(e)
  <2>1. /\ nx \in ToSet(t) \cup {None}
        /\ nx # None => Pos(t, nx) = Pos(t, e) + 1
        /\ nx = None => \A x \in ToSet(t) : Pos(t, x) <= Pos(t, e)
    <3>1. nx = IF Pos(t, e) = Len(t) THEN None ELSE t[Pos(t, e) + 1]
      BY IndexIsPos DEF Following
    <3>2. e \in ToSet(t)
      BY <1>3, <1>6
    <3> HIDE DEF nx, e, t
    <3>3. QED
      BY <1>2, <3>1, <3>2, NextInTree
  <2>2. next_push_ptr' = nx
    BY <1>1, <1>6
  <2> HIDE DEF nx
  <2>3. strays' = {}
    <3>1. e \notin delivered
      BY <1>3, <1>4, <1>6
    <3>2. QED
      BY <1>1, <1>3, <3>1
  <2>4. \A x \in delivered' : x \in ToSet(t) /\ Pos(t, x) <= Pos(t, e)
    <3>1. \A x \in delivered' : x \in delivered \/ x = e
      BY <1>1
    <3>2. e \in ToSet(t) /\ Pos(t, e) \in Int
      BY <1>3, <1>4, <1>6
    <3>3. \A x \in delivered : x \in ToSet(t) /\ Pos(t, x) < Pos(t, e) /\ Pos(t, x) \in Int
      BY <1>3, <1>4, <1>6
    <3>4. QED
      BY <3>1, <3>2, <3>3
  <2>5. \A x \in owed \ delivered' : Pos(t, e) + 1 <= Pos(t, x)
    <3>1. ASSUME NEW x \in owed \ delivered'
          PROVE  Pos(t, e) + 1 <= Pos(t, x)
      <4>1. x \in owed \ delivered /\ x # e
        BY <1>1, <1>3, <1>6, <3>1
      <4>2. x \in ToSet(t) /\ e \in ToSet(t) /\ Pos(t, e) <= Pos(t, x)
        BY <1>3, <1>6, <4>1
      <4>3. Pos(t, e) # Pos(t, x)
        BY <1>4, <4>1, <4>2
      <4>4. QED
        BY <1>4, <4>2, <4>3
    <3>2. QED
      BY <3>1
  <2>6. CASE nx = None
    <3>1. owed' \subseteq delivered'
      <4>1. ASSUME NEW x \in owed, x \notin delivered'
            PROVE  FALSE
        <5>1. x \in ToSet(t) /\ e \in ToSet(t) /\ Pos(t, e) + 1 <= Pos(t, x)
          BY <1>3, <1>6, <2>5, <4>1
        <5>2. QED
          BY <1>4, <2>1, <2>6, <5>1
      <4>2. QED
        BY <1>1, <4>1
    <3>2. next_push_ptr' = None /\ rx_pc' = "loop-back"
      BY <1>1, <2>2, <2>6
    <3>3. PushPtrInv' /\ ProgressInv'
      BY <2>3, <3>1, <3>2 DEF PushPtrInv, ProgressInv
    <3>4. QED
      BY <1>2, <3>3 DEF LoopBackInv
  <2>7. CASE nx # None
    <3>1. rx_pc' = "loop-back push" /\ frame' = frame
      BY <1>1, <2>2, <2>7
    <3>2. PushPtrInv'
      BY <1>1, <1>3, <2>1, <2>2, <3>1 DEF PushPtrInv
    <3>3. \A x \in delivered' : x \in ToSet(t) /\ Pos(t, x) < Pos(t, nx)
      BY <1>3, <1>4, <1>6, <2>1, <2>4, <2>7
    <3>4. \A x \in owed' \ delivered' : Pos(t, nx) <= Pos(t, x)
      BY <1>1, <2>1, <2>5, <2>7
    <3>5. \A x \in owed' : x \in ToSet(t) /\ SubjectOf[x] = frame'.port
      BY <1>1, <1>3, <3>1
    <3>6. ProgressInv'
      BY <1>1, <2>2, <2>3, <2>7, <3>1, <3>3, <3>4, <3>5 DEF ProgressInv
    <3>7. QED
      BY <1>2, <3>2, <3>6 DEF LoopBackInv
  <2>8. QED
    BY <2>6, <2>7
<1>7. QED
  BY <1>5, <1>6

\* An endpoint that comes during a push is not due, and leaves the others in order.
LEMMA CreateKeepsPush ==
    ASSUME LoopBackInv, NEW e \in Entries, CreateMessageLoopBack(e)
    PROVE  LoopBackInv'
<1> DEFINE t == entry_tree
<1>1. PICK k : k = Min({Len(t) + 1} \cup {i \in DOMAIN t : SubjectOf[t[i]] > SubjectOf[e]})
  OBVIOUS
<1>2. /\ e \notin ToSet(t) /\ entry_tree' = InsertAt(t, k, e)
      /\ UNCHANGED << next_push_ptr, delivered, owed, strays, rx_pc, frame >>
  BY <1>1 DEF CreateMessageLoopBack, Register, rxVars
<1>3. IsTree(t)
  BY DEF LoopBackInv, TreeInv
<1>4. /\ IsTree(entry_tree')
      /\ ToSet(entry_tree') = ToSet(t) \cup {e}
      /\ \A x \in ToSet(t) :
             Pos(entry_tree', x) = IF Pos(t, x) < k THEN Pos(t, x) ELSE Pos(t, x) + 1
      /\ k \in 1 .. Len(t) + 1
  <2> HIDE DEF t
  <2>1. QED
    BY <1>1, <1>2, <1>3, TreeWith
<1>5. k \in Int /\ \A x \in ToSet(t) : Pos(t, x) \in Int
  BY <1>3, <1>4, PosProperties, TreeElements
<1>6. \A x, y \in ToSet(t) :
          /\ Pos(t, x) < Pos(t, y) => Pos(entry_tree', x) < Pos(entry_tree', y)
          /\ Pos(t, x) <= Pos(t, y) => Pos(entry_tree', x) <= Pos(entry_tree', y)
  <2>1. ASSUME NEW x \in ToSet(t), NEW y \in ToSet(t), Pos(t, x) <= Pos(t, y)
        PROVE  Pos(entry_tree', x) <= Pos(entry_tree', y)
    BY <1>4, <1>5, <2>1
  <2>2. ASSUME NEW x \in ToSet(t), NEW y \in ToSet(t), Pos(t, x) < Pos(t, y)
        PROVE  Pos(entry_tree', x) < Pos(entry_tree', y)
    BY <1>4, <1>5, <2>2
  <2>3. QED
    BY <2>1, <2>2
<1>7. TreeInv'
  BY <1>4 DEF TreeInv
<1>8. PushPtrInv'
  BY <1>2, <1>4 DEF LoopBackInv, PushPtrInv
<1>9. ProgressInv'
  <2>1. next_push_ptr \in ToSet(t) \cup {None}
    BY DEF LoopBackInv, PushPtrInv
  <2>2. QED
    BY <1>2, <1>4, <1>6, <2>1 DEF LoopBackInv, ProgressInv
<1>10. QED
  BY <1>7, <1>8, <1>9 DEF LoopBackInv

\* One that goes during a push takes the pointer to its next neighbour.
LEMMA DropKeepsPush ==
    ASSUME LoopBackInv, NEW e \in Entries, DropLoopBack(e)
    PROVE  LoopBackInv'
<1> DEFINE t == entry_tree
           nx == Following(e)
<1>1. /\ e \in ToSet(t) /\ entry_tree' = RemoveAt(t, Pos(t, e))
      /\ next_push_ptr' = IF next_push_ptr = e THEN nx ELSE next_push_ptr
      /\ delivered' = delivered \ {e} /\ owed' = owed \ {e}
      /\ UNCHANGED << strays, rx_pc, frame >>
  BY IndexIsPos DEF DropLoopBack, Unregister, PushPtrWithout, rxVars
<1>2. IsTree(t)
  BY DEF LoopBackInv, TreeInv
<1>3. /\ IsTree(entry_tree')
      /\ ToSet(entry_tree') = ToSet(t) \ {e}
      /\ \A x \in ToSet(entry_tree') :
             Pos(entry_tree', x) = IF Pos(t, x) < Pos(t, e) THEN Pos(t, x) ELSE Pos(t, x) - 1
  <2> HIDE DEF t
  <2>1. QED
    BY <1>1, <1>2, TreeWithout
<1>4. /\ nx \in ToSet(t) \cup {None}
      /\ nx # None => Pos(t, nx) = Pos(t, e) + 1
      /\ nx = None => \A x \in ToSet(t) : Pos(t, x) <= Pos(t, e)
  <2>1. nx = IF Pos(t, e) = Len(t) THEN None ELSE t[Pos(t, e) + 1]
    BY IndexIsPos DEF Following
  <2> HIDE DEF nx, t
  <2>2. QED
    BY <1>1, <1>2, <2>1, NextInTree
<1> HIDE DEF nx
<1>5. \A x \in ToSet(t) : Pos(t, x) \in Int /\ t[Pos(t, x)] = x
  BY <1>2, PosProperties
<1>6. \A x, y \in ToSet(entry_tree') :
          /\ Pos(t, x) < Pos(t, y) => Pos(entry_tree', x) < Pos(entry_tree', y)
          /\ Pos(t, x) <= Pos(t, y) => Pos(entry_tree', x) <= Pos(entry_tree', y)
  <2>1. \A x \in ToSet(entry_tree') : /\ Pos(t, x) \in Int /\ x \in ToSet(t)
                                      /\ Pos(t, x) # Pos(t, e)
    BY <1>1, <1>3, <1>5
  <2>2. Pos(t, e) \in Int
    BY <1>1, <1>5
  <2>3. ASSUME NEW x \in ToSet(entry_tree'), NEW y \in ToSet(entry_tree'),
               Pos(t, x) <= Pos(t, y)
        PROVE  Pos(entry_tree', x) <= Pos(entry_tree', y)
    BY <1>3, <2>1, <2>2, <2>3
  <2>4. ASSUME NEW x \in ToSet(entry_tree'), NEW y \in ToSet(entry_tree'),
               Pos(t, x) < Pos(t, y)
        PROVE  Pos(entry_tree', x) < Pos(entry_tree', y)
    BY <1>3, <2>1, <2>2, <2>4
  <2>5. QED
    BY <2>3, <2>4
<1>7. TreeInv'
  BY <1>3 DEF TreeInv
<1>8. next_push_ptr' \in ToSet(entry_tree') \cup {None}
  <2>1. nx # e
    BY <1>1, <1>4, <1>5, NodeReceiveAssumption
  <2>2. next_push_ptr \in ToSet(t) \cup {None}
    BY DEF LoopBackInv, PushPtrInv
  <2>3. QED
    BY <1>1, <1>3, <1>4, <2>1, <2>2
<1>9. e # None /\ (next_push_ptr' # None => next_push_ptr # None)
  BY <1>1, NodeReceiveAssumption
<1>10. PushPtrInv'
  BY <1>1, <1>8, <1>9 DEF LoopBackInv, PushPtrInv
<1>11. CASE rx_pc # "loop-back push"
  <2>1. ProgressInv'
    BY <1>1, <1>11 DEF LoopBackInv, ProgressInv
  <2>2. QED
    BY <1>7, <1>10, <2>1 DEF LoopBackInv
<1>12. CASE rx_pc = "loop-back push"
  <2>1. /\ \A x \in delivered : /\ x \in ToSet(t)
                                /\ next_push_ptr # None => Pos(t, x) < Pos(t, next_push_ptr)
        /\ \A x \in owed : x \in ToSet(t) /\ SubjectOf[x] = frame.port
        /\ \A x \in owed \ delivered :
               next_push_ptr # None /\ Pos(t, next_push_ptr) <= Pos(t, x)
        /\ next_push_ptr \in ToSet(t) \cup {None}
        /\ strays = {}
    BY <1>12 DEF LoopBackInv, ProgressInv, PushPtrInv
  <2>2. ASSUME NEW x \in delivered'
        PROVE  /\ x \in ToSet(entry_tree')
               /\ next_push_ptr' # None => Pos(t, x) < Pos(t, next_push_ptr')
    <3>1. /\ x \in ToSet(entry_tree') /\ x \in ToSet(t) /\ Pos(t, x) \in Int
          /\ next_push_ptr # None => Pos(t, x) < Pos(t, next_push_ptr)
      BY <1>1, <1>3, <1>5, <2>1, <2>2
    <3>2. CASE next_push_ptr = e
      <4>1. Pos(t, x) < Pos(t, e) /\ next_push_ptr' = nx /\ Pos(t, e) \in Int
        BY <1>1, <1>5, <1>9, <3>1, <3>2
      <4>2. QED
        BY <1>4, <3>1, <4>1
    <3>3. CASE next_push_ptr # e
      BY <1>1, <3>1, <3>3
    <3>4. QED
      BY <3>2, <3>3
  <2>3. ASSUME NEW x \in owed' \ delivered'
        PROVE  next_push_ptr' # None /\ Pos(t, next_push_ptr') <= Pos(t, x)
    <3>1. /\ x \in owed \ delivered /\ x # e /\ x \in ToSet(t) /\ Pos(t, x) \in Int
          /\ next_push_ptr # None /\ Pos(t, next_push_ptr) <= Pos(t, x)
      BY <1>1, <1>5, <2>1, <2>3
    <3>2. CASE next_push_ptr = e
      <4>1. /\ Pos(t, e) <= Pos(t, x) /\ Pos(t, e) # Pos(t, x) /\ Pos(t, e) \in Int
            /\ next_push_ptr' = nx
        BY <1>1, <1>5, <3>1, <3>2
      <4>2. QED
        BY <1>4, <3>1, <4>1
    <3>3. CASE next_push_ptr # e
      BY <1>1, <3>1, <3>3
    <3>4. QED
      BY <3>2, <3>3
  <2>4. \A x \in owed' : x \in ToSet(entry_tree') /\ SubjectOf[x] = frame'.port
    BY <1>1, <1>3, <2>1
  <2>5. ProgressInv'
    <3>1. \A x \in delivered' :
              /\ x \in ToSet(entry_tree')
              /\ next_push_ptr' # None => Pos(entry_tree', x) < Pos(entry_tree', next_push_ptr')
      BY <1>6, <1>8, <2>2
    <3>2. \A x \in owed' \ delivered' :
              next_push_ptr' # None /\ Pos(entry_tree', next_push_ptr') <= Pos(entry_tree', x)
      BY <1>6, <1>8, <2>3, <2>4
    <3>3. QED
      BY <1>1, <1>12, <2>1, <2>4, <3>1, <3>2 DEF ProgressInv
  <2>6. QED
    BY <1>7, <1>10, <2>5 DEF LoopBackInv
<1>13. QED
  BY <1>11, <1>12

LEMMA NextLoopBackInv == RxInv /\ LoopBackInv /\ [Next]_vars => LoopBackInv'
<1> SUFFICES ASSUME RxInv, LoopBackInv, [Next]_vars
             PROVE  LoopBackInv'
  OBVIOUS
<1>1. CASE Bus \/ OnInterrupt \/ WorkerStep \/ UNCHANGED vars
  <2>1. UNCHANGED << treeVars, rx_pc, frame >>
    BY <1>1 DEF Bus, Receive, ReturnFrame, OnInterrupt, WorkerStep, rxVars, vars
  <2>2. QED
    BY <2>1, LoopBackQuiet
<1>2. CASE ReceiveTask
  <2>1. CASE CheckLoopBack \/ RegisterWaker \/ Wake
    <3>1. /\ UNCHANGED treeVars
          /\ rx_pc # "loop-back push" /\ rx_pc' # "loop-back push"
      BY <2>1 DEF CheckLoopBack, RegisterWaker, Wake, Take
    <3>2. QED
      BY <3>1, LoopBackQuiet
  <2>2. CASE \E n \in Fifos : PopFifo(n)
    <3>1. PICK n \in Fifos : PopFifo(n)
      BY <2>2
    <3>2. /\ UNCHANGED treeVars
          /\ rx_pc = FifoPc(n) /\ rx_pc' \in {NextFifo(n), "push"}
      BY <3>1, Zenon DEF PopFifo, Take
    <3>3. rx_pc # "loop-back push" /\ rx_pc' # "loop-back push"
      BY <3>2 DEF FifoPc, NextFifo
    <3>4. QED
      BY <3>2, <3>3, LoopBackQuiet
  <2>3. CASE PushOwnRequest \/ Ignore
    <3>1. /\ UNCHANGED treeVars
          /\ rx_pc # "loop-back push" /\ rx_pc' # "loop-back push"
      BY <2>3 DEF PushOwnRequest, Ignore, Done
    <3>2. QED
      BY <3>1, LoopBackQuiet
  <2>4. CASE LoopBackStart
    BY <2>4, LoopBackStartKeepsPush
  <2>5. CASE LoopBackNext
    BY <2>5, LoopBackNextKeepsPush
  <2>6. QED
    BY <1>2, <2>1, <2>2, <2>3, <2>4, <2>5 DEF ReceiveTask
<1>3. CASE Endpoint
  BY <1>3, CreateKeepsPush, DropKeepsPush DEF Endpoint
<1>4. QED
  BY <1>1, <1>2, <1>3 DEF Next

-----------------------------------------------------------------------------
LEMMA InitInv == Init => Inv
<1> SUFFICES ASSUME Init
             PROVE  Inv
  OBVIOUS
<1>1. RxInv
  <2>1. fifos \in [Fifos -> Seq(Frames)]
    BY DEF Init
  <2>2. QED
    BY <2>1 DEF Init, RxInv, RxTypeOK, RxPcs, ChannelWatched, InterruptWatched, FifosWatched
<1>2. LoopBackInv
  <2>1. IsTree(entry_tree)
    BY DEF Init, IsTree
  <2>2. PushPtrInv /\ ProgressInv
    BY DEF Init, PushPtrInv, ProgressInv
  <2>3. QED
    BY <2>1, <2>2 DEF LoopBackInv, TreeInv
<1>3. WorkerInv
  <2>1. responses = New("Response", None) /\ pc = "none" /\ ~ asleep
        /\ asleep \in BOOLEAN /\ woken \in BOOLEAN
    BY DEF Init, ResponderInit
  <2>2. ResponseBufferInv
    BY <2>1, NewResponseBuffer DEF ResponseBufferInv, ResponseBuffers, Room
  <2>3. RoomInv /\ SleepInv
    BY <2>1 DEF RoomInv, SleepInv
  <2>4. QED
    BY <2>2, <2>3 DEF WorkerInv
<1>4. QED
  BY <1>1, <1>2, <1>3 DEF Inv

\* The receive task, the loop-back half and the worker keep their invariants together:
\* requests reach the worker only with the types the receive task's invariant gives.
THEOREM InductiveInvariant == NodeSpec => []Inv
<1>1. Inv /\ [Next]_vars => Inv'
  BY NextRxInv, NextLoopBackInv, NextWorkerInv DEF Inv
<1>2. QED
  BY InitInv, <1>1, PTL DEF NodeSpec

\* The receive task never sleeps over a frame in the channel or in a FIFO (driver.rs,
\* RxRunner and wake_rx), for any depth of the FIFOs.
THEOREM ReceiverWakes == NodeSpec => []ReceiverIsWoken
<1>1. Inv => ReceiverIsWoken
  BY DEF Inv, RxInv, ChannelWatched, FifosWatched, ReceiverIsWoken, Fifos
<1>2. QED
  BY <1>1, InductiveInvariant, PTL

\* hub_push_start and hub_push_next of the loop-back half hand a returned message to each
\* endpoint of its subject once and to no other, for any endpoints and subjects.
THEOREM LoopBackIsExact == NodeSpec => []LoopBackPushIsExact
<1>1. Inv => LoopBackPushIsExact
  <2> SUFFICES ASSUME Inv
               PROVE  LoopBackPushIsExact
    OBVIOUS
  <2>1. IndexOf(next_push_ptr) = Pos(entry_tree, next_push_ptr)
        /\ \A e : IndexOf(e) = Pos(entry_tree, e)
    BY IndexIsPos
  <2>2. QED
    BY <2>1 DEF Inv, LoopBackInv, PushPtrInv, ProgressInv, LoopBackPushIsExact
<1>2. QED
  BY <1>1, InductiveInvariant, PTL

\* process_request never unwraps a refused response and never sleeps over a request or
\* over room (socket.rs), for any priorities and lengths of responses.
THEOREM WorkerNeverStalls == NodeSpec => []WorkerGoesOn
<1>1. Inv => WorkerGoesOn
  BY DEF Inv, WorkerInv, RoomInv, SleepInv, WorkerGoesOn
<1>2. QED
  BY <1>1, InductiveInvariant, PTL

=============================================================================
