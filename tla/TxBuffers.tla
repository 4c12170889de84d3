------------------------------ MODULE TxBuffers ------------------------------
(***************************************************************************)
(* The transmit buffers (DynamicTxBuffer), as operators on their states:   *)
(*   Signal    (buffer/tx_msg/signal.rs)  the newest message,              *)
(*   Blocking  (buffer/tx_msg/blocking.rs)  one message,                   *)
(*   Response  (buffer/tx_resp/blocking.rs)  one response per priority.    *)
(*                                                                         *)
(* A transfer is the number of frames its Scatter cuts it into, how many   *)
(* of them were fetched, and the index of the payload buffer it reads. A   *)
(* payload is only ever written to the scratchpad.                         *)
(***************************************************************************)
EXTENDS Common, Integers, SequencesExt

ASSUME TxBuffersAssumption ==
    Priorities \subseteq Nat /\ Priorities # {} /\ IsFiniteSet(Priorities)

Transfer(idx, frames) == [buffer_idx |-> idx, frames |-> frames, sent |-> 0]

\* The transfers, and the buffers, that there can be.
TxTransfers == [buffer_idx : Nat, frames : Nat \ {0}, sent : Nat]

SignalStates ==
    [kind : {"Signal"}, priority : Priorities, pending : TxTransfers \cup {None},
     fragmented : TxTransfers \cup {None}, scratchpad : Nat \cup {None}, free : Seq(Nat)]
BlockingStates ==
    [kind : {"Blocking"}, priority : Priorities, pending : TxTransfers \cup {None},
     scratchpad_provided : BOOLEAN]
ResponseStates ==
    [kind : {"Response"}, transfers : [Priorities -> TxTransfers \cup {None}],
     scratchpad : Nat \cup {None}, free : Seq(Nat)]

TxBufferStates == SignalStates \cup BlockingStates \cup ResponseStates

\* A signal has two payload buffers, a response buffer one for each priority.
BufferCount(kind) ==
    CASE kind = "Signal" -> 2 [] kind = "Blocking" -> 1
      [] kind = "Response" -> Cardinality(Priorities)

\* The indexes of the free payload buffers, a stack.
AllFree(kind) == [i \in 1 .. BufferCount(kind) |-> i - 1]

SignalNew(priority) ==
    [kind |-> "Signal", priority |-> priority, pending |-> None, fragmented |-> None,
     scratchpad |-> None, free |-> AllFree("Signal")]

BlockingNew(priority) ==
    [kind |-> "Blocking", priority |-> priority, pending |-> None,
     scratchpad_provided |-> FALSE]

ResponseNew ==
    [kind |-> "Response", transfers |-> [p \in Priorities |-> None],
     scratchpad |-> None, free |-> AllFree("Response")]

New(kind, priority) ==
    CASE kind = "Signal" -> SignalNew(priority) [] kind = "Blocking" -> BlockingNew(priority)
      [] kind = "Response" -> ResponseNew

SignalPopReadiness(b) ==
    {p \in {b.priority} : b.fragmented # None \/ b.pending # None}

BlockingPopReadiness(b) == {p \in {b.priority} : b.pending # None}

ResponsePopReadiness(b) == {p \in Priorities : b.transfers[p] # None}

PopReadiness(b) ==
    CASE b.kind = "Signal" -> SignalPopReadiness(b)
      [] b.kind = "Blocking" -> BlockingPopReadiness(b)
      [] b.kind = "Response" -> ResponsePopReadiness(b)

IsEmpty(b) == PopReadiness(b) = {}

\* A signal takes a message at any time.
SignalPushReadiness(b) == {b.priority}

BlockingPushReadiness(b) == {p \in {b.priority} : b.pending = None}

ResponsePushReadiness(b) == {p \in Priorities : b.transfers[p] = None}

PushReadiness(b) ==
    CASE b.kind = "Signal" -> SignalPushReadiness(b)
      [] b.kind = "Blocking" -> BlockingPushReadiness(b)
      [] b.kind = "Response" -> ResponsePushReadiness(b)

-----------------------------------------------------------------------------
(* try_pop. An outcome has the frame, or None; the buffer afterwards; the  *)
(* priorities and whether the emptiness the writer is woken for.           *)

Fetched(t) == [t EXCEPT !.sent = @ + 1]
Exhausted(t) == t.sent = t.frames
FrameOf(t) == [sot |-> t.sent = 0, eot |-> Exhausted(Fetched(t))]

NoFrame(b) == [frame |-> None, buffer |-> b, ready |-> {}, empty |-> FALSE]

\* Mutant: the newest transfer is fetched, and the one that was begun is lost.
MutantFetchFrom(b) == IF b.pending # None THEN b.pending ELSE b.fragmented

\* The transfer that was begun goes first.
FetchFrom(b) == IF b.fragmented # None THEN b.fragmented ELSE b.pending

SignalTryPop(b) ==
    LET t == FetchFrom(b)
        taken == IF t = b.pending THEN [b EXCEPT !.pending = None] ELSE b
        after == IF Exhausted(Fetched(t))
                 THEN [taken EXCEPT !.fragmented = None,
                                    !.free = Append(@, t.buffer_idx)]
                 ELSE [taken EXCEPT !.fragmented = Fetched(t)]
    IN  IF t = None THEN NoFrame(b)
        ELSE [frame |-> FrameOf(t), buffer |-> after, ready |-> {},
              empty |-> IsEmpty(after)]

BlockingTryPop(b) ==
    LET t == b.pending
        done == Exhausted(Fetched(t))
    IN  IF t = None THEN NoFrame(b)
        ELSE [frame |-> FrameOf(t),
              buffer |-> [b EXCEPT !.pending = IF done THEN None ELSE Fetched(t)],
              ready |-> {p \in {b.priority} : done}, empty |-> done]

ResponseTryPop(b, p) ==
    LET t == b.transfers[p]
        done == Exhausted(Fetched(t))
        after == [b EXCEPT !.transfers[p] = IF done THEN None ELSE Fetched(t),
                           !.free = IF done THEN Append(@, t.buffer_idx) ELSE @]
    IN  IF t = None THEN NoFrame(b)
        ELSE [frame |-> FrameOf(t), buffer |-> after,
              ready |-> {q \in {p} : done}, empty |-> IsEmpty(after)]

\* The mask is one priority: the queue's.
TryPop(b, p) ==
    CASE b.kind = "Signal" -> IF p = b.priority THEN SignalTryPop(b) ELSE NoFrame(b)
      [] b.kind = "Blocking" -> IF p = b.priority THEN BlockingTryPop(b) ELSE NoFrame(b)
      [] b.kind = "Response" -> ResponseTryPop(b, p)

-----------------------------------------------------------------------------
(* get_scratchpad and try_push.                                            *)

\* With both buffers in use the transfer that was not begun gives its own.
SignalScratchpad(b) ==
    IF b.scratchpad # None THEN b
    ELSE IF b.free # << >>
    THEN [b EXCEPT !.scratchpad = Last(b.free), !.free = Front(@)]
    ELSE [b EXCEPT !.scratchpad = b.pending.buffer_idx, !.pending = None]

BlockingScratchpad(b) ==
    IF BlockingPushReadiness(b) = {} THEN b
    ELSE [b EXCEPT !.scratchpad_provided = TRUE]

ResponseScratchpad(b) ==
    IF ResponsePushReadiness(b) = {} \/ b.scratchpad # None THEN b
    ELSE [b EXCEPT !.scratchpad = Last(b.free), !.free = Front(@)]

\* Nothing changes if the buffer is not ready.
GetScratchpad(b) ==
    CASE b.kind = "Signal" -> SignalScratchpad(b)
      [] b.kind = "Blocking" -> BlockingScratchpad(b)
      [] b.kind = "Response" -> ResponseScratchpad(b)

HasScratchpad(b) ==
    IF b.kind = "Blocking" THEN b.scratchpad_provided ELSE b.scratchpad # None

\* Mutant: the buffer of a transfer that is replaced is not freed.
MutantReplaced(b) == b.free

\* The free buffers once the pending transfer is replaced.
Replaced(b) ==
    IF b.pending = None THEN b.free ELSE Append(b.free, b.pending.buffer_idx)

SignalPush(b, frames) ==
    [b EXCEPT !.pending = Transfer(b.scratchpad, frames), !.scratchpad = None,
              !.free = Replaced(b)]

BlockingPush(b, frames) ==
    [b EXCEPT !.pending = Transfer(0, frames), !.scratchpad_provided = FALSE]

ResponsePush(b, p, frames) ==
    [b EXCEPT !.transfers[p] = Transfer(b.scratchpad, frames), !.scratchpad = None]

\* The priority is one the buffer is ready for, and it has a scratchpad.
Push(b, p, frames) ==
    CASE b.kind = "Signal" -> SignalPush(b, frames)
      [] b.kind = "Blocking" -> BlockingPush(b, frames)
      [] b.kind = "Response" -> ResponsePush(b, p, frames)

-----------------------------------------------------------------------------
(* Views for properties.                                                   *)

\* The transfers of a buffer, by the place they are at.
TransfersOf(b) ==
    CASE b.kind = "Signal" -> [pending |-> b.pending, fragmented |-> b.fragmented]
      [] b.kind = "Blocking" -> [pending |-> b.pending]
      [] b.kind = "Response" -> b.transfers

\* The priorities of the transfers that have frames on the bus already.
Begun(b) ==
    CASE b.kind = "Signal" -> {p \in {b.priority} : b.fragmented # None}
      [] b.kind = "Blocking" ->
         {p \in PopReadiness(b) : b.pending.sent > 0}
      [] b.kind = "Response" ->
         {p \in PopReadiness(b) : b.transfers[p].sent > 0}

\* The transfer of priority p that has.
BegunTransfer(b, p) ==
    CASE b.kind = "Signal" -> b.fragmented
      [] b.kind = "Blocking" -> b.pending
      [] b.kind = "Response" -> b.transfers[p]

=============================================================================
