------------------------------- MODULE EmbassyTx -------------------------------
(***************************************************************************)
(* The transmit task of the embassy driver (emcyphal-stm32-embassy,        *)
(* driver.rs TxRunner::run and the queues of utils.rs) and the mailboxes   *)
(* of the controller. The task holds a queue of frames for each priority:  *)
(* the frame it has fetched and those that embassy's write_fd has taken    *)
(* out of a mailbox for a more urgent one.                                 *)
(***************************************************************************)
EXTENDS SequencesExt, CanId

CONSTANTS
    BoxCount,           (* mailboxes, TX_FIFO_DEPTH                        *)
    MaxTime             (* BOUND: the last instant                         *)

\* write_fd blocks on the next frame.
PreemptionDepth == BoxCount + 1

\* Instant::MAX, later than any instant there is.
Never == MaxTime + 2

VARIABLES
    frames,     (* PriorityDeque                                           *)
    deadlines,  (* PriorityArray                                           *)
    boxes,      (* the frames that are pending in the mailboxes            *)
    now,
    panicked    (* one of the unwraps has failed                           *)

txVars == << frames, deadlines, boxes, panicked >>

(***************************************************************************)
(* A frame is a record of priority, deadline and id, and whatever tells it *)
(* from others.                                                            *)
(***************************************************************************)
Occupied == {p \in Priorities : frames[p] # << >>}

First(S) == CHOOSE p \in S : \A q \in S : p <= q

TxInit ==
    /\ frames = [p \in Priorities |-> << >>]
    /\ deadlines = [p \in Priorities |-> Never]
    /\ boxes = {}
    /\ now = 0
    /\ panicked = FALSE

\* The next deadline is over. One that is just over is only removed an instant later.
DeadlineReady == \E p \in Priorities : deadlines[p] <= now

\* Mutant: the frame at the front is removed.
MutantExpired(queue) == Tail(queue)

Expired(queue) == Front(queue)

Expire ==
    LET late == {p \in Priorities : now > deadlines[p]}
    IN  /\ DeadlineReady
        /\ deadlines' = [p \in Priorities |-> IF p \in late THEN Never
                                                            ELSE deadlines[p]]
        /\ frames' = [p \in Priorities |->
                        IF p \in late /\ frames[p] # << >> THEN Expired(frames[p])
                                                           ELSE frames[p]]
        /\ panicked' = \E p \in late : frames[p] = << >>
        /\ UNCHANGED << boxes, now >>

\* The priorities of which a frame is asked for.
FetchMask == Priorities \ Occupied

\* A frame is fetched from the link.
Fetch(frame) ==
    LET p == frame.priority
    IN  /\ ~ DeadlineReady
        /\ p \in FetchMask
        /\ frames' = [frames EXCEPT ![p] = Append(@, frame)]
        /\ panicked' = (Len(frames[p]) = PreemptionDepth)
        /\ deadlines' = [deadlines EXCEPT ![p] = frame.deadline]
        /\ UNCHANGED << boxes, now >>

\* One identifier has priority over another one on the bus.
Precedes(a, b) == a # b /\ Max(SymDiff(a, b)) \in b

\* What write_fd, external, does with a frame: it takes an empty mailbox or that of
\* a frame which the new one precedes. Of a mailbox that has just been sent there is
\* nothing to bring back: its frame has been removed before.
Displaced(frame) ==
    IF Cardinality(boxes) < BoxCount THEN {{}}
    ELSE {{b} : b \in {b \in boxes : Precedes(frame.id, b.id)}}

\* Mutant: the frame that was preempted is lost.
MutantPutBack(queues, preempted) == queues

PutBack(queues, preempted) ==
    [p \in Priorities |->
        SetToSeq({b \in preempted : DecodeCanIdPriority(b.id) = p}) \o queues[p]]

\* The most urgent frame is written. A queue that has nothing left has no deadline;
\* a frame that is put back comes without one.
Write ==
    LET p     == First(Occupied)
        frame == Head(frames[p])
        left  == [frames EXCEPT ![p] = Tail(@)]
    IN  /\ ~ DeadlineReady
        /\ Occupied # {}
        /\ \E preempted \in Displaced(frame) :
            /\ boxes' = (boxes \ preempted) \cup {frame}
            /\ frames' = PutBack(left, preempted)
            /\ panicked' = \E q \in Priorities : Len(frames'[q]) > PreemptionDepth
        /\ deadlines' = [deadlines EXCEPT ![p] = IF left[p] = << >> THEN Never ELSE @]
        /\ UNCHANGED now

Tick ==
    /\ now < MaxTime  \* BOUND
    /\ now' = now + 1
    /\ UNCHANGED txVars

=============================================================================
