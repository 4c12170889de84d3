---------------------------- MODULE NativeTxProofs ----------------------------
(***************************************************************************)
(* Proofs about the transmit task of the native driver.                    *)
(***************************************************************************)
EXTENDS NativeTx, SequenceLemmas, FiniteSetTheorems

LinkFrames == [id : Nat, loop_back : BOOLEAN, timestamp : Nat]

\* The values the variables take.
TypeOK ==
    /\ pending \subseteq Mailboxes /\ cancelling \subseteq Mailboxes
    /\ sending \in Mailboxes \cup {None}
    /\ content \in [Mailboxes -> LinkFrames \cup {None}]
    /\ events \in Seq([marker : Mailboxes, counter : Nat])
    /\ interrupt \in BOOLEAN /\ tx_waker \in BOOLEAN /\ woken \in BOOLEAN
    /\ unpend_mask \subseteq Mailboxes
    /\ loop_back \in LinkFrames \cup {None}
    /\ frames \in [Priorities -> LinkFrames \cup {None}]
    /\ pending_frames \in [Mailboxes -> Priorities \cup {None}]
    /\ loop_back_pending \subseteq Occupied
    /\ pending_mailboxes \subseteq Mailboxes /\ completed_mailboxes \subseteq Mailboxes
    /\ box \in Mailboxes \cup {None}
    /\ now \in Nat /\ fetched \in Nat
    /\ timestamp_offset \in {None} \cup 0 .. CounterRange - 1
    /\ bus \in Seq([id : Nat, time : Nat, read : Nat \cup {None}])
    /\ returned \in Seq(LinkFrames)
    /\ aborted \subseteq Mailboxes

-----------------------------------------------------------------------------
(* The mailboxes and the events of the controller.                          *)

Marks == [i \in DOMAIN events |-> events[i].marker]

Markers == ToSet(Marks)

\* A mailbox with a frame that is to be sent, or whose event is not read yet.
Live == pending \cup Markers

AtMostTwo(S) == \E a, c \in Mailboxes : S \subseteq {a, c}

\* A mailbox is pending or has one event, and one of them is not pending, but while
\* the task puts a frame into it.
ControllerInv ==
    /\ sending # None => sending \in pending
    /\ IsInjective(Marks)
    /\ Markers \cap pending = {}
    /\ pc # "cancel" => AtMostTwo(pending)
    /\ AtMostTwo(pending_mailboxes)

-----------------------------------------------------------------------------
(* Where the task is.                                                       *)

Urgent == First(Queued)

\* A mailbox that the task may fill.
IsFree(b) == b \notin Live /\ pending_frames[b] = None

\* What the task relies on at each point of its turn.
TurnInv ==
    /\ pc \in {"query", "drain", "free", "select", "add", "cancel", "insert", "register",
               "check", "asleep", "event without a frame"}
    /\ pc \in {"drain", "free"} =>
        /\ pending \subseteq pending_mailboxes
        /\ completed_mailboxes \cap Live = {}
    /\ pc = "free" => Free \cap Live = {}
    /\ pc = "select" =>
        \/ Queued = {}
        \/ box \in MailboxesOf(Urgent)
        \/ \A b \in Free : IsFree(b)
    /\ pc \in {"add", "cancel", "insert"} =>
        /\ Queued # {} /\ MailboxesOf(Urgent) = {}
        /\ box \in Mailboxes /\ pending_frames[box] = None
    /\ pc = "add" => box \notin Live
    /\ pc \in {"register", "check"} => Queued # {} /\ box \in MailboxesOf(Urgent)
    /\ pc = "asleep" => Queued = {} \/ box \in MailboxesOf(Urgent)
    /\ pc = "event without a frame" =>
        events # << >> /\ content[Head(events).marker].timestamp <= now

-----------------------------------------------------------------------------
(* Which frame is in which mailbox.                                         *)

\* The priority whose frame the mailbox holds: the frame is put into the mailbox
\* before the task notes it down.
Holds == [b \in Mailboxes |-> IF pc \in {"cancel", "insert"} /\ b = box
                              THEN Urgent ELSE pending_frames[b]]

\* A mailbox of the task holds its frame, another one a frame that is late.
HoldsInv ==
    /\ \A b \in Mailboxes :
        /\ Holds[b] # None => Holds[b] \in Queued
        /\ b \in Live => content[b] # None
        /\ b \in Live /\ Holds[b] # None => content[b] = frames[Holds[b]]
        /\ b \in Live /\ Holds[b] = None => content[b].timestamp <= now
        /\ b \in Live => \A p \in Queued :
            content[b].id = frames[p].id => Holds[b] = p
    /\ \A b, d \in Mailboxes : Holds[b] = Holds[d] /\ Holds[b] # None => b = d

-----------------------------------------------------------------------------
(* Which frames were sent.                                                  *)

SentIds == {bus[i].id : i \in DOMAIN bus}

\* Every frame has an identifier of its own. A queued frame that was sent has an event.
SentInv ==
    /\ \A p \in Occupied : frames[p].id <= fetched
    /\ \A b \in Live : content[b].id <= fetched
    /\ \A i \in DOMAIN bus : bus[i].id <= fetched
    /\ \A p, q \in Occupied : frames[p].id = frames[q].id => p = q
    /\ \A b, d \in Live : content[b].id = content[d].id => b = d
    /\ \A b \in pending : content[b].id \notin SentIds
    /\ \A i, j \in DOMAIN bus : bus[i].id = bus[j].id => i = j
    /\ \A p \in Queued :
        frames[p].id \in SentIds => \E b \in Markers : Holds[b] = p

-----------------------------------------------------------------------------
(* Which frames came back, and with which time.                             *)

\* A frame that was sent, and whose event was read.
IsTold(f, sent, offset) ==
    /\ f.loop_back
    /\ \E j \in DOMAIN sent :
        /\ sent[j].id = f.id
        /\ sent[j].read # None
        /\ f.timestamp \in sent[j].time .. sent[j].read
        /\ offset # None /\ sent[j].read - sent[j].time < CounterRange
            => f.timestamp = sent[j].time

\* An event tells the time of a frame that was sent and that it is the event of.
EventInv ==
    /\ \A i \in DOMAIN events : \E j \in DOMAIN bus :
        /\ bus[j].id = content[events[i].marker].id
        /\ bus[j].read = None
        /\ events[i].counter = Counter(timestamp_offset, bus[j].time)
    /\ \A j \in DOMAIN bus : bus[j].time <= now

\* What waits to be returned, is being returned or was returned was sent, and there
\* is no second frame with its identifier.
ReturnInv ==
    /\ \A p \in loop_back_pending : IsTold(frames[p], bus, timestamp_offset)
    /\ loop_back # None => IsTold(loop_back, bus, timestamp_offset)
    /\ \A i \in DOMAIN returned :
        IsTold(returned[i], bus, timestamp_offset) /\ returned[i].id <= fetched
    /\ \A i, j \in DOMAIN returned : returned[i].id = returned[j].id => i = j
    /\ loop_back # None =>
        /\ loop_back.id <= fetched
        /\ \A i \in DOMAIN returned : returned[i].id # loop_back.id
    /\ \A p \in Occupied :
        /\ loop_back # None => frames[p].id # loop_back.id
        /\ \A i \in DOMAIN returned : frames[p].id # returned[i].id

-----------------------------------------------------------------------------
(* Whether the task is woken.                                               *)

WakeInv ==
    /\ pc = "check" => unpend_mask = {box} /\ (woken \/ tx_waker)
    /\ pc = "asleep" /\ Queued # {} =>
        /\ unpend_mask = {box}
        /\ woken \/ (tx_waker /\ (interrupt \/ box \in pending \cup aborted))

\* The inductive invariant.
Inv ==
    /\ TypeOK
    /\ ControllerInv
    /\ TurnInv
    /\ HoldsInv
    /\ SentInv
    /\ EventInv
    /\ ReturnInv
    /\ WakeInv

-----------------------------------------------------------------------------
(* Facts about the operators.                                               *)

\* first() of a set that is not empty is in it.
LEMMA FirstIsMember ==
    ASSUME NEW S, S \subseteq Nat, S # {}
    PROVE  First(S) \in S
<1>1. \E p \in S : \A q \in S : p <= q
  BY MinIsLeast
<1>2. QED
  BY <1>1 DEF First

\* Two mailboxes are not all of them.
LEMMA TwoAreNotAll ==
    ASSUME NEW S, AtMostTwo(S)
    PROVE  Mailboxes \ S # {}
<1>1. PICK a \in Mailboxes, c \in Mailboxes : S \subseteq {a, c}
  BY DEF AtMostTwo
<1>2. SUFFICES ASSUME Mailboxes \subseteq {a, c}
               PROVE  FALSE
  BY <1>1
<1>3. IsFiniteSet({a}) /\ Cardinality({a}) = 1
  BY FS_Singleton
<1>4. /\ IsFiniteSet({a} \cup {c})
      /\ Cardinality({a} \cup {c}) = 1 \/ Cardinality({a} \cup {c}) = 2
  BY <1>3, FS_AddElement
<1>5. {a} \cup {c} = {a, c}
  OBVIOUS
<1>6. /\ Cardinality(Mailboxes) \in Nat
      /\ Cardinality(Mailboxes) <= Cardinality({a, c})
  BY <1>2, <1>4, <1>5, NativeAssumption, FS_Subset, FS_CardinalityType
<1>7. Cardinality(Mailboxes) > 2
  BY NativeAssumption
<1>8. QED
  BY <1>4, <1>5, <1>6, <1>7

\* A sequence of distinct elements has as many as its range.
LEMMA DistinctFit ==
    ASSUME NEW S, IsFiniteSet(S), NEW seq \in Seq(S), IsInjective(seq)
    PROVE  Len(seq) \in Nat /\ Cardinality(S) \in Nat /\ Len(seq) <= Cardinality(S)
<1>1. /\ Len(seq) \in Nat /\ seq \in [1 .. Len(seq) -> S]
  BY LenProperties
<1>2. IsFiniteSet(1 .. Len(seq)) /\ Cardinality(1 .. Len(seq)) = Len(seq)
  BY <1>1, FS_Interval
<1>3. \A i, j \in 1 .. Len(seq) : seq[i] = seq[j] => i = j
  BY <1>1 DEF IsInjective
<1>4. seq \in Injection(1 .. Len(seq), S)
  BY <1>1, <1>3 DEF Injection, IsInjective
<1>5. Cardinality(1 .. Len(seq)) <= Cardinality(S)
  BY <1>2, <1>4, FS_Injection DEF ExistsInjection
<1>6. QED
  BY <1>1, <1>2, <1>5, FS_CardinalityType

\* A timestamp is an instant, whatever the counter.
LEMMA TimestampIsInstant ==
    ASSUME NEW epoch \in Nat, NEW counter \in Nat
    PROVE  MakeTimestamp(epoch, counter) \in Nat
<1> DEFINE x == epoch - counter
           o == x % CounterRange
<1>1. x \in Int /\ CounterRange \in Nat \ {0}
  BY NativeAssumption
<1>2. MakeTimestamp(epoch, counter) = IF o > epoch THEN 0 ELSE epoch - o
  BY DEF MakeTimestamp
<1> HIDE DEF x
<1>3. o \in 0 .. CounterRange - 1
  BY <1>1
<1> HIDE DEF o
<1>4. QED
  BY <1>1, <1>2, <1>3

\* What remains of a number is determined.
LEMMA RemainderIsUnique ==
    ASSUME NEW R \in Nat \ {0}, NEW a \in Int, NEW b \in Int,
           NEW o \in 0 .. R - 1, NEW s \in 0 .. R - 1, R * a + o = R * b + s
    PROVE  o = s
<1>1. CASE a = b
  <2>1. R * a \in Int /\ R * a = R * b
    BY <1>1
  <2>2. QED
    BY <2>1
<1>2. CASE a > b
  <2>1. R * (a - b) = s - o
    OBVIOUS
  <2>2. R * (a - b) >= R
    BY <1>2
  <2>3. QED
    BY <2>1, <2>2
<1>3. CASE a < b
  <2>1. R * (b - a) = o - s
    OBVIOUS
  <2>2. R * (b - a) >= R
    BY <1>3
  <2>3. QED
    BY <2>1, <2>2
<1>4. QED
  BY <1>1, <1>2, <1>3

\* The value of the counter at an instant.
LEMMA CounterIsNatural ==
    ASSUME NEW offset \in {None} \cup 0 .. CounterRange - 1, NEW time \in Nat
    PROVE  Counter(offset, time) \in Nat
<1>1. CASE offset = None
  BY <1>1 DEF Counter
<1>2. CASE offset # None
  <2>1. time + offset \in Int /\ CounterRange \in Nat \ {0}
    BY <1>2, NativeAssumption
  <2> DEFINE x == time + offset
  <2>2. Counter(offset, time) = x % CounterRange
    BY <1>2 DEF Counter
  <2> HIDE DEF x
  <2>3. QED
    BY <2>1, <2>2 DEF x
<1>3. QED
  BY <1>1, <1>2

\* The offset is taken off again, although either of the two may wrap.
LEMMA OffsetIsTakenOff ==
    ASSUME NEW offset \in 0 .. CounterRange - 1, NEW time \in Nat
    PROVE  (Counter(offset, time) - offset) % CounterRange = time % CounterRange
<1> DEFINE R == CounterRange
           x == time + offset
           c == x % R
           y == c - offset
           a == x \div R
           b == y \div R
           z == y % R
           q == time \div R
           r == time % R
<1>1. R \in Nat \ {0} /\ offset \in Int /\ x \in Int
  BY NativeAssumption
<1>2. Counter(offset, time) = c
  BY NativeAssumption DEF Counter
<1> HIDE DEF R
<1>3. r \in 0 .. R - 1 /\ q \in Int /\ time = R * q + r
  BY <1>1
<1> HIDE DEF q, r
<1>4. x = time + offset
  OBVIOUS
<1> HIDE DEF x
<1>5. c \in 0 .. R - 1 /\ a \in Int /\ x = R * a + c
  BY <1>1
<1>6. y = c - offset
  OBVIOUS
<1> HIDE DEF c, a
<1>7. y \in Int
  BY <1>1, <1>5
<1> HIDE DEF y
<1>8. z \in 0 .. R - 1 /\ b \in Int /\ y = R * b + z
  BY <1>1, <1>7
<1> HIDE DEF b, z
<1>9. R * (a + b) + z = R * q + r
  <2>1. R * (a + b) = R * a + R * b /\ R * a \in Int /\ R * b \in Int
    BY <1>1, <1>5, <1>8
  <2> DEFINE v == R * a
             w == R * b
  <2> HIDE DEF v, w
  <2>2. x = v + c /\ y = w + z /\ v \in Int /\ w \in Int
    BY <1>5, <1>8, <2>1 DEF v, w
  <2>3. time = v + w + z
    BY <1>1, <1>4, <1>5, <1>6, <1>8, <2>2
  <2>4. R * (a + b) = v + w
    BY <2>1 DEF v, w
  <2>5. QED
    BY <1>3, <2>3, <2>4
<1>10. z = r
  <2>1. a + b \in Int
    BY <1>5, <1>8
  <2> DEFINE u == a + b
  <2>2. u \in Int /\ R * u + z = R * q + r
    BY <1>9, <2>1
  <2> HIDE DEF u
  <2>3. QED
    BY <1>1, <1>3, <1>8, <2>2, RemainderIsUnique
<1>11. QED
  BY <1>2, <1>10 DEF R, y, z, r

\* The instant that a value of the counter stands for is not before that at which it was
\* read, and is the same if this is less than a full turn ago.
LEMMA TimestampOfCounter ==
    ASSUME NEW epoch \in Nat, NEW time \in Nat, time <= epoch
    PROVE  /\ MakeTimestamp(epoch, time % CounterRange) \in time .. epoch
           /\ epoch - time < CounterRange
                => MakeTimestamp(epoch, time % CounterRange) = time
<1>1. CounterRange \in Nat \ {0}
  BY NativeAssumption
<1> DEFINE r == time % CounterRange
           q == time \div CounterRange
           x == epoch - r
           o == x % CounterRange
           k == x \div CounterRange
           d == epoch - time
<1>2. r \in 0 .. CounterRange - 1 /\ q \in Nat /\ time = CounterRange * q + r
  BY <1>1
<1>3. MakeTimestamp(epoch, r) = IF o > epoch THEN 0 ELSE epoch - o
  BY DEF MakeTimestamp
<1> HIDE DEF r, q
<1>4. x \in Int
  BY <1>2
<1>5. x = CounterRange * q + d
  <2>1. CounterRange * q \in Int
    BY <1>1, <1>2
  <2> DEFINE w == CounterRange * q
  <2> HIDE DEF w
  <2>2. time = w + r /\ w \in Int /\ r \in Int
    BY <1>2, <2>1 DEF w
  <2>3. x = w + d
    BY <2>2 DEF x
  <2>4. QED
    BY <2>3 DEF w
<1> HIDE DEF x
<1>6. o \in 0 .. CounterRange - 1 /\ k \in Int /\ x = CounterRange * k + o
  BY <1>1, <1>4
<1>7. d \in Nat /\ epoch - d = time /\ d <= epoch
  OBVIOUS
<1> HIDE DEF o, k, d
<1>8. o <= d
  <2>1. CASE k = q
    <3>1. CounterRange * q \in Int
      BY <1>1, <1>2
    <3>2. QED
      BY <1>5, <1>6, <1>7, <2>1, <3>1
  <2>2. CASE k > q
    <3>1. CounterRange * (k - q) = d - o
      BY <1>1, <1>2, <1>5, <1>6, <1>7
    <3>2. CounterRange * (k - q) >= CounterRange
      BY <1>1, <1>2, <1>6, <2>2
    <3>3. QED
      BY <1>1, <1>6, <1>7, <3>1, <3>2
  <2>3. CASE k < q
    <3>1. CounterRange * (q - k) = o - d
      BY <1>1, <1>2, <1>5, <1>6, <1>7
    <3>2. CounterRange * (q - k) >= CounterRange
      BY <1>1, <1>2, <1>6, <2>3
    <3>3. QED
      BY <1>1, <1>6, <1>7, <3>1, <3>2
  <2>4. QED
    BY <1>2, <1>6, <2>1, <2>2, <2>3
<1>9. MakeTimestamp(epoch, r) = epoch - o
  BY <1>3, <1>6, <1>7, <1>8
<1>10. MakeTimestamp(epoch, r) \in time .. epoch
  BY <1>6, <1>7, <1>8, <1>9
<1>11. ASSUME epoch - time < CounterRange
       PROVE  MakeTimestamp(epoch, r) = time
  <2>1. d \in 0 .. CounterRange - 1
    BY <1>1, <1>7, <1>11
  <2>2. CounterRange * k + o = CounterRange * q + d
    BY <1>5, <1>6
  <2>3. o = d
    BY <1>1, <1>2, <1>6, <2>1, <2>2, RemainderIsUnique
  <2>4. QED
    BY <1>7, <1>9, <2>3
<1>12. QED
  BY <1>10, <1>11 DEF r

\* The time of an event is an instant.
LEMMA EventTimeIsInstant ==
    ASSUME now \in Nat, timestamp_offset \in {None} \cup 0 .. CounterRange - 1,
           NEW e, e.counter \in Nat
    PROVE  EventTimestamp(e) \in Nat
<1>1. CASE timestamp_offset = None
  BY <1>1 DEF EventTimestamp
<1>2. CASE timestamp_offset # None
  <2> DEFINE x == e.counter - timestamp_offset
  <2>1. x \in Int /\ CounterRange \in Nat \ {0}
    BY <1>2, NativeAssumption
  <2>2. EventTimestamp(e) = MakeTimestamp(now, x % CounterRange)
    BY <1>2 DEF EventTimestamp
  <2> HIDE DEF x
  <2>3. x % CounterRange \in Nat
    BY <2>1
  <2>4. QED
    BY <2>2, <2>3, TimestampIsInstant
<1>3. QED
  BY <1>1, <1>2

\* It is not before the frame was sent, and no later than the event is read.
LEMMA EventTimeIsTrue ==
    ASSUME now \in Nat, NEW time \in Nat, time <= now,
           timestamp_offset \in {None} \cup 0 .. CounterRange - 1,
           NEW e, e.counter = Counter(timestamp_offset, time)
    PROVE  /\ EventTimestamp(e) \in time .. now
           /\ timestamp_offset # None /\ now - time < CounterRange
                => EventTimestamp(e) = time
<1>1. CASE timestamp_offset = None
  BY <1>1 DEF EventTimestamp
<1>2. CASE timestamp_offset # None
  <2>1. EventTimestamp(e) = MakeTimestamp(now, time % CounterRange)
    BY <1>2, OffsetIsTakenOff DEF EventTimestamp
  <2>2. QED
    BY <2>1, TimestampOfCounter
<1>3. QED
  BY <1>1, <1>2

-----------------------------------------------------------------------------
(* Facts about the steps.                                                   *)

\* The source of the timestamps is never changed.
LEMMA OffsetStays ==
    ASSUME [Next]_vars
    PROVE  timestamp_offset' = timestamp_offset
<1>1. CASE Controller
  BY <1>1 DEF Controller, StartSending, Sent, NotSent
<1>2. CASE Fetching
  BY <1>2 DEF Fetching, FetchFrame
<1>3. CASE Query \/ EventsRead \/ Drained \/ Expire \/ ReturnFrame \/ Sleep \/ Wake
  BY <1>3 DEF Query, EventsRead, Drained, Expire, ReturnFrame, Sleep, Wake
<1>4. CASE DrainEvent
  BY <1>4 DEF DrainEvent, Panic
<1>5. CASE Submit
  BY <1>5 DEF Submit, Panic
<1>6. CASE Add
  BY <1>6 DEF Add, Panic
<1>7. CASE Insert
  BY <1>7 DEF Insert, Panic
<1>8. CASE CancelOthers \/ Register \/ CheckUnpend
  BY <1>8 DEF CancelOthers, Register, CheckUnpend
<1>9. CASE OnInterrupt \/ TakeLoopBack \/ Tick
  BY <1>9 DEF OnInterrupt, TakeLoopBack, Tick
<1>10. CASE UNCHANGED vars
  BY <1>10 DEF vars
<1>11. QED
  BY <1>1, <1>2, <1>3, <1>4, <1>5, <1>6, <1>7, <1>8, <1>9, <1>10 DEF Next, Task

LEMMA SameFrames ==
    ASSUME frames' = frames, loop_back_pending' = loop_back_pending
    PROVE  Occupied' = Occupied /\ Queued' = Queued /\ Urgent' = Urgent
<1>1. Occupied' = Occupied /\ Queued' = Queued
  BY DEF Occupied, Queued
<1>2. QED
  BY <1>1 DEF Urgent

LEMMA SameEvents ==
    ASSUME events' = events
    PROVE  Marks' = Marks /\ Markers' = Markers
BY DEF Marks, Markers

\* The markers of the events are mailboxes.
LEMMA MarkersAreMailboxes ==
    ASSUME TypeOK
    PROVE  /\ Marks \in Seq(Mailboxes)
           /\ Len(Marks) = Len(events)
           /\ Markers \subseteq Mailboxes
           /\ \A i \in DOMAIN events : events[i].marker \in Markers
           /\ DOMAIN events = 1 .. Len(events) /\ Len(events) \in Nat
<1>1. /\ events \in Seq([marker : Mailboxes, counter : Nat])
      /\ DOMAIN events = 1 .. Len(events) /\ Len(events) \in Nat
      /\ events \in [1 .. Len(events) -> [marker : Mailboxes, counter : Nat]]
  BY LenProperties DEF TypeOK
<1>2. Marks \in [1 .. Len(events) -> Mailboxes]
  BY <1>1 DEF Marks
<1>3. Marks \in Seq(Mailboxes) /\ Len(Marks) = Len(events)
  <2>1. Marks \in Seq(Mailboxes)
    BY <1>1, <1>2, SeqDef
  <2>2. 1 .. Len(Marks) = 1 .. Len(events) /\ Len(Marks) \in Nat
    BY <1>2, <2>1, LenProperties
  <2>3. QED
    BY <1>1, <2>1, <2>2
<1>4. Markers \subseteq Mailboxes
  BY <1>3, ToSetElements DEF Markers
<1>5. \A i \in DOMAIN events : events[i].marker \in Markers
  BY <1>1 DEF Marks, Markers, ToSet
<1>6. QED
  BY <1>1, <1>3, <1>4, <1>5

\* The FIFO has room for the event of the frame on the bus.
LEMMA RoomForEvent ==
    ASSUME TypeOK, ControllerInv, sending # None
    PROVE  Len(events) < EventMax
<1>1. sending \in Mailboxes /\ sending \notin Markers
  BY DEF TypeOK, ControllerInv
<1>2. /\ Marks \in Seq(Mailboxes) /\ Len(Marks) = Len(events)
      /\ \A i \in 1 .. Len(Marks) : Marks[i] \in Markers
  BY MarkersAreMailboxes, ToSetElements DEF Markers
<1>3. Marks \in Seq(Mailboxes \ {sending})
  <2>1. /\ Len(Marks) \in Nat
        /\ Marks \in [1 .. Len(Marks) -> Mailboxes]
    BY <1>2, LenProperties
  <2>2. Marks \in [1 .. Len(Marks) -> Mailboxes \ {sending}]
    BY <1>1, <1>2, <2>1
  <2>3. QED
    BY <2>1, <2>2, SeqDef
<1>4. /\ IsFiniteSet(Mailboxes \ {sending})
      /\ Cardinality(Mailboxes \ {sending}) = Cardinality(Mailboxes) - 1
      /\ Cardinality(Mailboxes) \in Nat
  BY <1>1, NativeAssumption, FS_RemoveElement, FS_CardinalityType
<1>5. Len(Marks) \in Nat /\ Len(Marks) <= Cardinality(Mailboxes \ {sending})
  BY <1>3, <1>4, DistinctFit DEF ControllerInv
<1>6. EventMax \in Nat /\ Cardinality(Mailboxes) <= EventMax
  BY NativeAssumption
<1>7. QED
  BY <1>2, <1>4, <1>5, <1>6

\* The event of a frame that was sent is in the FIFO.
LEMMA SentEvents ==
    ASSUME TypeOK, ControllerInv, NEW b \in Mailboxes, Sent(b)
    PROVE  /\ events' = Append(events, [marker |-> b,
                                       counter |-> Counter(timestamp_offset, now)])
           /\ interrupt'
           /\ Marks' = Append(Marks, b)
           /\ Markers' = Markers \cup {b}
           /\ IsInjective(Marks')
           /\ b \in pending /\ Live' = Live
<1>1. sending = b /\ sending # None /\ b \in pending
  BY NativeAssumption DEF Sent, ControllerInv
<1>2. Len(events) < EventMax
  BY <1>1, RoomForEvent
<1>3. /\ events' = Append(events, [marker |-> b,
                                  counter |-> Counter(timestamp_offset, now)])
      /\ interrupt'
  <2>1. Len(events) # EventMax
    BY <1>2, NativeAssumption, MarkersAreMailboxes
  <2>2. QED
    BY <1>2, <2>1 DEF Sent
<1>4. /\ Marks \in Seq(Mailboxes) /\ DOMAIN events = 1 .. Len(events)
      /\ Len(Marks) = Len(events) /\ Len(events) \in Nat
  BY MarkersAreMailboxes
<1>5. Marks' = Append(Marks, b)
  <2>1. Counter(timestamp_offset, now) \in Nat
    BY CounterIsNatural DEF TypeOK
  <2> DEFINE e == [marker |-> b, counter |-> Counter(timestamp_offset, now)]
  <2>2. e \in [marker : Mailboxes, counter : Nat] /\ e.marker = b
    BY <2>1
  <2> HIDE DEF e
  <2>3. /\ Len(events') = Len(events) + 1
        /\ DOMAIN events' = 1 .. Len(events) + 1
        /\ \A i \in 1 .. Len(events) : events'[i] = events[i]
        /\ events'[Len(events) + 1] = e
    <3>1. events' = Append(events, e) /\ events \in Seq([marker : Mailboxes, counter : Nat])
      BY <1>3 DEF e, TypeOK
    <3>2. QED
      BY <2>2, <3>1, AppendProperties
  <2>4. /\ DOMAIN Marks = 1 .. Len(events)
        /\ Append(Marks, b) = [i \in 1 .. Len(events) + 1 |->
                                IF i <= Len(events) THEN Marks[i] ELSE b]
    <3>1. /\ Append(Marks, b) \in Seq(Mailboxes)
          /\ Len(Append(Marks, b)) = Len(events) + 1
          /\ \A i \in 1 .. Len(events) : Append(Marks, b)[i] = Marks[i]
          /\ Append(Marks, b)[Len(events) + 1] = b
      BY <1>4, AppendProperties
    <3>2. DOMAIN Append(Marks, b) = 1 .. Len(events) + 1
      BY <3>1, LenProperties
    <3>3. Append(Marks, b) \in [1 .. Len(events) + 1 -> Mailboxes]
      BY <3>1, LenProperties
    <3>4. ASSUME NEW i \in 1 .. Len(events) + 1
          PROVE  Append(Marks, b)[i] = IF i <= Len(events) THEN Marks[i] ELSE b
      <4>1. CASE i <= Len(events)
        <5>1. i \in 1 .. Len(events)
          BY <1>4, <4>1
        <5>2. QED
          BY <3>1, <4>1, <5>1
      <4>2. CASE i = Len(events) + 1
        <5>1. ~ (i <= Len(events))
          BY <1>4, <4>2
        <5>2. QED
          BY <3>1, <4>2, <5>1
      <4>3. QED
        BY <1>4, <4>1, <4>2
    <3>5. QED
      BY <1>4, <3>3, <3>4 DEF Marks
  <2>5. Marks' = [i \in 1 .. Len(events) + 1 |-> events'[i].marker]
    BY <2>3 DEF Marks
  <2>6. ASSUME NEW i \in 1 .. Len(events) + 1
        PROVE  events'[i].marker = IF i <= Len(events) THEN Marks[i] ELSE b
    <3>1. CASE i <= Len(events)
      <4>1. i \in 1 .. Len(events)
        BY <1>4, <3>1
      <4>2. QED
        BY <1>4, <2>3, <3>1, <4>1 DEF Marks
    <3>2. CASE i = Len(events) + 1
      <4>1. ~ (i <= Len(events))
        BY <1>4, <3>2
      <4>2. QED
        BY <2>2, <2>3, <3>2, <4>1
    <3>3. QED
      BY <1>4, <3>1, <3>2
  <2>7. QED
    BY <2>4, <2>5, <2>6
<1>6. IsInjective(Marks) /\ b \notin ToSet(Marks)
  BY <1>1 DEF ControllerInv, Markers
<1>7. /\ ToSet(Append(Marks, b)) = ToSet(Marks) \cup {b}
      /\ IsInjective(Append(Marks, b))
  BY <1>4, <1>6, AppendElements
<1>8. Markers' = Markers \cup {b} /\ IsInjective(Marks')
  BY <1>5, <1>7 DEF Markers
<1>9. Live' = Live
  BY <1>1, <1>8 DEF Live, Sent
<1>10. QED
  BY <1>1, <1>3, <1>5, <1>8, <1>9

\* The first event leaves the FIFO.
LEMMA ReadEvent ==
    ASSUME TypeOK, ControllerInv, events # << >>, events' = Tail(events)
    PROVE  /\ Head(events).marker \in Mailboxes
           /\ Head(events).marker \in Markers
           /\ Head(events) = events[1] /\ 1 \in DOMAIN events
           /\ Markers' = Markers \ {Head(events).marker}
           /\ IsInjective(Marks')
           /\ Len(events') = Len(events) - 1
           /\ \A i \in DOMAIN events' : i + 1 \in DOMAIN events
                                        /\ events'[i] = events[i + 1]
           /\ \A i \in DOMAIN events' : events'[i].marker # Head(events).marker
<1>1. /\ Marks \in Seq(Mailboxes) /\ DOMAIN events = 1 .. Len(events)
      /\ Len(Marks) = Len(events) /\ Len(events) \in Nat
      /\ \A i \in DOMAIN events : events[i].marker \in Markers
      /\ events \in Seq([marker : Mailboxes, counter : Nat])
      /\ Markers \subseteq Mailboxes
  BY MarkersAreMailboxes DEF TypeOK
<1>2. Len(events) # 0
  BY <1>1, EmptySeq
<1>3. /\ Head(events) = events[1] /\ 1 \in DOMAIN events
      /\ events' \in Seq([marker : Mailboxes, counter : Nat])
      /\ Len(events') = Len(events) - 1
      /\ \A i \in 1 .. Len(events') : events'[i] = events[i + 1]
      /\ DOMAIN events' = 1 .. Len(events) - 1
  <2>1. Head(events) = events[1] /\ 1 \in DOMAIN events
    BY <1>1, <1>2
  <2>2. /\ events' \in Seq([marker : Mailboxes, counter : Nat])
        /\ Len(events') = Len(events) - 1
        /\ \A i \in 1 .. Len(events') : events'[i] = events[i + 1]
    BY <1>1, HeadTailProperties
  <2>3. QED
    BY <2>1, <2>2, LenProperties
<1>4. \A i \in DOMAIN events' : i + 1 \in DOMAIN events /\ events'[i] = events[i + 1]
  BY <1>1, <1>3
<1>5. /\ Marks # << >> /\ Head(Marks) = Head(events).marker
      /\ Head(events).marker \in Markers
  BY <1>1, <1>2, <1>3, EmptySeq DEF Marks
<1>6. Marks' = Tail(Marks)
  <2>1. /\ Tail(Marks) \in Seq(Mailboxes)
        /\ Len(Tail(Marks)) = Len(events) - 1
        /\ \A i \in 1 .. Len(Tail(Marks)) : Tail(Marks)[i] = Marks[i + 1]
    BY <1>1, <1>5, HeadTailProperties
  <2>2. Tail(Marks) = [i \in 1 .. Len(events) - 1 |-> Marks[i + 1]]
    BY <2>1, LenProperties
  <2>3. Marks' = [i \in 1 .. Len(events) - 1 |-> events'[i].marker]
    BY <1>3 DEF Marks
  <2>4. \A i \in 1 .. Len(events) - 1 : events'[i].marker = Marks[i + 1]
    BY <1>1, <1>3, <1>4 DEF Marks
  <2>5. QED
    BY <2>2, <2>3, <2>4
<1>7. /\ ToSet(Tail(Marks)) = ToSet(Marks) \ {Head(Marks)}
      /\ IsInjective(Tail(Marks))
  BY <1>1, <1>5, TailElements DEF ControllerInv
<1>8. Markers' = Markers \ {Head(events).marker} /\ IsInjective(Marks')
  BY <1>5, <1>6, <1>7 DEF Markers
<1>9. \A i \in DOMAIN events' : events'[i].marker # Head(events).marker
  <2>1. \A i \in DOMAIN events' : events'[i].marker \in Markers'
    BY DEF Markers, Marks, ToSet
  <2>2. QED
    BY <1>8, <2>1
<1>10. QED
  BY <1>1, <1>3, <1>4, <1>5, <1>8, <1>9

\* The most urgent frame is one of the queued ones.
LEMMA UrgentIsQueued ==
    ASSUME Queued # {}
    PROVE  Urgent \in Queued /\ Urgent \in Priorities /\ frames[Urgent] # None
<1>1. Queued \subseteq Priorities /\ Priorities \subseteq Nat
  BY NativeAssumption DEF Queued, Occupied
<1>2. Urgent \in Queued
  BY <1>1, FirstIsMember DEF Urgent
<1>3. QED
  BY <1>1, <1>2 DEF Queued, Occupied

\* The unwraps of the second half of the turn do not fail: of three mailboxes one is
\* free, and it stays so until it is filled.
LEMMA FreeMailbox ==
    ASSUME Inv
    PROVE  /\ Free # {} /\ First(Free) \in Free /\ Free \subseteq Mailboxes
           /\ pc = "add" => box \notin pending
           /\ pc = "insert" => pending # Mailboxes /\ pending_frames[box] = None
<1>1. Mailboxes \ pending_mailboxes # {}
  BY TwoAreNotAll DEF Inv, ControllerInv
<1>2. Free # {} /\ Free \subseteq Mailboxes
  BY <1>1 DEF Free, Inv, TypeOK
<1>3. First(Free) \in Free
  BY <1>2, FirstIsMember, NativeAssumption
<1>4. pc = "add" => box \notin pending
  BY DEF Inv, TurnInv, Live
<1>5. pc = "insert" => pending # Mailboxes
  <2>1. pc = "insert" => Mailboxes \ pending # {}
    BY TwoAreNotAll DEF Inv, ControllerInv
  <2>2. QED
    BY <2>1
<1>6. pc = "insert" => pending_frames[box] = None
  BY DEF Inv, TurnInv
<1>7. QED
  BY <1>2, <1>3, <1>4, <1>5, <1>6

\* A step that neither moves a frame nor fills a mailbox.
IsQuiet ==
    /\ content' = content /\ events' = events /\ bus' = bus
    /\ frames' = frames /\ loop_back_pending' = loop_back_pending
    /\ fetched' = fetched /\ returned' = returned /\ loop_back' = loop_back
    /\ pending' \subseteq pending
    /\ Holds' = Holds
    /\ now <= now'

\* The steps that are not quiet.
LEMMA OtherStepsAreQuiet ==
    ASSUME Inv, [Next]_vars
    PROVE  \/ IsQuiet
           \/ \E b \in Mailboxes : Sent(b)
           \/ DrainEvent /\ pending_frames[Head(events).marker] # None
           \/ Drained \/ Expire \/ ReturnFrame \/ Fetching \/ TakeLoopBack
           \/ Add
<1>1. now \in Nat
  BY DEF Inv, TypeOK
<1>2. ASSUME UNCHANGED << frames, loop_back_pending, pending_frames, pc, box >>
      PROVE  Holds' = Holds
  BY <1>2, SameFrames DEF Holds
<1>3. ASSUME UNCHANGED << frames, loop_back_pending, pending_frames >>,
             pc \notin {"cancel", "insert"}, pc' \notin {"cancel", "insert"}
      PROVE  Holds' = Holds
  BY <1>3 DEF Holds
<1>4. CASE UNCHANGED vars
  BY <1>1, <1>2, <1>4
     DEF vars, hwVars, infoVars, mapVars, turnVars, history, IsQuiet
<1>5. CASE Controller
  <2>1. PICK b \in Mailboxes : StartSending(b) \/ Sent(b) \/ NotSent(b)
    BY <1>5 DEF Controller
  <2>2. CASE StartSending(b)
    BY <1>1, <1>2, <2>2
       DEF StartSending, infoVars, mapVars, turnVars, history, IsQuiet
  <2>3. CASE NotSent(b)
    BY <1>1, <1>2, <2>3 DEF NotSent, infoVars, mapVars, turnVars, IsQuiet
  <2>4. QED
    BY <2>1, <2>2, <2>3
<1>6. CASE Query \/ EventsRead \/ Sleep
  BY <1>1, <1>3, <1>6
     DEF Query, EventsRead, Sleep, hwVars, infoVars, mapVars, history, IsQuiet
<1>7. CASE DrainEvent /\ pending_frames[Head(events).marker] = None
  <2>1. /\ pc = "drain" /\ pc' = "event without a frame"
        /\ UNCHANGED << hwVars, interrupt, infoVars, mapVars, turnVars, box, now, history >>
    BY <1>7 DEF DrainEvent, Panic
  <2>2. Holds' = Holds
    BY <1>3, <2>1 DEF mapVars
  <2>3. /\ now' = now
        /\ UNCHANGED << content, events, pending, bus, frames, loop_back_pending, fetched,
                        returned, loop_back >>
    BY <2>1 DEF hwVars, infoVars, mapVars, history
  <2>4. IsQuiet
    BY <1>1, <2>2, <2>3 DEF IsQuiet
  <2>5. QED
    BY <2>4
<1>8. CASE Submit
  <2>1. /\ UNCHANGED << hwVars, interrupt, infoVars, mapVars, turnVars, now, history >>
        /\ pc = "select" /\ pc' \in {"add", "register"}
    BY <1>8, FreeMailbox DEF Submit
  <2>2. Holds' = Holds
    BY <1>3, <2>1 DEF mapVars
  <2>3. QED
    BY <1>1, <2>1, <2>2 DEF hwVars, infoVars, mapVars, history, IsQuiet
<1>9. CASE Wake
  BY <1>1, <1>3, <1>9 DEF Wake, hwVars, mapVars, history, IsQuiet
<1>10. CASE CancelOthers
  <2>1. /\ UNCHANGED << content, sending, events, interrupt, infoVars, mapVars, turnVars,
                        box, now, history >>
        /\ pc = "cancel" /\ pc' = "insert" /\ pending' \subseteq pending
    BY <1>10 DEF CancelOthers, Cancel
  <2>2. Holds' = Holds
    BY <2>1, SameFrames DEF Holds, mapVars
  <2>3. QED
    BY <1>1, <2>1, <2>2 DEF infoVars, mapVars, history, IsQuiet
<1>11. CASE Insert
  <2>1. /\ pc = "insert" /\ pc' = "register"
        /\ pending_frames' = [pending_frames EXCEPT ![box] = Urgent]
        /\ UNCHANGED << hwVars, interrupt, infoVars, frames, loop_back_pending, turnVars,
                        box, now, history >>
    BY <1>11, FreeMailbox DEF Insert, Urgent
  <2>2. pending_frames \in [Mailboxes -> Priorities \cup {None}]
    BY DEF Inv, TypeOK
  <2>3. Holds' = Holds
    BY <2>1, <2>2, SameFrames DEF Holds
  <2>4. QED
    BY <1>1, <2>1, <2>3 DEF hwVars, infoVars, history, IsQuiet
<1>12. CASE Register
  BY <1>1, <1>3, <1>12 DEF Register, hwVars, mapVars, history, IsQuiet
<1>13. CASE CheckUnpend
  BY <1>1, <1>3, <1>13 DEF CheckUnpend, hwVars, mapVars, infoVars, IsQuiet
<1>14. CASE OnInterrupt
  BY <1>1, <1>2, <1>14 DEF OnInterrupt, hwVars, mapVars, history, IsQuiet
<1>15. CASE Tick
  BY <1>1, <1>2, <1>15 DEF Tick, hwVars, infoVars, mapVars, turnVars, history, IsQuiet
<1>16. QED
  BY <1>4, <1>5, <1>6, <1>7, <1>8, <1>9, <1>10, <1>11, <1>12, <1>13, <1>14, <1>15
     DEF Next, Task

-----------------------------------------------------------------------------
(* The parts of the invariant, one lemma each.                              *)

\* The types of a queued frame and of the frame in a live mailbox.
LEMMA QueuedTypes ==
    ASSUME Inv
    PROVE  /\ \A p \in Occupied : frames[p] \in LinkFrames
           /\ \A b \in Live : b \in Mailboxes /\ content[b] \in LinkFrames
           /\ \A b \in Mailboxes : b \in Live /\ Holds[b] # None =>
                /\ Holds[b] \in Queued /\ Holds[b] \in Occupied
                /\ content[b] = frames[Holds[b]]
<1>1. Live \subseteq Mailboxes
  BY MarkersAreMailboxes DEF Inv, TypeOK, Live
<1>2. QED
  BY <1>1 DEF Inv, TypeOK, HoldsInv, Occupied, Queued

\* The frames that were sent, and when.
LEMMA BusTypes ==
    ASSUME Inv
    PROVE  /\ DOMAIN bus = 1 .. Len(bus) /\ Len(bus) \in Nat
           /\ \A i \in DOMAIN bus :
                /\ bus[i] \in [id : Nat, time : Nat, read : Nat \cup {None}]
                /\ bus[i].id \in Nat /\ bus[i].time \in Nat
                /\ bus[i].read \in Nat \cup {None}
<1> DEFINE Sendings == [id : Nat, time : Nat, read : Nat \cup {None}]
<1>1. bus \in Seq(Sendings)
  BY DEF Inv, TypeOK
<1> HIDE DEF Sendings
<1>2. /\ DOMAIN bus = 1 .. Len(bus) /\ Len(bus) \in Nat
      /\ \A i \in DOMAIN bus : bus[i] \in Sendings
  BY <1>1, LenProperties, ElementOfSeq
<1>3. QED
  BY <1>2 DEF Sendings

\* What the task does with the event of a frame it has.
LEMMA DrainFacts ==
    ASSUME Inv, DrainEvent, NEW b, b = Head(events).marker, pending_frames[b] # None
    PROVE  /\ b \in Mailboxes /\ pc = "drain" /\ pc' = "drain" /\ events # << >>
           /\ events' = Tail(events)
           /\ pending_frames[b] \in Queued /\ pending_frames[b] \in Priorities
           /\ Holds = pending_frames
           /\ content[b] = frames[pending_frames[b]]
           /\ frames[pending_frames[b]] \in LinkFrames
           /\ Head(events).counter \in Nat
           /\ completed_mailboxes' = completed_mailboxes \cup {b}
           /\ pending_frames' = [pending_frames EXCEPT ![b] = None]
           /\ UNCHANGED << pending, content, cancelling, sending, interrupt, infoVars,
                           pending_mailboxes, pc, box, now, fetched, returned, aborted >>
<1>1. /\ pc = "drain" /\ events # << >> /\ events' = Tail(events)
      /\ completed_mailboxes' = completed_mailboxes \cup {b}
      /\ pending_frames' = [pending_frames EXCEPT ![b] = None]
      /\ UNCHANGED << pending, content, cancelling, sending, interrupt, infoVars,
                      pending_mailboxes, pc, box, now, fetched, returned, aborted >>
  BY DEF DrainEvent
<1>2. b \in Mailboxes /\ b \in Markers /\ 1 \in DOMAIN events /\ Head(events) = events[1]
  BY <1>1, ReadEvent DEF Inv
<1>3. Holds = pending_frames
  BY <1>1 DEF Holds, Inv, TypeOK
<1>4. Head(events).counter \in Nat
  <2>1. /\ events \in Seq([marker : Mailboxes, counter : Nat])
        /\ 1 \in 1 .. Len(events)
    BY <1>2, MarkersAreMailboxes DEF Inv, TypeOK
  <2>2. events[1] \in [marker : Mailboxes, counter : Nat]
    BY <2>1, ElementOfSeq
  <2>3. QED
    BY <1>2, <2>2
<1>5. b \in Live
  BY <1>2 DEF Live
<1>6. /\ pending_frames[b] \in Queued /\ content[b] = frames[pending_frames[b]]
      /\ frames[pending_frames[b]] \in LinkFrames
  BY <1>2, <1>3, <1>5, QueuedTypes
<1>7. pending_frames[b] \in Priorities
  BY <1>6 DEF Queued, Occupied
<1>8. QED
  BY <1>1, <1>2, <1>3, <1>4, <1>6, <1>7

\* The two outcomes of it: the frame waits to be returned, or is gone.
LEMMA DrainOutcome ==
    ASSUME Inv, DrainEvent, NEW p, p = pending_frames[Head(events).marker], p # None,
           NEW time, time = EventTimestamp(Head(events))
    PROVE  /\ bus' = [i \in DOMAIN bus |->
                        IF bus[i].id = frames[p].id /\ bus[i].read = None
                        THEN [bus[i] EXCEPT !.read = now] ELSE bus[i]]
           /\ \/ /\ frames[p].loop_back
                 /\ frames' = [frames EXCEPT ![p] = [@ EXCEPT !.timestamp = time]]
                 /\ loop_back_pending' = loop_back_pending \cup {p}
              \/ /\ ~ frames[p].loop_back
                 /\ frames' = [frames EXCEPT ![p] = None]
                 /\ loop_back_pending' = loop_back_pending
BY Zenon DEF DrainEvent

LEMMA TypeStep ==
    ASSUME Inv, [Next]_vars
    PROVE  TypeOK'
<1>0. TypeOK /\ ControllerInv /\ TurnInv
  BY DEF Inv
<1> DEFINE Sendings == [id : Nat, time : Nat, read : Nat \cup {None}]
           HwOK == /\ pending \subseteq Mailboxes /\ cancelling \subseteq Mailboxes
                   /\ sending \in Mailboxes \cup {None}
                   /\ content \in [Mailboxes -> LinkFrames \cup {None}]
                   /\ events \in Seq([marker : Mailboxes, counter : Nat])
           InfoOK == /\ interrupt \in BOOLEAN /\ tx_waker \in BOOLEAN /\ woken \in BOOLEAN
                     /\ unpend_mask \subseteq Mailboxes
                     /\ loop_back \in LinkFrames \cup {None}
           MapOK == /\ frames \in [Priorities -> LinkFrames \cup {None}]
                    /\ pending_frames \in [Mailboxes -> Priorities \cup {None}]
                    /\ loop_back_pending \subseteq Occupied
           TurnOK == /\ pending_mailboxes \subseteq Mailboxes
                     /\ completed_mailboxes \subseteq Mailboxes
                     /\ box \in Mailboxes \cup {None}
           PastOK == /\ now \in Nat /\ fetched \in Nat
                     /\ bus \in Seq(Sendings)
                     /\ returned \in Seq(LinkFrames)
                     /\ aborted \subseteq Mailboxes
<1>1. HwOK /\ InfoOK /\ MapOK /\ TurnOK /\ PastOK
  BY <1>0 DEF TypeOK
<1>2. SUFFICES HwOK' /\ InfoOK' /\ MapOK' /\ TurnOK' /\ PastOK'
  BY <1>0, OffsetStays DEF TypeOK
<1>3. /\ UNCHANGED hwVars => HwOK'
      /\ UNCHANGED << interrupt, infoVars >> => InfoOK'
      /\ UNCHANGED mapVars => MapOK'
      /\ UNCHANGED << turnVars, box >> => TurnOK'
      /\ UNCHANGED << now, history >> => PastOK'
  BY <1>1, SameFrames DEF hwVars, infoVars, mapVars, turnVars, history
<1>4. CASE UNCHANGED vars
  BY <1>3, <1>4 DEF vars
<1>5. CASE Controller
  <2>1. PICK b \in Mailboxes : StartSending(b) \/ Sent(b) \/ NotSent(b)
    BY <1>5 DEF Controller
  <2>2. CASE StartSending(b)
    BY <1>1, <1>3, <2>2 DEF StartSending
  <2>3. CASE Sent(b)
    <3>1. /\ events' = Append(events, [marker |-> b,
                                      counter |-> Counter(timestamp_offset, now)])
          /\ interrupt' /\ b \in pending
      BY <1>0, <2>3, SentEvents
    <3>2. Counter(timestamp_offset, now) \in Nat
      BY <1>0, CounterIsNatural DEF TypeOK
    <3>3. [marker |-> b, counter |-> Counter(timestamp_offset, now)]
              \in [marker : Mailboxes, counter : Nat]
      BY <3>2
    <3>4. events' \in Seq([marker : Mailboxes, counter : Nat])
      BY <1>1, <3>1, <3>3, AppendProperties
    <3>5. content[b] \in LinkFrames
      BY <3>1, QueuedTypes DEF Live
    <3>6. [id |-> content[b].id, time |-> now, read |-> None] \in Sendings
      BY <1>1, <3>5 DEF LinkFrames
    <3> HIDE DEF Sendings
    <3>7. bus' \in Seq(Sendings)
      BY <1>1, <2>3, <3>6, AppendProperties DEF Sent
    <3>8. HwOK' /\ PastOK'
      BY <1>1, <2>3, <3>4, <3>7 DEF Sent
    <3>9. InfoOK'
      BY <1>1, <2>3, <3>1 DEF Sent, infoVars
    <3>10. QED
      BY <1>3, <2>3, <3>8, <3>9 DEF Sent
  <2>4. CASE NotSent(b)
    BY <1>1, <1>3, <2>4 DEF NotSent
  <2>5. QED
    BY <2>1, <2>2, <2>3, <2>4
<1>6. CASE Fetching
  <2>1. PICK p \in Priorities, lb \in BOOLEAN, anonymous \in BOOLEAN,
             deadline \in now .. MaxTime :
                FetchFrame(p, Frame(fetched + 1, lb, deadline), anonymous)
    BY <1>6 DEF Fetching
  <2> DEFINE f == Frame(fetched + 1, lb, deadline)
  <2>2. f \in LinkFrames
    BY <1>1, NativeAssumption DEF Frame, LinkFrames
  <2> HIDE DEF f
  <2>3. /\ UNCHANGED << hwVars, interrupt, infoVars, pending_frames, loop_back_pending,
                        turnVars, box, now, bus, returned, aborted >>
        /\ fetched' = fetched + 1 /\ p \notin Occupied
        /\ frames' = IF anonymous THEN frames ELSE [frames EXCEPT ![p] = f]
    BY <2>1 DEF FetchFrame, f
  <2>4. frames' \in [Priorities -> LinkFrames \cup {None}]
    BY <1>1, <2>2, <2>3
  <2>5. Occupied \subseteq Occupied'
    BY <1>1, <2>3 DEF Occupied
  <2>6. MapOK'
    BY <1>1, <2>3, <2>4, <2>5
  <2>7. PastOK'
    BY <1>1, <2>3
  <2>8. QED
    BY <1>3, <2>3, <2>6, <2>7
<1>7. CASE Query
  BY <1>1, <1>3, <1>7 DEF Query
<1>8. CASE DrainEvent
  <2> DEFINE e == Head(events)
             p == pending_frames[e.marker]
  <2>1. CASE p = None
    BY <1>3, <1>8, <2>1 DEF DrainEvent, Panic
  <2>2. CASE p # None
    <3>1. /\ e.marker \in Mailboxes /\ p \in Priorities /\ events # << >>
          /\ p \in Queued
          /\ frames[p] \in LinkFrames /\ e.counter \in Nat
          /\ events' = Tail(events)
          /\ completed_mailboxes' = completed_mailboxes \cup {e.marker}
          /\ pending_frames' = [pending_frames EXCEPT ![e.marker] = None]
          /\ UNCHANGED << pending, content, cancelling, sending, interrupt, infoVars,
                          pending_mailboxes, pc, box, now, fetched, returned, aborted >>
      BY <1>8, <2>2, DrainFacts
    <3> DEFINE time == EventTimestamp(e)
    <3>2. time \in Nat
      BY <1>0, <3>1, EventTimeIsInstant DEF TypeOK
    <3>3. /\ bus' = [i \in DOMAIN bus |->
                        IF bus[i].id = frames[p].id /\ bus[i].read = None
                        THEN [bus[i] EXCEPT !.read = now] ELSE bus[i]]
          /\ \/ /\ frames[p].loop_back
                /\ frames' = [frames EXCEPT ![p] = [@ EXCEPT !.timestamp = time]]
                /\ loop_back_pending' = loop_back_pending \cup {p}
             \/ /\ ~ frames[p].loop_back
                /\ frames' = [frames EXCEPT ![p] = None]
                /\ loop_back_pending' = loop_back_pending
      BY <1>8, <2>2, DrainOutcome
    <3> HIDE DEF time, p, e
    <3>4. HwOK'
      BY <1>1, <3>1, HeadTailProperties
    <3>5. bus' \in Seq(Sendings)
      <4>1. /\ Len(bus) \in Nat /\ DOMAIN bus = 1 .. Len(bus)
            /\ bus \in [1 .. Len(bus) -> Sendings]
        BY <1>1, LenProperties
      <4>2. ASSUME NEW i \in 1 .. Len(bus)
            PROVE  /\ bus[i] \in Sendings
                   /\ [bus[i] EXCEPT !.read = now] \in Sendings
        <5>1. bus[i] \in Sendings
          BY <4>1
        <5>2. now \in Nat \cup {None}
          BY <1>1
        <5>3. QED
          BY <5>1, <5>2
      <4> HIDE DEF Sendings
      <4>3. bus' \in [1 .. Len(bus) -> Sendings]
        BY <3>3, <4>1, <4>2
      <4>4. QED
        BY <4>1, <4>3, SeqDef
    <3>6. [frames[p] EXCEPT !.timestamp = time] \in LinkFrames
      BY <3>1, <3>2 DEF LinkFrames
    <3>7. MapOK'
      <4>1. frames' \in [Priorities -> LinkFrames \cup {None}]
        BY <1>1, <3>1, <3>3, <3>6
      <4>2. pending_frames' \in [Mailboxes -> Priorities \cup {None}]
        BY <1>1, <3>1
      <4>3. p \notin loop_back_pending /\ p \in Occupied
        BY <3>1 DEF Queued
      <4>4. [frames[p] EXCEPT !.timestamp = time] # None
        BY <3>6, NativeAssumption DEF LinkFrames
      <4>5. loop_back_pending' \subseteq Occupied'
        BY <1>1, <3>1, <3>3, <4>3, <4>4 DEF Occupied
      <4>6. QED
        BY <4>1, <4>2, <4>5
    <3>8. PastOK' /\ TurnOK' /\ InfoOK'
      BY <1>1, <3>1, <3>5 DEF infoVars
    <3>9. QED
      BY <3>4, <3>7, <3>8
  <2>3. QED
    BY <2>1, <2>2
<1>9. CASE EventsRead \/ Sleep
  BY <1>3, <1>9 DEF EventsRead, Sleep
<1>10. CASE Drained
  <2>1. /\ pending_frames' \in [Mailboxes -> Priorities \cup {None}]
        /\ frames' = frames /\ loop_back_pending' = loop_back_pending
    BY <1>1, <1>10 DEF Drained
  <2>2. MapOK'
    BY <1>1, <2>1, SameFrames
  <2>3. QED
    BY <1>3, <1>10, <2>2 DEF Drained
<1>11. CASE Expire
  <2> DEFINE late == {p \in Queued : frames[p].timestamp <= now}
  <2>1. /\ frames' = [p \in Priorities |-> IF p \in late THEN None ELSE frames[p]]
        /\ pending_frames' = [b \in Mailboxes |->
                                IF pending_frames[b] \in late THEN None
                                                              ELSE pending_frames[b]]
        /\ pending' \subseteq pending /\ cancelling' \subseteq cancelling \cup pending
        /\ UNCHANGED << content, sending, events, interrupt, infoVars,
                        loop_back_pending, turnVars, box, now, history >>
    BY <1>11 DEF Expire, Cancel
  <2>2. late \cap loop_back_pending = {}
    BY DEF Queued
  <2> HIDE DEF late
  <2>3. MapOK'
    BY <1>1, <2>1, <2>2 DEF Occupied
  <2>4. HwOK'
    BY <1>1, <2>1
  <2>5. QED
    BY <1>3, <2>1, <2>3, <2>4
<1>12. CASE ReturnFrame
  <2> DEFINE p == First(loop_back_pending)
  <2>1. /\ loop_back_pending # {} /\ loop_back' = frames[p]
        /\ frames' = [frames EXCEPT ![p] = None]
        /\ loop_back_pending' = loop_back_pending \ {p}
        /\ UNCHANGED << hwVars, interrupt, unpend_mask, tx_waker, woken, pending_frames,
                        turnVars, box, now, history >>
    BY <1>12 DEF ReturnFrame, ReturnReady
  <2> HIDE DEF p
  <2>2. loop_back_pending \subseteq Priorities
    BY <1>1 DEF Occupied
  <2>3. p \in loop_back_pending
    BY <2>1, <2>2, NativeAssumption, FirstIsMember DEF p
  <2>4. MapOK' /\ InfoOK'
    BY <1>1, <2>1, <2>2, <2>3 DEF Occupied
  <2>5. QED
    BY <1>3, <2>1, <2>4
<1>13. CASE Submit
  <2>1. /\ UNCHANGED << hwVars, interrupt, infoVars, mapVars, turnVars, now, history >>
        /\ box' = First(Free) \/ box' \in MailboxesOf(First(Queued))
    BY <1>13, FreeMailbox DEF Submit
  <2>2. box' \in Mailboxes
    BY <2>1, FreeMailbox DEF MailboxesOf
  <2>3. QED
    BY <1>1, <1>3, <2>1, <2>2 DEF turnVars
<1>14. CASE Wake
  BY <1>1, <1>3, <1>14 DEF Wake
<1>15. CASE Add
  <2>1. /\ content' = [content EXCEPT ![box] = frames[Urgent]]
        /\ pending' = pending \cup {box} /\ aborted' = aborted \ {box}
        /\ UNCHANGED << cancelling, sending, events, interrupt, infoVars, mapVars,
                        turnVars, box, now, fetched, bus, returned >>
        /\ pc = "add"
    BY <1>15, FreeMailbox DEF Add, StoreTxBuffer, Urgent
  <2>2. Queued # {} /\ box \in Mailboxes
    BY <1>0, <2>1 DEF TurnInv
  <2>3. frames[Urgent] \in LinkFrames
    BY <1>1, <2>2, UrgentIsQueued
  <2>4. HwOK' /\ PastOK'
    BY <1>1, <2>1, <2>2, <2>3
  <2>5. QED
    BY <1>3, <2>1, <2>4
<1>16. CASE CancelOthers
  BY <1>1, <1>3, <1>16 DEF CancelOthers, Cancel
<1>17. CASE Insert
  <2>1. /\ pending_frames' = [pending_frames EXCEPT ![box] = Urgent]
        /\ UNCHANGED << hwVars, interrupt, infoVars, frames, loop_back_pending, turnVars,
                        box, now, history >>
        /\ pc = "insert"
    BY <1>17, FreeMailbox DEF Insert, Urgent
  <2>2. Queued # {} /\ box \in Mailboxes
    BY <1>0, <2>1 DEF TurnInv
  <2>3. Urgent \in Priorities
    BY <2>2, UrgentIsQueued
  <2>4. MapOK'
    BY <1>1, <2>1, <2>3, SameFrames
  <2>5. QED
    BY <1>3, <2>1, <2>4
<1>18. CASE Register
  <2>1. box \in Mailboxes
    BY <1>0, <1>18 DEF TurnInv, Register, MailboxesOf
  <2>2. QED
    BY <1>1, <1>3, <1>18, <2>1 DEF Register
<1>19. CASE CheckUnpend
  BY <1>1, <1>3, <1>19 DEF CheckUnpend
<1>20. CASE OnInterrupt
  BY <1>1, <1>3, <1>20 DEF OnInterrupt
<1>21. CASE TakeLoopBack
  <2>1. returned' \in Seq(LinkFrames)
    BY <1>1, <1>21, AppendProperties DEF TakeLoopBack
  <2>2. QED
    BY <1>1, <1>3, <1>21, <2>1 DEF TakeLoopBack
<1>22. CASE Tick
  BY <1>1, <1>3, <1>22 DEF Tick, history
<1>23. QED
  BY <1>4, <1>5, <1>6, <1>7, <1>8, <1>9, <1>10, <1>11, <1>12, <1>13, <1>14, <1>15,
     <1>16, <1>17, <1>18, <1>19, <1>20, <1>21, <1>22 DEF Next, Task

LEMMA FewerThanTwo ==
    ASSUME NEW S, AtMostTwo(S), NEW T, T \subseteq S
    PROVE  AtMostTwo(T)
BY DEF AtMostTwo

LEMMA ControllerStep ==
    ASSUME Inv, [Next]_vars
    PROVE  ControllerInv'
<1>0. TypeOK /\ ControllerInv /\ TurnInv
  BY DEF Inv
<1>1. /\ sending # None => sending \in pending
      /\ IsInjective(Marks) /\ Markers \cap pending = {}
      /\ pc # "cancel" => AtMostTwo(pending)
      /\ AtMostTwo(pending_mailboxes)
      /\ sending \in Mailboxes \cup {None} /\ pending \subseteq Mailboxes
      /\ box \in Mailboxes \cup {None}
      /\ None \notin Mailboxes
  BY <1>0, NativeAssumption DEF ControllerInv, TypeOK
<1>2. ASSUME pending' \subseteq pending, sending' # None => sending' \in pending',
             IsInjective(Marks'), Markers' \cap pending' = {},
             pc' # "cancel" => pc # "cancel",
             pending_mailboxes' = pending_mailboxes
      PROVE  ControllerInv'
  <2>1. pc' # "cancel" => AtMostTwo(pending')
    BY <1>1, <1>2, FewerThanTwo
  <2>2. AtMostTwo(pending_mailboxes')
    BY <1>1, <1>2
  <2>3. QED
    BY <1>2, <2>1, <2>2 DEF ControllerInv, AtMostTwo
<1>3. ASSUME UNCHANGED hwVars
      PROVE  /\ pending' = pending /\ sending' = sending /\ events' = events
             /\ Marks' = Marks /\ Markers' = Markers
  BY <1>3, SameEvents DEF hwVars
<1>4. ASSUME UNCHANGED << hwVars, turnVars >>, pc' # "cancel" => pc # "cancel"
      PROVE  ControllerInv'
  BY <1>1, <1>2, <1>3, <1>4 DEF turnVars
<1>5. CASE UNCHANGED vars
  BY <1>4, <1>5 DEF vars
<1>6. CASE Controller
  <2>1. PICK b \in Mailboxes : StartSending(b) \/ Sent(b) \/ NotSent(b)
    BY <1>6 DEF Controller
  <2>2. CASE StartSending(b)
    <3>1. Marks' = Marks /\ Markers' = Markers
      BY <2>2, SameEvents DEF StartSending
    <3>2. QED
      BY <1>1, <1>2, <2>2, <3>1 DEF StartSending, turnVars
  <2>3. CASE Sent(b)
    <3>1. Markers' = Markers \cup {b} /\ IsInjective(Marks')
      BY <1>0, <2>3, SentEvents
    <3>2. QED
      BY <1>1, <1>2, <2>3, <3>1 DEF Sent, turnVars
  <2>4. CASE NotSent(b)
    <3>1. Marks' = Marks /\ Markers' = Markers
      BY <2>4, SameEvents DEF NotSent
    <3>2. QED
      BY <1>1, <1>2, <2>4, <3>1 DEF NotSent, turnVars
  <2>5. QED
    BY <2>1, <2>2, <2>3, <2>4
<1>7. CASE Fetching
  BY <1>4, <1>7 DEF Fetching, FetchFrame, Polls
<1>8. CASE Query
  <2>1. pc # "cancel" /\ pending_mailboxes' = pending /\ UNCHANGED hwVars
    BY <1>8 DEF Query
  <2>2. AtMostTwo(pending)
    BY <1>1, <2>1
  <2>3. QED
    BY <1>1, <1>3, <2>1, <2>2 DEF ControllerInv, AtMostTwo
<1>9. CASE DrainEvent
  <2>1. CASE pending_frames[Head(events).marker] = None
    <3>1. /\ pc = "drain" /\ UNCHANGED << hwVars, turnVars >>
      BY <1>9, <2>1 DEF DrainEvent, Panic
    <3>2. QED
      BY <1>4, <3>1
  <2>2. CASE pending_frames[Head(events).marker] # None
    <3>1. /\ events # << >> /\ events' = Tail(events)
          /\ UNCHANGED << pending, content, cancelling, sending, interrupt, infoVars,
                          pending_mailboxes, pc, box, now, fetched, returned, aborted >>
      BY <1>9, <2>2, DrainFacts
    <3>2. Markers' \subseteq Markers /\ IsInjective(Marks')
      BY <1>0, <3>1, ReadEvent
    <3>3. QED
      BY <1>1, <1>2, <3>1, <3>2
  <2>3. QED
    BY <2>1, <2>2
<1>10. CASE EventsRead \/ Drained \/ Sleep \/ ReturnFrame
  BY <1>4, <1>10 DEF EventsRead, Drained, Sleep, ReturnFrame, Polls
<1>11. CASE Expire
  <2>1. /\ pending' \subseteq pending
        /\ sending \in pending => sending \in pending'
        /\ sending' = sending /\ events' = events /\ pc # "cancel"
        /\ pending_mailboxes' = pending_mailboxes
    BY <1>11 DEF Expire, Cancel, Polls, turnVars
  <2>2. QED
    BY <1>1, <1>2, <2>1, SameEvents
<1>12. CASE Submit
  BY <1>4, <1>12, FreeMailbox DEF Submit
<1>13. CASE Wake \/ Insert \/ Register \/ CheckUnpend
  BY <1>4, <1>13, FreeMailbox DEF Wake, Insert, Register, CheckUnpend
<1>14. CASE Add
  <2>1. /\ pending' = pending \cup {box} /\ pc = "add" /\ pc' = "cancel"
        /\ sending' = sending /\ events' = events
        /\ pending_mailboxes' = pending_mailboxes
    BY <1>14, FreeMailbox DEF Add, turnVars
  <2>2. box \notin Markers
    BY <1>0, <2>1 DEF TurnInv, Live
  <2>3. Marks' = Marks /\ Markers' = Markers
    BY <2>1, SameEvents
  <2>4. QED
    BY <1>1, <2>1, <2>2, <2>3 DEF ControllerInv, AtMostTwo
<1>15. CASE CancelOthers
  <2>1. /\ pending' = pending \ ((Mailboxes \ {box}) \ {sending})
        /\ pc = "cancel" /\ sending' = sending /\ events' = events
        /\ pending_mailboxes' = pending_mailboxes
    BY <1>15 DEF CancelOthers, Cancel, turnVars
  <2>2. box \in Mailboxes
    BY <1>0, <2>1 DEF TurnInv
  <2>3. AtMostTwo(pending')
    <3>1. CASE sending = None
      BY <1>1, <2>1, <2>2, <3>1 DEF AtMostTwo
    <3>2. CASE sending # None
      <4>1. pending' \subseteq {box, sending} /\ sending \in Mailboxes
        BY <1>1, <2>1, <3>2
      <4>2. QED
        BY <2>2, <4>1 DEF AtMostTwo
    <3>3. QED
      BY <3>1, <3>2
  <2>4. Marks' = Marks /\ Markers' = Markers
    BY <2>1, SameEvents
  <2>5. QED
    BY <1>1, <2>1, <2>3, <2>4 DEF ControllerInv, AtMostTwo
<1>16. CASE OnInterrupt
  BY <1>4, <1>16 DEF OnInterrupt
<1>17. CASE TakeLoopBack \/ Tick
  BY <1>4, <1>17 DEF TakeLoopBack, Tick
<1>18. QED
  BY <1>5, <1>6, <1>7, <1>8, <1>9, <1>10, <1>11, <1>12, <1>13, <1>14, <1>15, <1>16,
     <1>17 DEF Next, Task

LEMMA TurnStep ==
    ASSUME Inv, [Next]_vars
    PROVE  TurnInv'
<1>0. TypeOK /\ ControllerInv /\ TurnInv
  BY DEF Inv
<1>1. /\ Markers \cap pending = {} /\ Live = pending \cup Markers
      /\ Live \subseteq Mailboxes /\ now \in Nat
      /\ None \notin Mailboxes
  BY <1>0, QueuedTypes, NativeAssumption DEF ControllerInv, TypeOK, Live
<1>2. ASSUME UNCHANGED << mapVars, turnVars, box, pc, content >>,
             Live' \subseteq Live, pending' \subseteq pending, now \in Nat,
             now' \in Nat, now <= now',
             events # << >> => events' # << >> /\ Head(events') = Head(events)
      PROVE  TurnInv'
  <2>1. /\ Queued' = Queued /\ Urgent' = Urgent
        /\ pending_frames' = pending_frames
        /\ Free' = Free
    BY <1>2, SameFrames DEF mapVars, turnVars, Free
  <2>2. MailboxesOf(Urgent)' = MailboxesOf(Urgent)
    BY <2>1 DEF MailboxesOf
  <2>3. ASSUME pc = "event without a frame"
        PROVE  events' # << >> /\ content'[Head(events').marker].timestamp <= now'
    <3>1. events # << >> /\ content[Head(events).marker].timestamp <= now
      BY <1>0, <2>3 DEF TurnInv
    <3>2. Head(events) = events[1] /\ 1 \in DOMAIN events
      <4>1. events \in Seq([marker : Mailboxes, counter : Nat])
        BY <1>0 DEF TypeOK
      <4>2. Len(events) \in Nat \ {0} /\ DOMAIN events = 1 .. Len(events)
        BY <3>1, <4>1, EmptySeq, LenProperties
      <4>3. QED
        BY <4>1, <4>2
    <3>3. Head(events).marker \in Live
      BY <1>0, <1>1, <3>2, MarkersAreMailboxes
    <3>4. content[Head(events).marker].timestamp \in Nat
      BY <3>3, QueuedTypes DEF LinkFrames
    <3>5. QED
      BY <1>2, <3>1, <3>4
  <2>4. \A b \in Free : IsFree(b) => IsFree(b)'
    BY <1>2, <2>1 DEF IsFree
  <2>5. /\ pc' = pc /\ box' = box
        /\ pending_mailboxes' = pending_mailboxes
        /\ completed_mailboxes' = completed_mailboxes
    BY <1>2 DEF turnVars
  <2>6. pc \in {"drain", "free"} =>
          /\ pending' \subseteq pending_mailboxes'
          /\ completed_mailboxes' \cap Live' = {}
    BY <1>0, <1>2, <2>5 DEF TurnInv
  <2>7. pc = "free" => Free' \cap Live' = {}
    BY <1>0, <1>2, <2>1 DEF TurnInv
  <2>8. pc = "select" => Queued' = {} \/ box' \in MailboxesOf(Urgent)'
                         \/ \A b \in Free' : IsFree(b)'
    BY <1>0, <2>1, <2>2, <2>4, <2>5 DEF TurnInv
  <2>9. pc \in {"add", "cancel", "insert"} =>
          /\ Queued' # {} /\ MailboxesOf(Urgent)' = {}
          /\ box' \in Mailboxes /\ pending_frames'[box'] = None
    BY <1>0, <2>1, <2>2, <2>5 DEF TurnInv
  <2>10. pc = "add" => box' \notin Live'
    BY <1>0, <1>2, <2>5 DEF TurnInv
  <2>11. /\ pc \in {"register", "check"} =>
              Queued' # {} /\ box' \in MailboxesOf(Urgent)'
         /\ pc = "asleep" => Queued' = {} \/ box' \in MailboxesOf(Urgent)'
    BY <1>0, <2>1, <2>2, <2>5 DEF TurnInv
  <2>12. pc' \in {"query", "drain", "free", "select", "add", "cancel", "insert",
                  "register", "check", "asleep", "event without a frame"}
    BY <1>0, <2>5 DEF TurnInv
  <2>13. QED
    BY <2>3, <2>5, <2>6, <2>7, <2>8, <2>9, <2>10, <2>11, <2>12 DEF TurnInv
<1>3. ASSUME UNCHANGED hwVars
      PROVE  Live' = Live /\ events' = events /\ pending' = pending /\ content' = content
  BY <1>3, SameEvents DEF hwVars, Live
<1>4. ASSUME UNCHANGED << hwVars, mapVars, turnVars, box, pc >>,
             now' \in Nat, now <= now'
      PROVE  TurnInv'
  BY <1>1, <1>2, <1>3, <1>4
<1>5. ASSUME pc' = "query"
      PROVE  TurnInv'
  BY <1>5 DEF TurnInv
<1>6. CASE UNCHANGED vars
  BY <1>1, <1>4, <1>6 DEF vars
<1>7. CASE Controller
  <2>1. PICK b \in Mailboxes : StartSending(b) \/ Sent(b) \/ NotSent(b)
    BY <1>7 DEF Controller
  <2>2. CASE StartSending(b)
    <3>1. Live' = Live
      BY <2>2, SameEvents DEF StartSending, Live
    <3>2. QED
      BY <1>1, <1>2, <2>2, <3>1 DEF StartSending
  <2>3. CASE Sent(b)
    <3>1. /\ events' = Append(events, [marker |-> b,
                                      counter |-> Counter(timestamp_offset, now)])
          /\ Live' = Live
      BY <1>0, <2>3, SentEvents
    <3>2. events # << >> => events' # << >> /\ Head(events') = Head(events)
      <4>1. /\ events \in Seq([marker : Mailboxes, counter : Nat])
            /\ Counter(timestamp_offset, now) \in Nat
        BY <1>0, CounterIsNatural DEF TypeOK
      <4> DEFINE e == [marker |-> b, counter |-> Counter(timestamp_offset, now)]
      <4>2. e \in [marker : Mailboxes, counter : Nat]
        BY <4>1
      <4> HIDE DEF e
      <4>3. /\ events' \in Seq([marker : Mailboxes, counter : Nat])
            /\ Len(events') = Len(events) + 1
            /\ \A i \in 1 .. Len(events) : events'[i] = events[i]
        BY <3>1, <4>1, <4>2, AppendProperties DEF e
      <4>4. ASSUME events # << >>
            PROVE  events' # << >> /\ Head(events') = Head(events)
        <5>1. Len(events) \in Nat \ {0}
          BY <4>1, <4>4, EmptySeq
        <5>2. events'[1] = events[1] /\ Len(events') # 0
          BY <4>3, <5>1
        <5>3. events' # << >>
          BY <5>2, EmptySeq
        <5>4. QED
          BY <4>1, <4>3, <4>4, <5>2, <5>3
      <4>5. QED
        BY <4>4
    <3>3. QED
      BY <1>1, <1>2, <2>3, <3>1, <3>2 DEF Sent
  <2>4. CASE NotSent(b)
    <3>1. pending' \subseteq pending /\ Live' \subseteq Live
      BY <2>4, SameEvents DEF NotSent, Live
    <3>2. QED
      BY <1>1, <1>2, <2>4, <3>1 DEF NotSent
  <2>5. QED
    BY <2>1, <2>2, <2>3, <2>4
<1>8. CASE Fetching
  BY <1>5, <1>8 DEF Fetching, FetchFrame
<1>9. CASE Query
  BY <1>3, <1>9 DEF Query, TurnInv
<1>10. CASE DrainEvent
  <2> DEFINE b == Head(events).marker
  <2>1. CASE pending_frames[b] = None
    <3>1. /\ pc = "drain" /\ events # << >> /\ pc' = "event without a frame"
          /\ UNCHANGED << hwVars, now >>
      BY <1>10, <2>1 DEF DrainEvent, Panic
    <3>2. events \in Seq([marker : Mailboxes, counter : Nat])
      BY <1>0 DEF TypeOK
    <3>3. Len(events) \in Nat \ {0} /\ DOMAIN events = 1 .. Len(events)
      BY <3>1, <3>2, EmptySeq, LenProperties
    <3>4. Head(events) = events[1] /\ 1 \in DOMAIN events
      BY <3>2, <3>3
    <3>5. b \in Live /\ b \in Mailboxes
      BY <1>0, <1>1, <3>4, MarkersAreMailboxes
    <3>6. Holds[b] = None
      BY <2>1, <3>1, <3>5 DEF Holds
    <3>7. content[b].timestamp <= now
      BY <3>5, <3>6 DEF Inv, HoldsInv
    <3>8. /\ events' # << >>
          /\ content'[Head(events').marker].timestamp <= now'
      BY <3>1, <3>7 DEF hwVars
    <3>9. QED
      BY <3>1, <3>8 DEF TurnInv
  <2>2. CASE pending_frames[b] # None
    <3>1. /\ pc = "drain" /\ pc' = "drain" /\ events # << >> /\ events' = Tail(events)
          /\ completed_mailboxes' = completed_mailboxes \cup {b}
          /\ pending' = pending /\ pending_mailboxes' = pending_mailboxes
      BY <1>10, <2>2, DrainFacts
    <3>2. Markers' = Markers \ {b} /\ b \in Markers
      BY <1>0, <3>1, ReadEvent
    <3>3. /\ pending' \subseteq pending_mailboxes'
          /\ completed_mailboxes' \cap Live' = {}
      BY <1>0, <1>1, <3>1, <3>2 DEF TurnInv, Live
    <3>4. QED
      BY <3>1, <3>3 DEF TurnInv
  <2>3. QED
    BY <2>1, <2>2
<1>11. CASE EventsRead
  <2>1. /\ pc = "drain" /\ pc' = "free" /\ events = << >>
        /\ UNCHANGED << hwVars, turnVars >>
    BY <1>11 DEF EventsRead
  <2>2. Markers = {}
    BY <2>1 DEF Markers, Marks, ToSet
  <2>3. /\ pending \subseteq pending_mailboxes
        /\ completed_mailboxes \cap Live = {}
    BY <1>0, <2>1 DEF TurnInv
  <2>4. Free \cap Live = {}
    BY <1>1, <2>2, <2>3 DEF Free
  <2>5. Free' = Free /\ Live' = Live /\ pending' = pending
        /\ completed_mailboxes' = completed_mailboxes
        /\ pending_mailboxes' = pending_mailboxes
    BY <1>3, <2>1 DEF turnVars, Free
  <2>6. QED
    BY <2>1, <2>3, <2>4, <2>5 DEF TurnInv
<1>12. CASE Drained
  <2>1. /\ pc = "free" /\ pc' = "select" /\ UNCHANGED << hwVars, turnVars >>
        /\ pending_frames' = [b \in Mailboxes |->
                                IF b \in Free THEN None ELSE pending_frames[b]]
    BY <1>12 DEF Drained
  <2>2. Free' = Free /\ Live' = Live
    BY <1>3, <2>1 DEF turnVars, Free
  <2>3. \A b \in Free' : IsFree(b)'
    BY <1>0, <2>1, <2>2, FreeMailbox DEF TurnInv, IsFree
  <2>4. QED
    BY <2>1, <2>3 DEF TurnInv
<1>13. CASE Expire \/ ReturnFrame
  BY <1>5, <1>13 DEF Expire, ReturnFrame
<1>14. CASE Submit
  <2>1. /\ UNCHANGED << hwVars, interrupt, infoVars, mapVars, turnVars, now, history >>
        /\ pc = "select" /\ Queued # {}
        /\ IF MailboxesOf(Urgent) = {} THEN box' = First(Free) /\ pc' = "add"
                                       ELSE box' \in MailboxesOf(Urgent) /\ pc' = "register"
    BY <1>14, FreeMailbox DEF Submit, Urgent
  <2>2. Queued' = Queued /\ Urgent' = Urgent /\ pending_frames' = pending_frames
    BY <2>1, SameFrames DEF mapVars
  <2>3. MailboxesOf(Urgent)' = MailboxesOf(Urgent)
    BY <2>2 DEF MailboxesOf
  <2>4. CASE MailboxesOf(Urgent) = {}
    <3>1. \A b \in Free : IsFree(b)
      BY <1>0, <2>1, <2>4 DEF TurnInv
    <3>2. box' \in Mailboxes /\ box' \notin Live /\ pending_frames[box'] = None
      BY <2>1, <2>4, <3>1, FreeMailbox DEF IsFree
    <3>3. pc' = "add" /\ Live' = Live
      BY <1>3, <2>1, <2>4
    <3>4. QED
      BY <2>1, <2>2, <2>3, <2>4, <3>2, <3>3 DEF TurnInv
  <2>5. CASE MailboxesOf(Urgent) # {}
    BY <2>1, <2>2, <2>3, <2>5 DEF TurnInv
  <2>6. QED
    BY <2>4, <2>5
<1>15. CASE Sleep \/ Wake
  <2>1. /\ UNCHANGED << mapVars, box >>
        /\ \/ pc = "asleep" /\ pc' = "select"
           \/ Queued = {} /\ pc' = "asleep"
    BY <1>15 DEF Sleep, Wake
  <2>2. /\ Queued' = Queued /\ Urgent' = Urgent /\ pending_frames' = pending_frames
        /\ box' = box
    BY <2>1, SameFrames DEF mapVars
  <2>3. MailboxesOf(Urgent)' = MailboxesOf(Urgent)
    BY <2>2 DEF MailboxesOf
  <2>4. QED
    BY <1>0, <2>1, <2>2, <2>3 DEF TurnInv
<1>16. CASE Add \/ CancelOthers
  <2>1. /\ UNCHANGED << mapVars, box >>
        /\ pc \in {"add", "cancel"} /\ pc' \in {"cancel", "insert"}
    BY <1>16, FreeMailbox DEF Add, CancelOthers
  <2>2. /\ Queued' = Queued /\ Urgent' = Urgent /\ pending_frames' = pending_frames
        /\ box' = box
    BY <2>1, SameFrames DEF mapVars
  <2>3. MailboxesOf(Urgent)' = MailboxesOf(Urgent)
    BY <2>2 DEF MailboxesOf
  <2>4. QED
    BY <1>0, <2>1, <2>2, <2>3 DEF TurnInv
<1>17. CASE Insert
  <2>1. /\ pending_frames' = [pending_frames EXCEPT ![box] = Urgent]
        /\ UNCHANGED << frames, loop_back_pending, box >>
        /\ pc = "insert" /\ pc' = "register"
    BY <1>17, FreeMailbox DEF Insert, Urgent
  <2>2. Queued # {} /\ box \in Mailboxes
    BY <1>0, <2>1 DEF TurnInv
  <2>3. Queued' = Queued /\ Urgent' = Urgent
    BY <2>1, SameFrames
  <2>4. pending_frames'[box'] = Urgent'
    BY <1>0, <2>1, <2>2, <2>3 DEF TypeOK
  <2>5. box' \in MailboxesOf(Urgent)'
    BY <2>1, <2>2, <2>4 DEF MailboxesOf
  <2>6. QED
    BY <2>1, <2>2, <2>3, <2>5 DEF TurnInv
<1>18. CASE Register \/ CheckUnpend
  <2>1. /\ UNCHANGED << mapVars, box >>
        /\ pc \in {"register", "check"} /\ pc' \in {"query", "check", "asleep"}
    BY <1>18 DEF Register, CheckUnpend
  <2>2. /\ Queued' = Queued /\ Urgent' = Urgent /\ pending_frames' = pending_frames
        /\ box' = box
    BY <2>1, SameFrames DEF mapVars
  <2>3. MailboxesOf(Urgent)' = MailboxesOf(Urgent)
    BY <2>2 DEF MailboxesOf
  <2>4. QED
    BY <1>0, <2>1, <2>2, <2>3 DEF TurnInv
<1>19. CASE OnInterrupt \/ TakeLoopBack
  BY <1>1, <1>4, <1>19 DEF OnInterrupt, TakeLoopBack
<1>20. CASE Tick
  BY <1>1, <1>4, <1>20 DEF Tick
<1>21. QED
  BY <1>6, <1>7, <1>8, <1>9, <1>10, <1>11, <1>12, <1>13, <1>14, <1>15, <1>16, <1>17,
     <1>18, <1>19, <1>20 DEF Next, Task

\* What the steps do to Holds and to the queued frames.
LEMMA DrainedEvent ==
    ASSUME Inv, DrainEvent, NEW b, b = Head(events).marker, pending_frames[b] # None
    PROVE  /\ Holds' = [Holds EXCEPT ![b] = None]
           /\ Occupied' \subseteq Occupied
           /\ Queued' = Queued \ {Holds[b]}
           /\ b \in Markers /\ b \in Live /\ Live' = Live \ {b} /\ Markers' = Markers \ {b}
           /\ \A q \in Priorities : q # Holds[b] => frames'[q] = frames[q]
           /\ Holds[b] \in Queued /\ Holds[b] \in Priorities /\ b \in Mailboxes
           /\ \A q \in Occupied' : frames'[q].id = frames[q].id
           /\ DOMAIN bus' = DOMAIN bus
           /\ \A i \in DOMAIN bus : bus'[i].id = bus[i].id /\ bus'[i].time = bus[i].time
<1> DEFINE p == pending_frames[b]
<1>1. /\ b \in Mailboxes /\ pc = "drain" /\ pc' = "drain" /\ events # << >>
      /\ events' = Tail(events) /\ p \in Queued /\ p \in Priorities
      /\ Holds = pending_frames
      /\ frames[p] \in LinkFrames
      /\ pending_frames' = [pending_frames EXCEPT ![b] = None]
      /\ pending' = pending
  BY DrainFacts
<1>2. Markers' = Markers \ {b} /\ b \in Markers
  BY <1>1, ReadEvent DEF Inv
<1>3. Live' = Live \ {b}
  BY <1>1, <1>2 DEF Live, Inv, ControllerInv
<1>4. Holds' = [Holds EXCEPT ![b] = None]
  <2>1. Holds' = pending_frames'
    BY <1>1 DEF Holds, Inv, TypeOK
  <2>2. QED
    BY <1>1, <2>1
<1> DEFINE f == [frames[p] EXCEPT !.timestamp = EventTimestamp(Head(events))]
<1>5. f # None
  <2> DEFINE time == EventTimestamp(Head(events))
  <2>1. time \in Nat
    BY <1>1, DrainFacts, EventTimeIsInstant DEF Inv, TypeOK
  <2> HIDE DEF time
  <2>2. [frames[p] EXCEPT !.timestamp = time] \in LinkFrames
    BY <1>1, <2>1 DEF LinkFrames
  <2>3. QED
    BY <2>2, NativeAssumption DEF LinkFrames, time
<1>6. /\ \/ /\ frames' = [frames EXCEPT ![p] = f]
            /\ loop_back_pending' = loop_back_pending \cup {p}
         \/ /\ frames' = [frames EXCEPT ![p] = None]
            /\ loop_back_pending' = loop_back_pending
  BY DrainOutcome
<1>7. frames \in [Priorities -> LinkFrames \cup {None}] /\ p \notin loop_back_pending
  BY <1>1 DEF Inv, TypeOK, Queued
<1> HIDE DEF f, p
<1>8. Occupied' \subseteq Occupied /\ Queued' = Queued \ {p}
  BY <1>1, <1>5, <1>6, <1>7 DEF Queued, Occupied
<1>9. \A q \in Priorities : q # p => frames'[q] = frames[q]
  BY <1>6, <1>7
<1>10. p = Holds[b]
  BY <1>1 DEF p
<1>11. b \in Live
  BY <1>2 DEF Live
<1>12. \A q \in Occupied' : frames'[q].id = frames[q].id
  <2>1. p \in Occupied' => frames'[p] = f
    BY <1>1, <1>6, <1>7 DEF Occupied
  <2>2. f.id = frames[p].id
    BY <1>1 DEF f, LinkFrames, p
  <2>3. QED
    BY <1>9, <2>1, <2>2 DEF Occupied
<1>13. /\ DOMAIN bus' = DOMAIN bus
       /\ \A i \in DOMAIN bus : bus'[i].id = bus[i].id /\ bus'[i].time = bus[i].time
  <2>1. bus' = [i \in DOMAIN bus |->
                  IF bus[i].id = frames[p].id /\ bus[i].read = None
                  THEN [bus[i] EXCEPT !.read = now] ELSE bus[i]]
    BY DrainOutcome DEF p
  <2>2. \A i \in DOMAIN bus : bus[i] \in [id : Nat, time : Nat, read : Nat \cup {None}]
    BY BusTypes
  <2>3. QED
    BY <2>1, <2>2
<1>14. QED
  BY <1>1, <1>2, <1>3, <1>4, <1>8, <1>9, <1>10, <1>11, <1>12, <1>13

\* The frames of which the mailboxes are given up are late.
LEMMA ExpiredFrames ==
    ASSUME Inv, Expire
    PROVE  /\ Occupied' \subseteq Occupied /\ Queued' \subseteq Queued
           /\ Queued \ Queued' = {p \in Queued : frames[p].timestamp <= now}
           /\ \A q \in Occupied' : frames'[q] = frames[q]
           /\ \A b \in Mailboxes :
                Holds'[b] = IF Holds[b] \in Queued \ Queued' THEN None ELSE Holds[b]
           /\ pending' \subseteq pending /\ Markers' = Markers /\ Live' \subseteq Live
           /\ loop_back_pending \subseteq Occupied'
           /\ UNCHANGED << content, events, bus, loop_back_pending, fetched, returned,
                           loop_back, now >>
<1> DEFINE late == {p \in Queued : frames[p].timestamp <= now}
<1>1. /\ frames' = [p \in Priorities |-> IF p \in late THEN None ELSE frames[p]]
      /\ pending_frames' = [b \in Mailboxes |->
                              IF pending_frames[b] \in late THEN None
                                                            ELSE pending_frames[b]]
      /\ pending' \subseteq pending
      /\ UNCHANGED << content, events, bus, loop_back_pending, fetched, returned,
                      loop_back, now >>
      /\ pc \in {"select", "asleep"} /\ pc' = "query"
  BY DEF Expire, Cancel, Polls, infoVars, history
<1>2. late \subseteq Queued /\ Queued \subseteq Occupied /\ Occupied \subseteq Priorities
      /\ late \cap loop_back_pending = {} /\ loop_back_pending \subseteq Occupied
  BY DEF Queued, Occupied, Inv, TypeOK
<1> HIDE DEF late
<1>3. Occupied' = Occupied \ late /\ Queued' = Queued \ late
  BY <1>1, <1>2 DEF Occupied, Queued
<1>4. Queued \ Queued' = late
  BY <1>2, <1>3
<1>5. \A q \in Occupied' : frames'[q] = frames[q]
  BY <1>1, <1>2, <1>3
<1>6. \A b \in Mailboxes : Holds'[b] = IF Holds[b] \in late THEN None ELSE Holds[b]
  BY <1>1 DEF Holds
<1>7. Markers' = Markers /\ Live' \subseteq Live
  BY <1>1, SameEvents DEF Live
<1>8. loop_back_pending \subseteq Occupied'
  BY <1>2, <1>3
<1>9. QED
  BY <1>1, <1>2, <1>3, <1>4, <1>5, <1>6, <1>7, <1>8 DEF late

\* The most urgent frame is put into a free mailbox.
LEMMA FilledMailbox ==
    ASSUME Inv, Add
    PROVE  /\ Urgent \in Queued /\ Urgent \in Priorities /\ frames[Urgent] \in LinkFrames
           /\ box \in Mailboxes /\ box \notin Live
           /\ content' = [content EXCEPT ![box] = frames[Urgent]]
           /\ Holds[box] = None /\ Holds' = [Holds EXCEPT ![box] = Urgent]
           /\ \A b \in Mailboxes : Holds[b] # Urgent
           /\ Live' = Live \cup {box} /\ pending' = pending \cup {box}
           /\ Markers' = Markers
           /\ Queued' = Queued /\ Occupied' = Occupied
           /\ UNCHANGED << frames, loop_back_pending, events, bus, fetched, returned,
                           loop_back, now >>
<1>1. /\ pc = "add" /\ pc' = "cancel" /\ box' = box
      /\ content' = [content EXCEPT ![box] = frames[Urgent]]
      /\ pending' = pending \cup {box}
      /\ UNCHANGED << frames, loop_back_pending, pending_frames, events, bus, fetched,
                      returned, loop_back, now >>
  BY FreeMailbox DEF Add, StoreTxBuffer, Urgent, mapVars, infoVars
<1>2. /\ Queued # {} /\ MailboxesOf(Urgent) = {}
      /\ box \in Mailboxes /\ box \notin Live /\ pending_frames[box] = None
  BY <1>1 DEF Inv, TurnInv
<1>3. Urgent \in Queued /\ Urgent \in Priorities /\ frames[Urgent] \in LinkFrames
  BY <1>2, UrgentIsQueued DEF Inv, TypeOK
<1>4. Occupied' = Occupied /\ Queued' = Queued /\ Urgent' = Urgent
  BY <1>1, SameFrames
<1>5. Holds = pending_frames
  BY <1>1 DEF Holds, Inv, TypeOK
<1>6. Holds' = [b \in Mailboxes |-> IF b = box THEN Urgent ELSE pending_frames[b]]
  BY <1>1, <1>4 DEF Holds
<1>7. pending_frames \in [Mailboxes -> Priorities \cup {None}]
  BY DEF Inv, TypeOK
<1>8. Holds' = [Holds EXCEPT ![box] = Urgent]
  BY <1>2, <1>5, <1>6, <1>7
<1>9. Markers' = Markers /\ Live' = Live \cup {box}
  BY <1>1, SameEvents DEF Live
<1>10. \A b \in Mailboxes : Holds[b] # Urgent
  BY <1>2, <1>5 DEF MailboxesOf
<1>11. QED
  BY <1>1, <1>2, <1>3, <1>4, <1>5, <1>8, <1>9, <1>10

\* The link hands out a frame that is new, or one that is discarded.
LEMMA FetchedFrame ==
    ASSUME Inv, Fetching
    PROVE  /\ fetched' = fetched + 1 /\ fetched \in Nat
           /\ Holds' = Holds /\ Live' = Live /\ Markers' = Markers
           /\ UNCHANGED << content, pending, events, bus, loop_back_pending, returned,
                           loop_back, now >>
           /\ \/ frames' = frames /\ Queued' = Queued /\ Occupied' = Occupied
              \/ \E p \in Priorities \ Occupied :
                    /\ Queued' = Queued \cup {p} /\ Occupied' = Occupied \cup {p}
                    /\ frames'[p].id = fetched + 1 /\ frames'[p] # None
                    /\ \A q \in Priorities \ {p} : frames'[q] = frames[q]
<1>1. PICK p \in Priorities, lb \in BOOLEAN, anonymous \in BOOLEAN,
           deadline \in now .. MaxTime :
              FetchFrame(p, Frame(fetched + 1, lb, deadline), anonymous)
  BY DEF Fetching
<1> DEFINE f == Frame(fetched + 1, lb, deadline)
<1>2. f \in LinkFrames /\ f # None /\ f.id = fetched + 1 /\ fetched \in Nat
  BY NativeAssumption DEF Frame, LinkFrames, Inv, TypeOK
<1> HIDE DEF f
<1>3. /\ UNCHANGED << content, pending, events, bus, loop_back_pending, returned,
                      loop_back, now, pending_frames, box >>
      /\ fetched' = fetched + 1 /\ p \notin Occupied
      /\ frames' = IF anonymous THEN frames ELSE [frames EXCEPT ![p] = f]
      /\ pc \in {"select", "asleep"} /\ pc' = "query"
  BY <1>1 DEF FetchFrame, Polls, f, hwVars, infoVars
<1>4. Markers' = Markers /\ Live' = Live
  BY <1>3, SameEvents DEF Live
<1>5. Holds' = Holds
  BY <1>3 DEF Holds
<1>6. CASE anonymous
  BY <1>2, <1>3, <1>4, <1>5, <1>6, SameFrames
<1>7. CASE ~ anonymous
  <2>1. frames \in [Priorities -> LinkFrames \cup {None}]
        /\ loop_back_pending \subseteq Occupied
    BY DEF Inv, TypeOK
  <2>2. frames' = [frames EXCEPT ![p] = f]
    BY <1>3, <1>7
  <2>3. frames'[p] = f /\ \A q \in Priorities \ {p} : frames'[q] = frames[q]
    BY <2>1, <2>2
  <2>4. Occupied' = Occupied \cup {p}
    BY <1>2, <2>3 DEF Occupied
  <2>5. Queued' = Queued \cup {p}
    BY <1>3, <2>1, <2>4 DEF Queued
  <2>6. p \in Priorities \ Occupied
    BY <1>3
  <2>7. QED
    BY <1>2, <1>3, <1>4, <1>5, <2>3, <2>4, <2>5, <2>6
<1>8. QED
  BY <1>6, <1>7

\* A frame that was sent goes back.
LEMMA ReturnedFrame ==
    ASSUME Inv, ReturnFrame
    PROVE  \E p \in loop_back_pending :
              /\ p \in Occupied /\ p \notin Queued /\ frames[p] \in LinkFrames
              /\ loop_back = None /\ loop_back' = frames[p]
              /\ loop_back_pending' = loop_back_pending \ {p}
              /\ Occupied' = Occupied \ {p} /\ Queued' = Queued
              /\ \A q \in Priorities \ {p} : frames'[q] = frames[q]
              /\ Holds' = Holds /\ Live' = Live /\ Markers' = Markers
              /\ UNCHANGED << content, pending, events, bus, fetched, returned, now >>
<1> DEFINE p == First(loop_back_pending)
<1>1. /\ loop_back_pending # {} /\ loop_back = None /\ loop_back' = frames[p]
      /\ frames' = [frames EXCEPT ![p] = None]
      /\ loop_back_pending' = loop_back_pending \ {p}
      /\ UNCHANGED << content, pending, events, bus, fetched, returned, now,
                      pending_frames, box >>
      /\ pc \in {"select", "asleep"} /\ pc' = "query"
  BY DEF ReturnFrame, ReturnReady, Polls, hwVars, history
<1> HIDE DEF p
<1>2. loop_back_pending \subseteq Occupied /\ Occupied \subseteq Priorities
      /\ frames \in [Priorities -> LinkFrames \cup {None}]
  BY DEF Occupied, Inv, TypeOK
<1>3. p \in loop_back_pending
  BY <1>1, <1>2, NativeAssumption, FirstIsMember DEF p
<1>4. p \in Occupied /\ p \notin Queued /\ frames[p] \in LinkFrames
  BY <1>2, <1>3 DEF Queued, Occupied
<1>5. Occupied' = Occupied \ {p}
  BY <1>1, <1>2 DEF Occupied
<1>6. Queued' = Queued
  BY <1>1, <1>3, <1>5 DEF Queued
<1>7. \A q \in Priorities \ {p} : frames'[q] = frames[q]
  BY <1>1, <1>2
<1>8. Holds' = Holds
  BY <1>1 DEF Holds
<1>9. Markers' = Markers /\ Live' = Live
  BY <1>1, SameEvents DEF Live
<1>10. QED
  BY <1>1, <1>3, <1>4, <1>5, <1>6, <1>7, <1>8, <1>9

\* A mailbox loses its frame once that was cancelled.
LEMMA DrainedMailboxes ==
    ASSUME Inv, Drained
    PROVE  /\ \A b \in Mailboxes : Holds'[b] = IF b \in Free THEN None ELSE Holds[b]
           /\ \A b \in Free : b \notin Live
           /\ Live' = Live /\ Markers' = Markers
           /\ Queued' = Queued /\ Occupied' = Occupied
           /\ UNCHANGED << content, pending, events, bus, frames, loop_back_pending,
                           fetched, returned, loop_back, now >>
<1>1. /\ pc = "free" /\ pc' = "select" /\ box' = box
      /\ pending_frames' = [b \in Mailboxes |->
                              IF b \in Free THEN None ELSE pending_frames[b]]
      /\ UNCHANGED << content, pending, events, bus, frames, loop_back_pending,
                      fetched, returned, loop_back, now >>
  BY DEF Drained, hwVars, infoVars, history
<1>2. \A b \in Free : b \notin Live
  BY <1>1 DEF Inv, TurnInv
<1>3. \A b \in Mailboxes : Holds'[b] = IF b \in Free THEN None ELSE Holds[b]
  BY <1>1 DEF Holds
<1>4. Markers' = Markers /\ Live' = Live /\ Queued' = Queued /\ Occupied' = Occupied
  BY <1>1, SameEvents, SameFrames DEF Live
<1>5. QED
  BY <1>1, <1>2, <1>3, <1>4

\* A frame is sent.
LEMMA SentFrame ==
    ASSUME Inv, NEW b \in Mailboxes, Sent(b)
    PROVE  /\ b \in pending /\ content[b] \in LinkFrames
           /\ events' = Append(events, [marker |-> b,
                                       counter |-> Counter(timestamp_offset, now)])
           /\ bus' = Append(bus, [id |-> content[b].id, time |-> now, read |-> None])
           /\ pending' = pending \ {b} /\ Markers' = Markers \cup {b} /\ Live' = Live
           /\ Holds' = Holds /\ Queued' = Queued /\ Occupied' = Occupied
           /\ UNCHANGED << content, frames, loop_back_pending, fetched, returned,
                           loop_back, now >>
<1>1. /\ b \in pending /\ Live' = Live /\ Markers' = Markers \cup {b}
      /\ events' = Append(events, [marker |-> b,
                                  counter |-> Counter(timestamp_offset, now)])
  BY SentEvents DEF Inv
<1>2. content[b] \in LinkFrames
  BY <1>1, QueuedTypes DEF Live
<1>3. /\ bus' = Append(bus, [id |-> content[b].id, time |-> now, read |-> None])
      /\ pending' = pending \ {b}
      /\ UNCHANGED << content, frames, loop_back_pending, fetched, returned, loop_back,
                      now, pending_frames, pc, box >>
  BY DEF Sent, infoVars, mapVars
<1>4. Queued' = Queued /\ Occupied' = Occupied /\ Urgent' = Urgent
  BY <1>3, SameFrames
<1>5. Holds' = Holds
  BY <1>3, <1>4 DEF Holds
<1>6. QED
  BY <1>1, <1>2, <1>3, <1>4, <1>5

LEMMA HoldsStep ==
    ASSUME Inv, [Next]_vars
    PROVE  HoldsInv'
<1>1. /\ \A b \in Mailboxes :
          /\ Holds[b] # None => Holds[b] \in Queued
          /\ b \in Live => content[b] \in LinkFrames
          /\ b \in Live /\ Holds[b] # None => content[b] = frames[Holds[b]]
          /\ b \in Live /\ Holds[b] = None => content[b].timestamp <= now
          /\ b \in Live => \A p \in Queued :
              content[b].id = frames[p].id => Holds[b] = p
      /\ \A b, d \in Mailboxes : Holds[b] = Holds[d] /\ Holds[b] # None => b = d
  BY QueuedTypes DEF Inv, HoldsInv
<1>2. /\ Queued \subseteq Occupied /\ Occupied \subseteq Priorities
      /\ Live \subseteq Mailboxes /\ now \in Nat /\ now' \in Nat
      /\ \A p \in Occupied : frames[p] \in LinkFrames
      /\ \A b \in Live : content[b].timestamp \in Nat /\ content[b].id \in Nat
      /\ None \notin Priorities
      /\ Holds \in [Mailboxes -> Priorities \cup {None}]
  <2>1. None \notin Priorities
    BY NativeAssumption
  <2>2. now \in Nat /\ now' \in Nat
    BY TypeStep DEF Inv, TypeOK
  <2>3. Holds \in [Mailboxes -> Priorities \cup {None}]
    BY <1>1 DEF Holds, Queued, Occupied
  <2>4. QED
    BY <2>1, <2>2, <2>3, QueuedTypes DEF Queued, Occupied, LinkFrames
<1>3. ASSUME content' = content, Live' \subseteq Live, now <= now',
             Queued' \subseteq Queued, \A q \in Queued' : frames'[q] = frames[q],
             \A b \in Mailboxes :
                \/ Holds'[b] = Holds[b] /\ (Holds[b] # None => Holds[b] \in Queued')
                \/ /\ Holds'[b] = None
                   /\ b \in Live' => /\ content[b].timestamp <= now
                                     /\ Holds[b] \notin Queued'
      PROVE  HoldsInv'
  <2>1. ASSUME NEW b \in Mailboxes
        PROVE  /\ Holds'[b] # None => Holds'[b] \in Queued' /\ Holds'[b] = Holds[b]
               /\ b \in Live' => b \in Live /\ content'[b] = content[b]
    BY <1>3
  <2>2. ASSUME NEW b \in Mailboxes, b \in Live'
        PROVE  /\ content'[b] # None
               /\ Holds'[b] # None => content'[b] = frames'[Holds'[b]]
    <3>1. content'[b] # None
      BY <1>1, <2>1, <2>2, NativeAssumption DEF LinkFrames
    <3>2. Holds'[b] # None => content'[b] = frames'[Holds'[b]]
      BY <1>1, <1>3, <2>1, <2>2
    <3>3. QED
      BY <3>1, <3>2
  <2>3. ASSUME NEW b \in Mailboxes, b \in Live', Holds'[b] = None
        PROVE  content'[b].timestamp <= now'
    <3>1. content[b].timestamp <= now /\ content[b].timestamp \in Nat
      BY <1>1, <1>2, <1>3, <2>1, <2>3
    <3>2. QED
      BY <1>2, <1>3, <3>1
  <2>4. ASSUME NEW b \in Mailboxes, b \in Live', NEW p \in Queued',
               content'[b].id = frames'[p].id
        PROVE  Holds'[b] = p
    <3>1. Holds[b] = p
      BY <1>1, <1>3, <2>1, <2>4
    <3>2. QED
      BY <1>3, <2>4, <3>1
  <2>5. \A b, d \in Mailboxes : Holds'[b] = Holds'[d] /\ Holds'[b] # None => b = d
    BY <1>1, <2>1
  <2>6. QED
    BY <2>1, <2>2, <2>3, <2>4, <2>5 DEF HoldsInv
<1>4. CASE IsQuiet
  <2>1. Queued' = Queued /\ Live' \subseteq Live
    BY <1>4, SameFrames, SameEvents DEF IsQuiet, Live
  <2>2. QED
    BY <1>1, <1>3, <1>4, <2>1 DEF IsQuiet
<1>5. ASSUME NEW b \in Mailboxes, Sent(b)
      PROVE  HoldsInv'
  <2>1. /\ content' = content /\ Live' = Live /\ now' = now /\ Queued' = Queued
        /\ frames' = frames /\ Holds' = Holds
    BY <1>5, SentFrame
  <2>2. QED
    BY <1>1, <1>2, <1>3, <2>1
<1>6. CASE DrainEvent /\ pending_frames[Head(events).marker] # None
  <2> DEFINE b == Head(events).marker
  <2>1. /\ Holds' = [Holds EXCEPT ![b] = None]
        /\ Queued' = Queued \ {Holds[b]} /\ Live' = Live \ {b}
        /\ \A q \in Priorities : q # Holds[b] => frames'[q] = frames[q]
        /\ b \in Mailboxes /\ Holds[b] \in Queued
    BY <1>6, DrainedEvent
  <2>2. content' = content /\ now' = now
    BY <1>6, DrainFacts
  <2> HIDE DEF b
  <2>3. \A d \in Mailboxes : d # b /\ Holds[d] # None => Holds[d] \in Queued'
    BY <1>1, <1>2, <2>1
  <2>4. QED
    BY <1>2, <1>3, <2>1, <2>2, <2>3
<1>7. CASE Drained
  <2>1. /\ \A b \in Mailboxes : Holds'[b] = IF b \in Free THEN None ELSE Holds[b]
        /\ \A b \in Free : b \notin Live
        /\ Live' = Live /\ Queued' = Queued
        /\ UNCHANGED << content, frames, now >>
    BY <1>7, DrainedMailboxes
  <2>2. QED
    BY <1>1, <1>2, <1>3, <2>1
<1>8. CASE Expire
  <2>1. /\ Queued' \subseteq Queued
        /\ Queued \ Queued' = {p \in Queued : frames[p].timestamp <= now}
        /\ \A q \in Queued' : frames'[q] = frames[q]
        /\ \A b \in Mailboxes :
              Holds'[b] = IF Holds[b] \in Queued \ Queued' THEN None ELSE Holds[b]
        /\ Live' \subseteq Live /\ UNCHANGED << content, now >>
    <3>1. Queued' \subseteq Occupied'
      BY DEF Queued
    <3>2. QED
      BY <1>8, <3>1, ExpiredFrames
  <2>2. ASSUME NEW b \in Mailboxes, Holds[b] \in Queued \ Queued', b \in Live'
        PROVE  content[b].timestamp <= now
    <3>1. frames[Holds[b]].timestamp <= now
      BY <2>1, <2>2
    <3>2. content[b] = frames[Holds[b]]
      BY <1>1, <1>2, <2>1, <2>2
    <3>3. QED
      BY <3>1, <3>2
  <2>3. \A b \in Mailboxes : Holds[b] # None => Holds[b] \in Queued
    BY <1>1
  <2>4. now <= now' /\ content' = content
    BY <1>2, <2>1
  <2>5. \A b \in Mailboxes :
           \/ Holds'[b] = Holds[b] /\ (Holds[b] # None => Holds[b] \in Queued')
           \/ /\ Holds'[b] = None
              /\ b \in Live' => /\ content[b].timestamp <= now
                                /\ Holds[b] \notin Queued'
    BY <2>1, <2>2, <2>3
  <2>6. Queued' \subseteq Queued /\ Live' \subseteq Live
        /\ \A q \in Queued' : frames'[q] = frames[q]
    BY <2>1
  <2>7. QED
    BY <1>3, <2>4, <2>5, <2>6
<1>9. CASE ReturnFrame
  <2>1. PICK p \in loop_back_pending :
            /\ p \notin Queued /\ Queued' = Queued
            /\ \A q \in Priorities \ {p} : frames'[q] = frames[q]
            /\ Holds' = Holds /\ Live' = Live /\ UNCHANGED << content, now >>
    BY <1>9, ReturnedFrame
  <2>2. QED
    BY <1>1, <1>2, <1>3, <2>1
<1>10. CASE Fetching
  <2>1. /\ fetched \in Nat /\ Holds' = Holds /\ Live' = Live
        /\ UNCHANGED << content, now >>
        /\ \/ frames' = frames /\ Queued' = Queued /\ Occupied' = Occupied
           \/ \E p \in Priorities \ Occupied :
                 /\ Queued' = Queued \cup {p}
                 /\ frames'[p].id = fetched + 1 /\ frames'[p] # None
                 /\ \A q \in Priorities \ {p} : frames'[q] = frames[q]
    BY <1>10, FetchedFrame
  <2>2. CASE frames' = frames /\ Queued' = Queued
    BY <1>1, <1>2, <1>3, <2>1, <2>2
  <2>3. ASSUME NEW p \in Priorities \ Occupied, Queued' = Queued \cup {p},
               frames'[p].id = fetched + 1,
               \A q \in Priorities \ {p} : frames'[q] = frames[q]
        PROVE  HoldsInv'
    <3>1. \A q \in Queued : q # p /\ frames'[q] = frames[q] /\ q \in Queued'
      BY <1>2, <2>3
    <3>2. ASSUME NEW b \in Mailboxes
          PROVE  /\ Holds'[b] # None => Holds'[b] \in Queued'
                 /\ b \in Live' => content'[b] # None
                 /\ b \in Live' /\ Holds'[b] # None => content'[b] = frames'[Holds'[b]]
                 /\ b \in Live' /\ Holds'[b] = None => content'[b].timestamp <= now'
      <4>1. b \in Live => content[b] # None
        BY <1>1, <3>2, NativeAssumption DEF LinkFrames
      <4>2. QED
        BY <1>1, <2>1, <3>1, <3>2, <4>1
    <3>3. ASSUME NEW b \in Mailboxes, b \in Live', NEW q \in Queued',
                 content'[b].id = frames'[q].id
          PROVE  Holds'[b] = q
      <4>1. content[b].id <= fetched /\ content[b].id \in Nat
        BY <1>2, <2>1, <3>3 DEF Inv, SentInv
      <4>2. q # p
        BY <2>1, <2>3, <3>3, <4>1
      <4>3. q \in Queued /\ content[b].id = frames[q].id
        BY <2>1, <2>3, <3>1, <3>3, <4>2
      <4>4. QED
        BY <1>1, <2>1, <3>3, <4>3
    <3>4. \A b, d \in Mailboxes : Holds'[b] = Holds'[d] /\ Holds'[b] # None => b = d
      BY <1>1, <2>1
    <3>5. QED
      BY <3>2, <3>3, <3>4 DEF HoldsInv
  <2>4. QED
    BY <2>1, <2>2, <2>3
<1>11. CASE TakeLoopBack
  <2>1. UNCHANGED << content, pending, events, frames, loop_back_pending, pending_frames,
                     pc, box, now >>
    BY <1>11 DEF TakeLoopBack, hwVars, mapVars
  <2>2. /\ Queued' = Queued /\ Urgent' = Urgent /\ Markers' = Markers
    BY <2>1, SameFrames, SameEvents
  <2>3. Live' = Live /\ Holds' = Holds
    BY <2>1, <2>2 DEF Live, Holds
  <2>4. QED
    BY <1>1, <1>2, <1>3, <2>1, <2>2, <2>3
<1>12. CASE Add
  <2>1. /\ Urgent \in Queued /\ Urgent \in Priorities /\ frames[Urgent] \in LinkFrames
        /\ box \in Mailboxes /\ box \notin Live
        /\ content' = [content EXCEPT ![box] = frames[Urgent]]
        /\ Holds[box] = None /\ Holds' = [Holds EXCEPT ![box] = Urgent]
        /\ \A b \in Mailboxes : Holds[b] # Urgent
        /\ Live' = Live \cup {box} /\ Queued' = Queued
        /\ UNCHANGED << frames, now >>
    BY <1>12, FilledMailbox
  <2>2. content \in [Mailboxes -> LinkFrames \cup {None}]
    BY DEF Inv, TypeOK
  <2>3. /\ content'[box] = frames[Urgent] /\ Holds'[box] = Urgent
        /\ \A b \in Mailboxes : b # box => content'[b] = content[b] /\ Holds'[b] = Holds[b]
    BY <1>2, <2>1, <2>2
  <2>4. ASSUME NEW b \in Mailboxes
        PROVE  /\ Holds'[b] # None => Holds'[b] \in Queued'
               /\ b \in Live' => content'[b] # None
               /\ b \in Live' /\ Holds'[b] # None => content'[b] = frames'[Holds'[b]]
               /\ b \in Live' /\ Holds'[b] = None => content'[b].timestamp <= now'
    <3>1. CASE b = box
      BY <1>2, <2>1, <2>3, <3>1, NativeAssumption DEF LinkFrames
    <3>2. CASE b # box
      <4>1. b \in Live => content[b] # None
        BY <1>1, <2>4, NativeAssumption DEF LinkFrames
      <4>2. QED
        BY <1>1, <2>1, <2>3, <3>2, <4>1
    <3>3. QED
      BY <3>1, <3>2
  <2>5. ASSUME NEW b \in Mailboxes, b \in Live', NEW p \in Queued',
               content'[b].id = frames'[p].id
        PROVE  Holds'[b] = p
    <3>1. CASE b = box
      <4>1. frames[Urgent].id = frames[p].id /\ p \in Occupied /\ Urgent \in Occupied
        BY <1>2, <2>1, <2>3, <2>5, <3>1
      <4>2. p = Urgent
        BY <4>1 DEF Inv, SentInv
      <4>3. QED
        BY <2>3, <3>1, <4>2
    <3>2. CASE b # box
      BY <1>1, <2>1, <2>3, <2>5, <3>2
    <3>3. QED
      BY <3>1, <3>2
  <2>6. \A b, d \in Mailboxes : Holds'[b] = Holds'[d] /\ Holds'[b] # None => b = d
    BY <1>1, <2>1, <2>3
  <2>7. QED
    BY <2>4, <2>5, <2>6 DEF HoldsInv
<1>13. QED
  BY <1>4, <1>5, <1>6, <1>7, <1>8, <1>9, <1>10, <1>11, <1>12, OtherStepsAreQuiet

LEMMA SentStep ==
    ASSUME Inv, [Next]_vars
    PROVE  SentInv'
<1>1. /\ \A p \in Occupied : frames[p].id <= fetched
      /\ \A b \in Live : content[b].id <= fetched
      /\ \A i \in DOMAIN bus : bus[i].id <= fetched
      /\ \A p, q \in Occupied : frames[p].id = frames[q].id => p = q
      /\ \A b, d \in Live : content[b].id = content[d].id => b = d
      /\ \A b \in pending : content[b].id \notin SentIds
      /\ \A i, j \in DOMAIN bus : bus[i].id = bus[j].id => i = j
      /\ \A p \in Queued :
          frames[p].id \in SentIds => \E b \in Markers : Holds[b] = p
  BY DEF Inv, SentInv
<1>2. /\ Queued \subseteq Occupied /\ Occupied \subseteq Priorities
      /\ pending \subseteq Live /\ Markers \subseteq Live /\ Live \subseteq Mailboxes
      /\ \A p \in Occupied : frames[p].id \in Nat
      /\ \A b \in Live : content[b].id \in Nat
      /\ \A b \in Live : \A p \in Queued : content[b].id = frames[p].id => Holds[b] = p
      /\ fetched \in Nat
      /\ None \notin Priorities /\ None \notin Queued
  <2>1. None \notin Priorities
    BY NativeAssumption
  <2>2. /\ \A p \in Occupied : frames[p].id \in Nat
        /\ Live \subseteq Mailboxes
        /\ \A b \in Live : content[b].id \in Nat
    BY QueuedTypes DEF LinkFrames
  <2>3. \A b \in Live : \A p \in Queued : content[b].id = frames[p].id => Holds[b] = p
    BY <2>2 DEF Inv, HoldsInv
  <2>4. QED
    BY <2>1, <2>2, <2>3 DEF Queued, Occupied, Live, Inv, TypeOK
<1>3. /\ DOMAIN bus = 1 .. Len(bus) /\ Len(bus) \in Nat
      /\ \A i \in DOMAIN bus : bus[i].id \in Nat
  BY BusTypes
<1>4. ASSUME content' = content, Live' \subseteq Live, pending' \subseteq pending,
             fetched' = fetched, DOMAIN bus' = DOMAIN bus,
             \A i \in DOMAIN bus : bus'[i].id = bus[i].id,
             Occupied' \subseteq Occupied, Queued' \subseteq Queued,
             \A q \in Occupied' : frames'[q].id = frames[q].id,
             \A b \in Markers : Holds[b] \in Queued' => b \in Markers' /\ Holds'[b] = Holds[b]
      PROVE  SentInv'
  <2>1. SentIds' = SentIds
    BY <1>4 DEF SentIds
  <2>2. Queued' \subseteq Occupied'
    BY DEF Queued
  <2>3. \A p \in Occupied' : frames'[p].id <= fetched'
    BY <1>1, <1>4
  <2>4. \A b \in Live' : content'[b].id <= fetched'
    BY <1>1, <1>4
  <2>5. /\ \A i \in DOMAIN bus' : bus'[i].id <= fetched'
        /\ \A i, j \in DOMAIN bus' : bus'[i].id = bus'[j].id => i = j
    BY <1>1, <1>4
  <2>6. \A p, q \in Occupied' : frames'[p].id = frames'[q].id => p = q
    BY <1>1, <1>4
  <2>7. /\ \A b, d \in Live' : content'[b].id = content'[d].id => b = d
        /\ \A b \in pending' : content'[b].id \notin SentIds'
    BY <1>1, <1>4, <2>1
  <2>8. ASSUME NEW p \in Queued', frames'[p].id \in SentIds'
        PROVE  \E b \in Markers' : Holds'[b] = p
    <3>1. frames[p].id \in SentIds /\ p \in Queued
      BY <1>4, <2>1, <2>2, <2>8
    <3>2. PICK b \in Markers : Holds[b] = p
      BY <1>1, <3>1
    <3>3. QED
      BY <1>4, <2>8, <3>2
  <2>9. QED
    BY <2>3, <2>4, <2>5, <2>6, <2>7, <2>8 DEF SentInv
<1>5. CASE IsQuiet
  <2>1. Queued' = Queued /\ Occupied' = Occupied /\ Markers' = Markers
        /\ Live' \subseteq Live
    BY <1>5, SameFrames, SameEvents DEF IsQuiet, Live
  <2>2. QED
    BY <1>4, <1>5, <2>1 DEF IsQuiet
<1>6. CASE TakeLoopBack
  <2>1. UNCHANGED << content, pending, events, frames, loop_back_pending, pending_frames,
                     pc, box, bus, fetched >>
    BY <1>6 DEF TakeLoopBack, hwVars, mapVars
  <2>2. /\ Occupied' = Occupied /\ Queued' = Queued /\ Urgent' = Urgent
        /\ Markers' = Markers
    BY <2>1, SameFrames, SameEvents
  <2>3. Live' = Live /\ Holds' = Holds
    BY <2>1, <2>2 DEF Live, Holds
  <2>4. QED
    BY <1>4, <2>1, <2>2, <2>3
<1>7. CASE DrainEvent /\ pending_frames[Head(events).marker] # None
  <2> DEFINE b == Head(events).marker
  <2>1. /\ Holds' = [Holds EXCEPT ![b] = None] /\ Occupied' \subseteq Occupied
        /\ Queued' = Queued \ {Holds[b]} /\ Live' = Live \ {b}
        /\ Markers' = Markers \ {b}
        /\ \A q \in Occupied' : frames'[q].id = frames[q].id
        /\ DOMAIN bus' = DOMAIN bus
        /\ \A i \in DOMAIN bus : bus'[i].id = bus[i].id
    BY <1>7, DrainedEvent
  <2>2. content' = content /\ fetched' = fetched /\ pending' = pending
    BY <1>7, DrainFacts
  <2> HIDE DEF b
  <2>3. \A d \in Markers : Holds[d] \in Queued' => d \in Markers' /\ Holds'[d] = Holds[d]
    BY <1>2, <2>1 DEF Holds
  <2>4. QED
    BY <1>4, <2>1, <2>2, <2>3
<1>8. CASE Drained
  <2>1. /\ \A b \in Mailboxes : Holds'[b] = IF b \in Free THEN None ELSE Holds[b]
        /\ \A b \in Free : b \notin Live
        /\ Live' = Live /\ Queued' = Queued /\ Occupied' = Occupied
        /\ Markers' = Markers
        /\ UNCHANGED << content, frames, pending, bus, fetched >>
    BY <1>8, DrainedMailboxes
  <2>2. QED
    BY <1>2, <1>4, <2>1
<1>9. CASE Expire
  <2>1. /\ Occupied' \subseteq Occupied /\ Queued' \subseteq Queued
        /\ \A q \in Occupied' : frames'[q] = frames[q]
        /\ \A b \in Mailboxes :
             Holds'[b] = IF Holds[b] \in Queued \ Queued' THEN None ELSE Holds[b]
        /\ pending' \subseteq pending /\ Markers' = Markers /\ Live' \subseteq Live
        /\ UNCHANGED << content, bus, fetched >>
    BY <1>9, ExpiredFrames
  <2>2. QED
    BY <1>2, <1>4, <2>1
<1>10. CASE ReturnFrame
  <2>1. PICK p \in loop_back_pending :
            /\ Occupied' = Occupied \ {p} /\ Queued' = Queued
            /\ \A q \in Priorities \ {p} : frames'[q] = frames[q]
            /\ Holds' = Holds /\ Live' = Live /\ Markers' = Markers
            /\ UNCHANGED << content, pending, bus, fetched >>
    BY <1>10, ReturnedFrame
  <2>2. \A q \in Occupied' : frames'[q].id = frames[q].id
    BY <1>2, <2>1
  <2>3. QED
    BY <1>4, <2>1, <2>2
<1>11. ASSUME NEW b \in Mailboxes, Sent(b)
       PROVE  SentInv'
  <2>1. /\ b \in pending
        /\ bus' = Append(bus, [id |-> content[b].id, time |-> now, read |-> None])
        /\ pending' = pending \ {b} /\ Markers' = Markers \cup {b} /\ Live' = Live
        /\ Holds' = Holds /\ Queued' = Queued /\ Occupied' = Occupied
        /\ UNCHANGED << content, frames, fetched >>
        /\ content[b] \in LinkFrames
    BY <1>11, SentFrame
  <2> DEFINE n == Len(bus) + 1
  <2>2. /\ DOMAIN bus' = 1 .. n
        /\ \A i \in 1 .. Len(bus) : bus'[i] = bus[i]
        /\ bus'[n].id = content[b].id
    <3> DEFINE Sendings == [id : Nat, time : Nat, read : Nat \cup {None}]
               e == [id |-> content[b].id, time |-> now, read |-> None]
    <3>1. e \in Sendings /\ e.id = content[b].id
      BY <2>1 DEF LinkFrames, Inv, TypeOK
    <3>2. bus \in Seq(Sendings) /\ bus' = Append(bus, e)
      BY <2>1 DEF Inv, TypeOK
    <3> HIDE DEF e, Sendings
    <3>3. /\ bus' \in Seq(Sendings) /\ Len(bus') = Len(bus) + 1
          /\ \A i \in 1 .. Len(bus) : bus'[i] = bus[i]
          /\ bus'[Len(bus) + 1] = e
      BY <3>1, <3>2, AppendProperties
    <3>4. QED
      BY <3>1, <3>3, LenProperties
  <2>3. n \notin DOMAIN bus /\ 1 .. n = DOMAIN bus \cup {n}
    BY <1>3
  <2> HIDE DEF n
  <2>4. \A i \in DOMAIN bus : bus'[i].id = bus[i].id
    BY <1>3, <2>2
  <2>5. SentIds' = SentIds \cup {content[b].id}
    BY <2>2, <2>3, <2>4 DEF SentIds
  <2>6. content[b].id \notin SentIds /\ content[b].id <= fetched /\ b \in Live
    BY <1>1, <1>2, <2>1
  <2>7. /\ \A i \in DOMAIN bus' : bus'[i].id <= fetched'
        /\ \A i, j \in DOMAIN bus' : bus'[i].id = bus'[j].id => i = j
    <3>1. \A i \in DOMAIN bus : bus[i].id # content[b].id
      BY <2>6 DEF SentIds
    <3>2. QED
      BY <1>1, <2>1, <2>2, <2>3, <2>4, <2>6, <3>1
  <2>8. \A d \in pending' : content'[d].id \notin SentIds'
    BY <1>1, <1>2, <2>1, <2>5, <2>6
  <2>9. ASSUME NEW p \in Queued', frames'[p].id \in SentIds'
        PROVE  \E d \in Markers' : Holds'[d] = p
    <3>1. CASE frames[p].id \in SentIds
      BY <1>1, <2>1, <2>9, <3>1
    <3>2. CASE frames[p].id = content[b].id
      BY <1>2, <2>1, <2>6, <2>9, <3>2
    <3>3. QED
      BY <2>1, <2>5, <2>9, <3>1, <3>2
  <2>10. QED
    BY <1>1, <2>1, <2>7, <2>8, <2>9 DEF SentInv
<1>12. CASE Fetching
  <2>1. /\ fetched' = fetched + 1 /\ Holds' = Holds /\ Live' = Live /\ Markers' = Markers
        /\ UNCHANGED << content, pending, bus >>
        /\ \/ frames' = frames /\ Queued' = Queued /\ Occupied' = Occupied
           \/ \E p \in Priorities \ Occupied :
                 /\ Queued' = Queued \cup {p} /\ Occupied' = Occupied \cup {p}
                 /\ frames'[p].id = fetched + 1 /\ frames'[p] # None
                 /\ \A q \in Priorities \ {p} : frames'[q] = frames[q]
    BY <1>12, FetchedFrame
  <2>2. /\ SentIds' = SentIds /\ \A b \in Live' : content'[b].id <= fetched'
        /\ \A i \in DOMAIN bus' : bus'[i].id <= fetched'
        /\ \A b, d \in Live' : content'[b].id = content'[d].id => b = d
        /\ \A b \in pending' : content'[b].id \notin SentIds'
        /\ \A i, j \in DOMAIN bus' : bus'[i].id = bus'[j].id => i = j
    BY <1>1, <1>2, <1>3, <2>1 DEF SentIds
  <2>3. CASE frames' = frames /\ Queued' = Queued /\ Occupied' = Occupied
    <3>1. \A p \in Occupied' : frames'[p].id <= fetched'
      BY <1>1, <1>2, <2>1, <2>3
    <3>2. \A p, q \in Occupied' : frames'[p].id = frames'[q].id => p = q
      BY <1>1, <2>3
    <3>3. \A p \in Queued' : frames'[p].id \in SentIds'
                                => \E b \in Markers' : Holds'[b] = p
      BY <1>1, <2>1, <2>2, <2>3
    <3>4. QED
      BY <2>2, <3>1, <3>2, <3>3 DEF SentInv
  <2>4. ASSUME NEW p \in Priorities \ Occupied,
               Queued' = Queued \cup {p}, Occupied' = Occupied \cup {p},
               frames'[p].id = fetched + 1,
               \A q \in Priorities \ {p} : frames'[q] = frames[q]
        PROVE  SentInv'
    <3>1. /\ \A q \in Occupied : q # p /\ frames'[q] = frames[q]
          /\ \A q \in Occupied : frames'[q].id < fetched + 1
      BY <1>1, <1>2, <2>4
    <3>2. \A q \in Occupied' : frames'[q].id <= fetched'
      BY <1>2, <2>1, <2>4, <3>1
    <3>3. \A q, r \in Occupied' : frames'[q].id = frames'[r].id => q = r
      BY <1>1, <1>2, <2>4, <3>1
    <3>4. fetched + 1 \notin SentIds
      BY <1>1, <1>2, <1>3 DEF SentIds
    <3>5. ASSUME NEW q \in Queued', frames'[q].id \in SentIds'
          PROVE  \E b \in Markers' : Holds'[b] = q
      <4>1. q \in Queued /\ frames[q].id \in SentIds
        BY <1>2, <2>2, <2>4, <3>1, <3>4, <3>5
      <4>2. QED
        BY <1>1, <2>1, <4>1
    <3>6. QED
      BY <2>2, <3>2, <3>3, <3>5 DEF SentInv
  <2>5. QED
    BY <2>1, <2>3, <2>4
<1>13. CASE Add
  <2>1. /\ Urgent \in Queued
        /\ box \in Mailboxes /\ box \notin Live
        /\ content' = [content EXCEPT ![box] = frames[Urgent]]
        /\ Holds[box] = None /\ Holds' = [Holds EXCEPT ![box] = Urgent]
        /\ \A b \in Mailboxes : Holds[b] # Urgent
        /\ Live' = Live \cup {box} /\ Queued' = Queued /\ Occupied' = Occupied
        /\ pending' = pending \cup {box} /\ Markers' = Markers
        /\ UNCHANGED << frames, bus, fetched >>
    BY <1>13, FilledMailbox
  <2>2. content \in [Mailboxes -> LinkFrames \cup {None}]
    BY DEF Inv, TypeOK
  <2>3. /\ content'[box] = frames[Urgent] /\ SentIds' = SentIds
        /\ \A b \in Mailboxes : b # box => content'[b] = content[b] /\ Holds'[b] = Holds[b]
    <3>1. DOMAIN Holds = Mailboxes
      BY DEF Holds
    <3>2. SentIds' = SentIds
      BY <2>1 DEF SentIds
    <3>3. QED
      BY <2>1, <2>2, <3>1, <3>2
  <2>4. \A b \in Live : content[b].id # frames[Urgent].id
    BY <1>2, <2>1
  <2>5. frames[Urgent].id \notin SentIds /\ frames[Urgent].id <= fetched
    BY <1>1, <1>2, <2>1
  <2>6. \A b \in Live : b # box /\ content'[b] = content[b]
    BY <1>2, <2>1, <2>3
  <2>7. \A b \in Live' : content'[b].id <= fetched'
    BY <1>1, <2>1, <2>3, <2>5, <2>6
  <2>8. \A b, d \in Live' : content'[b].id = content'[d].id => b = d
    BY <1>1, <2>1, <2>3, <2>4, <2>6
  <2>9. \A b \in pending' : content'[b].id \notin SentIds'
    BY <1>1, <1>2, <2>1, <2>3, <2>5, <2>6
  <2>10. \A p \in Queued' :
            frames'[p].id \in SentIds' => \E b \in Markers' : Holds'[b] = p
    <3>1. \A b \in Markers : Holds'[b] = Holds[b] /\ b \in Markers'
      BY <1>2, <2>1, <2>3
    <3>2. QED
      BY <1>1, <2>1, <2>3, <3>1
  <2>11. QED
    BY <1>1, <2>1, <2>7, <2>8, <2>9, <2>10 DEF SentInv
<1>14. QED
  BY <1>5, <1>6, <1>7, <1>8, <1>9, <1>10, <1>11, <1>12, <1>13, OtherStepsAreQuiet

LEMMA WakeStep ==
    ASSUME Inv, [Next]_vars
    PROVE  WakeInv'
<1>1. /\ pc = "check" => unpend_mask = {box} /\ (woken \/ tx_waker)
      /\ pc = "asleep" /\ Queued # {} =>
          /\ unpend_mask = {box}
          /\ woken \/ (tx_waker /\ (interrupt \/ box \in pending \cup aborted))
  BY DEF Inv, WakeInv
<1>2. ASSUME UNCHANGED << infoVars, mapVars, pc, box >>,
             interrupt' \/ (interrupt' = interrupt
                                /\ pending \cup aborted \subseteq pending' \cup aborted')
      PROVE  WakeInv'
  <2>1. /\ Queued' = Queued /\ unpend_mask' = unpend_mask /\ pc' = pc /\ box' = box
        /\ woken' = woken /\ tx_waker' = tx_waker
    BY <1>2, SameFrames DEF infoVars, mapVars
  <2>2. QED
    BY <1>1, <1>2, <2>1 DEF WakeInv
<1>3. ASSUME pc' \notin {"check", "asleep"}
      PROVE  WakeInv'
  BY <1>3 DEF WakeInv
<1>4. CASE UNCHANGED vars
  BY <1>2, <1>4 DEF vars, hwVars, history
<1>5. CASE Controller
  <2>1. PICK b \in Mailboxes : StartSending(b) \/ Sent(b) \/ NotSent(b)
    BY <1>5 DEF Controller
  <2>2. CASE StartSending(b)
    BY <1>2, <2>2 DEF StartSending, history
  <2>3. CASE Sent(b)
    <3>1. interrupt'
      BY <2>3, SentEvents DEF Inv
    <3>2. UNCHANGED << infoVars, mapVars, pc, box >>
      BY <2>3 DEF Sent
    <3>3. QED
      BY <1>2, <3>1, <3>2
  <2>4. CASE NotSent(b)
    <3>1. pending \cup aborted \subseteq pending' \cup aborted'
      BY <2>4 DEF NotSent
    <3>2. UNCHANGED << infoVars, mapVars, pc, box, interrupt >>
      BY <2>4 DEF NotSent
    <3>3. QED
      BY <1>2, <3>1, <3>2
  <2>5. QED
    BY <2>1, <2>2, <2>3, <2>4
<1>6. CASE Fetching \/ Query \/ EventsRead \/ Drained \/ Expire \/ ReturnFrame
  BY <1>3, <1>6
     DEF Fetching, FetchFrame, Query, EventsRead, Drained, Expire, ReturnFrame
<1>7. CASE DrainEvent
  <2>1. CASE pending_frames[Head(events).marker] = None
    BY <1>3, <1>7, <2>1 DEF DrainEvent, Panic
  <2>2. CASE pending_frames[Head(events).marker] # None
    BY <1>3, <1>7, <2>2, DrainFacts
  <2>3. QED
    BY <2>1, <2>2
<1>8. CASE Submit \/ Wake \/ Add \/ CancelOthers \/ Insert
  BY <1>3, <1>8, FreeMailbox DEF Submit, Wake, Add, CancelOthers, Insert
<1>9. CASE Sleep
  <2>1. Queued' = Queued /\ Queued = {} /\ pc' = "asleep"
    BY <1>9, SameFrames DEF Sleep, mapVars
  <2>2. QED
    BY <2>1 DEF WakeInv
<1>10. CASE Register
  BY <1>10 DEF Register, WakeInv
<1>11. CASE CheckUnpend
  <2>1. /\ pc = "check" /\ box' = box /\ pending' = pending
        /\ unpend_mask' = unpend_mask /\ woken' = woken /\ tx_waker' = tx_waker
        /\ \/ pc' = "query"
           \/ pc' = "asleep" /\ box \in pending
    BY <1>11 DEF CheckUnpend, hwVars, infoVars
  <2>2. QED
    BY <1>1, <2>1 DEF WakeInv
<1>12. CASE OnInterrupt
  <2>1. /\ woken' = (woken \/ (tx_waker /\ pending \cap unpend_mask = {}))
        /\ tx_waker' = (tx_waker /\ ~ (tx_waker /\ pending \cap unpend_mask = {}))
        /\ UNCHANGED << unpend_mask, pc, box, pending, aborted, frames, loop_back_pending >>
    BY <1>12 DEF OnInterrupt, hwVars, mapVars, history
  <2>2. Queued' = Queued
    BY <2>1, SameFrames
  <2>3. CASE woken
    BY <1>1, <2>1, <2>2, <2>3 DEF WakeInv
  <2>4. CASE ~ tx_waker
    BY <1>1, <2>1, <2>2, <2>4 DEF WakeInv
  <2>5. CASE tx_waker /\ pending \cap unpend_mask = {}
    BY <1>1, <2>1, <2>2, <2>5 DEF WakeInv
  <2>6. CASE tx_waker /\ pending \cap unpend_mask # {}
    <3>1. tx_waker'
      BY <2>1, <2>6
    <3>2. unpend_mask = {box} => box \in pending
      BY <2>6
    <3>3. QED
      BY <1>1, <2>1, <2>2, <3>1, <3>2 DEF WakeInv
  <2>7. QED
    BY <2>3, <2>4, <2>5, <2>6
<1>13. CASE TakeLoopBack
  <2>1. /\ UNCHANGED << unpend_mask, tx_waker, woken, mapVars, pc, box, interrupt,
                        pending, aborted >>
    BY <1>13 DEF TakeLoopBack, hwVars
  <2>2. Queued' = Queued
    BY <2>1, SameFrames DEF mapVars
  <2>3. QED
    BY <1>1, <2>1, <2>2 DEF WakeInv
<1>14. CASE Tick
  BY <1>2, <1>14 DEF Tick, hwVars, history
<1>15. QED
  BY <1>4, <1>5, <1>6, <1>7, <1>8, <1>9, <1>10, <1>11, <1>12, <1>13, <1>14
     DEF Next, Task

\* A frame stays one that was sent when more are sent or more events are read.
LEMMA ToldForGood ==
    ASSUME NEW sent, NEW later, NEW offset, NEW f, IsTold(f, sent, offset),
           \A j \in DOMAIN sent :
              j \in DOMAIN later /\ (sent[j].read # None => later[j] = sent[j])
    PROVE  IsTold(f, later, offset)
BY DEF IsTold

\* What was sent stays sent.
BusGrows ==
    \A j \in DOMAIN bus :
        /\ j \in DOMAIN bus'
        /\ bus'[j].id = bus[j].id /\ bus'[j].time = bus[j].time
        /\ bus[j].read # None => bus'[j] = bus[j]

\* The bus after a frame was sent.
LEMMA AppendedToBus ==
    ASSUME Inv, NEW b \in Mailboxes, Sent(b)
    PROVE  /\ BusGrows
           /\ DOMAIN bus' = DOMAIN bus \cup {Len(bus) + 1}
           /\ \A i \in DOMAIN bus : bus'[i] = bus[i]
           /\ bus'[Len(bus) + 1] = [id |-> content[b].id, time |-> now, read |-> None]
<1> DEFINE Sendings == [id : Nat, time : Nat, read : Nat \cup {None}]
           e == [id |-> content[b].id, time |-> now, read |-> None]
<1>1. /\ content[b] \in LinkFrames /\ bus' = Append(bus, e)
      /\ now \in Nat /\ bus \in Seq(Sendings)
  BY SentFrame DEF Inv, TypeOK
<1>2. e \in Sendings
  BY <1>1 DEF LinkFrames
<1> HIDE DEF e, Sendings
<1>3. /\ bus' \in Seq(Sendings) /\ Len(bus') = Len(bus) + 1
      /\ \A i \in 1 .. Len(bus) : bus'[i] = bus[i]
      /\ bus'[Len(bus) + 1] = e
  BY <1>1, <1>2, AppendProperties
<1>4. DOMAIN bus' = 1 .. Len(bus) + 1 /\ DOMAIN bus = 1 .. Len(bus) /\ Len(bus) \in Nat
  BY <1>1, <1>3, LenProperties
<1>5. DOMAIN bus' = DOMAIN bus \cup {Len(bus) + 1}
  BY <1>4
<1>6. QED
  BY <1>3, <1>4, <1>5 DEF BusGrows, e

\* The bus after an event was read: of the frame it tells of, and of no other one.
LEMMA ReadFromBus ==
    ASSUME Inv, DrainEvent, NEW b, b = Head(events).marker, pending_frames[b] # None
    PROVE  /\ BusGrows
           /\ DOMAIN bus' = DOMAIN bus
           /\ \A j \in DOMAIN bus :
                /\ bus[j].id # content[b].id => bus'[j] = bus[j]
                /\ bus[j].id = content[b].id /\ bus[j].read = None => bus'[j].read = now
<1> DEFINE p == pending_frames[b]
<1>1. /\ bus' = [i \in DOMAIN bus |->
                  IF bus[i].id = frames[p].id /\ bus[i].read = None
                  THEN [bus[i] EXCEPT !.read = now] ELSE bus[i]]
      /\ content[b] = frames[p]
  BY DrainOutcome, DrainFacts
<1> HIDE DEF p
<1>2. \A i \in DOMAIN bus : bus[i] \in [id : Nat, time : Nat, read : Nat \cup {None}]
  BY BusTypes
<1>3. DOMAIN bus' = DOMAIN bus
  BY <1>1
<1>4. ASSUME NEW j \in DOMAIN bus
      PROVE  /\ bus'[j].id = bus[j].id /\ bus'[j].time = bus[j].time
             /\ bus[j].read # None => bus'[j] = bus[j]
             /\ bus[j].id # content[b].id => bus'[j] = bus[j]
             /\ bus[j].id = content[b].id /\ bus[j].read = None => bus'[j].read = now
  <2>1. CASE bus[j].id = frames[p].id /\ bus[j].read = None
    <3>1. bus'[j] = [bus[j] EXCEPT !.read = now]
      BY <1>1, <2>1
    <3>2. QED
      BY <1>1, <1>2, <2>1, <3>1
  <2>2. CASE ~ (bus[j].id = frames[p].id /\ bus[j].read = None)
    BY <1>1, <2>2
  <2>3. QED
    BY <2>1, <2>2
<1>5. QED
  BY <1>3, <1>4 DEF BusGrows

LEMMA EventStep ==
    ASSUME Inv, [Next]_vars
    PROVE  EventInv'
<1>0. timestamp_offset' = timestamp_offset
  BY OffsetStays
<1>1. /\ \A i \in DOMAIN events : \E j \in DOMAIN bus :
          /\ bus[j].id = content[events[i].marker].id
          /\ bus[j].read = None
          /\ events[i].counter = Counter(timestamp_offset, bus[j].time)
      /\ \A j \in DOMAIN bus : bus[j].time <= now
  BY DEF Inv, EventInv
<1>2. /\ \A i \in DOMAIN events : events[i].marker \in Markers
      /\ DOMAIN events = 1 .. Len(events) /\ Len(events) \in Nat
      /\ Markers \subseteq Live
      /\ now \in Nat /\ now' \in Nat
      /\ \A j \in DOMAIN bus : bus[j].time \in Nat
  BY TypeStep, BusTypes, MarkersAreMailboxes DEF Inv, TypeOK, Live
<1>3. ASSUME events' = events, bus' = bus, now <= now',
             \A b \in Live : content'[b] = content[b]
      PROVE  EventInv'
  <2>1. \A j \in DOMAIN bus' : bus'[j].time <= now'
    BY <1>1, <1>2, <1>3
  <2>2. \A i \in DOMAIN events :
            content'[events[i].marker] = content[events[i].marker]
    BY <1>2, <1>3
  <2>3. QED
    BY <1>0, <1>1, <1>3, <2>1, <2>2 DEF EventInv
<1>4. CASE IsQuiet
  BY <1>3, <1>4 DEF IsQuiet
<1>5. ASSUME NEW b \in Mailboxes, Sent(b)
      PROVE  EventInv'
  <2> DEFINE e == [marker |-> b, counter |-> Counter(timestamp_offset, now)]
             n == Len(bus) + 1
  <2>1. /\ DOMAIN bus' = DOMAIN bus \cup {n}
        /\ \A i \in DOMAIN bus : bus'[i] = bus[i]
        /\ bus'[n] = [id |-> content[b].id, time |-> now, read |-> None]
    BY <1>5, AppendedToBus
  <2>2. /\ events' = Append(events, e)
        /\ UNCHANGED << content, now >>
    BY <1>5, SentFrame
  <2>3. e \in [marker : Mailboxes, counter : Nat]
        /\ e.marker = b /\ e.counter = Counter(timestamp_offset, now)
    BY <1>2, CounterIsNatural DEF Inv, TypeOK
  <2>4. events \in Seq([marker : Mailboxes, counter : Nat])
    BY DEF Inv, TypeOK
  <2> HIDE DEF e, n
  <2>5. /\ \A i \in 1 .. Len(events) : events'[i] = events[i]
        /\ events'[Len(events) + 1] = e
        /\ events' \in Seq([marker : Mailboxes, counter : Nat])
        /\ Len(events') = Len(events) + 1
    BY <2>2, <2>3, <2>4, AppendProperties
  <2>6. DOMAIN events' = 1 .. Len(events) + 1
    BY <2>5, LenProperties
  <2>7. ASSUME NEW i \in DOMAIN events'
        PROVE  \E j \in DOMAIN bus' :
                  /\ bus'[j].id = content'[events'[i].marker].id
                  /\ bus'[j].read = None
                  /\ events'[i].counter = Counter(timestamp_offset, bus'[j].time)
    <3>1. CASE i \in 1 .. Len(events)
      <4>1. events'[i] = events[i] /\ i \in DOMAIN events
        BY <1>2, <2>5, <3>1
      <4>2. PICK j \in DOMAIN bus :
                  /\ bus[j].id = content[events[i].marker].id
                  /\ bus[j].read = None
                  /\ events[i].counter = Counter(timestamp_offset, bus[j].time)
        BY <1>1, <4>1
      <4>3. j \in DOMAIN bus' /\ bus'[j] = bus[j]
        BY <2>1
      <4>4. QED
        BY <2>2, <4>1, <4>2, <4>3
    <3>2. CASE i = Len(events) + 1
      <4>1. events'[i].marker = b /\ events'[i].counter = Counter(timestamp_offset, now)
        BY <2>3, <2>5, <3>2
      <4>2. n \in DOMAIN bus' /\ bus'[n].id = content'[b].id /\ bus'[n].read = None
            /\ bus'[n].time = now
        BY <2>1, <2>2
      <4>3. QED
        BY <4>1, <4>2
    <3>3. QED
      BY <1>2, <2>6, <3>1, <3>2
  <2>8. \A j \in DOMAIN bus' : bus'[j].time <= now'
    BY <1>1, <1>2, <2>1, <2>2
  <2>9. QED
    BY <1>0, <2>7, <2>8 DEF EventInv
<1>6. CASE DrainEvent /\ pending_frames[Head(events).marker] # None
  <2> DEFINE b == Head(events).marker
  <2>1. /\ events # << >> /\ events' = Tail(events)
        /\ content' = content /\ now' = now
    BY <1>6, DrainFacts
  <2>2. /\ \A i \in DOMAIN events' : i + 1 \in DOMAIN events /\ events'[i] = events[i + 1]
        /\ \A i \in DOMAIN events' : events'[i].marker # b
    BY <2>1, ReadEvent DEF Inv
  <2>3. b \in Live
    BY <1>6, DrainedEvent
  <2>4. /\ BusGrows /\ DOMAIN bus' = DOMAIN bus
        /\ \A j \in DOMAIN bus : bus[j].id # content[b].id => bus'[j] = bus[j]
    BY <1>6, ReadFromBus
  <2> HIDE DEF b
  <2>5. ASSUME NEW i \in DOMAIN events'
        PROVE  \E j \in DOMAIN bus' :
                  /\ bus'[j].id = content'[events'[i].marker].id
                  /\ bus'[j].read = None
                  /\ events'[i].counter = Counter(timestamp_offset, bus'[j].time)
    <3>1. i + 1 \in DOMAIN events /\ events'[i] = events[i + 1] /\ events'[i].marker # b
      BY <2>2
    <3>2. events'[i].marker \in Live
      BY <1>2, <3>1
    <3>3. PICK j \in DOMAIN bus :
                  /\ bus[j].id = content[events'[i].marker].id
                  /\ bus[j].read = None
                  /\ events'[i].counter = Counter(timestamp_offset, bus[j].time)
      BY <1>1, <3>1
    <3>4. content[events'[i].marker].id # content[b].id
      BY <2>3, <3>1, <3>2 DEF Inv, SentInv
    <3>5. bus'[j] = bus[j] /\ j \in DOMAIN bus'
      BY <2>4, <3>3, <3>4
    <3>6. QED
      BY <2>1, <3>3, <3>5
  <2>6. \A j \in DOMAIN bus' : bus'[j].time <= now'
    BY <1>1, <2>1, <2>4 DEF BusGrows
  <2>7. QED
    BY <1>0, <2>5, <2>6 DEF EventInv
<1>7. CASE Drained \/ Expire \/ ReturnFrame \/ Fetching \/ TakeLoopBack
  <2>1. UNCHANGED << events, bus, content, now >>
    BY <1>7, DrainedMailboxes, ExpiredFrames, ReturnedFrame, FetchedFrame
       DEF TakeLoopBack, hwVars
  <2>2. QED
    BY <1>2, <1>3, <2>1
<1>8. CASE Add
  <2>1. /\ content' = [content EXCEPT ![box] = frames[Urgent]] /\ box \notin Live
        /\ UNCHANGED << events, bus, now >>
    BY <1>8, FilledMailbox
  <2>2. \A b \in Live : content'[b] = content[b]
    <3>1. content \in [Mailboxes -> LinkFrames \cup {None}] /\ Live \subseteq Mailboxes
      BY QueuedTypes DEF Inv, TypeOK
    <3>2. QED
      BY <2>1, <3>1
  <2>3. QED
    BY <1>2, <1>3, <2>1, <2>2
<1>9. QED
  BY <1>4, <1>5, <1>6, <1>7, <1>8, OtherStepsAreQuiet

\* The frame whose event was read tells the time it was sent at.
LEMMA DrainedFrameIsTold ==
    ASSUME Inv, DrainEvent, NEW b, b = Head(events).marker, pending_frames[b] # None,
           NEW p \in loop_back_pending', p \notin loop_back_pending
    PROVE  IsTold(frames'[p], bus', timestamp_offset)
<1>1. /\ b \in Mailboxes /\ events # << >> /\ events' = Tail(events)
      /\ pending_frames[b] \in Priorities /\ content[b] = frames[pending_frames[b]]
      /\ content[b] \in LinkFrames
  BY DrainFacts
<1> DEFINE e == Head(events)
           time == EventTimestamp(e)
<1>2. /\ p = pending_frames[b] /\ frames[p].loop_back
      /\ frames' = [frames EXCEPT ![p] = [@ EXCEPT !.timestamp = time]]
  BY DrainOutcome
<1> HIDE DEF time
<1>3. /\ frames'[p].id = content[b].id /\ frames'[p].loop_back
      /\ frames'[p].timestamp = time
  <2>1. frames \in [Priorities -> LinkFrames \cup {None}]
    BY DEF Inv, TypeOK
  <2>2. frames'[p] = [content[b] EXCEPT !.timestamp = time]
    BY <1>1, <1>2, <2>1
  <2>3. QED
    BY <1>1, <1>2, <2>2 DEF LinkFrames
<1>4. e = events[1] /\ 1 \in DOMAIN events
  BY <1>1, ReadEvent DEF Inv
<1>5. PICK j \in DOMAIN bus :
          /\ bus[j].id = content[b].id
          /\ bus[j].read = None
          /\ e.counter = Counter(timestamp_offset, bus[j].time)
  BY <1>4 DEF Inv, EventInv
<1>6. /\ j \in DOMAIN bus' /\ bus'[j].id = content[b].id /\ bus'[j].time = bus[j].time
      /\ bus'[j].read = now
  BY <1>5, ReadFromBus DEF BusGrows
<1>7. bus[j].time \in Nat /\ now \in Nat /\ bus[j].time <= now
  BY BusTypes DEF Inv, TypeOK, EventInv
<1>8. /\ time \in bus[j].time .. now
      /\ timestamp_offset # None /\ now - bus[j].time < CounterRange => time = bus[j].time
  BY <1>5, <1>7, EventTimeIsTrue DEF time, Inv, TypeOK
<1>9. now # None
  BY <1>7, NativeAssumption
<1>10. QED
  BY <1>3, <1>6, <1>8, <1>9 DEF IsTold

LEMMA ReturnStep ==
    ASSUME Inv, [Next]_vars
    PROVE  ReturnInv'
<1>0. timestamp_offset' = timestamp_offset
  BY OffsetStays
<1>1. /\ \A p \in loop_back_pending : IsTold(frames[p], bus, timestamp_offset)
      /\ loop_back # None => IsTold(loop_back, bus, timestamp_offset)
      /\ \A i \in DOMAIN returned :
          IsTold(returned[i], bus, timestamp_offset) /\ returned[i].id <= fetched
      /\ \A i, j \in DOMAIN returned : returned[i].id = returned[j].id => i = j
      /\ loop_back # None =>
          /\ loop_back.id <= fetched
          /\ \A i \in DOMAIN returned : returned[i].id # loop_back.id
      /\ \A p \in Occupied :
          /\ loop_back # None => frames[p].id # loop_back.id
          /\ \A i \in DOMAIN returned : frames[p].id # returned[i].id
  BY DEF Inv, ReturnInv
<1>2. /\ loop_back_pending \subseteq Occupied /\ Occupied \subseteq Priorities
      /\ \A p \in Occupied : frames[p] \in LinkFrames /\ frames[p].id \in Nat
                             /\ frames[p].id <= fetched
      /\ \A p, q \in Occupied : frames[p].id = frames[q].id => p = q
      /\ fetched \in Nat
      /\ loop_back # None => loop_back \in LinkFrames /\ loop_back.id \in Nat
      /\ returned \in Seq(LinkFrames)
  BY QueuedTypes DEF Inv, TypeOK, SentInv, LinkFrames, Occupied
<1>3. /\ DOMAIN returned = 1 .. Len(returned) /\ Len(returned) \in Nat
      /\ \A i \in DOMAIN returned : returned[i].id \in Nat
  <2>1. /\ DOMAIN returned = 1 .. Len(returned) /\ Len(returned) \in Nat
        /\ \A i \in DOMAIN returned : returned[i] \in LinkFrames
    BY <1>2, LenProperties, ElementOfSeq
  <2>2. QED
    BY <2>1 DEF LinkFrames
<1>4. ASSUME NEW f, IsTold(f, bus, timestamp_offset), BusGrows
      PROVE  IsTold(f, bus', timestamp_offset)
  <2>1. \A j \in DOMAIN bus :
            j \in DOMAIN bus' /\ (bus[j].read # None => bus'[j] = bus[j])
    BY <1>4 DEF BusGrows
  <2>2. QED
    BY <1>4, <2>1, ToldForGood
<1>5. ASSUME bus' = bus
      PROVE  BusGrows
  BY <1>5 DEF BusGrows
<1>6. ASSUME BusGrows, fetched' = fetched, returned' = returned, loop_back' = loop_back,
             Occupied' \subseteq Occupied,
             \A q \in Occupied' : frames'[q].id = frames[q].id,
             \A p \in loop_back_pending' : IsTold(frames'[p], bus', timestamp_offset)
      PROVE  ReturnInv'
  <2>1. loop_back' # None => IsTold(loop_back', bus', timestamp_offset)
    BY <1>1, <1>4, <1>6
  <2>2. \A i \in DOMAIN returned' :
            IsTold(returned'[i], bus', timestamp_offset) /\ returned'[i].id <= fetched'
    BY <1>1, <1>4, <1>6
  <2>3. \A p \in Occupied' :
            /\ loop_back' # None => frames'[p].id # loop_back'.id
            /\ \A i \in DOMAIN returned' : frames'[p].id # returned'[i].id
    BY <1>1, <1>6
  <2>4. /\ \A i, j \in DOMAIN returned' : returned'[i].id = returned'[j].id => i = j
        /\ loop_back' # None =>
            /\ loop_back'.id <= fetched'
            /\ \A i \in DOMAIN returned' : returned'[i].id # loop_back'.id
    BY <1>1, <1>6
  <2>5. QED
    BY <1>0, <1>6, <2>1, <2>2, <2>3, <2>4 DEF ReturnInv
<1>7. ASSUME BusGrows, fetched' = fetched, returned' = returned, loop_back' = loop_back,
             loop_back_pending' = loop_back_pending, Occupied' \subseteq Occupied,
             \A q \in Occupied' : frames'[q] = frames[q],
             loop_back_pending \subseteq Occupied'
      PROVE  ReturnInv'
  <2>1. \A p \in loop_back_pending' : IsTold(frames'[p], bus', timestamp_offset)
    BY <1>1, <1>4, <1>7
  <2>2. QED
    BY <1>6, <1>7, <2>1
<1>8. CASE IsQuiet
  <2>1. Occupied' = Occupied
    BY <1>8, SameFrames DEF IsQuiet
  <2>2. QED
    BY <1>2, <1>5, <1>7, <1>8, <2>1 DEF IsQuiet
<1>9. ASSUME NEW b \in Mailboxes, Sent(b)
      PROVE  ReturnInv'
  <2>1. /\ Occupied' = Occupied
        /\ UNCHANGED << frames, loop_back_pending, fetched, returned, loop_back >>
    BY <1>9, SentFrame
  <2>2. BusGrows
    BY <1>9, AppendedToBus
  <2>3. QED
    BY <1>2, <1>7, <2>1, <2>2
<1>10. CASE DrainEvent /\ pending_frames[Head(events).marker] # None
  <2> DEFINE b == Head(events).marker
  <2>1. BusGrows
    BY <1>10, ReadFromBus
  <2>2. /\ fetched' = fetched /\ returned' = returned /\ loop_back' = loop_back
    BY <1>10, DrainFacts DEF infoVars
  <2>3. /\ Occupied' \subseteq Occupied
        /\ \A q \in Occupied' : frames'[q].id = frames[q].id
        /\ \A q \in Priorities : q # Holds[b] => frames'[q] = frames[q]
        /\ Holds[b] \in Queued
    BY <1>10, DrainedEvent
  <2>4. ASSUME NEW p \in loop_back_pending'
        PROVE  IsTold(frames'[p], bus', timestamp_offset)
    <3>1. CASE p \in loop_back_pending
      <4>1. p # Holds[b] /\ p \in Priorities
        BY <1>2, <2>3, <3>1 DEF Queued
      <4>2. frames'[p] = frames[p]
        BY <2>3, <4>1
      <4>3. QED
        BY <1>1, <1>4, <2>1, <3>1, <4>2
    <3>2. CASE p \notin loop_back_pending
      BY <1>10, <3>2, DrainedFrameIsTold
    <3>3. QED
      BY <3>1, <3>2
  <2>5. QED
    BY <1>6, <2>1, <2>2, <2>3, <2>4
<1>11. CASE Drained
  <2>1. /\ Occupied' = Occupied
        /\ UNCHANGED << bus, frames, loop_back_pending, fetched, returned, loop_back >>
    BY <1>11, DrainedMailboxes
  <2>2. QED
    BY <1>2, <1>5, <1>7, <2>1
<1>12. CASE Expire
  <2>1. /\ Occupied' \subseteq Occupied
        /\ \A q \in Occupied' : frames'[q] = frames[q]
        /\ loop_back_pending \subseteq Occupied'
        /\ UNCHANGED << bus, loop_back_pending, fetched, returned, loop_back >>
    BY <1>12, ExpiredFrames
  <2>2. QED
    BY <1>5, <1>7, <2>1
<1>13. CASE Add
  <2>1. /\ Occupied' = Occupied
        /\ UNCHANGED << bus, frames, loop_back_pending, fetched, returned, loop_back >>
    BY <1>13, FilledMailbox
  <2>2. QED
    BY <1>2, <1>5, <1>7, <2>1
<1>14. CASE ReturnFrame
  <2>1. PICK p \in loop_back_pending :
              /\ p \in Occupied /\ frames[p] \in LinkFrames
              /\ loop_back = None /\ loop_back' = frames[p]
              /\ loop_back_pending' = loop_back_pending \ {p}
              /\ Occupied' = Occupied \ {p}
              /\ \A q \in Priorities \ {p} : frames'[q] = frames[q]
              /\ UNCHANGED << bus, fetched, returned >>
    BY <1>14, ReturnedFrame
  <2>2. \A q \in Occupied' : frames'[q] = frames[q]
    BY <1>2, <2>1
  <2>3. /\ IsTold(loop_back', bus', timestamp_offset)
        /\ \A q \in loop_back_pending' : IsTold(frames'[q], bus', timestamp_offset)
    BY <1>1, <1>2, <2>1
  <2>4. \A i \in DOMAIN returned' :
            IsTold(returned'[i], bus', timestamp_offset) /\ returned'[i].id <= fetched'
    BY <1>1, <2>1
  <2>5. /\ loop_back'.id <= fetched'
        /\ \A i \in DOMAIN returned' : returned'[i].id # loop_back'.id
        /\ \A i, j \in DOMAIN returned' : returned'[i].id = returned'[j].id => i = j
    BY <1>1, <1>2, <2>1
  <2>6. \A q \in Occupied' :
            /\ frames'[q].id # loop_back'.id
            /\ \A i \in DOMAIN returned' : frames'[q].id # returned'[i].id
    BY <1>1, <1>2, <2>1, <2>2
  <2>7. QED
    BY <1>0, <2>3, <2>4, <2>5, <2>6 DEF ReturnInv
<1>15. CASE Fetching
  <2>1. /\ fetched' = fetched + 1
        /\ UNCHANGED << bus, loop_back_pending, returned, loop_back >>
        /\ \/ frames' = frames /\ Queued' = Queued /\ Occupied' = Occupied
           \/ \E p \in Priorities \ Occupied :
                 /\ Occupied' = Occupied \cup {p}
                 /\ frames'[p].id = fetched + 1
                 /\ \A q \in Priorities \ {p} : frames'[q] = frames[q]
    BY <1>15, FetchedFrame
  <2>2. /\ \A q \in Occupied : frames'[q] = frames[q]
        /\ \A q \in Occupied' : q \in Occupied \/ frames'[q].id = fetched + 1
    BY <1>2, <2>1
  <2>3. \A p \in loop_back_pending' : IsTold(frames'[p], bus', timestamp_offset)
    BY <1>1, <1>2, <2>1, <2>2
  <2>4. loop_back' # None => IsTold(loop_back', bus', timestamp_offset)
    BY <1>1, <2>1
  <2>5. /\ \A i \in DOMAIN returned' :
             IsTold(returned'[i], bus', timestamp_offset) /\ returned'[i].id <= fetched'
        /\ loop_back' # None =>
             /\ loop_back'.id <= fetched'
             /\ \A i \in DOMAIN returned' : returned'[i].id # loop_back'.id
        /\ \A i, j \in DOMAIN returned' : returned'[i].id = returned'[j].id => i = j
    BY <1>1, <1>2, <1>3, <2>1
  <2>6. ASSUME NEW q \in Occupied'
        PROVE  /\ loop_back' # None => frames'[q].id # loop_back'.id
               /\ \A i \in DOMAIN returned' : frames'[q].id # returned'[i].id
    <3>1. CASE q \in Occupied
      BY <1>1, <2>1, <2>2, <3>1
    <3>2. CASE frames'[q].id = fetched + 1
      BY <1>1, <1>2, <1>3, <2>1, <3>2
    <3>3. QED
      BY <2>2, <3>1, <3>2
  <2>7. QED
    BY <1>0, <2>3, <2>4, <2>5, <2>6 DEF ReturnInv
<1>16. CASE TakeLoopBack
  <2> DEFINE n == Len(returned) + 1
  <2>1. /\ loop_back # None /\ returned' = Append(returned, loop_back) /\ loop_back' = None
        /\ UNCHANGED << frames, loop_back_pending, bus, fetched >>
    BY <1>16 DEF TakeLoopBack, mapVars
  <2>2. /\ DOMAIN returned' = 1 .. n /\ returned'[n] = loop_back
        /\ \A i \in DOMAIN returned : returned'[i] = returned[i]
    BY <1>2, <1>3, <2>1, AppendProperties, LenProperties
  <2>3. DOMAIN returned' = DOMAIN returned \cup {n}
    BY <1>3, <2>2
  <2>4. Occupied' = Occupied
    BY <2>1, SameFrames
  <2> HIDE DEF n
  <2>5. \A i \in DOMAIN returned' :
            IsTold(returned'[i], bus', timestamp_offset) /\ returned'[i].id <= fetched'
    BY <1>1, <2>1, <2>2, <2>3
  <2>6. \A i, j \in DOMAIN returned' : returned'[i].id = returned'[j].id => i = j
    BY <1>1, <2>1, <2>2, <2>3
  <2>7. \A p \in Occupied' : \A i \in DOMAIN returned' : frames'[p].id # returned'[i].id
    BY <1>1, <2>1, <2>2, <2>3, <2>4
  <2>8. \A p \in loop_back_pending' : IsTold(frames'[p], bus', timestamp_offset)
    BY <1>1, <2>1
  <2>9. QED
    BY <1>0, <2>1, <2>5, <2>6, <2>7, <2>8 DEF ReturnInv
<1>17. QED
  BY <1>8, <1>9, <1>10, <1>11, <1>12, <1>13, <1>14, <1>15, <1>16, OtherStepsAreQuiet

-----------------------------------------------------------------------------
(* The theorems.                                                            *)

LEMMA InitInv == Init => Inv
<1> SUFFICES ASSUME Init
             PROVE  Inv
  OBVIOUS
<1>1. /\ pending = {} /\ cancelling = {} /\ sending = None /\ events = << >>
      /\ content = [b \in Mailboxes |-> None]
      /\ interrupt = FALSE /\ unpend_mask = Mailboxes
      /\ tx_waker = FALSE /\ woken = FALSE /\ loop_back = None
      /\ frames = [p \in Priorities |-> None]
      /\ pending_frames = [b \in Mailboxes |-> None]
      /\ loop_back_pending = {}
      /\ pending_mailboxes = {} /\ completed_mailboxes = {}
      /\ pc = "query" /\ box = None /\ now = StartTime
      /\ timestamp_offset \in TimestampOffsets
      /\ fetched = 0 /\ bus = << >> /\ returned = << >> /\ aborted = {}
  BY DEF Init, Idle
<1>2. Occupied = {} /\ Queued = {}
  BY <1>1 DEF Occupied, Queued
<1>3. Marks = << >> /\ Markers = {} /\ Live = {}
  BY <1>1 DEF Marks, Markers, ToSet, Live
<1>4. Holds = [b \in Mailboxes |-> None]
  BY <1>1 DEF Holds
<1>5. /\ << >> \in Seq([marker : Mailboxes, counter : Nat])
      /\ << >> \in Seq([id : Nat, time : Nat, read : Nat \cup {None}])
      /\ << >> \in Seq(LinkFrames)
  BY EmptySeq
<1>6. TypeOK
  BY <1>1, <1>2, <1>5, NativeAssumption DEF TypeOK
<1>7. ControllerInv
  <2>1. Mailboxes # {}
    <3>1. IsFiniteSet(Mailboxes) /\ Cardinality(Mailboxes) > 2
      BY NativeAssumption
    <3>2. Cardinality({}) = 0
      BY FS_EmptySet
    <3>3. QED
      BY <3>1, <3>2
  <2>2. AtMostTwo({})
    BY <2>1 DEF AtMostTwo
  <2>3. QED
    BY <1>1, <1>3, <2>2 DEF ControllerInv, IsInjective
<1>8. TurnInv
  BY <1>1 DEF TurnInv
<1>9. HoldsInv
  BY <1>3, <1>4 DEF HoldsInv
<1>10. SentInv /\ EventInv /\ ReturnInv /\ WakeInv
  BY <1>1, <1>2, <1>3 DEF SentInv, EventInv, ReturnInv, WakeInv
<1>11. QED
  BY <1>6, <1>7, <1>8, <1>9, <1>10 DEF Inv

\* Whatever the order in which the task reads the registers and the controller sends,
\* gives up and cancels, the frames stay where the task believes them to be.
THEOREM InductiveInvariant == Spec => []Inv
<1>1. Inv /\ [Next]_vars => Inv'
  <2> SUFFICES ASSUME Inv, [Next]_vars
               PROVE  Inv'
    OBVIOUS
  <2>1. QED
    BY TypeStep, ControllerStep, TurnStep, HoldsStep, SentStep, EventStep, ReturnStep,
       WakeStep DEF Inv
<1>2. QED
  BY InitInv, <1>1, PTL DEF Spec

\* TxRunner::run panics on nothing but the event of a frame that was late: a mailbox is
\* free whenever one is needed, it is not pending when it is filled, one was cancelled,
\* and no two frames are noted down for it.
THEOREM PanicsOnlyOnLateEvent == Spec => []PanicOnlyOnLateEvent
<1>1. Inv => PanicOnlyOnLateEvent
  BY DEF Inv, TurnInv, PanicOnlyOnLateEvent
<1>2. QED
  BY InductiveInvariant, <1>1, PTL

\* A frame that moves from mailbox to mailbox, and is sent while it does, is sent once.
THEOREM SendsOnce == Spec => []SentOnce
<1>1. Inv => SentOnce
  BY DEF Inv, SentInv, SentOnce, IsInjective
<1>2. QED
  BY InductiveInvariant, <1>1, PTL

\* The one wakeup of a sleeping task that can be missed is that of a frame whose
\* cancellation ended on the bus.
THEOREM WakesUnlessCancelled == Spec => []LostWakeupOnlyByCancellation
<1>1. Inv => LostWakeupOnlyByCancellation
  <2> SUFFICES ASSUME Inv, pc = "asleep", ~ woken, ~ interrupt, Queued # {}
               PROVE  \E b \in MailboxesOf(First(Queued)) : b \in pending \cup aborted
    BY DEF LostWakeupOnlyByCancellation
  <2>1. box \in MailboxesOf(First(Queued))
    BY DEF Inv, TurnInv, Urgent
  <2>2. box \in pending \cup aborted
    BY DEF Inv, WakeInv
  <2>3. QED
    BY <2>1, <2>2
<1>2. QED
  BY InductiveInvariant, <1>1, PTL

\* Every frame that comes back was sent, comes back once, and has an instant between its
\* transmission and the reading of its event, whichever clock tells it and for any range
\* and offset of the counter: that of the transmission, if the counter tells it and the
\* task read the event before it wrapped.
THEOREM LoopBackIsTrue == Spec => []LoopBackTellsTransmission
<1>1. Inv => LoopBackTellsTransmission
  <2> SUFFICES ASSUME Inv
               PROVE  LoopBackTellsTransmission
    OBVIOUS
  <2>1. /\ \A i \in DOMAIN returned : IsTold(returned[i], bus, timestamp_offset)
        /\ \A i, j \in DOMAIN returned : returned[i].id = returned[j].id => i = j
    BY DEF Inv, ReturnInv
  <2>2. IsInjective([i \in DOMAIN returned |-> returned[i].id])
    BY <2>1 DEF IsInjective
  <2>3. QED
    BY <2>1, <2>2 DEF LoopBackTellsTransmission, IsTold
<1>2. QED
  BY InductiveInvariant, <1>1, PTL

=============================================================================
