------------------------ MODULE RxPriorityFifoProofs ------------------------
(***************************************************************************)
(* Proofs about the receive buffer of messages and requests.               *)
(***************************************************************************)
EXTENDS RxPriorityFifo, SessionLemmas

\* What is queued.
Entries == [buffer_idx : Buffers, parts : Seq(Payloads)]

EntriesOf(q) == UNION {{q[p][i] : i \in DOMAIN q[p]} : p \in Priorities}

IndexesOf(q) == {e.buffer_idx : e \in EntriesOf(q)}

\* The values the variables take.
TypeOK ==
    /\ readout \in Entries
    /\ buffers \in [Buffers -> Seq(Payloads)]
    /\ waiting \subseteq Priorities
    /\ panicked \in BOOLEAN
    /\ now \in Nat
    /\ last \in [Sources -> Reports \cup {None}]

\* A queue that has a buffer in one place only.
IsLine(q) ==
    /\ q \in [Priorities -> Seq(Entries)]
    /\ \A p, r \in Priorities :
           \A i \in 1 .. Len(q[p]), j \in 1 .. Len(q[r]) :
               q[p][i].buffer_idx = q[r][j].buffer_idx => p = r /\ i = j

\* The stock of buffers for transfers: each one is queued or free, and once.
IsStock(q, free, stock) ==
    /\ IsLine(q)
    /\ free \in Seq(Buffers) /\ IsInjective(free)
    /\ IndexesOf(q) \cap ToSet(free) = {}
    /\ IndexesOf(q) \cup ToSet(free) = stock

\* The sessions, the reader, the queue and the free ones share the buffers out.
OwnershipInv ==
    /\ IsSound(table, BuffersOf(table), buffers, Sources, Ids, Payloads)
    /\ BuffersOf(table) \subseteq Buffers
    /\ IsFiniteSet(BuffersOf(table)) /\ Cardinality(BuffersOf(table)) = SN
    /\ readout.buffer_idx \notin BuffersOf(table)
    /\ IsStock(queue, free_buffers, Buffers \ (BuffersOf(table) \cup {readout.buffer_idx}))

\* The buffers queued and the reader's have what was assembled.
ContentInv ==
    /\ \A e \in EntriesOf(queue) : buffers[e.buffer_idx] = e.parts
    /\ buffers[readout.buffer_idx] = readout.parts

\* The order of the sessions, none of them from the future.
OrderInv ==
    /\ InOrder(table)
    /\ \A s \in Tracked(table) : InstantOf(table, s) = None \/ InstantOf(table, s) <= now

\* The source's session still has the identifier of its last transfer.
Remembers(t, s, report) ==
    /\ s \in Tracked(t)
    /\ t.sessions[s].gather.state = "Assembled"
    /\ t.sessions[s].gather.transfer_id = report.id
    /\ t.sessions[s].gather.sof_timestamp = report.timestamp

\* The timeout of the last transfer is over, and what is assembled began afterwards.
IsOver(t, s, report, instant) ==
    /\ report.timestamp + Timeout < instant
    /\ s \in Tracked(t) /\ t.sessions[s].gather.state \in Accumulating =>
           report.timestamp + Timeout < t.sessions[s].gather.sof_timestamp

IsReport(t, s, report, instant) ==
    report # None =>
        /\ report.repeated = FALSE
        /\ Remembers(t, s, report) \/ IsOver(t, s, report, instant)

OnceInv == \A s \in Sources : IsReport(table, s, last[s], now)

Inv ==
    TypeOK /\ OwnershipInv /\ ContentInv /\ OrderInv /\ OnceInv
    /\ LosesLeastUrgent /\ NoLostWakeup

-----------------------------------------------------------------------------
(* The queue.                                                               *)

\* The greatest of some priorities.
LEMMA MaxIsGreatest ==
    ASSUME NEW T, T \subseteq 0 .. 7, T # {}
    PROVE  Max(T) \in T /\ \A y \in T : y <= Max(T)
<1> DEFINE U == {7 - y : y \in T}
<1>1. U \subseteq Nat /\ U # {}
  <2>1. \A y \in T : 7 - y \in Nat
    OBVIOUS
  <2>2. QED
    BY <2>1
<1>2. Min(U) \in U /\ \A y \in U : Min(U) <= y
  BY <1>1, MinIsLeast
<1>3. PICK x \in T : Min(U) = 7 - x
  BY <1>2
<1>4. \A y \in T : 7 - x <= 7 - y
  BY <1>2, <1>3
<1>5. \A y \in T : x >= y
  BY <1>4
<1>6. Max(T) \in T /\ \A y \in T : Max(T) >= y
  BY <1>5 DEF Max
<1>7. QED
  BY <1>6

\* What is queued has a place, and is an entry.
LEMMA EntriesElements ==
    ASSUME NEW q, IsLine(q)
    PROVE  /\ \A p \in Priorities :
                  /\ q[p] \in Seq(Entries) /\ Len(q[p]) \in Nat
                  /\ DOMAIN q[p] = 1 .. Len(q[p])
                  /\ \A i \in 1 .. Len(q[p]) : q[p][i] \in EntriesOf(q) /\ q[p][i] \in Entries
           /\ \A e \in EntriesOf(q) :
                  e \in Entries /\ \E p \in Priorities : \E i \in 1 .. Len(q[p]) : q[p][i] = e
<1>1. ASSUME NEW p \in Priorities
      PROVE  /\ q[p] \in Seq(Entries) /\ Len(q[p]) \in Nat
             /\ DOMAIN q[p] = 1 .. Len(q[p])
             /\ \A i \in 1 .. Len(q[p]) : q[p][i] \in Entries
  BY LenProperties, ElementOfSeq DEF IsLine
<1>2. \A p \in Priorities : \A i \in 1 .. Len(q[p]) : q[p][i] \in EntriesOf(q)
  BY <1>1 DEF EntriesOf
<1>3. ASSUME NEW e \in EntriesOf(q)
      PROVE  \E p \in Priorities : \E i \in 1 .. Len(q[p]) : q[p][i] = e
  <2>1. PICK p \in Priorities : e \in {q[p][i] : i \in DOMAIN q[p]}
    BY DEF EntriesOf
  <2>2. QED
    BY <1>1, <2>1
<1>4. QED
  BY <1>1, <1>2, <1>3

Dequeued(q, p) == [q EXCEPT ![p] = Tail(@)]

Enqueued(q, p, e) == [q EXCEPT ![p] = Append(@, e)]

\* The first of a priority leaves the queue, and so does its buffer.
LEMMA DequeuedLine ==
    ASSUME NEW q, IsLine(q), NEW p \in Priorities, q[p] # << >>
    PROVE  /\ Head(q[p]) \in EntriesOf(q) /\ Head(q[p]) \in Entries
           /\ IsLine(Dequeued(q, p))
           /\ EntriesOf(Dequeued(q, p)) \subseteq EntriesOf(q)
           /\ IndexesOf(Dequeued(q, p)) = IndexesOf(q) \ {Head(q[p]).buffer_idx}
<1> SUFFICES ASSUME NEW next, next = Dequeued(q, p), NEW head, head = Head(q[p])
             PROVE  /\ head \in EntriesOf(q) /\ head \in Entries
                    /\ IsLine(next)
                    /\ EntriesOf(next) \subseteq EntriesOf(q)
                    /\ IndexesOf(next) = IndexesOf(q) \ {head.buffer_idx}
  OBVIOUS
<1>1. q \in [Priorities -> Seq(Entries)]
  BY DEF IsLine
<1>2. /\ next \in [Priorities -> Seq(Entries)]
      /\ next[p] = Tail(q[p])
      /\ \A r \in Priorities : r # p => next[r] = q[r]
  <2>1. Tail(q[p]) \in Seq(Entries)
    BY <1>1, HeadTailProperties
  <2>2. QED
    BY <1>1, <2>1 DEF Dequeued
<1>3. /\ Len(q[p]) \in Nat /\ Len(q[p]) # 0 /\ 1 \in 1 .. Len(q[p])
      /\ head = q[p][1]
      /\ Len(next[p]) = Len(q[p]) - 1
      /\ \A i \in 1 .. Len(next[p]) : next[p][i] = q[p][i + 1]
  BY <1>1, <1>2, HeadTailProperties, LenProperties, EmptySeq
<1> DEFINE at(r, i) == IF r = p THEN i + 1 ELSE i
<1>4. ASSUME NEW r \in Priorities, NEW i \in 1 .. Len(next[r])
      PROVE  /\ at(r, i) \in 1 .. Len(q[r])
             /\ next[r][i] = q[r][at(r, i)]
             /\ r = p => at(r, i) # 1
  <2>1. CASE r = p
    BY <1>3, <2>1
  <2>2. CASE r # p
    BY <1>2, <2>2
  <2>3. QED
    BY <2>1, <2>2
<1>5. ASSUME NEW r \in Priorities, NEW i \in 1 .. Len(q[r]), ~ (r = p /\ i = 1)
      PROVE  \E j \in 1 .. Len(next[r]) : next[r][j] = q[r][i]
  <2>1. CASE r = p
    <3>1. i - 1 \in 1 .. Len(next[r]) /\ (i - 1) + 1 = i
      BY <1>3, <1>5, <2>1
    <3>2. next[r][i - 1] = q[r][(i - 1) + 1]
      BY <1>3, <2>1, <3>1
    <3>3. QED
      BY <3>1, <3>2
  <2>2. CASE r # p
    BY <1>2, <2>2
  <2>3. QED
    BY <2>1, <2>2
<1>6. ASSUME NEW r \in Priorities, NEW s \in Priorities,
             NEW i \in 1 .. Len(next[r]), NEW j \in 1 .. Len(next[s]),
             next[r][i].buffer_idx = next[s][j].buffer_idx
      PROVE  r = s /\ i = j
  <2>1. /\ at(r, i) \in 1 .. Len(q[r]) /\ at(s, j) \in 1 .. Len(q[s])
        /\ q[r][at(r, i)].buffer_idx = q[s][at(s, j)].buffer_idx
    BY <1>4, <1>6
  <2>2. r = s /\ at(r, i) = at(s, j)
    BY <2>1 DEF IsLine
  <2>3. i \in Int /\ j \in Int
    OBVIOUS
  <2>4. QED
    BY <2>2, <2>3
<1>7. IsLine(next)
  BY <1>2, <1>6 DEF IsLine
<1>8. head \in EntriesOf(q) /\ head \in Entries
  BY <1>3, EntriesElements
<1>9. EntriesOf(next) \subseteq EntriesOf(q)
  <2>1. SUFFICES ASSUME NEW e \in EntriesOf(next)
                 PROVE  e \in EntriesOf(q)
    OBVIOUS
  <2>2. PICK r \in Priorities : \E i \in 1 .. Len(next[r]) : next[r][i] = e
    BY <1>7, EntriesElements
  <2>3. PICK i \in 1 .. Len(next[r]) : next[r][i] = e
    BY <2>2
  <2>4. at(r, i) \in 1 .. Len(q[r]) /\ q[r][at(r, i)] = e
    BY <1>4, <2>3
  <2>5. \E j \in 1 .. Len(q[r]) : q[r][j] = e
    BY <2>4
  <2>6. QED
    BY <2>5, EntriesElements
<1>10. \A e \in EntriesOf(q) : e = head \/ e \in EntriesOf(next)
  <2>1. SUFFICES ASSUME NEW e \in EntriesOf(q), e # head
                 PROVE  e \in EntriesOf(next)
    OBVIOUS
  <2>2. PICK r \in Priorities : \E i \in 1 .. Len(q[r]) : q[r][i] = e
    BY EntriesElements
  <2>3. PICK i \in 1 .. Len(q[r]) : q[r][i] = e
    BY <2>2
  <2>4. \E j \in 1 .. Len(next[r]) : next[r][j] = e
    BY <1>3, <1>5, <2>1, <2>3
  <2>5. QED
    BY <1>7, <2>4, EntriesElements
<1>11. \A e \in EntriesOf(next) : e.buffer_idx # head.buffer_idx
  <2>1. SUFFICES ASSUME NEW e \in EntriesOf(next), e.buffer_idx = head.buffer_idx
                 PROVE  FALSE
    OBVIOUS
  <2>2. PICK r \in Priorities : \E i \in 1 .. Len(next[r]) : next[r][i] = e
    BY <1>7, EntriesElements
  <2>3. PICK i \in 1 .. Len(next[r]) : next[r][i] = e
    BY <2>2
  <2>4. /\ at(r, i) \in 1 .. Len(q[r]) /\ q[r][at(r, i)] = e
        /\ r = p => at(r, i) # 1
    BY <1>4, <2>3
  <2>5. r = p /\ at(r, i) = 1
    BY <1>3, <2>1, <2>4 DEF IsLine
  <2>6. QED
    BY <2>4, <2>5
<1>12. IndexesOf(next) = IndexesOf(q) \ {head.buffer_idx}
  BY <1>9, <1>10, <1>11 DEF IndexesOf
<1>13. QED
  BY <1>7, <1>8, <1>9, <1>12

\* An entry with a buffer the queue does not have goes to the end of its priority.
LEMMA EnqueuedLine ==
    ASSUME NEW q, IsLine(q), NEW p \in Priorities,
           NEW e \in Entries, e.buffer_idx \notin IndexesOf(q)
    PROVE  /\ IsLine(Enqueued(q, p, e))
           /\ EntriesOf(Enqueued(q, p, e)) = EntriesOf(q) \cup {e}
           /\ IndexesOf(Enqueued(q, p, e)) = IndexesOf(q) \cup {e.buffer_idx}
<1> SUFFICES ASSUME NEW next, next = Enqueued(q, p, e)
             PROVE  /\ IsLine(next)
                    /\ EntriesOf(next) = EntriesOf(q) \cup {e}
                    /\ IndexesOf(next) = IndexesOf(q) \cup {e.buffer_idx}
  OBVIOUS
<1>1. q \in [Priorities -> Seq(Entries)]
  BY DEF IsLine
<1>2. /\ next \in [Priorities -> Seq(Entries)]
      /\ next[p] = Append(q[p], e)
      /\ \A r \in Priorities : r # p => next[r] = q[r]
  <2>1. Append(q[p], e) \in Seq(Entries)
    BY <1>1, AppendProperties
  <2>2. QED
    BY <1>1, <2>1 DEF Enqueued
<1>3. /\ Len(q[p]) \in Nat
      /\ Len(next[p]) = Len(q[p]) + 1
      /\ \A i \in 1 .. Len(q[p]) : next[p][i] = q[p][i]
      /\ next[p][Len(q[p]) + 1] = e
  BY <1>1, <1>2, AppendProperties, LenProperties
<1>4. ASSUME NEW r \in Priorities, NEW i \in 1 .. Len(next[r])
      PROVE  \/ i \in 1 .. Len(q[r]) /\ next[r][i] = q[r][i]
             \/ r = p /\ i = Len(q[p]) + 1 /\ next[r][i] = e
  <2>1. CASE r = p
    BY <1>3, <2>1
  <2>2. CASE r # p
    BY <1>2, <2>2
  <2>3. QED
    BY <2>1, <2>2
<1>5. \A r \in Priorities : \A i \in 1 .. Len(q[r]) :
          i \in 1 .. Len(next[r]) /\ next[r][i] = q[r][i]
  BY <1>2, <1>3
<1>6. \A r \in Priorities : \A i \in 1 .. Len(q[r]) : q[r][i].buffer_idx # e.buffer_idx
  BY EntriesElements DEF IndexesOf
<1>7. ASSUME NEW r \in Priorities, NEW s \in Priorities,
             NEW i \in 1 .. Len(next[r]), NEW j \in 1 .. Len(next[s]),
             next[r][i].buffer_idx = next[s][j].buffer_idx
      PROVE  r = s /\ i = j
  <2>1. CASE i \in 1 .. Len(q[r]) /\ next[r][i] = q[r][i]
    <3>1. CASE j \in 1 .. Len(q[s]) /\ next[s][j] = q[s][j]
      BY <1>7, <2>1, <3>1 DEF IsLine
    <3>2. CASE next[s][j] = e
      BY <1>6, <1>7, <2>1, <3>2
    <3>3. QED
      BY <1>4, <3>1, <3>2
  <2>2. CASE r = p /\ i = Len(q[p]) + 1 /\ next[r][i] = e
    <3>1. CASE j \in 1 .. Len(q[s]) /\ next[s][j] = q[s][j]
      BY <1>6, <1>7, <2>2, <3>1
    <3>2. CASE s = p /\ j = Len(q[p]) + 1
      BY <2>2, <3>2
    <3>3. QED
      BY <1>4, <3>1, <3>2
  <2>3. QED
    BY <1>4, <2>1, <2>2
<1>8. IsLine(next)
  BY <1>2, <1>7 DEF IsLine
<1>9. EntriesOf(next) \subseteq EntriesOf(q) \cup {e}
  BY <1>4, <1>8, EntriesElements
<1>10. EntriesOf(q) \subseteq EntriesOf(next)
  BY <1>5, <1>8, EntriesElements
<1>11. e \in EntriesOf(next)
  <2>1. Len(q[p]) + 1 \in 1 .. Len(next[p])
    BY <1>3
  <2>2. QED
    BY <1>3, <1>8, <2>1, EntriesElements
<1>12. EntriesOf(next) = EntriesOf(q) \cup {e}
  BY <1>9, <1>10, <1>11
<1>13. IndexesOf(next) = IndexesOf(q) \cup {e.buffer_idx}
  BY <1>12 DEF IndexesOf
<1>14. QED
  BY <1>8, <1>12, <1>13

-----------------------------------------------------------------------------
(* Allocation.                                                              *)

Stock == Buffers \ (BuffersOf(table) \cup {readout.buffer_idx})

ReadyIn(q) == {p \in Priorities : q[p] # << >>}

\* With no free buffer there is a transfer to displace.
LEMMA SomethingIsQueued ==
    ASSUME Inv, free_buffers = << >>
    PROVE  Readiness # {}
<1>1. /\ IsStock(queue, free_buffers, Stock)
      /\ BuffersOf(table) \subseteq Buffers
      /\ IsFiniteSet(BuffersOf(table)) /\ Cardinality(BuffersOf(table)) = SN
      /\ readout.buffer_idx \in Buffers /\ readout.buffer_idx \notin BuffersOf(table)
      /\ SN \in Nat /\ TN \in Nat \ {0}
  BY SessionsAssumption, FifoAssumption DEF Inv, TypeOK, OwnershipInv, Stock, Entries
<1>2. Cardinality(BuffersOf(table) \cup {readout.buffer_idx}) = SN + 1
  BY <1>1, FS_AddElement
<1>3. Cardinality(Buffers) = SN + TN + 1
  <2>1. PICK n \in Nat : n = SN + TN
    BY <1>1
  <2>2. Cardinality(0 .. n) = n + 1
    BY FS_Interval
  <2>3. QED
    BY <2>1, <2>2 DEF Buffers
<1>4. Stock # {}
  <2>1. SUFFICES ASSUME Stock = {}
                 PROVE  FALSE
    OBVIOUS
  <2>2. Buffers = BuffersOf(table) \cup {readout.buffer_idx}
    BY <1>1, <2>1 DEF Stock
  <2>3. QED
    BY <1>1, <1>2, <1>3, <2>2
<1>5. ToSet(free_buffers) = {}
  BY DEF ToSet
<1>6. IsLine(queue) /\ IndexesOf(queue) # {}
  BY <1>1, <1>4, <1>5 DEF IsStock
<1>7. PICK e : e \in EntriesOf(queue)
  BY <1>6 DEF IndexesOf
<1>8. PICK p \in Priorities : \E i \in 1 .. Len(queue[p]) : queue[p][i] = e
  BY <1>6, <1>7, EntriesElements
<1>9. queue[p] # << >>
  <2>1. Len(<< >>) = 0
    BY EmptySeq
  <2>2. QED
    BY <1>8, <2>1
<1>10. QED
  BY <1>9 DEF Readiness

\* What is left of the queue and the free buffers makes the stock without the buffer.
IsAllocation(a, p) ==
    /\ a.idx \in Stock
    /\ IsStock(a.queue, a.free, Stock \ {a.idx})
    /\ EntriesOf(a.queue) \subseteq EntriesOf(queue)
    /\ ReadyIn(a.queue) \subseteq Readiness
    /\ a.lost # None =>
           a.free = << >> /\ p <= a.lost /\ \A r \in Readiness : r <= a.lost

\* Nothing is allocated for a transfer that is less urgent than all there are.
IsRefusal(a, p) ==
    /\ a.idx = None /\ a.queue = queue /\ a.free = free_buffers /\ a.lost = p
    /\ free_buffers = << >> /\ \A r \in Readiness : r <= p

\* allocate_buffer: a free buffer, that of a transfer that is no more urgent, or none.
LEMMA AllocateBufferIsEither ==
    ASSUME Inv, NEW p \in Priorities
    PROVE  IsAllocation(AllocateBuffer(p), p) \/ IsRefusal(AllocateBuffer(p), p)
<1> SUFFICES ASSUME NEW a, a = AllocateBuffer(p)
             PROVE  IsAllocation(a, p) \/ IsRefusal(a, p)
  OBVIOUS
<1>1. /\ IsStock(queue, free_buffers, Stock)
      /\ Priorities \subseteq 0 .. 7
  BY FifoAssumption DEF Inv, OwnershipInv, Stock
<1>2. /\ IsLine(queue)
      /\ free_buffers \in Seq(Buffers) /\ IsInjective(free_buffers)
      /\ IndexesOf(queue) \cap ToSet(free_buffers) = {}
      /\ IndexesOf(queue) \cup ToSet(free_buffers) = Stock
  BY <1>1 DEF IsStock
<1>3. CASE free_buffers # << >>
  <2>1. a = [idx |-> Last(free_buffers), free |-> Front(free_buffers),
             queue |-> queue, lost |-> None]
    BY <1>3 DEF AllocateBuffer
  <2>2. /\ a.idx = Last(free_buffers) /\ a.free = Front(free_buffers)
        /\ a.queue = queue /\ a.lost = None
    BY <2>1
  <2>3. /\ Front(free_buffers) \in Seq(Buffers)
        /\ Last(free_buffers) \in ToSet(free_buffers)
        /\ ToSet(Front(free_buffers)) = ToSet(free_buffers) \ {Last(free_buffers)}
        /\ IsInjective(Front(free_buffers))
    BY <1>2, <1>3, FrontElements
  <2>4. IsStock(a.queue, a.free, Stock \ {a.idx}) /\ a.idx \in Stock
    BY <1>2, <2>2, <2>3 DEF IsStock
  <2>5. ReadyIn(a.queue) = Readiness
    BY <2>2 DEF ReadyIn, Readiness
  <2>6. QED
    BY <2>2, <2>4, <2>5 DEF IsAllocation
<1>4. CASE free_buffers = << >>
  <2>1. PICK d : d = Displaced
    OBVIOUS
  <2>2. d \in Readiness /\ \A r \in Readiness : r <= d
    <3>1. Readiness \subseteq 0 .. 7 /\ Readiness # {}
      BY <1>1, <1>4, SomethingIsQueued DEF Readiness
    <3>2. QED
      BY <2>1, <3>1, MaxIsGreatest DEF Displaced
  <2>3. d \in Priorities /\ queue[d] # << >>
    BY <2>2 DEF Readiness
  <2>4. CASE p <= d
    <3>1. a = [idx |-> Head(queue[d]).buffer_idx, free |-> free_buffers,
               queue |-> Dequeued(queue, d), lost |-> d]
      BY <1>4, <2>1, <2>4 DEF AllocateBuffer, Dequeued
    <3>2. /\ a.idx = Head(queue[d]).buffer_idx /\ a.free = free_buffers
          /\ a.queue = Dequeued(queue, d) /\ a.lost = d
      BY <3>1
    <3>3. /\ Head(queue[d]) \in EntriesOf(queue)
          /\ IsLine(Dequeued(queue, d))
          /\ EntriesOf(Dequeued(queue, d)) \subseteq EntriesOf(queue)
          /\ IndexesOf(Dequeued(queue, d))
                 = IndexesOf(queue) \ {Head(queue[d]).buffer_idx}
      BY <1>2, <2>3, DequeuedLine
    <3>4. a.idx \in IndexesOf(queue)
      BY <3>2, <3>3 DEF IndexesOf
    <3>5. IsStock(a.queue, a.free, Stock \ {a.idx}) /\ a.idx \in Stock
      BY <1>2, <3>2, <3>3, <3>4 DEF IsStock
    <3>6. ReadyIn(a.queue) \subseteq Readiness
      <4>1. \A r \in Priorities : r # d => Dequeued(queue, d)[r] = queue[r]
        BY <1>2 DEF Dequeued, IsLine
      <4>2. QED
        BY <2>2, <3>2, <4>1 DEF ReadyIn, Readiness
    <3>7. QED
      BY <1>4, <2>2, <2>4, <3>2, <3>3, <3>5, <3>6 DEF IsAllocation
  <2>5. CASE ~ (p <= d)
    <3>1. a = [idx |-> None, free |-> free_buffers, queue |-> queue, lost |-> p]
      BY <1>4, <2>1, <2>5 DEF AllocateBuffer
    <3>2. \A r \in Readiness : r <= p
      BY <1>1, <2>2, <2>3, <2>5 DEF Readiness
    <3>3. QED
      BY <1>4, <3>1, <3>2 DEF IsRefusal
  <2>6. QED
    BY <2>4, <2>5
<1>5. QED
  BY <1>3, <1>4

\* What is stored is queued in its own buffer, one that the stock does not have any more,
\* and the task is told; a refused transfer is lost, and nothing else happens.
LEMMA StoreKeepsStock ==
    ASSUME Inv, NEW p \in Priorities, NEW a, a = AllocateBuffer(p),
           NEW entry, Store(p, a, entry),
           a.idx # None =>
               entry \in Entries /\ entry.buffer_idx \in Buffers \ (Stock \ {a.idx})
    PROVE  /\ \/ /\ a.idx = None /\ UNCHANGED << queue, free_buffers >>
              \/ /\ a.idx \in Stock
                 /\ IsStock(queue', free_buffers',
                            (Stock \ {a.idx}) \cup {entry.buffer_idx})
                 /\ \A e \in EntriesOf(queue') :
                        \/ e = entry
                        \/ e \in EntriesOf(queue) /\ e.buffer_idx \in Stock \ {a.idx}
           /\ waiting' \subseteq Priorities
           /\ LosesLeastUrgent' /\ NoLostWakeup'
           /\ UNCHANGED << readout, panicked >>
<1>1. /\ IsAllocation(a, p) \/ IsRefusal(a, p)
      /\ None \notin Nat /\ Priorities \subseteq 0 .. 7
      /\ waiting \subseteq Priorities /\ Readiness \cap waiting = {}
  BY AllocateBufferIsEither, FifoAssumption DEF Inv, TypeOK, NoLostWakeup
<1>2. free_buffers' = a.free /\ lost' = a.lost /\ UNCHANGED << readout, panicked >>
  BY DEF Store
<1>3. CASE IsRefusal(a, p)
  <2>1. /\ a.idx = None /\ a.queue = queue /\ a.free = free_buffers /\ a.lost = p
        /\ free_buffers = << >> /\ \A r \in Readiness : r <= p
    BY <1>3 DEF IsRefusal
  <2>2. UNCHANGED << queue, free_buffers, waiting >> /\ lost' = p
    BY <1>2, <2>1 DEF Store
  <2>3. (Readiness)' = Readiness
    BY <2>2 DEF Readiness
  <2>4. QED
    BY <1>1, <1>2, <2>1, <2>2, <2>3 DEF LosesLeastUrgent, NoLostWakeup
<1>4. CASE IsAllocation(a, p)
  <2>1. /\ a.idx \in Stock
        /\ IsStock(a.queue, a.free, Stock \ {a.idx})
        /\ EntriesOf(a.queue) \subseteq EntriesOf(queue)
        /\ ReadyIn(a.queue) \subseteq Readiness
        /\ a.lost # None =>
               a.free = << >> /\ p <= a.lost /\ \A r \in Readiness : r <= a.lost
    BY <1>4 DEF IsAllocation
  <2>2. a.idx \in Nat /\ a.idx # None
    BY <1>1, <2>1, SessionsAssumption, FifoAssumption DEF Stock, Buffers
  <2>3. /\ queue' = Enqueued(a.queue, p, entry)
        /\ waiting' = IF p \in waiting THEN {} ELSE waiting
    BY <2>2 DEF Store, Enqueued, Wake
  <2>4. entry \in Entries /\ entry.buffer_idx \in Buffers \ (Stock \ {a.idx})
    BY <2>2
  <2>5. /\ IsLine(a.queue)
        /\ a.free \in Seq(Buffers) /\ IsInjective(a.free)
        /\ IndexesOf(a.queue) \cap ToSet(a.free) = {}
        /\ IndexesOf(a.queue) \cup ToSet(a.free) = Stock \ {a.idx}
    BY <2>1 DEF IsStock
  <2>6. /\ IsLine(queue')
        /\ EntriesOf(queue') = EntriesOf(a.queue) \cup {entry}
        /\ IndexesOf(queue') = IndexesOf(a.queue) \cup {entry.buffer_idx}
    <3>1. entry.buffer_idx \notin IndexesOf(a.queue)
      BY <2>4, <2>5
    <3>2. QED
      BY <2>3, <2>4, <2>5, <3>1, EnqueuedLine
  <2>7. IsStock(queue', free_buffers', (Stock \ {a.idx}) \cup {entry.buffer_idx})
    BY <1>2, <2>4, <2>5, <2>6 DEF IsStock
  <2>8. \A e \in EntriesOf(a.queue) : e.buffer_idx \in Stock \ {a.idx}
    BY <2>5 DEF IndexesOf
  <2>9. (Readiness)' \subseteq Readiness \cup {p}
    <3>1. \A r \in Priorities : r # p => Enqueued(a.queue, p, entry)[r] = a.queue[r]
      BY <2>5 DEF Enqueued, IsLine
    <3>2. QED
      BY <2>1, <2>3, <3>1 DEF ReadyIn, Readiness
  <2>10. LosesLeastUrgent'
    BY <1>2, <2>1, <2>9 DEF LosesLeastUrgent
  <2>11. waiting' \subseteq Priorities /\ NoLostWakeup'
    BY <1>1, <2>3, <2>9 DEF NoLostWakeup
  <2>12. QED
    BY <1>2, <2>1, <2>6, <2>7, <2>8, <2>10, <2>11
<1>5. QED
  BY <1>1, <1>3, <1>4

-----------------------------------------------------------------------------
(* The last transfers.                                                      *)

\* A report stays true while time goes on.
LEMMA ReportLater ==
    ASSUME NEW t, NEW s, NEW report \in Reports \cup {None},
           NEW i \in Nat, NEW j \in Nat, i <= j, IsReport(t, s, report, i)
    PROVE  IsReport(t, s, report, j)
<1>1. SUFFICES ASSUME report # None
               PROVE  /\ report.repeated = FALSE
                      /\ Remembers(t, s, report) \/ IsOver(t, s, report, j)
  BY DEF IsReport
<1>2. /\ report.repeated = FALSE
      /\ Remembers(t, s, report) \/ IsOver(t, s, report, i)
      /\ report.timestamp \in Nat /\ Timeout \in Nat
  BY <1>1, FifoAssumption DEF IsReport, Reports
<1>3. report.timestamp + Timeout < i => report.timestamp + Timeout < j
  BY <1>2
<1>4. QED
  BY <1>2, <1>3 DEF IsOver

\* A frame of another source takes the session over at most, once the timeout is over.
LEMMA ReportOfOther ==
    ASSUME NEW t0, NEW t, NEW u, NEW s, NEW g, NEW r, r # s,
           NEW report \in Reports \cup {None}, NEW i \in Nat, NEW j \in Nat, i <= j,
           IsReport(t0, r, report, i), Follows(t, t0, s, j), IsLeft(u, t, s, g)
    PROVE  IsReport(u, r, report, j)
<1>1. SUFFICES ASSUME report # None
               PROVE  /\ report.repeated = FALSE
                      /\ Remembers(u, r, report) \/ IsOver(u, r, report, j)
  BY DEF IsReport
<1>2. /\ report.repeated = FALSE
      /\ Remembers(t0, r, report) \/ IsOver(t0, r, report, i)
      /\ report.timestamp \in Nat /\ Timeout \in Nat /\ None \notin Nat
  BY <1>1, FifoAssumption DEF IsReport, Reports
<1>3. r \in Tracked(u) => r \in Tracked(t0) /\ u.sessions[r] = t0.sessions[r]
  BY DEF IsLeft, Follows
<1>4. CASE IsOver(t0, r, report, i)
  <2>1. report.timestamp + Timeout < j
    BY <1>2, <1>4 DEF IsOver
  <2>2. QED
    BY <1>2, <1>3, <1>4, <2>1 DEF IsOver
<1>5. CASE Remembers(t0, r, report)
  <2>1. CASE r \in Tracked(u)
    BY <1>2, <1>3, <1>5, <2>1 DEF Remembers
  <2>2. CASE r \notin Tracked(u)
    <3>1. Expired(t0, r, j)
      BY <1>5, <2>2 DEF IsLeft, Follows, Remembers
    <3>2. LastTransferTimestamp(t0.sessions[r].gather) = report.timestamp
      BY <1>5 DEF Remembers, LastTransferTimestamp
    <3>3. report.timestamp + Timeout < j
      BY <1>2, <3>1, <3>2 DEF Expired
    <3>4. QED
      BY <1>2, <2>2, <3>3 DEF IsOver
  <2>3. QED
    BY <2>1, <2>2
<1>6. QED
  BY <1>2, <1>4, <1>5

\* The report after a frame of the source itself.
NextReport(report, f, transfer) ==
    LET same == report # None /\ report.id = f.transfer_id
    IN  IF transfer # None
        THEN [id |-> transfer.id, timestamp |-> transfer.timestamp,
              repeated |-> same /\ transfer.timestamp <= report.timestamp + Timeout]
        ELSE IF same THEN report ELSE None

\* A duplicate is skipped as long as the session remembers; once it does not, the timeout
\* is over, and what is assembled began later.
LEMMA ReportOfSource ==
    ASSUME NEW t0, NEW t, NEW u, NEW f, NEW s, NEW buf,
           s \in Tracked(t), f.part \in Payloads, f.transfer_id \in Ids,
           NEW g, g = t.sessions[s].gather, IsReception(g, buf, Ids, Payloads),
           NEW report \in Reports \cup {None}, NEW i \in Nat, NEW j \in Nat, i <= j,
           NEW o, o = PushFrame(g, buf, f, j),
           IsReport(t0, s, report, i), Follows(t, t0, s, j), IsLeft(u, t, s, o.gather)
    PROVE  /\ NextReport(report, f, o.transfer) \in Reports \cup {None}
           /\ IsReport(u, s, NextReport(report, f, o.transfer), j)
<1>1. /\ Timeout \in Nat /\ None \notin Nat /\ None \notin Ids /\ None \notin Reports
  BY FifoAssumption
<1>2. /\ o.transfer # None =>
             /\ o.transfer.id = f.transfer_id
             /\ o.gather.state = "Assembled"
             /\ o.gather.transfer_id = f.transfer_id
             /\ o.gather.sof_timestamp = o.transfer.timestamp
             /\ \/ o.transfer.timestamp = j
                \/ /\ g.state \in Accumulating
                   /\ o.transfer.timestamp = g.sof_timestamp
      /\ o.gather.state \in Accumulating =>
             \/ o.gather.sof_timestamp = j
             \/ g.state \in Accumulating /\ o.gather.sof_timestamp = g.sof_timestamp
      /\ IsDuplicate(g, f, j) => o.gather = g /\ o.transfer = None
  BY <1>1, PushFrameInstants
<1>3. o.transfer # None => o.transfer.timestamp \in Nat
  BY <1>1, PushFrameReception
<1>4. s \in Tracked(u) /\ u.sessions[s].gather = o.gather
  BY DEF IsLeft
<1>5. \/ s \in Tracked(t0) /\ g = t0.sessions[s].gather
      \/ s \notin Tracked(t0) /\ g.state \notin Accumulating
  BY DEF Follows, Default, Accumulating
<1>6. ASSUME report # None, report.id = f.transfer_id
      PROVE  /\ report.timestamp \in Nat
             /\ \/ Remembers(u, s, report) /\ o.transfer = None
                \/ /\ report.timestamp + Timeout < j
                   /\ o.transfer # None =>
                          report.timestamp + Timeout < o.transfer.timestamp
                   /\ o.gather.state \in Accumulating =>
                          report.timestamp + Timeout < o.gather.sof_timestamp
  <2>1. /\ report.timestamp \in Nat
        /\ Remembers(t0, s, report) \/ IsOver(t0, s, report, i)
    BY <1>6 DEF IsReport, Reports
  <2>2. CASE IsOver(t0, s, report, i)
    <3>1. /\ report.timestamp + Timeout < j
          /\ g.state \in Accumulating => report.timestamp + Timeout < g.sof_timestamp
      BY <1>1, <1>5, <2>1, <2>2 DEF IsOver
    <3>2. QED
      BY <1>2, <2>1, <3>1
  <2>3. CASE Remembers(t0, s, report)
    <3>1. /\ g.state = "Assembled" /\ g.transfer_id = f.transfer_id
          /\ g.sof_timestamp = report.timestamp
      BY <1>5, <1>6, <2>3 DEF Remembers
    <3>2. CASE j <= report.timestamp + Timeout
      <4>1. IsDuplicate(g, f, j)
        BY <3>1, <3>2 DEF IsDuplicate, TidMatch
      <4>2. Remembers(u, s, report)
        BY <1>2, <1>4, <1>6, <3>1, <4>1 DEF Remembers
      <4>3. QED
        BY <1>2, <2>1, <4>1, <4>2
    <3>3. CASE ~ (j <= report.timestamp + Timeout)
      <4>1. report.timestamp + Timeout < j
        BY <1>1, <2>1, <3>3
      <4>2. g.state \notin Accumulating
        BY <3>1 DEF Accumulating
      <4>3. QED
        BY <1>2, <2>1, <4>1, <4>2
    <3>4. QED
      BY <3>2, <3>3
  <2>4. QED
    BY <2>1, <2>2, <2>3
<1>7. CASE o.transfer # None
  <2>1. PICK repeated \in BOOLEAN :
            repeated = (/\ report # None /\ report.id = f.transfer_id
                        /\ o.transfer.timestamp <= report.timestamp + Timeout)
    OBVIOUS
  <2>2. NextReport(report, f, o.transfer)
            = [id |-> o.transfer.id, timestamp |-> o.transfer.timestamp,
               repeated |-> repeated]
    BY <1>7, <2>1 DEF NextReport
  <2>3. repeated = FALSE
    BY <1>1, <1>3, <1>6, <1>7, <2>1
  <2>4. [id |-> o.transfer.id, timestamp |-> o.transfer.timestamp,
         repeated |-> repeated] \in Reports
    BY <1>2, <1>3, <1>7 DEF Reports
  <2>5. QED
    BY <1>2, <1>4, <1>7, <2>2, <2>3, <2>4 DEF IsReport, Remembers
<1>8. CASE o.transfer = None
  <2>1. CASE report # None /\ report.id = f.transfer_id
    <3>1. NextReport(report, f, o.transfer) = report
      BY <1>8, <2>1 DEF NextReport
    <3>2. report.repeated = FALSE
      BY <2>1 DEF IsReport
    <3>3. Remembers(u, s, report) \/ IsOver(u, s, report, j)
      BY <1>4, <1>6, <2>1 DEF IsOver
    <3>4. QED
      BY <3>1, <3>2, <3>3 DEF IsReport
  <2>2. CASE ~ (report # None /\ report.id = f.transfer_id)
    <3>1. NextReport(report, f, o.transfer) = None
      BY <1>8, <2>2 DEF NextReport
    <3>2. QED
      BY <3>1 DEF IsReport
  <2>3. QED
    BY <2>1, <2>2
<1>9. QED
  BY <1>7, <1>8

-----------------------------------------------------------------------------
(* The steps.                                                               *)

LEMMA InitHolds == Init => Inv
<1> SUFFICES ASSUME Init
             PROVE  Inv
  OBVIOUS
<1>1. SN \in Nat /\ TN \in Nat \ {0} /\ None \notin Nat
  BY SessionsAssumption, FifoAssumption
<1>2. << >> \in Seq(Payloads) /\ Len(<< >>) = 0
  BY EmptySeq
<1>3. /\ readout.buffer_idx = SN + TN /\ readout.parts = << >>
      /\ readout \in Entries
  <2>1. SN + TN \in Buffers
    BY <1>1 DEF Buffers
  <2>2. QED
    BY <1>2, <2>1 DEF Init, Entry, Entries
<1>4. TypeOK
  BY <1>2, <1>3 DEF Init, TypeOK
<1>5. /\ table.sessions = [s \in Sources |-> None]
      /\ table.order = << >> /\ table.base = 0
      /\ table \in [sessions : [Sources -> SessionSet(Ids, Payloads) \cup {None}],
                    order : Seq(Sources), base : 0 .. SN]
  BY <1>1 DEF Init
<1>6. Tracked(table) = {}
  BY <1>5 DEF Tracked
<1>7. ToSet(table.order) = {} /\ IsInjective(table.order)
  BY <1>5 DEF ToSet, IsInjective
<1>8. IsSessions(table, buffers, Sources, Ids, Payloads)
  BY <1>5, <1>6, <1>7 DEF IsSessions
<1>9. IsCounted(table)
  BY <1>5, <1>6, FS_EmptySet DEF IsCounted
<1>10. BuffersOf(table) = 0 .. SN - 1
  BY <1>5, <1>6 DEF BuffersOf
<1>11. IsFiniteSet(0 .. SN - 1) /\ Cardinality(0 .. SN - 1) = SN
  <2>1. PICK n \in Int : n = SN - 1
    BY <1>1
  <2>2. IsFiniteSet(0 .. n) /\ Cardinality(0 .. n) = IF 0 > n THEN 0 ELSE n - 0 + 1
    BY FS_Interval
  <2>3. (IF 0 > n THEN 0 ELSE n - 0 + 1) = SN
    BY <1>1, <2>1
  <2>4. QED
    BY <2>1, <2>2, <2>3
<1>12. IndexesOf(queue) = {} /\ IsLine(queue) /\ EntriesOf(queue) = {}
  <2>1. /\ queue \in [Priorities -> Seq(Entries)]
        /\ \A p \in Priorities : queue[p] = << >>
    BY EmptySeq DEF Init
  <2>2. EntriesOf(queue) = {}
    BY <2>1 DEF EntriesOf
  <2>3. IsLine(queue)
    BY <1>2, <2>1 DEF IsLine
  <2>4. QED
    BY <2>2, <2>3 DEF IndexesOf
<1>13. /\ free_buffers \in Seq(Buffers) /\ IsInjective(free_buffers)
       /\ ToSet(free_buffers) = SN .. SN + TN - 1
  <2>1. /\ DOMAIN free_buffers = 1 .. TN
        /\ \A i \in 1 .. TN : free_buffers[i] = SN + i - 1 /\ SN + i - 1 \in Buffers
        /\ free_buffers = [i \in 1 .. TN |-> SN + i - 1]
    BY <1>1 DEF Init, Buffers
  <2>2. free_buffers \in Seq(Buffers)
    BY <1>1, <2>1, IsASeq
  <2>3. IsInjective(free_buffers)
    BY <1>1, <2>1 DEF IsInjective
  <2>4. \A i \in SN .. SN + TN - 1 : i - SN + 1 \in 1 .. TN /\ SN + (i - SN + 1) - 1 = i
    BY <1>1
  <2>5. \A i \in 1 .. TN : SN + i - 1 \in SN .. SN + TN - 1
    BY <1>1
  <2>6. ToSet(free_buffers) = SN .. SN + TN - 1
    BY <2>1, <2>4, <2>5 DEF ToSet
  <2>7. QED
    BY <2>2, <2>3, <2>6
<1>14. OwnershipInv
  <2>1. /\ Buffers \ ((0 .. SN - 1) \cup {SN + TN}) = SN .. SN + TN - 1
        /\ 0 .. SN - 1 \subseteq Buffers
        /\ SN + TN \notin 0 .. SN - 1
    BY <1>1 DEF Buffers
  <2>2. IsStock(queue, free_buffers, SN .. SN + TN - 1)
    BY <1>12, <1>13 DEF IsStock
  <2>3. QED
    BY <1>3, <1>8, <1>9, <1>10, <1>11, <2>1, <2>2 DEF OwnershipInv, IsSound
<1>15. ContentInv
  <2>1. SN + TN \in Buffers
    BY <1>1 DEF Buffers
  <2>2. buffers[SN + TN] = << >>
    BY <2>1 DEF Init
  <2>3. QED
    BY <1>3, <1>12, <2>2 DEF ContentInv
<1>16. OrderInv
  BY <1>2, <1>5, <1>6 DEF OrderInv, InOrder
<1>17. OnceInv
  BY DEF Init, OnceInv, IsReport
<1>18. LosesLeastUrgent /\ NoLostWakeup
  BY DEF Init, LosesLeastUrgent, NoLostWakeup
<1>19. QED
  BY <1>4, <1>14, <1>15, <1>16, <1>17, <1>18 DEF Inv

\* A frame has its fields in the sets the buffer is made for.
LEMMA FrameFields ==
    ASSUME NEW f \in Frames
    PROVE  /\ f.priority \in Priorities
           /\ f.transfer_id \in Ids /\ f.part \in Payloads
           /\ Parts(f) \in Seq(Payloads)
           /\ f.source # Anonymous => f.source \in Sources
<1>1. f.part \in Payloads
  BY DEF Payloads
<1>2. Parts(f) \in Seq(Payloads)
  BY <1>1 DEF Parts
<1>3. QED
  BY <1>1, <1>2, FifoAssumption DEF Ids

\* While the sessions stay what they are, time may go on.
LEMMA TimeGoesOn ==
    ASSUME Inv, NEW timestamp \in Nat, now <= timestamp, now' = timestamp, table' = table,
           NEW s, \/ last' = last
                  \/ last' = [last EXCEPT ![s] = None]
    PROVE  /\ last' \in [Sources -> Reports \cup {None}]
           /\ OrderInv' /\ OnceInv'
<1>1. /\ now \in Nat
      /\ IsSessions(table, buffers, Sources, Ids, Payloads)
      /\ last \in [Sources -> Reports \cup {None}]
  BY DEF Inv, TypeOK, OwnershipInv, IsSound
<1>2. OrderInv'
  <2>1. ASSUME NEW r \in Tracked(table)
        PROVE  InstantOf(table, r) = None \/ InstantOf(table, r) <= timestamp
    <3>1. InstantOf(table, r) \in Nat \cup {None}
      BY <1>1 DEF IsSessions, SessionSet, Gathers, InstantOf, LastTransferTimestamp
    <3>2. InstantOf(table, r) = None \/ InstantOf(table, r) <= now
      BY DEF Inv, OrderInv
    <3>3. QED
      BY <1>1, <3>1, <3>2
  <2>2. QED
    BY <2>1 DEF Inv, OrderInv
<1>3. \A r \in Sources : last'[r] \in {last[r], None} /\ last[r] \in Reports \cup {None}
  BY <1>1
<1>4. ASSUME NEW r \in Sources
      PROVE  IsReport(table, r, last'[r], timestamp)
  <2>1. IsReport(table, r, last[r], now)
    BY DEF Inv, OnceInv
  <2>2. IsReport(table, r, last[r], timestamp)
    BY <1>1, <1>3, <2>1, ReportLater
  <2>3. QED
    BY <1>3, <2>2 DEF IsReport
<1>5. last' \in [Sources -> Reports \cup {None}]
  BY <1>1
<1>6. QED
  BY <1>2, <1>4, <1>5 DEF OnceInv


\* A frame that no session is there for.
LEMMA PushUntrackedKeepsInv ==
    ASSUME Inv, NEW f \in Frames, f.source # Anonymous,
           NEW timestamp \in Nat, now <= timestamp, PushUntracked(f, timestamp),
           now' = timestamp
    PROVE  Inv'
<1>1. /\ panicked' = Panics(table, f) /\ Remember(f, None) /\ lost' = None
      /\ UNCHANGED << table, queue, free_buffers, readout, buffers, waiting >>
  BY DEF PushUntracked
<1>2. f.source \in Sources /\ last \in [Sources -> Reports \cup {None}]
  BY FrameFields DEF Inv, TypeOK
<1>3. last' = last \/ last' = [last EXCEPT ![f.source] = None]
  <2>1. PICK prev : prev = last[f.source]
    OBVIOUS
  <2>2. \/ last' = [last EXCEPT ![f.source] = prev]
        \/ last' = [last EXCEPT ![f.source] = None]
    BY <1>1, <2>1 DEF Remember
  <2>3. [last EXCEPT ![f.source] = prev] = last
    BY <1>2, <2>1
  <2>4. QED
    BY <2>2, <2>3
<1>4. /\ last' \in [Sources -> Reports \cup {None}]
      /\ OrderInv' /\ OnceInv'
  BY <1>1, <1>3, TimeGoesOn
<1>5. Panics(table, f) \in BOOLEAN
  BY DEF Panics, StartsSession
<1>6. TypeOK'
  BY <1>1, <1>4, <1>5 DEF Inv, TypeOK
<1>7. OwnershipInv'
  BY <1>1 DEF Inv, OwnershipInv
<1>8. ContentInv'
  BY <1>1 DEF Inv, ContentInv
<1>9. LosesLeastUrgent' /\ (NoLostWakeup)'
  BY <1>1 DEF Inv, LosesLeastUrgent, NoLostWakeup, Readiness
<1>10. QED
  BY <1>4, <1>6, <1>7, <1>8, <1>9 DEF Inv

\* The sessions depend on the content of their own buffers only.
LEMMA SameSessions ==
    ASSUME NEW Srcs, NEW I, NEW P, NEW t, NEW indexes, NEW bufs,
           IsSound(t, indexes, bufs, Srcs, I, P),
           NEW more, \A i \in BuffersOf(t) : more[i] = bufs[i]
    PROVE  IsSound(t, indexes, more, Srcs, I, P)
<1>1. \A s \in Tracked(t) : t.sessions[s].buffer_idx \in BuffersOf(t)
  BY DEF BuffersOf
<1>2. QED
  BY <1>1 DEF IsSound, IsSessions

\* A transfer without a node is written to a buffer of its own.
LEMMA PushAnonymousFrameKeepsInv ==
    ASSUME Inv, NEW f \in Frames, NEW timestamp \in Nat, now <= timestamp,
           PushAnonymousFrame(f), now' = timestamp
    PROVE  Inv'
<1>1. PICK a : a = AllocateBuffer(f.priority)
  OBVIOUS
<1>2. PICK entry : entry = Entry(a.idx, Parts(f))
  OBVIOUS
<1>3. /\ Store(f.priority, a, entry)
      /\ buffers' = IF a.idx = None THEN buffers
                                    ELSE [buffers EXCEPT ![a.idx] = Parts(f)]
      /\ UNCHANGED << table, last >>
  BY <1>1, <1>2, Zenon DEF PushAnonymousFrame
<1>4. f.priority \in Priorities /\ Parts(f) \in Seq(Payloads)
  BY FrameFields
<1>5. entry.buffer_idx = a.idx /\ entry.parts = Parts(f)
  BY <1>2 DEF Entry
<1>6. /\ buffers \in [Buffers -> Seq(Payloads)]
      /\ IsSound(table, BuffersOf(table), buffers, Sources, Ids, Payloads)
      /\ BuffersOf(table) \subseteq Buffers
      /\ readout.buffer_idx \in Buffers /\ readout.buffer_idx \notin BuffersOf(table)
      /\ IsStock(queue, free_buffers, Stock)
      /\ None \notin Nat /\ Buffers \subseteq Nat
  BY SessionsAssumption, FifoAssumption
     DEF Inv, TypeOK, OwnershipInv, Stock, Entries, Buffers
<1>7. a.idx # None => /\ a.idx \in Stock
                      /\ entry \in Entries
                      /\ entry.buffer_idx \in Buffers \ (Stock \ {a.idx})
  <2>1. a.idx # None => a.idx \in Stock
    BY <1>1, <1>4, AllocateBufferIsEither DEF IsAllocation, IsRefusal
  <2>2. a.idx \in Stock => a.idx \in Buffers /\ entry \in Entries
    BY <1>2, <1>4 DEF Stock, Entry, Entries
  <2>3. QED
    BY <1>5, <2>1, <2>2
<1>8. /\ \/ /\ a.idx = None /\ UNCHANGED << queue, free_buffers >>
         \/ /\ a.idx \in Stock
            /\ IsStock(queue', free_buffers', (Stock \ {a.idx}) \cup {entry.buffer_idx})
            /\ \A e \in EntriesOf(queue') :
                   \/ e = entry
                   \/ e \in EntriesOf(queue) /\ e.buffer_idx \in Stock \ {a.idx}
      /\ waiting' \subseteq Priorities
      /\ LosesLeastUrgent' /\ NoLostWakeup'
      /\ UNCHANGED << readout, panicked >>
  BY <1>1, <1>3, <1>4, <1>7, StoreKeepsStock
<1>9. /\ last' \in [Sources -> Reports \cup {None}]
      /\ OrderInv' /\ OnceInv'
  BY <1>3, TimeGoesOn
<1>10. CASE a.idx = None
  <2>1. UNCHANGED << table, queue, free_buffers, readout, panicked, buffers >>
    BY <1>3, <1>6, <1>8, <1>10 DEF Stock
  <2>2. TypeOK'
    BY <1>8, <1>9, <2>1 DEF Inv, TypeOK
  <2>3. OwnershipInv' /\ ContentInv'
    BY <2>1 DEF Inv, OwnershipInv, ContentInv
  <2>4. QED
    BY <1>8, <1>9, <2>2, <2>3 DEF Inv
<1>11. CASE a.idx # None
  <2>1. a.idx \in Stock /\ a.idx \in Buffers
    BY <1>7, <1>11 DEF Stock
  <2>2. /\ buffers' \in [Buffers -> Seq(Payloads)]
        /\ buffers'[a.idx] = Parts(f)
        /\ \A i \in Buffers : i # a.idx => buffers'[i] = buffers[i]
    BY <1>3, <1>4, <1>6, <1>11, <2>1
  <2>3. TypeOK'
    BY <1>8, <1>9, <2>2 DEF Inv, TypeOK
  <2>4. OwnershipInv'
    <3>1. \A i \in BuffersOf(table) : buffers'[i] = buffers[i]
      BY <1>6, <2>1, <2>2 DEF Stock
    <3>2. IsSound(table, BuffersOf(table), buffers', Sources, Ids, Payloads)
      BY <1>6, <3>1, SameSessions
    <3>3. (Stock \ {a.idx}) \cup {entry.buffer_idx} = Stock
      BY <1>5, <2>1
    <3>4. IsStock(queue', free_buffers', Stock)
      BY <1>8, <1>11, <3>3
    <3>5. QED
      BY <1>3, <1>8, <3>2, <3>4 DEF Inv, OwnershipInv, Stock
  <2>5. ContentInv'
    <3>1. ASSUME NEW e \in EntriesOf(queue')
          PROVE  buffers'[e.buffer_idx] = e.parts
      <4>1. CASE e = entry
        BY <1>5, <2>2, <4>1
      <4>2. CASE e \in EntriesOf(queue) /\ e.buffer_idx \in Stock \ {a.idx}
        BY <2>2, <4>2 DEF Inv, ContentInv, Stock
      <4>3. QED
        BY <1>8, <1>11, <4>1, <4>2
    <3>2. buffers'[readout.buffer_idx] = readout.parts
      BY <1>6, <2>1, <2>2 DEF Inv, ContentInv, Stock
    <3>3. QED
      BY <1>8, <3>1, <3>2 DEF ContentInv
  <2>6. QED
    BY <1>8, <1>9, <2>3, <2>4, <2>5 DEF Inv
<1>12. QED
  BY <1>10, <1>11


\* A session is left with the buffer it has: nothing was assembled, or it is lost.
LEMMA BufferKept ==
    ASSUME Inv, UNCHANGED << queue, free_buffers, readout >>,
           NEW idx \in BuffersOf(table), NEW buf \in Seq(Payloads),
           buffers' = [buffers EXCEPT ![idx] = buf],
           IsSound(table', BuffersOf(table), buffers', Sources, Ids, Payloads)
    PROVE  OwnershipInv' /\ ContentInv' /\ buffers' \in [Buffers -> Seq(Payloads)]
<1>1. /\ buffers \in [Buffers -> Seq(Payloads)]
      /\ idx \in Buffers
      /\ readout.buffer_idx \in Buffers /\ readout.buffer_idx # idx
      /\ IndexesOf(queue) \subseteq Stock
  BY DEF Inv, TypeOK, OwnershipInv, IsStock, Stock, Entries
<1>2. /\ buffers' \in [Buffers -> Seq(Payloads)]
      /\ \A i \in Buffers : i # idx => buffers'[i] = buffers[i]
  BY <1>1
<1>3. BuffersOf(table') = BuffersOf(table)
  BY DEF IsSound
<1>4. OwnershipInv'
  BY <1>3 DEF Inv, OwnershipInv
<1>5. ContentInv'
  <2>1. \A e \in EntriesOf(queue) : e.buffer_idx \in Buffers /\ e.buffer_idx # idx
    BY <1>1 DEF IndexesOf, Stock
  <2>2. QED
    BY <1>1, <1>2, <2>1 DEF Inv, ContentInv
<1>6. QED
  BY <1>2, <1>4, <1>5

\* A session gives its buffer to the queue and takes one from the stock.
LEMMA BufferExchanged ==
    ASSUME Inv, UNCHANGED readout,
           NEW idx \in BuffersOf(table), NEW next \in Stock, NEW entry,
           entry.buffer_idx = idx, entry.parts \in Seq(Payloads),
           buffers' = [buffers EXCEPT ![idx] = entry.parts],
           IsSound(table', (BuffersOf(table) \ {idx}) \cup {next}, buffers',
                   Sources, Ids, Payloads),
           IsStock(queue', free_buffers', (Stock \ {next}) \cup {idx}),
           \A e \in EntriesOf(queue') :
               e = entry \/ (e \in EntriesOf(queue) /\ e.buffer_idx \in Stock \ {next})
    PROVE  OwnershipInv' /\ ContentInv' /\ buffers' \in [Buffers -> Seq(Payloads)]
<1>1. /\ buffers \in [Buffers -> Seq(Payloads)]
      /\ BuffersOf(table) \subseteq Buffers
      /\ IsFiniteSet(BuffersOf(table)) /\ Cardinality(BuffersOf(table)) = SN
      /\ readout.buffer_idx \in Buffers /\ readout.buffer_idx \notin BuffersOf(table)
      /\ SN \in Nat
  BY SessionsAssumption DEF Inv, TypeOK, OwnershipInv, Entries
<1>2. next \in Buffers /\ next \notin BuffersOf(table) /\ next # readout.buffer_idx
  BY DEF Stock
<1>3. /\ buffers' \in [Buffers -> Seq(Payloads)]
      /\ buffers'[idx] = entry.parts
      /\ \A i \in Buffers : i # idx => buffers'[i] = buffers[i]
  BY <1>1
<1>4. BuffersOf(table') = (BuffersOf(table) \ {idx}) \cup {next}
  BY DEF IsSound
<1>5. IsFiniteSet(BuffersOf(table')) /\ Cardinality(BuffersOf(table')) = SN
  <2>1. /\ IsFiniteSet(BuffersOf(table) \ {idx})
        /\ Cardinality(BuffersOf(table) \ {idx}) = SN - 1
    BY <1>1, FS_RemoveElement
  <2>2. next \notin BuffersOf(table) \ {idx}
    BY <1>2
  <2>3. /\ IsFiniteSet((BuffersOf(table) \ {idx}) \cup {next})
        /\ Cardinality((BuffersOf(table) \ {idx}) \cup {next}) = (SN - 1) + 1
    BY <2>1, <2>2, FS_AddElement
  <2>4. (SN - 1) + 1 = SN
    BY <1>1
  <2>5. QED
    BY <1>4, <2>3, <2>4
<1>6. Buffers \ (BuffersOf(table') \cup {readout.buffer_idx}) = (Stock \ {next}) \cup {idx}
  BY <1>1, <1>2, <1>4 DEF Stock
<1>7. OwnershipInv'
  <2>1. BuffersOf(table') \subseteq Buffers /\ readout.buffer_idx \notin BuffersOf(table')
    BY <1>1, <1>2, <1>4
  <2>2. IsSound(table', BuffersOf(table'), buffers', Sources, Ids, Payloads)
    BY <1>4
  <2>3. IsStock(queue', free_buffers',
                Buffers \ (BuffersOf(table') \cup {readout.buffer_idx}))
    BY <1>6
  <2>4. QED
    BY <1>5, <2>1, <2>2, <2>3 DEF OwnershipInv
<1>8. ContentInv'
  <2>1. ASSUME NEW e \in EntriesOf(queue')
        PROVE  buffers'[e.buffer_idx] = e.parts
    <3>1. CASE e = entry
      BY <1>3, <3>1
    <3>2. CASE e \in EntriesOf(queue) /\ e.buffer_idx \in Stock \ {next}
      BY <1>3, <3>2 DEF Inv, ContentInv, Stock
    <3>3. QED
      BY <2>1, <3>1, <3>2
  <2>2. buffers'[readout.buffer_idx] = readout.parts
    BY <1>1, <1>3 DEF Inv, ContentInv
  <2>3. QED
    BY <2>1, <2>2 DEF ContentInv
<1>9. QED
  BY <1>3, <1>7, <1>8


\* What a frame does to the session it belongs to, to the queue and to the reports.
LEMMA PushTrackedKeepsInv ==
    ASSUME Inv, NEW f \in Frames, f.source # Anonymous,
           NEW timestamp \in Nat, now <= timestamp, PushTracked(f, timestamp),
           now' = timestamp
    PROVE  Inv'
<1>1. PICK t : t = TableFor(table, f, timestamp)
  OBVIOUS
<1>2. PICK s : s = f.source
  OBVIOUS
<1>3. PICK idx : idx = t.sessions[s].buffer_idx
  OBVIOUS
<1>4. PICK g : g = t.sessions[s].gather
  OBVIOUS
<1>5. PICK o : o = PushFrame(g, buffers[idx], f, timestamp)
  OBVIOUS
<1>6. PICK a : a = AllocateBuffer(f.priority)
  OBVIOUS
<1>7. PICK order : order = Touch(t.order, s, o.gather, timestamp)
  OBVIOUS
<1>8. PICK entry : entry = Entry(idx, o.transfer.parts)
  OBVIOUS
<1>9. PICK next : next = IF o.transfer = None THEN idx ELSE NextBuffer(idx, a)
  OBVIOUS
<1>10. /\ t.sessions[s] # None
       /\ buffers' = [buffers EXCEPT ![idx] = o.buffer]
       /\ Remember(f, o.transfer)
  BY <1>1, <1>2, <1>3, <1>4, <1>5, Zenon DEF PushTracked
<1>11. /\ table' = Left(t, s, o.gather, next, order)
       /\ \/ /\ o.transfer = None /\ lost' = None
             /\ UNCHANGED << queue, free_buffers, readout, waiting, panicked >>
          \/ /\ o.transfer # None
             /\ Store(f.priority, a, entry)
  BY <1>1, <1>2, <1>3, <1>4, <1>5, <1>6, <1>7, <1>8, <1>9 DEF PushTracked, Left
<1>12. /\ f.priority \in Priorities /\ s \in Sources
       /\ f.transfer_id \in Ids /\ f.part \in Payloads
       /\ None \notin Nat /\ None \notin Ids
       /\ None \notin SessionSet(Ids, Payloads)
  BY <1>2, FrameFields, FifoAssumption
<1>13. /\ buffers \in [Buffers -> Seq(Payloads)]
       /\ IsSound(table, BuffersOf(table), buffers, Sources, Ids, Payloads)
       /\ BuffersOf(table) \subseteq Buffers
       /\ Buffers \subseteq Nat
       /\ now \in Nat
       /\ last \in [Sources -> Reports \cup {None}]
       /\ InOrder(table)
  BY SessionsAssumption, FifoAssumption DEF Inv, TypeOK, OwnershipInv, OrderInv, Buffers
<1>14. /\ IsSessions(table, buffers, Sources, Ids, Payloads) /\ IsCounted(table)
       /\ \A i \in BuffersOf(table) : i \in Nat /\ buffers[i] \in Seq(Payloads)
  BY <1>13 DEF IsSound
<1>15. IsSound(t, BuffersOf(table), buffers, Sources, Ids, Payloads)
  <2>1. IsSound(TableFor(table, f, timestamp), BuffersOf(table), buffers,
                Sources, Ids, Payloads)
    BY <1>2, <1>12, <1>14, TableForSessions
  <2>2. QED
    BY <1>1, <2>1
<1>16. InOrder(t) /\ Follows(t, table, s, timestamp)
  <2>1. /\ InOrder(TableFor(table, f, timestamp))
        /\ Follows(TableFor(table, f, timestamp), table, f.source, timestamp)
    BY <1>2, <1>12, <1>13, <1>14, TableForFollows
  <2>2. QED
    BY <1>1, <1>2, <2>1
<1>17. /\ IsSessions(t, buffers, Sources, Ids, Payloads) /\ IsCounted(t)
       /\ BuffersOf(t) = BuffersOf(table)
       /\ s \in Tracked(t)
  BY <1>10, <1>12, <1>15 DEF IsSound, IsSessions, Tracked
<1>18. /\ IsReception(g, buffers[idx], Ids, Payloads)
       /\ idx \in BuffersOf(t) /\ idx \in Nat /\ idx \in Buffers
  BY <1>3, <1>4, <1>13, <1>17 DEF IsSessions, BuffersOf
<1>19. /\ IsReception(o.gather, o.buffer, Ids, Payloads)
       /\ o.transfer # None =>
              /\ o.transfer.parts = o.buffer
              /\ o.gather.acc = << >>
              /\ o.transfer.timestamp \in Nat
  BY <1>5, <1>12, <1>18, PushFrameReception
<1>20. /\ o.buffer \in Seq(Payloads)
       /\ o.gather \in Gathers(Ids, Payloads)
       /\ buffers' \in [Buffers -> Seq(Payloads)]
       /\ buffers'[idx] = o.buffer
       /\ \A i \in Buffers : i # idx => buffers'[i] = buffers[i]
  <2>1. o.buffer \in Seq(Payloads) /\ o.gather \in Gathers(Ids, Payloads)
    BY <1>19 DEF IsReception
  <2>2. QED
    BY <1>10, <1>13, <1>18, <2>1
<1>21. \/ next = idx
       \/ next = a.idx /\ a.idx # None /\ o.transfer # None
  BY <1>9 DEF NextBuffer
<1>22. /\ o.transfer # None =>
              entry.buffer_idx = idx /\ entry.parts = o.buffer /\ entry \in Entries
       /\ idx \in Buffers \ Stock
  BY <1>8, <1>13, <1>17, <1>18, <1>19, <1>20 DEF Entry, Entries, Stock
<1>23. o.transfer # None =>
       /\ \/ /\ a.idx = None /\ UNCHANGED << queue, free_buffers >>
          \/ /\ a.idx \in Stock
             /\ IsStock(queue', free_buffers', (Stock \ {a.idx}) \cup {entry.buffer_idx})
             /\ \A e \in EntriesOf(queue') :
                    \/ e = entry
                    \/ e \in EntriesOf(queue) /\ e.buffer_idx \in Stock \ {a.idx}
       /\ waiting' \subseteq Priorities
       /\ LosesLeastUrgent' /\ NoLostWakeup'
       /\ UNCHANGED << readout, panicked >>
  <2>1. SUFFICES ASSUME o.transfer # None
                 PROVE  /\ \/ /\ a.idx = None /\ UNCHANGED << queue, free_buffers >>
                           \/ /\ a.idx \in Stock
                              /\ IsStock(queue', free_buffers',
                                         (Stock \ {a.idx}) \cup {entry.buffer_idx})
                              /\ \A e \in EntriesOf(queue') :
                                     \/ e = entry
                                     \/ /\ e \in EntriesOf(queue)
                                        /\ e.buffer_idx \in Stock \ {a.idx}
                        /\ waiting' \subseteq Priorities
                        /\ LosesLeastUrgent' /\ NoLostWakeup'
                        /\ UNCHANGED << readout, panicked >>
    OBVIOUS
  <2>2. Store(f.priority, a, entry)
    BY <1>11, <2>1
  <2>3. entry \in Entries /\ entry.buffer_idx \in Buffers \ (Stock \ {a.idx})
    BY <1>22, <2>1
  <2>4. QED
    BY <1>6, <1>12, <2>2, <2>3, StoreKeepsStock
<1>24. /\ waiting' \subseteq Priorities /\ panicked' \in BOOLEAN
       /\ LosesLeastUrgent' /\ NoLostWakeup'
       /\ UNCHANGED readout
  <2>1. CASE o.transfer = None
    <3>1. /\ lost' = None
          /\ UNCHANGED << queue, free_buffers, readout, waiting, panicked >>
      BY <1>11, <2>1
    <3>2. QED
      BY <3>1 DEF Inv, TypeOK, LosesLeastUrgent, NoLostWakeup, Readiness
  <2>2. CASE o.transfer # None
    BY <1>23, <2>2 DEF Inv, TypeOK
  <2>3. QED
    BY <2>1, <2>2
<1>25. /\ next \in Nat
       /\ next = idx \/ next \notin BuffersOf(t)
       /\ IsReception(o.gather, buffers'[next], Ids, Payloads)
  <2>1. CASE next = idx
    BY <1>18, <1>19, <1>20, <2>1
  <2>2. CASE next # idx
    <3>1. next = a.idx /\ a.idx \in Stock /\ o.transfer # None
      BY <1>21, <1>23, <2>2
    <3>2. next \in Buffers /\ next \notin BuffersOf(t) /\ next \in Nat
      BY <1>13, <1>17, <3>1 DEF Stock
    <3>3. buffers'[next] \in Seq(Payloads)
      BY <1>20, <3>2
    <3>4. InBuffer(o.gather, buffers'[next])
      BY <1>19, <3>1, <3>3, InBufferIfEmptyOrAll
    <3>5. IsReception(o.gather, buffers'[next], Ids, Payloads)
      BY <1>19, <3>3, <3>4 DEF IsReception
    <3>6. QED
      BY <3>2, <3>5
  <2>3. QED
    BY <2>1, <2>2
<1>26. IsSound(table', (BuffersOf(table) \ {idx}) \cup {next}, buffers',
               Sources, Ids, Payloads)
  <2>1. \A i \in BuffersOf(t) \ {idx} : buffers'[i] = buffers[i]
    BY <1>13, <1>17, <1>20
  <2>2. IsSound(Left(t, s, o.gather, next, order), (BuffersOf(t) \ {idx}) \cup {next},
                buffers', Sources, Ids, Payloads)
    BY <1>3, <1>7, <1>12, <1>17, <1>25, <2>1, LeftSessions
  <2>3. QED
    BY <1>11, <1>17, <2>2
<1>27. OwnershipInv' /\ ContentInv'
  <2>1. CASE next = idx
    <3>1. UNCHANGED << queue, free_buffers, readout >>
      <4>1. CASE o.transfer = None
        BY <1>11, <4>1
      <4>2. CASE o.transfer # None
        <5>1. a.idx = None \/ a.idx = idx
          BY <1>9, <2>1, <4>2 DEF NextBuffer
        <5>2. a.idx \notin Stock
          BY <1>22, <1>23, <4>2, <5>1, <1>12, <1>13 DEF Stock
        <5>3. QED
          BY <1>23, <4>2, <5>2
      <4>3. QED
        BY <4>1, <4>2
    <3>2. (BuffersOf(table) \ {idx}) \cup {next} = BuffersOf(table)
      BY <1>17, <1>18, <2>1
    <3>3. IsSound(table', BuffersOf(table), buffers', Sources, Ids, Payloads)
      BY <1>26, <3>2
    <3>4. QED
      BY <1>10, <1>17, <1>18, <1>20, <3>1, <3>3, BufferKept
  <2>2. CASE next # idx
    <3>1. next = a.idx /\ a.idx # None /\ o.transfer # None
      BY <1>21, <2>2
    <3>2. /\ next \in Stock
          /\ entry.buffer_idx = idx /\ entry.parts = o.buffer
          /\ IsStock(queue', free_buffers', (Stock \ {next}) \cup {idx})
          /\ \A e \in EntriesOf(queue') :
                 e = entry \/ (e \in EntriesOf(queue) /\ e.buffer_idx \in Stock \ {next})
      BY <1>22, <1>23, <3>1
    <3>3. buffers' = [buffers EXCEPT ![idx] = entry.parts] /\ entry.parts \in Seq(Payloads)
      BY <1>10, <1>20, <3>2
    <3>4. idx \in BuffersOf(table) /\ UNCHANGED readout
      BY <1>17, <1>18, <1>24
    <3>5. QED
      BY ONLY Inv, <1>26, <3>2, <3>3, <3>4, BufferExchanged, ZenonT(60)
  <2>3. QED
    BY <2>1, <2>2

<1>28. IsLeft(table', t, s, o.gather)
  <2>1. IsLeft(Left(t, s, o.gather, next, order), t, s, o.gather)
    BY <1>12, <1>17, <1>20, <1>25, LeftIsLeft
  <2>2. QED
    BY <1>11, <2>1
<1>29. OrderInv'
  <2>1. \A r \in Tracked(t) : InstantOf(t, r) = None \/ InstantOf(t, r) <= timestamp
    <3>1. SUFFICES ASSUME NEW r \in Tracked(t), InstantOf(t, r) # None
                   PROVE  InstantOf(t, r) <= timestamp
      OBVIOUS
    <3>2. r \in Tracked(table) /\ t.sessions[r] = table.sessions[r]
      BY <1>16, <3>1 DEF Follows, InstantOf, LastTransferTimestamp, Default
    <3>3. InstantOf(t, r) = InstantOf(table, r) /\ InstantOf(table, r) <= now
      BY <3>1, <3>2 DEF InstantOf, Inv, OrderInv
    <3>4. InstantOf(t, r) \in Nat \cup {None}
      BY <1>17, <3>1
         DEF IsSessions, SessionSet, Gathers, InstantOf, LastTransferTimestamp
    <3>5. QED
      BY <1>13, <3>1, <3>3, <3>4
  <2>2. LastTransferTimestamp(o.gather) \in {LastTransferTimestamp(g), timestamp}
    BY <1>5, <1>12, <1>18, PushFrameInstants
  <2>3. InstantOf(t, s) = LastTransferTimestamp(g)
    BY <1>4 DEF InstantOf
  <2>4. InOrder(Left(t, s, o.gather, next, order))
    BY <1>7, <1>12, <1>16, <1>17, <2>1, <2>2, <2>3, LeftSorted
  <2>5. \A r \in Tracked(table') :
            InstantOf(table', r) = None \/ InstantOf(table', r) <= timestamp
    BY <1>28, <2>1, <2>2, <2>3 DEF IsLeft, InstantOf
  <2>6. QED
    BY <1>11, <2>4, <2>5 DEF OrderInv
<1>30. last' \in [Sources -> Reports \cup {None}] /\ OnceInv'
  <2>1. last' = [last EXCEPT ![s] = NextReport(last[s], f, o.transfer)]
    BY <1>2, <1>10 DEF Remember, NextReport
  <2>2. last[s] \in Reports \cup {None} /\ IsReport(table, s, last[s], now)
    BY <1>12, <1>13 DEF Inv, OnceInv
  <2>3. /\ NextReport(last[s], f, o.transfer) \in Reports \cup {None}
        /\ IsReport(table', s, NextReport(last[s], f, o.transfer), timestamp)
    BY <1>4, <1>5, <1>12, <1>13, <1>16, <1>17, <1>18, <1>28, <2>2, ReportOfSource
  <2>4. /\ last' \in [Sources -> Reports \cup {None}]
        /\ last'[s] = NextReport(last[s], f, o.transfer)
        /\ \A r \in Sources : r # s => last'[r] = last[r]
    BY <1>12, <1>13, <2>1, <2>3
  <2>5. ASSUME NEW r \in Sources
        PROVE  IsReport(table', r, last'[r], timestamp)
    <3>1. CASE r = s
      BY <2>3, <2>4, <3>1
    <3>2. CASE r # s
      <4>1. last[r] \in Reports \cup {None} /\ IsReport(table, r, last[r], now)
        BY <1>13 DEF Inv, OnceInv
      <4>2. IsReport(table', r, last[r], timestamp)
        BY <1>13, <1>16, <1>28, <3>2, <4>1, ReportOfOther
      <4>3. QED
        BY <2>4, <3>2, <4>2
    <3>3. QED
      BY <3>1, <3>2
  <2>6. QED
    BY <2>4, <2>5 DEF OnceInv
<1>31. TypeOK'
  BY <1>20, <1>24, <1>30 DEF Inv, TypeOK
<1>32. QED
  BY <1>24, <1>27, <1>29, <1>30, <1>31 DEF Inv


LEMMA PushKeepsInv ==
    ASSUME Inv, NEW f \in Frames, NEW timestamp \in Nat, now <= timestamp,
           Push(f, timestamp)
    PROVE  Inv'
<1>1. PushRegularFrame(f, timestamp) \/ PushAnonymousFrame(f)
  BY DEF Push
<1>2. now' = timestamp
  BY DEF Push
<1>3. CASE f.source # Anonymous /\ PushTracked(f, timestamp)
  BY <1>2, <1>3, PushTrackedKeepsInv
<1>4. CASE f.source # Anonymous /\ PushUntracked(f, timestamp)
  BY <1>2, <1>4, PushUntrackedKeepsInv
<1>5. CASE PushAnonymousFrame(f)
  BY <1>2, <1>5, PushAnonymousFrameKeepsInv
<1>6. QED
  BY <1>1, <1>3, <1>4, <1>5 DEF PushRegularFrame

\* A task that goes to sleep, a future that is dropped, and steps of others: the buffers
\* and the sessions stay as they are.
LEMMA SleepKeepsInv ==
    ASSUME Inv, waiting' \subseteq Priorities, Readiness \cap waiting' = {},
           lost' \in {None, lost},
           UNCHANGED << table, queue, free_buffers, readout, buffers, panicked, now, last >>
    PROVE  Inv'
<1>1. TypeOK'
  BY DEF Inv, TypeOK
<1>2. OwnershipInv'
  BY DEF Inv, OwnershipInv
<1>3. ContentInv'
  BY DEF Inv, ContentInv
<1>4. OrderInv'
  BY DEF Inv, OrderInv
<1>5. OnceInv'
  BY DEF Inv, OnceInv
<1>6. (Readiness)' = Readiness
  BY DEF Readiness
<1>7. LosesLeastUrgent' /\ NoLostWakeup'
  BY <1>6 DEF Inv, LosesLeastUrgent, NoLostWakeup
<1>8. QED
  BY <1>1, <1>2, <1>3, <1>4, <1>5, <1>7 DEF Inv

\* The buffer read before goes to the free ones, the one popped to the reader.
LEMMA TryPopKeepsInv ==
    ASSUME Inv, NEW mask \in Masks, TryPop(mask)
    PROVE  Inv'
<1>1. PICK p : p = Min(Readiness \cap mask)
  OBVIOUS
<1>2. PICK popped : popped = Head(queue[p])
  OBVIOUS
<1>3. /\ waiting = {} /\ Readiness \cap mask # {}
      /\ queue' = Dequeued(queue, p)
      /\ free_buffers' = Append(free_buffers, readout.buffer_idx)
      /\ readout' = popped
      /\ lost' = None
      /\ UNCHANGED << table, buffers, waiting, panicked, now, last >>
  BY <1>1, <1>2 DEF TryPop, Released, Dequeued
<1>4. p \in Priorities /\ queue[p] # << >>
  <2>1. Readiness \cap mask \subseteq Nat
    <3>1. Priorities \subseteq 0 .. 7
      BY FifoAssumption
    <3>2. Priorities \subseteq Nat
      BY <3>1
    <3>3. QED
      BY <3>2 DEF Readiness
  <2>2. p \in Readiness
    BY <1>1, <1>3, <2>1, MinIsLeast
  <2>3. QED
    BY <2>2 DEF Readiness
<1>5. /\ readout \in Entries /\ readout.buffer_idx \in Buffers
      /\ readout.buffer_idx \notin BuffersOf(table)
      /\ BuffersOf(table) \subseteq Buffers
      /\ IsStock(queue, free_buffers, Stock)
  BY DEF Inv, TypeOK, OwnershipInv, Stock, Entries
<1>6. /\ IsLine(queue)
      /\ free_buffers \in Seq(Buffers) /\ IsInjective(free_buffers)
      /\ IndexesOf(queue) \cap ToSet(free_buffers) = {}
      /\ IndexesOf(queue) \cup ToSet(free_buffers) = Stock
  BY <1>5 DEF IsStock
<1>7. /\ popped \in EntriesOf(queue) /\ popped \in Entries
      /\ IsLine(queue')
      /\ EntriesOf(queue') \subseteq EntriesOf(queue)
      /\ IndexesOf(queue') = IndexesOf(queue) \ {popped.buffer_idx}
  BY <1>2, <1>3, <1>4, <1>6, DequeuedLine
<1>8. popped.buffer_idx \in IndexesOf(queue) /\ popped.buffer_idx \in Stock
  BY <1>6, <1>7 DEF IndexesOf
<1>9. readout.buffer_idx \notin Stock
  BY DEF Stock
<1>10. /\ free_buffers' \in Seq(Buffers)
       /\ ToSet(free_buffers') = ToSet(free_buffers) \cup {readout.buffer_idx}
       /\ IsInjective(free_buffers')
  <2>1. Append(free_buffers, readout.buffer_idx) \in Seq(Buffers)
    BY <1>5, <1>6, AppendProperties
  <2>2. QED
    BY <1>3, <1>5, <1>6, <1>9, <2>1, AppendElements
<1>11. Buffers \ (BuffersOf(table) \cup {popped.buffer_idx})
           = (Stock \ {popped.buffer_idx}) \cup {readout.buffer_idx}
  BY <1>5, <1>8 DEF Stock
<1>12. IsStock(queue', free_buffers',
               (Stock \ {popped.buffer_idx}) \cup {readout.buffer_idx})
  BY <1>6, <1>7, <1>8, <1>9, <1>10 DEF IsStock
<1>13. TypeOK'
  BY <1>3, <1>7 DEF Inv, TypeOK
<1>14. OwnershipInv'
  BY <1>3, <1>8, <1>11, <1>12 DEF Inv, OwnershipInv, Stock
<1>15. ContentInv'
  BY <1>3, <1>7 DEF Inv, ContentInv
<1>16. OrderInv'
  BY <1>3 DEF Inv, OrderInv
<1>17. OnceInv'
  BY <1>3 DEF Inv, OnceInv
<1>18. LosesLeastUrgent' /\ NoLostWakeup'
  BY <1>3 DEF LosesLeastUrgent, NoLostWakeup
<1>19. QED
  BY <1>13, <1>14, <1>15, <1>16, <1>17, <1>18 DEF Inv

LEMMA NextKeepsInv == Inv /\ [Next]_vars => Inv'
<1> SUFFICES ASSUME Inv, [Next]_vars
             PROVE  Inv'
  OBVIOUS
<1>1. ASSUME NEW f \in Frames, NEW timestamp \in now .. MaxTime, Push(f, timestamp)
      PROVE  Inv'
  <2>1. timestamp \in Nat /\ now <= timestamp
    BY FifoAssumption DEF Inv, TypeOK
  <2>2. QED
    BY <1>1, <2>1, PushKeepsInv
<1>2. ASSUME NEW mask \in Masks, PollPopReadiness(mask)
      PROVE  Inv'
  BY <1>2, SleepKeepsInv, FifoAssumption DEF PollPopReadiness
<1>3. ASSUME NEW mask \in Masks, TryPop(mask)
      PROVE  Inv'
  BY <1>3, TryPopKeepsInv
<1>4. CASE SpuriousPoll
  BY <1>4, SleepKeepsInv DEF SpuriousPoll
<1>5. CASE UNCHANGED vars
  BY <1>5, SleepKeepsInv DEF vars, Inv, TypeOK, NoLostWakeup
<1>6. QED
  BY <1>1, <1>2, <1>3, <1>4, <1>5 DEF Next

-----------------------------------------------------------------------------
(* What the buffer promises.                                                *)

\* The values the variables take, who owns which buffer and what it has, the order of the
\* sessions and what they know of the last transfers, in every state
\* (rx_priority_fifo.rs).
THEOREM InductiveInvariant == Spec => []Inv
<1>1. QED
  BY InitHolds, NextKeepsInv, PTL DEF Spec

\* A buffer of one owner among the sessions, the queue, the free ones and the reader.
LEMMA OneOwner == Inv => BuffersPartition
<1> SUFFICES ASSUME Inv
             PROVE  BuffersPartition
  OBVIOUS
<1>1. /\ IsSessions(table, buffers, Sources, Ids, Payloads)
      /\ readout.buffer_idx \in Buffers /\ readout.buffer_idx \notin BuffersOf(table)
      /\ BuffersOf(table) \subseteq Buffers
      /\ IsStock(queue, free_buffers, Stock)
  BY DEF Inv, TypeOK, OwnershipInv, IsSound, Stock, Entries
<1>2. /\ IsLine(queue)
      /\ free_buffers \in Seq(Buffers) /\ IsInjective(free_buffers)
      /\ IndexesOf(queue) \cap ToSet(free_buffers) = {}
      /\ IndexesOf(queue) \cup ToSet(free_buffers) = Stock
  BY <1>1 DEF IsStock
<1>3. \A s \in Tracked(table) :
          /\ table.sessions[s].buffer_idx \in BuffersOf(table)
          /\ table.sessions[s].buffer_idx \notin table.base .. SN - 1
  BY <1>1 DEF IsSessions, BuffersOf
<1>4. table.base .. SN - 1 \subseteq BuffersOf(table)
  BY DEF BuffersOf
<1>5. /\ DOMAIN free_buffers = 1 .. Len(free_buffers)
      /\ \A n \in DOMAIN free_buffers : free_buffers[n] \in ToSet(free_buffers)
      /\ \A i \in ToSet(free_buffers) : \E n \in DOMAIN free_buffers : free_buffers[n] = i
      /\ \A n, m \in DOMAIN free_buffers : free_buffers[n] = free_buffers[m] => n = m
  BY <1>2, ToSetElements DEF IsInjective
<1>6. \A p \in Priorities :
          /\ DOMAIN queue[p] = 1 .. Len(queue[p])
          /\ \A n \in DOMAIN queue[p] : queue[p][n].buffer_idx \in IndexesOf(queue)
  BY <1>2, EntriesElements DEF IndexesOf
<1>7. ASSUME NEW i, i \notin IndexesOf(queue)
      PROVE  QueuedAt(i) = {}
  BY <1>6, <1>7 DEF QueuedAt
<1>8. ASSUME NEW i \in Buffers
      PROVE  Cardinality(Owners(i)) = 1
  <2>1. i \in BuffersOf(table) \/ i = readout.buffer_idx \/ i \in Stock
    BY DEF Stock
  <2>2. ASSUME NEW x, Owners(i) = {x}
        PROVE  Cardinality(Owners(i)) = 1
    BY <2>2, FS_Singleton
  <2>3. CASE i \in IndexesOf(queue)
    <3>1. i \notin BuffersOf(table) /\ i # readout.buffer_idx /\ i \notin ToSet(free_buffers)
      BY <1>2, <2>3 DEF Stock
    <3>2. PICK e \in EntriesOf(queue) : e.buffer_idx = i
      BY <2>3 DEF IndexesOf
    <3>3. PICK p \in Priorities : \E n \in 1 .. Len(queue[p]) : queue[p][n] = e
      BY <1>2, EntriesElements
    <3>4. PICK n \in 1 .. Len(queue[p]) : queue[p][n] = e
      BY <3>3
    <3>5. QueuedAt(i) = {<< p, n >>}
      <4>1. \A r \in Priorities : \A m \in DOMAIN queue[r] :
                queue[r][m].buffer_idx = i <=> r = p /\ m = n
        BY <1>2, <1>6, <3>2, <3>4 DEF IsLine
      <4>2. QED
        BY <1>6, <3>4, <4>1 DEF QueuedAt
    <3>6. Owners(i) = {<< "queued", << p, n >> >>}
      BY <1>3, <1>4, <1>5, <3>1, <3>5 DEF Owners, SessionOwners
    <3>7. QED
      BY <2>2, <3>6
  <2>4. CASE i \in ToSet(free_buffers)
    <3>1. i \notin BuffersOf(table) /\ i # readout.buffer_idx /\ i \notin IndexesOf(queue)
      BY <1>2, <2>4 DEF Stock
    <3>2. PICK n \in DOMAIN free_buffers : free_buffers[n] = i
      BY <1>5, <2>4
    <3>3. \A m \in DOMAIN free_buffers : free_buffers[m] = i <=> m = n
      BY <1>5, <3>2
    <3>4. QueuedAt(i) = {}
      BY <1>7, <3>1
    <3>5. Owners(i) = {<< "free", n >>}
      BY <1>3, <1>4, <3>1, <3>2, <3>3, <3>4 DEF Owners, SessionOwners
    <3>6. QED
      BY <2>2, <3>5
  <2>5. CASE i = readout.buffer_idx
    <3>1. i \notin BuffersOf(table) /\ i \notin IndexesOf(queue) /\ i \notin ToSet(free_buffers)
      BY <1>1, <1>2, <2>5 DEF Stock
    <3>2. QueuedAt(i) = {}
      BY <1>7, <3>1
    <3>3. Owners(i) = {<< "readout", readout >>}
      BY <1>3, <1>4, <1>5, <2>5, <3>1, <3>2 DEF Owners, SessionOwners
    <3>4. QED
      BY <2>2, <3>3
  <2>6. CASE i \in BuffersOf(table)
    <3>1. i # readout.buffer_idx /\ i \notin IndexesOf(queue) /\ i \notin ToSet(free_buffers)
      BY <1>1, <1>2, <2>6 DEF Stock
    <3>2. QueuedAt(i) = {}
      BY <1>7, <3>1
    <3>3. CASE i \in table.base .. SN - 1
      <4>1. Owners(i) = {<< "unused", i >>}
        BY <1>3, <1>5, <3>1, <3>2, <3>3 DEF Owners, SessionOwners
      <4>2. QED
        BY <2>2, <4>1
    <3>4. ASSUME NEW s \in Tracked(table), i = table.sessions[s].buffer_idx
          PROVE  Cardinality(Owners(i)) = 1
      <4>1. /\ \A r \in Tracked(table) : table.sessions[r].buffer_idx = i => r = s
            /\ i \notin table.base .. SN - 1
        BY <1>1, <1>3, <3>4 DEF IsSessions
      <4>2. Owners(i) = {<< "session", s >>}
        BY <1>5, <3>1, <3>2, <3>4, <4>1 DEF Owners, SessionOwners
      <4>3. QED
        BY <2>2, <4>2
    <3>5. QED
      BY <2>6, <3>3, <3>4 DEF BuffersOf
  <2>7. QED
    BY <1>2, <2>1, <2>3, <2>4, <2>5, <2>6
<1>9. {e.buffer_idx : e \in Queued \cup {readout}} \cup ToSet(free_buffers) \subseteq Buffers
  <2>1. Queued = EntriesOf(queue)
    BY DEF Queued, EntriesOf
  <2>2. \A e \in Queued : e.buffer_idx \in Buffers
    BY <1>2, <2>1 DEF IndexesOf, Stock
  <2>3. QED
    BY <1>1, <1>2, <2>2 DEF Stock
<1>10. QED
  BY <1>8, <1>9 DEF BuffersPartition

\* Every buffer has one owner, and the queue's and the reader's keep what was assembled,
\* whatever frames come (push_frame, try_pop and allocate_buffer of rx_priority_fifo.rs).
THEOREM NothingAliases == Spec => []ContentIntact
<1>1. ASSUME Inv
      PROVE  ContentIntact
  <2>1. IsTable(table, Buffers)
    <3>1. /\ IsSessions(table, buffers, Sources, Ids, Payloads) /\ IsCounted(table)
          /\ BuffersOf(table) \subseteq Buffers
      BY <1>1 DEF Inv, OwnershipInv, IsSound
    <3>2. \A s \in Tracked(table) : table.sessions[s].buffer_idx \in Buffers
      BY <3>1 DEF BuffersOf
    <3>3. QED
      BY <3>1, <3>2 DEF IsTable, IsSessions, IsCounted
  <2>2. Queued = EntriesOf(queue)
    BY DEF Queued, EntriesOf
  <2>3. QED
    BY <1>1, <2>1, <2>2, OneOwner DEF ContentIntact, Inv, ContentInv
<1>2. QED
  BY <1>1, InductiveInvariant, PTL

\* A transfer is given up only for others at least as urgent, with no buffer left
\* (allocate_buffer and its callers in rx_priority_fifo.rs).
THEOREM LeastUrgentIsLost == Spec => []LosesLeastUrgent
<1>1. Inv => LosesLeastUrgent
  BY DEF Inv
<1>2. QED
  BY <1>1, InductiveInvariant, PTL

\* The endpoint's task does not sleep while there is what it waits for
\* (poll_pop_readiness and the wake-up of push_frame).
THEOREM ReaderIsWoken == Spec => []NoLostWakeup
<1>1. Inv => NoLostWakeup
  BY DEF Inv
<1>2. QED
  BY <1>1, InductiveInvariant, PTL

\* The session in front of the order is the one whose last transfer began first
\* (try_start_new_session and enqueue_back).
THEOREM FrontIsOldest == Spec => []OldestSessionFirst
<1>1. ASSUME Inv
      PROVE  OldestSessionFirst
  <2>1. InOrder(table) /\ table.order \in Seq(Sources)
    BY <1>1 DEF Inv, OrderInv, OwnershipInv, IsSound, IsSessions
  <2>2. DOMAIN table.order = 1 .. Len(table.order)
    BY <2>1, ToSetElements
  <2>3. QED
    BY <2>1, <2>2 DEF InOrder, NotAfter, InstantOf, OldestSessionFirst, SofTimestamp
<1>2. QED
  BY <1>1, InductiveInvariant, PTL

\* A repetition of a transfer is not assembled a second time within the timeout, even if
\* the session that knows of it has been taken over since (gather.rs, is_duplicate;
\* rx_priority_fifo.rs, the expiry of a session).
THEOREM AssembledOnce == Spec => []AtMostOncePerTimeout
<1>1. Inv => AtMostOncePerTimeout
  BY DEF Inv, OnceInv, IsReport, AtMostOncePerTimeout
<1>2. QED
  BY <1>1, InductiveInvariant, PTL

=============================================================================
