---------------------------- MODULE SessionLemmas ----------------------------
(***************************************************************************)
(* Facts about the operators of Gather and Sessions, for the proofs about  *)
(* the modules that are built from them.                                   *)
(***************************************************************************)
EXTENDS Sessions, SequenceLemmas, FiniteSetTheorems

\* The timestamp and the identifier are there in the states that read them, and
\* there are accumulated parts only while a transfer is accumulated.
FieldsMatchState(g) ==
    /\ g.state = "Idle" <=> g.sof_timestamp = None
    /\ g.state \in {"Idle", "IdleLastTransfer"} <=> g.transfer_id = None
    /\ g.acc # << >> => g.state \in Accumulating

\* The buffer begins with the parts accumulated.
InBuffer(g, buf) ==
    /\ Len(g.acc) <= Len(buf)
    /\ SubSeq(buf, 1, Len(g.acc)) = g.acc

\* A gather and its buffer, as push_frame finds and leaves them.
IsReception(g, buf, Ids, P) ==
    /\ g \in Gathers(Ids, P)
    /\ FieldsMatchState(g)
    /\ buf \in Seq(P)
    /\ InBuffer(g, buf)

\* A reception nobody has fed has nothing in its buffer, whatever that holds.
LEMMA DefaultIsReception ==
    ASSUME NEW Ids, NEW P, NEW buf \in Seq(P)
    PROVE  IsReception(Default, buf, Ids, P)
<1>1. << >> \in Seq(P) /\ Len(<< >>) = 0
  BY EmptySeq
<1>2. SubSeq(buf, 1, 0) = << >>
  BY SubSeqEmpty
<1>3. Len(buf) \in Nat
  BY LenProperties
<1>4. QED
  BY <1>1, <1>2, <1>3
     DEF IsReception, Gathers, FieldsMatchState, InBuffer, Default, Accumulating

\* Nothing accumulated, or the buffer's whole content.
LEMMA InBufferIfEmptyOrAll ==
    ASSUME NEW P, NEW g, NEW buf \in Seq(P), g.acc = << >> \/ g.acc = buf
    PROVE  InBuffer(g, buf)
<1>1. Len(<< >>) = 0 /\ Len(buf) \in Nat
  BY LenProperties, EmptySeq
<1>2. SubSeq(buf, 1, 0) = << >> /\ SubSeq(buf, 1, Len(buf)) = buf
  BY SubSeqEmpty, SubSeqFull
<1>3. CASE g.acc = << >>
  BY <1>1, <1>2, <1>3 DEF InBuffer
<1>4. CASE g.acc = buf
  BY <1>1, <1>2, <1>4 DEF InBuffer
<1>5. QED
  BY <1>3, <1>4

\* push_frame in place: a reception stays one, and a transfer that is returned is
\* the content of the buffer and has the identifier and timestamp of a frame seen.
LEMMA PushFrameReception ==
    ASSUME NEW Ids, NEW P, None \notin Nat, None \notin Ids,
           NEW g, NEW buf, IsReception(g, buf, Ids, P),
           NEW f, f.part \in P, f.transfer_id \in Ids, NEW timestamp \in Nat,
           NEW o, o = PushFrame(g, buf, f, timestamp)
    PROVE  /\ IsReception(o.gather, o.buffer, Ids, P)
           /\ o.transfer # None =>
                  /\ o.transfer.parts = o.buffer
                  /\ o.gather.acc = << >>
                  /\ o.transfer.timestamp \in Nat
                  /\ o.transfer.timestamp \in {timestamp, g.sof_timestamp}
<1>1. /\ g \in Gathers(Ids, P) /\ FieldsMatchState(g)
      /\ buf \in Seq(P) /\ InBuffer(g, buf)
      /\ g.acc \in Seq(P)
  BY DEF IsReception, Gathers
<1>2. /\ Parts(f) \in Seq(P)
      /\ g.acc \o Parts(f) \in Seq(P)
      /\ Written(g, buf, f) = g.acc \o Parts(f)
      /\ << >> \in Seq(P)
  <2>1. Parts(f) \in Seq(P) /\ << >> \in Seq(P)
    BY DEF Parts
  <2>2. QED
    BY <1>1, <2>1, ConcatProperties DEF Written, InBuffer
<1>3. ASSUME NEW h, h = StopAssembly(g)
      PROVE  h \in Gathers(Ids, P) /\ FieldsMatchState(h) /\ h.acc = << >>
  BY <1>1, <1>2, <1>3 DEF StopAssembly, Gathers, FieldsMatchState, Accumulating
<1>4. ASSUME NEW b \in Seq(P), o = Outcome(StopAssembly(g), b, None)
      PROVE  /\ IsReception(o.gather, o.buffer, Ids, P)
             /\ o.transfer = None
  <2>1. o.gather = StopAssembly(g) /\ o.buffer = b /\ o.transfer = None
    BY <1>4 DEF Outcome
  <2>2. InBuffer(o.gather, o.buffer)
    BY <1>3, <2>1, InBufferIfEmptyOrAll
  <2>3. QED
    BY <1>3, <2>1, <2>2 DEF IsReception
<1>5. CASE o = Outcome(g, buf, None)
  BY <1>1, <1>5 DEF IsReception, Outcome
<1>6. CASE o = SingleFrameAssembly(f, timestamp)
  <2>1. /\ o.gather = [state |-> "Assembled", sof_timestamp |-> timestamp,
                       transfer_id |-> f.transfer_id, acc |-> << >>]
        /\ o.buffer = Parts(f)
        /\ o.transfer.parts = Parts(f) /\ o.transfer.timestamp = timestamp
    BY <1>6 DEF SingleFrameAssembly, Outcome, Transfer
  <2>2. InBuffer(o.gather, o.buffer)
    BY <1>2, <2>1, InBufferIfEmptyOrAll
  <2>3. QED
    BY <1>2, <2>1, <2>2 DEF IsReception, Gathers, FieldsMatchState, Accumulating
<1>7. CASE o = AccumulateFirst(g, buf, f, timestamp)
  <2>1. CASE f.malformed
    BY <1>1, <1>4, <1>7, <2>1 DEF AccumulateFirst
  <2>2. CASE ~ f.malformed
    <3>1. /\ o.gather = [state |-> "AccumulatedFirst", sof_timestamp |-> timestamp,
                         transfer_id |-> f.transfer_id, acc |-> Parts(f)]
          /\ o.buffer = Parts(f) /\ o.transfer = None
      BY <1>7, <2>2 DEF AccumulateFirst, Outcome
    <3>2. InBuffer(o.gather, o.buffer)
      BY <1>2, <3>1, InBufferIfEmptyOrAll
    <3>3. QED
      BY <1>2, <3>1, <3>2 DEF IsReception, Gathers, FieldsMatchState, Accumulating
  <2>3. QED
    BY <2>1, <2>2
<1>8. CASE o = FinishAssembly(g, buf, f) /\ Continues(g, f, timestamp)
  <2>1. CASE o = Outcome(StopAssembly(g), buf, None)
    BY <1>1, <1>4, <2>1
  <2>2. CASE o = Outcome([g EXCEPT !.state = "Assembled", !.acc = << >>],
                         Written(g, buf, f),
                         Transfer(g.transfer_id, f, g.sof_timestamp, g.acc \o Parts(f)))
    <3>1. /\ o.gather = [g EXCEPT !.state = "Assembled", !.acc = << >>]
          /\ o.buffer = g.acc \o Parts(f)
          /\ o.transfer.parts = g.acc \o Parts(f)
          /\ o.transfer.timestamp = g.sof_timestamp
      BY <1>2, <2>2 DEF Outcome, Transfer
    <3>2. g.state \in Accumulating
      BY <1>8 DEF Continues
    <3>3. /\ o.gather \in Gathers(Ids, P) /\ FieldsMatchState(o.gather)
          /\ o.gather.acc = << >>
          /\ g.sof_timestamp \in Nat
      BY <1>1, <1>2, <3>1, <3>2 DEF Gathers, FieldsMatchState, Accumulating
    <3>4. InBuffer(o.gather, o.buffer)
      BY <1>2, <3>1, <3>3, InBufferIfEmptyOrAll
    <3>5. QED
      BY <1>2, <3>1, <3>3, <3>4 DEF IsReception
  <2>3. CASE o = Outcome(StopAssembly(g), Written(g, buf, f), None)
    BY <1>2, <1>4, <2>3
  <2>4. QED
    BY <1>8, <2>1, <2>2, <2>3 DEF FinishAssembly
<1>9. CASE o = AccumulateNext(g, buf, f) /\ Continues(g, f, timestamp)
  <2>1. CASE f.malformed
    BY <1>1, <1>4, <1>9, <2>1 DEF AccumulateNext
  <2>2. CASE ~ f.malformed
    <3>1. /\ o.gather = [g EXCEPT !.state = IF f.toggle THEN "AccumulatedEven"
                                                        ELSE "AccumulatedOdd",
                                  !.acc = g.acc \o Parts(f)]
          /\ o.buffer = g.acc \o Parts(f)
          /\ o.transfer = None
      BY <1>2, <1>9, <2>2 DEF AccumulateNext, Outcome
    <3>2. g.state \in Accumulating
      BY <1>9 DEF Continues
    <3>3. /\ o.gather \in Gathers(Ids, P) /\ FieldsMatchState(o.gather)
          /\ o.gather.acc = o.buffer
      BY <1>1, <1>2, <3>1, <3>2 DEF Gathers, FieldsMatchState, Accumulating
    <3>4. InBuffer(o.gather, o.buffer)
      BY <1>2, <3>1, <3>3, InBufferIfEmptyOrAll
    <3>5. QED
      BY <1>2, <3>1, <3>3, <3>4 DEF IsReception
  <2>3. QED
    BY <2>1, <2>2
<1>10. CASE o = Outcome(StopAssembly(g), buf, None)
  BY <1>1, <1>4, <1>10
<1>11. QED
  BY <1>5, <1>6, <1>7, <1>8, <1>9, <1>10 DEF PushFrame
-----------------------------------------------------------------------------
(* The table of the sessions.                                               *)

\* The buffers a table has: those of its sessions, and those not used so far.
BuffersOf(t) == {t.sessions[s].buffer_idx : s \in Tracked(t)} \cup t.base .. SN - 1

\* The sessions are queued once each, assemble in their own buffers, and have been given
\* none that is still unused.
IsSessions(t, bufs, Srcs, Ids, P) ==
    /\ t \in [sessions : [Srcs -> SessionSet(Ids, P) \cup {None}],
              order : Seq(Srcs), base : 0 .. SN]
    /\ ToSet(t.order) = Tracked(t) /\ IsInjective(t.order)
    /\ \A s \in Tracked(t) :
           /\ t.sessions[s] \in SessionSet(Ids, P)
           /\ IsReception(t.sessions[s].gather, bufs[t.sessions[s].buffer_idx], Ids, P)
           /\ t.sessions[s].buffer_idx \notin t.base .. SN - 1
    /\ \A s, r \in Tracked(t) :
           t.sessions[s].buffer_idx = t.sessions[r].buffer_idx => s = r

\* There are as many as buffers were handed out.
IsCounted(t) == IsFiniteSet(Tracked(t)) /\ Cardinality(Tracked(t)) = t.base

\* The sessions of the sources tracked, with the buffers of the indexes, count of
\* them handed out.
IsTableOf(t, tracked, indexes, count, bufs, Srcs, Ids, P) ==
    /\ IsSessions(t, bufs, Srcs, Ids, P)
    /\ Tracked(t) = tracked /\ BuffersOf(t) = indexes /\ t.base = count

\* A table whose sessions have as many buffers as were handed out.
IsSound(t, indexes, bufs, Srcs, Ids, P) ==
    IsSessions(t, bufs, Srcs, Ids, P) /\ IsCounted(t) /\ BuffersOf(t) = indexes

\* A session for a source without one, in front of the others.
LEMMA InsertedSessions ==
    ASSUME NEW Srcs, NEW Ids, NEW P, None \notin SessionSet(Ids, P),
           NEW t, NEW bufs, IsSessions(t, bufs, Srcs, Ids, P),
           NEW s \in Srcs, s \notin Tracked(t),
           NEW idx \in Nat, idx \notin BuffersOf(t), bufs[idx] \in Seq(P)
    PROVE  IsTableOf(Inserted(t, s, idx), Tracked(t) \cup {s}, BuffersOf(t) \cup {idx},
                     t.base, bufs, Srcs, Ids, P)
<1> SUFFICES ASSUME NEW u, u = Inserted(t, s, idx)
             PROVE  IsTableOf(u, Tracked(t) \cup {s}, BuffersOf(t) \cup {idx},
                              t.base, bufs, Srcs, Ids, P)
  OBVIOUS
<1> DEFINE session == [gather |-> Default, buffer_idx |-> idx]
<1>1. IsReception(Default, bufs[idx], Ids, P)
  BY DefaultIsReception
<1>2. session \in SessionSet(Ids, P) /\ session # None
  BY <1>1 DEF SessionSet, IsReception
<1>3. /\ t = [sessions |-> t.sessions, order |-> t.order, base |-> t.base]
      /\ t.sessions \in [Srcs -> SessionSet(Ids, P) \cup {None}]
      /\ t.order \in Seq(Srcs) /\ t.base \in 0 .. SN
  BY DEF IsSessions
<1>4. u = [sessions |-> [t.sessions EXCEPT ![s] = session],
           order |-> << s >> \o t.order, base |-> t.base]
  BY <1>3 DEF Inserted
<1> HIDE DEF session
<1>5. /\ u.sessions = [t.sessions EXCEPT ![s] = session]
      /\ u.order = << s >> \o t.order /\ u.base = t.base
  BY <1>4
<1>6. /\ u.sessions \in [Srcs -> SessionSet(Ids, P) \cup {None}]
      /\ u.sessions[s] = session
      /\ \A r \in Srcs : r # s => u.sessions[r] = t.sessions[r]
  BY <1>2, <1>3, <1>5
<1>7. Tracked(u) = Tracked(t) \cup {s}
  BY <1>2, <1>3, <1>6 DEF Tracked
<1>8. /\ u.order \in Seq(Srcs) /\ ToSet(u.order) = Tracked(u) /\ IsInjective(u.order)
  BY <1>3, <1>5, <1>7, PrependElements DEF IsSessions
<1>9. u \in [sessions : [Srcs -> SessionSet(Ids, P) \cup {None}],
             order : Seq(Srcs), base : 0 .. SN]
  BY <1>3, <1>4, <1>5, <1>6, <1>8
<1>10. session.buffer_idx = idx /\ session.gather = Default
  BY DEF session
<1>11. Tracked(t) \subseteq Srcs
  BY <1>3 DEF Tracked
<1>12. \A r \in Tracked(t) : u.sessions[r] = t.sessions[r]
  BY <1>6, <1>11
<1>13. BuffersOf(u) = BuffersOf(t) \cup {idx}
  BY <1>5, <1>6, <1>7, <1>10, <1>12 DEF BuffersOf
<1>14. ASSUME NEW r \in Tracked(u)
       PROVE  /\ u.sessions[r] \in SessionSet(Ids, P)
              /\ IsReception(u.sessions[r].gather, bufs[u.sessions[r].buffer_idx], Ids, P)
              /\ u.sessions[r].buffer_idx \notin u.base .. SN - 1
  <2>1. CASE r = s
    BY <1>1, <1>2, <1>5, <1>6, <1>10, <2>1 DEF BuffersOf
  <2>2. CASE r # s
    BY <1>5, <1>7, <1>12, <2>2 DEF IsSessions
  <2>3. QED
    BY <2>1, <2>2
<1>15. ASSUME NEW r \in Tracked(u), NEW q \in Tracked(u),
              u.sessions[r].buffer_idx = u.sessions[q].buffer_idx
       PROVE  r = q
  <2>1. \A x \in Tracked(t) : u.sessions[x].buffer_idx \in BuffersOf(t)
    BY <1>12 DEF BuffersOf
  <2>2. CASE r = s \/ q = s
    BY <1>6, <1>7, <1>10, <1>15, <2>1, <2>2
  <2>3. CASE r # s /\ q # s
    BY <1>7, <1>12, <1>15, <2>3 DEF IsSessions
  <2>4. QED
    BY <2>2, <2>3
<1>16. IsSessions(u, bufs, Srcs, Ids, P)
  BY <1>8, <1>9, <1>14, <1>15 DEF IsSessions
<1>17. QED
  BY <1>5, <1>7, <1>13, <1>16 DEF IsTableOf

GivenUp(t, s) == [t EXCEPT !.sessions[s] = None, !.order = Tail(@)]

\* The session in front is given up.
LEMMA RemovedSessions ==
    ASSUME NEW Srcs, NEW Ids, NEW P, None \notin SessionSet(Ids, P),
           NEW t, NEW bufs, IsSessions(t, bufs, Srcs, Ids, P), t.order # << >>,
           NEW s, s = Head(t.order)
    PROVE  /\ s \in Tracked(t)
           /\ IsTableOf(GivenUp(t, s), Tracked(t) \ {s},
                        BuffersOf(t) \ {t.sessions[s].buffer_idx},
                        t.base, bufs, Srcs, Ids, P)
<1> SUFFICES ASSUME NEW u, u = GivenUp(t, s)
             PROVE  /\ s \in Tracked(t)
                    /\ IsTableOf(u, Tracked(t) \ {s},
                                 BuffersOf(t) \ {t.sessions[s].buffer_idx},
                                 t.base, bufs, Srcs, Ids, P)
  OBVIOUS
<1>1. /\ t = [sessions |-> t.sessions, order |-> t.order, base |-> t.base]
      /\ t.sessions \in [Srcs -> SessionSet(Ids, P) \cup {None}]
      /\ t.order \in Seq(Srcs) /\ t.base \in 0 .. SN
      /\ ToSet(t.order) = Tracked(t) /\ IsInjective(t.order)
  BY DEF IsSessions
<1>2. u = [sessions |-> [t.sessions EXCEPT ![s] = None],
           order |-> Tail(t.order), base |-> t.base]
  BY <1>1 DEF GivenUp
<1>3. /\ u.sessions = [t.sessions EXCEPT ![s] = None]
      /\ u.order = Tail(t.order) /\ u.base = t.base
  <2>1. u.sessions = [t.sessions EXCEPT ![s] = None]
    BY <1>1 DEF GivenUp
  <2>2. u.order = Tail(t.order) /\ u.base = t.base
    BY <1>1 DEF GivenUp
  <2>3. QED
    BY <2>1, <2>2
<1>4. /\ Tail(t.order) \in Seq(Srcs)
      /\ s \in ToSet(t.order)
      /\ ToSet(Tail(t.order)) = ToSet(t.order) \ {s}
      /\ IsInjective(Tail(t.order))
  BY <1>1, TailElements
<1>5. Tracked(t) \subseteq Srcs
  BY <1>1 DEF Tracked
<1>6. /\ s \in Srcs
      /\ u.sessions \in [Srcs -> SessionSet(Ids, P) \cup {None}]
      /\ u.sessions[s] = None
      /\ \A r \in Srcs : r # s => u.sessions[r] = t.sessions[r]
  BY <1>1, <1>3, <1>4, <1>5
<1>7. Tracked(u) = Tracked(t) \ {s}
  BY <1>1, <1>6 DEF Tracked
<1>8. u \in [sessions : [Srcs -> SessionSet(Ids, P) \cup {None}],
             order : Seq(Srcs), base : 0 .. SN]
  BY <1>1, <1>2, <1>3, <1>4, <1>6
<1>9. \A r \in Tracked(u) : r \in Tracked(t) /\ u.sessions[r] = t.sessions[r]
  BY <1>5, <1>6, <1>7
<1>10. BuffersOf(u) = BuffersOf(t) \ {t.sessions[s].buffer_idx}
  <2>1. \A r \in Tracked(t) : r # s => t.sessions[r].buffer_idx # t.sessions[s].buffer_idx
    BY <1>1, <1>4 DEF IsSessions
  <2>2. t.sessions[s].buffer_idx \notin t.base .. SN - 1
    BY <1>1, <1>4 DEF IsSessions
  <2>3. QED
    BY <1>3, <1>7, <1>9, <2>1, <2>2 DEF BuffersOf
<1>11. \A r \in Tracked(u) :
           /\ u.sessions[r] \in SessionSet(Ids, P)
           /\ IsReception(u.sessions[r].gather, bufs[u.sessions[r].buffer_idx], Ids, P)
           /\ u.sessions[r].buffer_idx \notin u.base .. SN - 1
  BY <1>3, <1>9 DEF IsSessions
<1>12. \A r, q \in Tracked(u) :
           u.sessions[r].buffer_idx = u.sessions[q].buffer_idx => r = q
  BY <1>9 DEF IsSessions
<1>13. IsSessions(u, bufs, Srcs, Ids, P)
  BY <1>1, <1>3, <1>4, <1>7, <1>8, <1>11, <1>12 DEF IsSessions
<1>14. QED
  BY <1>1, <1>3, <1>4, <1>7, <1>10, <1>13 DEF IsTableOf

\* A buffer is handed out.
LEMMA HandedOut ==
    ASSUME NEW Srcs, NEW Ids, NEW P,
           NEW t, NEW bufs, IsSessions(t, bufs, Srcs, Ids, P), t.base < SN,
           NEW u, u = [t EXCEPT !.base = @ + 1]
    PROVE  /\ IsSessions(u, bufs, Srcs, Ids, P)
           /\ Tracked(u) = Tracked(t)
           /\ t.base \in BuffersOf(t)
           /\ BuffersOf(u) = BuffersOf(t) \ {t.base}
           /\ u.base = t.base + 1
<1>1. /\ t = [sessions |-> t.sessions, order |-> t.order, base |-> t.base]
      /\ t.sessions \in [Srcs -> SessionSet(Ids, P) \cup {None}]
      /\ t.order \in Seq(Srcs) /\ t.base \in 0 .. SN
  BY DEF IsSessions
<1>2. u = [sessions |-> t.sessions, order |-> t.order, base |-> t.base + 1]
  BY <1>1
<1>3. u.sessions = t.sessions /\ u.order = t.order /\ u.base = t.base + 1
  BY <1>2
<1>4. SN \in Nat /\ t.base + 1 \in 0 .. SN
  BY <1>1, SessionsAssumption
<1>5. Tracked(u) = Tracked(t)
  BY <1>3 DEF Tracked
<1>6. /\ t.base \in t.base .. SN - 1
      /\ u.base .. SN - 1 = (t.base .. SN - 1) \ {t.base}
  BY <1>1, <1>3, <1>4
<1>7. \A r \in Tracked(t) : t.sessions[r].buffer_idx # t.base
  BY <1>6 DEF IsSessions
<1>8. BuffersOf(u) = BuffersOf(t) \ {t.base} /\ t.base \in BuffersOf(t)
  BY <1>3, <1>5, <1>6, <1>7 DEF BuffersOf
<1>9. u \in [sessions : [Srcs -> SessionSet(Ids, P) \cup {None}],
             order : Seq(Srcs), base : 0 .. SN]
  BY <1>1, <1>2, <1>4
<1>10. IsSessions(u, bufs, Srcs, Ids, P)
  BY <1>3, <1>5, <1>6, <1>9 DEF IsSessions
<1>11. QED
  BY <1>3, <1>5, <1>8, <1>10

\* The table a frame is received with has the same buffers, in as good an order.
LEMMA TableForSessions ==
    ASSUME NEW Srcs, NEW Ids, NEW P, None \notin SessionSet(Ids, P),
           NEW t, NEW bufs, IsSessions(t, bufs, Srcs, Ids, P), IsCounted(t),
           \A i \in BuffersOf(t) : i \in Nat /\ bufs[i] \in Seq(P),
           NEW f, f.source \in Srcs, NEW timestamp
    PROVE  IsSound(TableFor(t, f, timestamp), BuffersOf(t), bufs, Srcs, Ids, P)
<1> SUFFICES ASSUME NEW u, u = TableFor(t, f, timestamp)
             PROVE  IsSound(u, BuffersOf(t), bufs, Srcs, Ids, P)
  OBVIOUS
<1> DEFINE s == f.source
<1>1. CASE u = t
  BY <1>1 DEF IsSound
<1>2. CASE u # t
  <2>1. /\ StartsSession(t, f) /\ ~ Panics(t, f)
        /\ u = TryStartNewSession(t, s, timestamp)
    BY <1>2 DEF TableFor
  <2>2. s \notin Tracked(t)
    BY <2>1 DEF StartsSession, Tracked
  <2>3. /\ t.base \in 0 .. SN /\ SN \in Nat
        /\ IsFiniteSet(Tracked(t)) /\ Cardinality(Tracked(t)) = t.base
    BY SessionsAssumption DEF IsSessions, IsCounted
  <2>4. CASE t.base < SN
    <3>1. PICK v : v = [t EXCEPT !.base = @ + 1]
      OBVIOUS
    <3>2. u = Inserted(v, s, t.base)
      BY <2>1, <2>4, <3>1 DEF TryStartNewSession
    <3>3. /\ IsSessions(v, bufs, Srcs, Ids, P)
          /\ Tracked(v) = Tracked(t)
          /\ t.base \in BuffersOf(t)
          /\ BuffersOf(v) = BuffersOf(t) \ {t.base}
          /\ v.base = t.base + 1
      BY <2>4, <3>1, HandedOut
    <3>4. /\ t.base \in Nat /\ t.base \notin BuffersOf(v) /\ bufs[t.base] \in Seq(P)
          /\ s \in Srcs /\ s \notin Tracked(v)
      BY <2>2, <3>3
    <3>5. /\ IsSessions(u, bufs, Srcs, Ids, P)
          /\ Tracked(u) = Tracked(v) \cup {s}
          /\ BuffersOf(u) = BuffersOf(v) \cup {t.base}
          /\ u.base = v.base
      <4>1. IsTableOf(Inserted(v, s, t.base), Tracked(v) \cup {s},
                      BuffersOf(v) \cup {t.base}, v.base, bufs, Srcs, Ids, P)
        BY <3>3, <3>4, InsertedSessions
      <4>2. QED
        BY <3>2, <4>1 DEF IsTableOf
    <3>6. /\ IsFiniteSet(Tracked(t) \cup {s})
          /\ Cardinality(Tracked(t) \cup {s}) = Cardinality(Tracked(t)) + 1
      BY <2>2, <2>3, FS_AddElement
    <3>7. IsCounted(u)
      BY <2>3, <3>3, <3>5, <3>6 DEF IsCounted
    <3>8. QED
      BY <3>3, <3>5, <3>7 DEF IsSound
  <2>5. CASE ~ (t.base < SN)
    <3>1. PICK r : r = Head(t.order)
      OBVIOUS
    <3>2. PICK v : v = GivenUp(t, r)
      OBVIOUS
    <3>3. t.order # << >>
      BY <2>1, <2>3, <2>5 DEF Panics
    <3>4. u = Inserted(v, s, t.sessions[r].buffer_idx)
      BY <1>2, <2>1, <2>5, <3>1, <3>2 DEF TryStartNewSession, GivenUp
    <3>5. /\ IsSessions(v, bufs, Srcs, Ids, P)
          /\ r \in Tracked(t)
          /\ Tracked(v) = Tracked(t) \ {r}
          /\ BuffersOf(v) = BuffersOf(t) \ {t.sessions[r].buffer_idx}
          /\ v.base = t.base
      <4>1. /\ r \in Tracked(t)
            /\ IsTableOf(GivenUp(t, r), Tracked(t) \ {r},
                         BuffersOf(t) \ {t.sessions[r].buffer_idx},
                         t.base, bufs, Srcs, Ids, P)
        BY <3>1, <3>3, RemovedSessions
      <4>2. QED
        BY <3>2, <4>1 DEF IsTableOf
    <3>6. t.sessions[r].buffer_idx \in BuffersOf(t)
      BY <3>5 DEF BuffersOf
    <3>7. /\ t.sessions[r].buffer_idx \in Nat
          /\ t.sessions[r].buffer_idx \notin BuffersOf(v)
          /\ bufs[t.sessions[r].buffer_idx] \in Seq(P)
      BY <3>5, <3>6
    <3>8. s \in Srcs /\ s \notin Tracked(v)
      BY <2>2, <3>5
    <3>9. /\ IsSessions(u, bufs, Srcs, Ids, P)
          /\ Tracked(u) = Tracked(v) \cup {s}
          /\ BuffersOf(u) = BuffersOf(v) \cup {t.sessions[r].buffer_idx}
          /\ u.base = v.base
      <4>1. PICK idx : idx = t.sessions[r].buffer_idx
        OBVIOUS
      <4>2. idx \in Nat /\ idx \notin BuffersOf(v) /\ bufs[idx] \in Seq(P)
        BY <3>7, <4>1
      <4>3. IsTableOf(Inserted(v, s, idx), Tracked(v) \cup {s}, BuffersOf(v) \cup {idx},
                      v.base, bufs, Srcs, Ids, P)
        BY <3>5, <3>8, <4>2, InsertedSessions
      <4>4. QED
        BY <3>4, <4>1, <4>3 DEF IsTableOf
    <3>10. /\ IsFiniteSet(Tracked(v))
           /\ Cardinality(Tracked(v)) = Cardinality(Tracked(t)) - 1
      BY <2>3, <3>5, FS_RemoveElement
    <3>11. /\ IsFiniteSet(Tracked(u))
           /\ Cardinality(Tracked(u)) = Cardinality(Tracked(v)) + 1
      BY <3>8, <3>9, <3>10, FS_AddElement
    <3>12. IsCounted(u)
      <4>1. Cardinality(Tracked(u)) = Cardinality(Tracked(t))
        BY <2>3, <3>10, <3>11
      <4>2. QED
        BY <2>3, <3>5, <3>9, <3>11, <4>1 DEF IsCounted
    <3>13. QED
      BY <3>5, <3>6, <3>9, <3>12 DEF IsSound
  <2>6. QED
    BY <2>4, <2>5
<1>3. QED
  BY <1>1, <1>2

\* A session that is queued again is in the order still, and once.
LEMMA TouchElements ==
    ASSUME NEW Srcs, NEW order \in Seq(Srcs), IsInjective(order),
           NEW s \in ToSet(order), NEW g, NEW timestamp,
           NEW next, next = Touch(order, s, g, timestamp)
    PROVE  /\ next \in Seq(Srcs)
           /\ ToSet(next) = ToSet(order)
           /\ IsInjective(next)
<1>1. CASE next = order
  BY <1>1
<1>2. CASE next # order
  <2>1. PICK k : k = CHOOSE i \in DOMAIN order : order[i] = s
    OBVIOUS
  <2>2. next = Append(RemoveAt(order, k), s)
    BY <1>2, <2>1 DEF Touch
  <2>3. k \in 1 .. Len(order) /\ order[k] = s
    <3>1. \E i \in DOMAIN order : order[i] = s
      BY ToSetElements
    <3>2. k \in DOMAIN order /\ order[k] = s
      BY <2>1, <3>1
    <3>3. QED
      BY <3>2, ToSetElements
  <2>4. s \in Srcs
    BY ToSetElements
  <2>5. PICK rest : rest = RemoveAt(order, k)
    OBVIOUS
  <2>6. rest \in Seq(Srcs) /\ ToSet(rest) = ToSet(order) \ {s} /\ IsInjective(rest)
    BY <2>3, <2>5, RemoveAtProperties, RemoveAtElements
  <2>7. Append(rest, s) \in Seq(Srcs)
    BY <2>4, <2>6, AppendProperties
  <2>8. ToSet(Append(rest, s)) = ToSet(rest) \cup {s} /\ IsInjective(Append(rest, s))
    BY <2>4, <2>6, AppendElements
  <2>9. QED
    BY <2>2, <2>5, <2>6, <2>7, <2>8
<1>3. QED
  BY <1>1, <1>2

Left(t, s, g, next, order) ==
    [t EXCEPT !.sessions[s] = [gather |-> g, buffer_idx |-> next], !.order = order]

\* A session keeps its buffer or exchanges it for one the table does not have.
LEMMA LeftSessions ==
    ASSUME NEW Srcs, NEW Ids, NEW P, None \notin SessionSet(Ids, P),
           NEW t, NEW bufs, IsSessions(t, bufs, Srcs, Ids, P), IsCounted(t),
           NEW s \in Tracked(t), NEW idx, idx = t.sessions[s].buffer_idx,
           NEW g, NEW next \in Nat, next = idx \/ next \notin BuffersOf(t),
           NEW order, NEW timestamp, order = Touch(t.order, s, g, timestamp),
           NEW more, IsReception(g, more[next], Ids, P),
           \A i \in BuffersOf(t) \ {idx} : more[i] = bufs[i]
    PROVE  IsSound(Left(t, s, g, next, order), (BuffersOf(t) \ {idx}) \cup {next},
                   more, Srcs, Ids, P)
<1> SUFFICES ASSUME NEW u, u = Left(t, s, g, next, order)
             PROVE  IsSound(u, (BuffersOf(t) \ {idx}) \cup {next}, more, Srcs, Ids, P)
  OBVIOUS
<1> DEFINE session == [gather |-> g, buffer_idx |-> next]
<1>1. /\ t = [sessions |-> t.sessions, order |-> t.order, base |-> t.base]
      /\ t.sessions \in [Srcs -> SessionSet(Ids, P) \cup {None}]
      /\ t.order \in Seq(Srcs) /\ t.base \in 0 .. SN
      /\ ToSet(t.order) = Tracked(t) /\ IsInjective(t.order)
  BY DEF IsSessions
<1>2. session \in SessionSet(Ids, P) /\ session # None
  BY DEF SessionSet, IsReception
<1>3. Tracked(t) \subseteq Srcs
  BY <1>1 DEF Tracked
<1>4. u = [sessions |-> [t.sessions EXCEPT ![s] = session],
           order |-> order, base |-> t.base]
  BY <1>1 DEF Left
<1>5. session.buffer_idx = next /\ session.gather = g
  OBVIOUS
<1>6. /\ u.sessions = [t.sessions EXCEPT ![s] = session]
      /\ u.order = order /\ u.base = t.base
  <2>1. u.sessions = [t.sessions EXCEPT ![s] = session]
    BY <1>1 DEF Left
  <2>2. u.order = order
    BY <1>1 DEF Left
  <2>3. u.base = t.base
    BY <1>1 DEF Left
  <2>4. QED
    BY <2>1, <2>2, <2>3
<1> HIDE DEF session
<1>7. /\ u.sessions \in [Srcs -> SessionSet(Ids, P) \cup {None}]
      /\ u.sessions[s] = session
      /\ \A r \in Srcs : r # s => u.sessions[r] = t.sessions[r]
  BY <1>1, <1>2, <1>3, <1>6
<1>8. Tracked(u) = Tracked(t)
  BY <1>1, <1>2, <1>3, <1>7 DEF Tracked
<1>9. order \in Seq(Srcs) /\ ToSet(order) = Tracked(u) /\ IsInjective(order)
  <2>1. s \in ToSet(t.order)
    BY <1>1
  <2>2. order \in Seq(Srcs) /\ ToSet(order) = ToSet(t.order) /\ IsInjective(order)
    BY <1>1, <2>1, TouchElements
  <2>3. QED
    BY <1>1, <1>8, <2>2
<1>10. u \in [sessions : [Srcs -> SessionSet(Ids, P) \cup {None}],
              order : Seq(Srcs), base : 0 .. SN]
  BY <1>1, <1>4, <1>7, <1>9
<1>11. \A r \in Tracked(t) : u.sessions[r] = IF r = s THEN session ELSE t.sessions[r]
  BY <1>3, <1>7
<1>12. /\ \A r \in Tracked(t) : r # s => t.sessions[r].buffer_idx # idx
       /\ idx \notin t.base .. SN - 1
       /\ \A r \in Tracked(t) : t.sessions[r].buffer_idx \in BuffersOf(t)
  BY DEF IsSessions, BuffersOf
<1>13. BuffersOf(u) = (BuffersOf(t) \ {idx}) \cup {next}
  BY <1>5, <1>6, <1>8, <1>11, <1>12 DEF BuffersOf
<1>14. ASSUME NEW r \in Tracked(u)
       PROVE  /\ u.sessions[r] \in SessionSet(Ids, P)
              /\ IsReception(u.sessions[r].gather, more[u.sessions[r].buffer_idx], Ids, P)
              /\ u.sessions[r].buffer_idx \notin u.base .. SN - 1
  <2>1. CASE r = s
    <3>1. u.sessions[r] = session
      BY <1>7, <2>1
    <3>2. next \notin t.base .. SN - 1
      BY <1>12 DEF BuffersOf
    <3>3. QED
      BY <1>2, <1>5, <1>6, <3>1, <3>2
  <2>2. CASE r # s
    <3>1. u.sessions[r] = t.sessions[r] /\ r \in Tracked(t)
      BY <1>8, <1>11, <2>2
    <3>2. more[t.sessions[r].buffer_idx] = bufs[t.sessions[r].buffer_idx]
      BY <1>12, <2>2, <3>1
    <3>3. QED
      BY <1>6, <3>1, <3>2 DEF IsSessions
  <2>3. QED
    BY <2>1, <2>2
<1>15. ASSUME NEW r \in Tracked(u), NEW q \in Tracked(u),
              u.sessions[r].buffer_idx = u.sessions[q].buffer_idx
       PROVE  r = q
  <2>1. CASE r = s \/ q = s
    BY <1>5, <1>8, <1>11, <1>12, <1>15, <2>1
  <2>2. CASE r # s /\ q # s
    BY <1>8, <1>11, <1>15, <2>2 DEF IsSessions
  <2>3. QED
    BY <2>1, <2>2
<1>16. IsSessions(u, more, Srcs, Ids, P)
  BY <1>6, <1>9, <1>10, <1>14, <1>15 DEF IsSessions
<1>17. IsCounted(u)
  BY <1>6, <1>8 DEF IsCounted
<1>18. QED
  BY <1>13, <1>16, <1>17 DEF IsSound

-----------------------------------------------------------------------------
(* Instants.                                                                *)

\* A transfer is that of the frame, and began with it or with the one assembled so far;
\* what push_frame leaves is of either instant, and a duplicate changes nothing.
LEMMA PushFrameInstants ==
    ASSUME NEW Ids, NEW P, None \notin Nat, None \notin Ids,
           NEW g, NEW buf, IsReception(g, buf, Ids, P),
           NEW f, f.part \in P, f.transfer_id \in Ids, NEW timestamp \in Nat,
           NEW o, o = PushFrame(g, buf, f, timestamp)
    PROVE  /\ LastTransferTimestamp(o.gather) \in {LastTransferTimestamp(g), timestamp}
           /\ o.transfer # None =>
                  /\ o.transfer.id = f.transfer_id
                  /\ o.gather.state = "Assembled"
                  /\ o.gather.transfer_id = f.transfer_id
                  /\ o.gather.sof_timestamp = o.transfer.timestamp
                  /\ \/ o.transfer.timestamp = timestamp
                     \/ /\ g.state \in Accumulating
                        /\ o.transfer.timestamp = g.sof_timestamp
           /\ o.gather.state \in Accumulating =>
                  \/ o.gather.sof_timestamp = timestamp
                  \/ g.state \in Accumulating /\ o.gather.sof_timestamp = g.sof_timestamp
           /\ IsDuplicate(g, f, timestamp) => o.gather = g /\ o.transfer = None
<1>1. /\ g \in Gathers(Ids, P) /\ FieldsMatchState(g)
      /\ g = [state |-> g.state, sof_timestamp |-> g.sof_timestamp,
              transfer_id |-> g.transfer_id, acc |-> g.acc]
  BY DEF IsReception, Gathers
<1>2. LastTransferTimestamp(g) = g.sof_timestamp
  BY <1>1 DEF LastTransferTimestamp, FieldsMatchState
<1>3. CASE Skips(g, f, timestamp)
  <2>1. o = Outcome(g, buf, None)
    BY <1>3 DEF PushFrame
  <2>2. o.gather = g /\ o.transfer = None
    BY <2>1 DEF Outcome
  <2>3. QED
    BY <2>2
<1>4. CASE ~ Skips(g, f, timestamp)
  <2>1. ~ IsDuplicate(g, f, timestamp)
    BY <1>4 DEF Skips
  <2>2. ASSUME o.gather = StopAssembly(g), o.transfer = None
        PROVE  /\ LastTransferTimestamp(o.gather) = g.sof_timestamp
               /\ o.gather.state \notin Accumulating
    <3>1. /\ o.gather.state = IF g.sof_timestamp = None THEN "Idle" ELSE "IdleLastTransfer"
          /\ o.gather.sof_timestamp = g.sof_timestamp
      BY <1>1, <2>2 DEF StopAssembly
    <3>2. QED
      BY <3>1 DEF LastTransferTimestamp, Accumulating
  <2>3. CASE o = SingleFrameAssembly(f, timestamp)
    <3>1. /\ o.gather = [state |-> "Assembled", sof_timestamp |-> timestamp,
                         transfer_id |-> f.transfer_id, acc |-> << >>]
          /\ o.transfer.id = f.transfer_id /\ o.transfer.timestamp = timestamp
      BY <2>3 DEF SingleFrameAssembly, Outcome, Transfer
    <3>2. QED
      BY <2>1, <3>1 DEF LastTransferTimestamp, Accumulating
  <2>4. CASE o = AccumulateFirst(g, buf, f, timestamp) /\ ~ f.malformed
    <3>1. /\ o.gather = [state |-> "AccumulatedFirst", sof_timestamp |-> timestamp,
                         transfer_id |-> f.transfer_id, acc |-> Parts(f)]
          /\ o.transfer = None
      BY <2>4 DEF AccumulateFirst, Outcome
    <3>2. QED
      BY <2>1, <3>1 DEF LastTransferTimestamp, Accumulating
  <2>5. CASE /\ Continues(g, f, timestamp)
             /\ o = Outcome([g EXCEPT !.state = "Assembled", !.acc = << >>],
                            Written(g, buf, f),
                            Transfer(g.transfer_id, f, g.sof_timestamp, g.acc \o Parts(f)))
    <3>1. /\ o.gather.state = "Assembled" /\ o.gather.sof_timestamp = g.sof_timestamp
          /\ o.gather.transfer_id = g.transfer_id
          /\ o.transfer.id = g.transfer_id /\ o.transfer.timestamp = g.sof_timestamp
      <4>1. PICK h : h = [g EXCEPT !.state = "Assembled", !.acc = << >>]
        OBVIOUS
      <4>2. h = [state |-> "Assembled", sof_timestamp |-> g.sof_timestamp,
                 transfer_id |-> g.transfer_id, acc |-> << >>]
        BY <1>1, <4>1
      <4>3. o.gather = h
        BY <2>5, <4>1 DEF Outcome
      <4>4. o.transfer = Transfer(g.transfer_id, f, g.sof_timestamp, g.acc \o Parts(f))
        BY <2>5 DEF Outcome
      <4>5. QED
        BY <4>2, <4>3, <4>4 DEF Transfer
    <3>2. g.state \in Accumulating /\ g.transfer_id = f.transfer_id
      BY <2>5 DEF Continues, TidMatch
    <3>3. QED
      BY <1>2, <2>1, <3>1, <3>2 DEF LastTransferTimestamp, Accumulating
  <2>6. CASE /\ Continues(g, f, timestamp) /\ ~ f.malformed
             /\ o = AccumulateNext(g, buf, f)
    <3>1. /\ o.gather.state \in Accumulating
          /\ o.gather.sof_timestamp = g.sof_timestamp
          /\ o.transfer = None
      <4>1. PICK h : h = [g EXCEPT !.state = IF f.toggle THEN "AccumulatedEven"
                                                         ELSE "AccumulatedOdd",
                                   !.acc = @ \o Parts(f)]
        OBVIOUS
      <4>2. h = [state |-> IF f.toggle THEN "AccumulatedEven" ELSE "AccumulatedOdd",
                 sof_timestamp |-> g.sof_timestamp,
                 transfer_id |-> g.transfer_id, acc |-> g.acc \o Parts(f)]
        BY <1>1, <4>1
      <4>3. o = Outcome(h, Written(g, buf, f), None)
        BY <2>6, <4>1 DEF AccumulateNext
      <4>4. o.gather = h /\ o.transfer = None
        BY <4>3 DEF Outcome
      <4>5. QED
        BY <4>2, <4>4 DEF Accumulating
    <3>2. g.state \in Accumulating
      BY <2>6 DEF Continues
    <3>3. QED
      BY <1>2, <2>1, <3>1, <3>2 DEF LastTransferTimestamp, Accumulating
  <2>7. CASE o.gather = StopAssembly(g) /\ o.transfer = None
    BY <1>2, <2>1, <2>2, <2>7
  <2>8. QED
    BY <1>4, <2>3, <2>4, <2>5, <2>6, <2>7
       DEF PushFrame, AccumulateFirst, AccumulateNext, FinishAssembly, Outcome
<1>5. QED
  BY <1>3, <1>4

\* The instant of a session, as the order of the sessions goes by.
InstantOf(t, s) == LastTransferTimestamp(t.sessions[s].gather)

NotAfter(a, b) == a = None \/ (b # None /\ a <= b)

\* The sessions are in the order of their instants.
InOrder(t) ==
    \A i, j \in 1 .. Len(t.order) :
        i < j => NotAfter(InstantOf(t, t.order[i]), InstantOf(t, t.order[j]))

\* The order stays so with a session in front that has no transfer yet.
LEMMA InsertedSorted ==
    ASSUME NEW Srcs, NEW Ids, NEW P, NEW t, NEW bufs,
           IsSessions(t, bufs, Srcs, Ids, P), InOrder(t),
           NEW s \in Srcs, s \notin Tracked(t), NEW idx
    PROVE  InOrder(Inserted(t, s, idx))
<1> SUFFICES ASSUME NEW u, u = Inserted(t, s, idx)
             PROVE  InOrder(u)
  OBVIOUS
<1>1. /\ t = [sessions |-> t.sessions, order |-> t.order, base |-> t.base]
      /\ DOMAIN t.sessions = Srcs
      /\ t.order \in Seq(Srcs) /\ ToSet(t.order) = Tracked(t) /\ IsInjective(t.order)
  BY DEF IsSessions
<1>2. /\ u.sessions = [t.sessions EXCEPT ![s] = [gather |-> Default, buffer_idx |-> idx]]
      /\ u.order = << s >> \o t.order
  <2>1. u.sessions = [t.sessions EXCEPT ![s] = [gather |-> Default, buffer_idx |-> idx]]
    BY <1>1 DEF Inserted
  <2>2. u.order = << s >> \o t.order
    BY <1>1 DEF Inserted
  <2>3. QED
    BY <2>1, <2>2
<1>3. /\ Len(t.order) \in Nat
      /\ Len(u.order) = Len(t.order) + 1
      /\ \A i \in 1 .. Len(t.order) + 1 :
             u.order[i] = IF i = 1 THEN s ELSE t.order[i - 1]
      /\ \A i \in 1 .. Len(t.order) : t.order[i] \in Srcs /\ t.order[i] # s
  BY <1>1, <1>2, PrependElements, ToSetElements
<1>4. InstantOf(u, s) = None
  BY <1>1, <1>2 DEF InstantOf, LastTransferTimestamp, Default
<1>5. \A r \in Srcs : r # s => InstantOf(u, r) = InstantOf(t, r)
  BY <1>1, <1>2 DEF InstantOf
<1>6. SUFFICES ASSUME NEW i \in 1 .. Len(u.order), NEW j \in 1 .. Len(u.order), i < j
               PROVE  NotAfter(InstantOf(u, u.order[i]), InstantOf(u, u.order[j]))
  BY DEF InOrder
<1>7. CASE i = 1
  BY <1>3, <1>4, <1>7 DEF NotAfter
<1>8. CASE i # 1
  <2>1. /\ i - 1 \in 1 .. Len(t.order) /\ j - 1 \in 1 .. Len(t.order) /\ i - 1 < j - 1
        /\ u.order[i] = t.order[i - 1] /\ u.order[j] = t.order[j - 1]
    BY <1>3, <1>6, <1>8
  <2>2. /\ InstantOf(u, u.order[i]) = InstantOf(t, t.order[i - 1])
        /\ InstantOf(u, u.order[j]) = InstantOf(t, t.order[j - 1])
    BY <1>3, <1>5, <2>1
  <2>3. NotAfter(InstantOf(t, t.order[i - 1]), InstantOf(t, t.order[j - 1]))
    BY <2>1 DEF InOrder
  <2>4. QED
    BY <2>2, <2>3
<1>9. QED
  BY <1>7, <1>8

\* And without the one in front.
LEMMA GivenUpSorted ==
    ASSUME NEW Srcs, NEW Ids, NEW P, NEW t, NEW bufs,
           IsSessions(t, bufs, Srcs, Ids, P), InOrder(t), t.order # << >>,
           NEW s, s = Head(t.order)
    PROVE  InOrder(GivenUp(t, s))
<1> SUFFICES ASSUME NEW u, u = GivenUp(t, s)
             PROVE  InOrder(u)
  OBVIOUS
<1>1. /\ t = [sessions |-> t.sessions, order |-> t.order, base |-> t.base]
      /\ DOMAIN t.sessions = Srcs
      /\ t.order \in Seq(Srcs) /\ IsInjective(t.order)
  BY DEF IsSessions
<1>2. /\ u.sessions = [t.sessions EXCEPT ![s] = None]
      /\ u.order = Tail(t.order)
  <2>1. u.sessions = [t.sessions EXCEPT ![s] = None]
    BY <1>1 DEF GivenUp
  <2>2. u.order = Tail(t.order)
    BY <1>1 DEF GivenUp
  <2>3. QED
    BY <2>1, <2>2
<1>3. /\ Len(t.order) \in Nat /\ Len(t.order) # 0
      /\ Len(u.order) = Len(t.order) - 1
      /\ \A i \in 1 .. Len(u.order) : u.order[i] = t.order[i + 1]
      /\ s = t.order[1]
  BY <1>1, <1>2, HeadTailProperties, LenProperties, EmptySeq
<1>4. \A i \in 1 .. Len(t.order) : t.order[i] \in Srcs
  BY <1>1, ElementOfSeq
<1>5. \A i \in 1 .. Len(u.order) :
          i + 1 \in 1 .. Len(t.order) /\ InstantOf(u, u.order[i]) = InstantOf(t, t.order[i + 1])
  <2>1. SUFFICES ASSUME NEW i \in 1 .. Len(u.order)
                 PROVE  /\ i + 1 \in 1 .. Len(t.order)
                        /\ InstantOf(u, u.order[i]) = InstantOf(t, t.order[i + 1])
    OBVIOUS
  <2>2. i + 1 \in 1 .. Len(t.order) /\ 1 \in 1 .. Len(t.order) /\ i + 1 # 1
    BY <1>3
  <2>3. DOMAIN t.order = 1 .. Len(t.order)
    BY <1>1, LenProperties
  <2>4. t.order[i + 1] # s /\ t.order[i + 1] \in Srcs
    BY <1>1, <1>3, <1>4, <2>2, <2>3 DEF IsInjective
  <2>5. QED
    BY <1>1, <1>2, <1>3, <2>2, <2>4 DEF InstantOf
<1>6. SUFFICES ASSUME NEW i \in 1 .. Len(u.order), NEW j \in 1 .. Len(u.order), i < j
               PROVE  NotAfter(InstantOf(u, u.order[i]), InstantOf(u, u.order[j]))
  BY DEF InOrder
<1>7. i + 1 < j + 1
  BY <1>3, <1>6
<1>8. NotAfter(InstantOf(t, t.order[i + 1]), InstantOf(t, t.order[j + 1]))
  BY <1>5, <1>7 DEF InOrder
<1>9. QED
  BY <1>5, <1>8


\* What a table is to one that a session more was started in: it has the others' sessions
\* as they were, and has given up only those that expired.
Follows(u, t, s, timestamp) ==
    /\ \A r \in Tracked(u) :
           \/ r \in Tracked(t) /\ u.sessions[r] = t.sessions[r]
           \/ r = s /\ s \notin Tracked(t) /\ u.sessions[r].gather = Default
    /\ \A r \in Tracked(t) \ Tracked(u) : r # s /\ Expired(t, r, timestamp)

\* The table a frame is received with is in as good an order, and its sessions are the
\* ones there were but for those that expired.
LEMMA TableForFollows ==
    ASSUME NEW Srcs, NEW Ids, NEW P, None \notin SessionSet(Ids, P),
           NEW t, NEW bufs, IsSessions(t, bufs, Srcs, Ids, P), InOrder(t),
           NEW f, f.source \in Srcs, NEW timestamp
    PROVE  /\ InOrder(TableFor(t, f, timestamp))
           /\ Follows(TableFor(t, f, timestamp), t, f.source, timestamp)
<1> SUFFICES ASSUME NEW u, u = TableFor(t, f, timestamp)
             PROVE  InOrder(u) /\ Follows(u, t, f.source, timestamp)
  OBVIOUS
<1>1. PICK s \in Srcs : s = f.source
  OBVIOUS
<1>2. CASE u = t
  BY <1>2 DEF Follows
<1>3. CASE u # t
  <2>1. /\ StartsSession(t, f) /\ ~ Panics(t, f)
        /\ u = TryStartNewSession(t, s, timestamp)
    BY <1>1, <1>3 DEF TableFor
  <2>2. s \notin Tracked(t)
    BY <1>1, <2>1 DEF StartsSession, Tracked
  <2>3. /\ t = [sessions |-> t.sessions, order |-> t.order, base |-> t.base]
        /\ t.sessions \in [Srcs -> SessionSet(Ids, P) \cup {None}]
        /\ Tracked(t) \subseteq Srcs
        /\ t.base \in 0 .. SN /\ SN \in Nat
    BY SessionsAssumption DEF IsSessions, Tracked
  <2>4. ASSUME NEW v, NEW idx \in Nat, u = Inserted(v, s, idx),
               IsSessions(v, bufs, Srcs, Ids, P), InOrder(v), s \notin Tracked(v)
        PROVE  /\ InOrder(u)
               /\ Tracked(u) = Tracked(v) \cup {s}
               /\ u.sessions[s].gather = Default
               /\ \A r \in Srcs : r # s => u.sessions[r] = v.sessions[r]
    <3>1. InOrder(Inserted(v, s, idx))
      BY <2>4, InsertedSorted
    <3>2. /\ v = [sessions |-> v.sessions, order |-> v.order, base |-> v.base]
          /\ DOMAIN v.sessions = Srcs
      BY <2>4 DEF IsSessions
    <3>3. PICK session : session = [gather |-> Default, buffer_idx |-> idx]
      OBVIOUS
    <3>4. u.sessions = [v.sessions EXCEPT ![s] = session]
      BY <2>4, <3>2, <3>3 DEF Inserted
    <3>5. /\ DOMAIN u.sessions = Srcs
          /\ u.sessions[s] = session
          /\ \A r \in Srcs : r # s => u.sessions[r] = v.sessions[r]
      BY <3>2, <3>4
    <3>6. session # None
      <4>1. IsReception(Default, << >>, Ids, P)
        BY DefaultIsReception, EmptySeq
      <4>2. session \in SessionSet(Ids, P)
        BY <3>3, <4>1 DEF SessionSet, IsReception
      <4>3. QED
        BY <4>2
    <3>7. Tracked(u) = Tracked(v) \cup {s}
      BY <3>2, <3>5, <3>6 DEF Tracked
    <3>8. QED
      BY <2>4, <3>1, <3>3, <3>5, <3>7
  <2>5. CASE t.base < SN
    <3>1. PICK v : v = [t EXCEPT !.base = @ + 1]
      OBVIOUS
    <3>2. u = Inserted(v, s, t.base)
      BY <2>1, <2>5, <3>1 DEF TryStartNewSession
    <3>3. IsSessions(v, bufs, Srcs, Ids, P) /\ Tracked(v) = Tracked(t)
      BY <2>5, <3>1, HandedOut
    <3>4. v.sessions = t.sessions /\ v.order = t.order
      <4>1. v = [sessions |-> t.sessions, order |-> t.order, base |-> t.base + 1]
        BY <2>3, <3>1
      <4>2. QED
        BY <4>1
    <3>5. InOrder(v)
      BY <3>4 DEF InOrder, InstantOf
    <3>6. /\ InOrder(u)
          /\ Tracked(u) = Tracked(v) \cup {s}
          /\ u.sessions[s].gather = Default
          /\ \A r \in Srcs : r # s => u.sessions[r] = v.sessions[r]
      <4>1. t.base \in Nat
        BY <2>3
      <4>2. QED
        BY <2>2, <2>4, <3>2, <3>3, <3>5, <4>1
    <3>7. Follows(u, t, s, timestamp)
      BY <2>2, <2>3, <3>3, <3>4, <3>6 DEF Follows
    <3>8. QED
      BY <1>1, <3>6, <3>7
  <2>6. CASE ~ (t.base < SN)
    <3>1. PICK r : r = Head(t.order)
      OBVIOUS
    <3>2. PICK v : v = GivenUp(t, r)
      OBVIOUS
    <3>3. t.order # << >>
      BY <2>1, <2>3, <2>6 DEF Panics
    <3>4. /\ u = Inserted(v, s, t.sessions[r].buffer_idx)
          /\ Expired(t, r, timestamp)
      BY <1>3, <2>1, <2>6, <3>1, <3>2 DEF TryStartNewSession, GivenUp
    <3>5. /\ IsSessions(v, bufs, Srcs, Ids, P)
          /\ r \in Tracked(t)
          /\ Tracked(v) = Tracked(t) \ {r}
      <4>1. /\ r \in Tracked(t)
            /\ IsTableOf(GivenUp(t, r), Tracked(t) \ {r},
                         BuffersOf(t) \ {t.sessions[r].buffer_idx},
                         t.base, bufs, Srcs, Ids, P)
        BY <3>1, <3>3, RemovedSessions
      <4>2. QED
        BY <3>2, <4>1 DEF IsTableOf
    <3>6. InOrder(v)
      <4>1. InOrder(GivenUp(t, r))
        BY <3>1, <3>3, GivenUpSorted
      <4>2. QED
        BY <3>2, <4>1
    <3>7. \A q \in Srcs : q # r => v.sessions[q] = t.sessions[q]
      <4>1. v.sessions = [t.sessions EXCEPT ![r] = None]
        BY <2>3, <3>2 DEF GivenUp
      <4>2. QED
        BY <2>3, <4>1
    <3>8. /\ InOrder(u)
          /\ Tracked(u) = Tracked(v) \cup {s}
          /\ u.sessions[s].gather = Default
          /\ \A q \in Srcs : q # s => u.sessions[q] = v.sessions[q]
      <4>1. t.sessions[r].buffer_idx \in Nat
        BY <3>5 DEF IsSessions, SessionSet
      <4>2. QED
        BY <2>2, <2>4, <3>4, <3>5, <3>6, <4>1
    <3>9. Follows(u, t, s, timestamp)
      BY <2>2, <2>3, <3>4, <3>5, <3>7, <3>8 DEF Follows
    <3>10. QED
      BY <1>1, <3>8, <3>9
  <2>7. QED
    BY <2>5, <2>6
<1>4. QED
  BY <1>1, <1>2, <1>3


\* A session that began its transfer last is queued behind the others, any other session
\* stays where it is: the order stays as good.
LEMMA LeftSorted ==
    ASSUME NEW Srcs, NEW Ids, NEW P, None \notin Nat,
           NEW t, NEW bufs, IsSessions(t, bufs, Srcs, Ids, P), InOrder(t),
           NEW s \in Tracked(t), NEW g, NEW next, NEW timestamp \in Nat,
           NEW order, order = Touch(t.order, s, g, timestamp),
           LastTransferTimestamp(g) \in {InstantOf(t, s), timestamp},
           \A r \in Tracked(t) : InstantOf(t, r) = None \/ InstantOf(t, r) <= timestamp
    PROVE  InOrder(Left(t, s, g, next, order))
<1> SUFFICES ASSUME NEW u, u = Left(t, s, g, next, order)
             PROVE  InOrder(u)
  OBVIOUS
<1>1. /\ t = [sessions |-> t.sessions, order |-> t.order, base |-> t.base]
      /\ DOMAIN t.sessions = Srcs /\ Tracked(t) \subseteq Srcs
      /\ t.order \in Seq(Srcs) /\ ToSet(t.order) = Tracked(t) /\ IsInjective(t.order)
  BY DEF IsSessions, Tracked
<1>2. PICK session : session = [gather |-> g, buffer_idx |-> next]
  OBVIOUS
<1>3. /\ u.sessions = [t.sessions EXCEPT ![s] = session]
      /\ u.order = order
  <2>1. u.sessions = [t.sessions EXCEPT ![s] = session]
    BY <1>1, <1>2 DEF Left
  <2>2. u.order = order
    BY <1>1 DEF Left
  <2>3. QED
    BY <2>1, <2>2
<1>4. /\ InstantOf(u, s) = LastTransferTimestamp(g)
      /\ \A r \in Srcs : r # s => InstantOf(u, r) = InstantOf(t, r)
  BY <1>1, <1>2, <1>3 DEF InstantOf
<1>5. /\ Len(t.order) \in Nat /\ DOMAIN t.order = 1 .. Len(t.order)
      /\ \A i \in 1 .. Len(t.order) : t.order[i] \in Tracked(t) /\ t.order[i] \in Srcs
  BY <1>1, ToSetElements
<1>6. CASE LastTransferTimestamp(g) # timestamp
  <2>1. u.order = t.order /\ InstantOf(u, s) = InstantOf(t, s)
    BY <1>3, <1>4, <1>6 DEF Touch
  <2>2. \A i \in 1 .. Len(t.order) : InstantOf(u, t.order[i]) = InstantOf(t, t.order[i])
    BY <1>4, <1>5, <2>1
  <2>3. QED
    BY <2>1, <2>2 DEF InOrder
<1>7. CASE LastTransferTimestamp(g) = timestamp
  <2>1. PICK k : k = CHOOSE i \in DOMAIN t.order : t.order[i] = s
    OBVIOUS
  <2>2. k \in 1 .. Len(t.order) /\ t.order[k] = s
    <3>1. \E i \in DOMAIN t.order : t.order[i] = s
      BY <1>1, ToSetElements
    <3>2. k \in DOMAIN t.order /\ t.order[k] = s
      BY <2>1, <3>1
    <3>3. QED
      BY <1>5, <3>2
  <2>3. PICK rest : rest = RemoveAt(t.order, k)
    OBVIOUS
  <2>4. u.order = Append(rest, s)
    BY <1>3, <1>7, <2>1, <2>3 DEF Touch
  <2>5. /\ rest \in Seq(Srcs)
        /\ Len(rest) = Len(t.order) - 1
        /\ \A i \in 1 .. Len(t.order) - 1 :
               rest[i] = IF i < k THEN t.order[i] ELSE t.order[i + 1]
    BY <1>1, <2>2, <2>3, RemoveAtProperties
  <2>6. /\ Len(u.order) = Len(t.order)
        /\ \A i \in 1 .. Len(rest) : u.order[i] = rest[i]
        /\ u.order[Len(t.order)] = s
    BY <1>1, <1>5, <2>4, <2>5, AppendProperties
  <2>7. \A i \in 1 .. Len(t.order) - 1 : u.order[i] = t.order[IF i < k THEN i ELSE i + 1]
    BY <1>5, <2>5, <2>6
  <2>8. \A i \in 1 .. Len(t.order) : i # k =>
            InstantOf(u, t.order[i]) = InstantOf(t, t.order[i])
    <3>1. \A i \in 1 .. Len(t.order) : i # k => t.order[i] # s
      BY <1>1, <1>5, <2>2 DEF IsInjective
    <3>2. QED
      BY <1>4, <1>5, <3>1
  <2>9. SUFFICES ASSUME NEW i \in 1 .. Len(t.order), NEW j \in 1 .. Len(t.order), i < j
                 PROVE  NotAfter(InstantOf(u, u.order[i]), InstantOf(u, u.order[j]))
    BY <2>6 DEF InOrder
  <2>10. PICK m : m = IF i < k THEN i ELSE i + 1
    OBVIOUS
  <2>11. /\ m \in 1 .. Len(t.order) /\ m # k
         /\ u.order[i] = t.order[m]
         /\ InstantOf(u, u.order[i]) = InstantOf(t, t.order[m])
    <3>1. i \in 1 .. Len(t.order) - 1
      BY <1>5, <2>9
    <3>2. m \in 1 .. Len(t.order) /\ m # k
      BY <1>5, <2>2, <2>10, <3>1
    <3>3. u.order[i] = t.order[m]
      BY <2>7, <2>10, <3>1
    <3>4. QED
      BY <2>8, <3>2, <3>3
  <2>12. CASE j = Len(t.order)
    <3>1. InstantOf(u, u.order[j]) = timestamp
      BY <1>4, <1>7, <2>6, <2>12
    <3>2. InstantOf(t, t.order[m]) = None \/ InstantOf(t, t.order[m]) <= timestamp
      BY <1>5, <2>11
    <3>3. QED
      BY <2>11, <3>1, <3>2 DEF NotAfter
  <2>13. CASE j # Len(t.order)
    <3>1. PICK n : n = IF j < k THEN j ELSE j + 1
      OBVIOUS
    <3>2. j \in 1 .. Len(t.order) - 1
      BY <1>5, <2>13
    <3>3. n \in 1 .. Len(t.order) /\ n # k /\ m < n
      BY <1>5, <2>2, <2>9, <2>10, <3>1, <3>2
    <3>4. u.order[j] = t.order[n]
      BY <2>7, <3>1, <3>2
    <3>5. InstantOf(u, u.order[j]) = InstantOf(t, t.order[n])
      BY <2>8, <3>3, <3>4
    <3>6. NotAfter(InstantOf(t, t.order[m]), InstantOf(t, t.order[n]))
      BY <2>11, <3>3 DEF InOrder
    <3>7. QED
      BY <2>11, <3>5, <3>6
  <2>14. QED
    BY <2>12, <2>13
<1>8. QED
  BY <1>6, <1>7


\* What a frame does to a table: the session has another gather, the others are the same.
IsLeft(u, t, s, g) ==
    /\ Tracked(u) = Tracked(t)
    /\ u.sessions[s].gather = g
    /\ \A r \in Tracked(t) : r # s => u.sessions[r] = t.sessions[r]

LEMMA LeftIsLeft ==
    ASSUME NEW Srcs, NEW Ids, NEW P, None \notin SessionSet(Ids, P),
           NEW t, NEW bufs, IsSessions(t, bufs, Srcs, Ids, P),
           NEW s \in Tracked(t), NEW g \in Gathers(Ids, P), NEW next \in Nat, NEW order
    PROVE  IsLeft(Left(t, s, g, next, order), t, s, g)
<1> SUFFICES ASSUME NEW u, u = Left(t, s, g, next, order)
             PROVE  IsLeft(u, t, s, g)
  OBVIOUS
<1>1. /\ t = [sessions |-> t.sessions, order |-> t.order, base |-> t.base]
      /\ DOMAIN t.sessions = Srcs /\ Tracked(t) \subseteq Srcs
  BY DEF IsSessions, Tracked
<1>2. PICK session : session = [gather |-> g, buffer_idx |-> next]
  OBVIOUS
<1>3. session # None /\ session.gather = g
  BY <1>2 DEF SessionSet
<1>4. u.sessions = [t.sessions EXCEPT ![s] = session]
  BY <1>1, <1>2 DEF Left
<1>5. /\ DOMAIN u.sessions = Srcs
      /\ u.sessions[s] = session
      /\ \A r \in Srcs : r # s => u.sessions[r] = t.sessions[r]
  BY <1>1, <1>4
<1>6. Tracked(u) = Tracked(t)
  BY <1>1, <1>3, <1>5 DEF Tracked
<1>7. QED
  BY <1>1, <1>3, <1>5, <1>6 DEF IsLeft

=============================================================================
