---------------------------- MODULE TransmitProofs ----------------------------
(***************************************************************************)
(* Theorems about transmission, for any endpoints, priorities and lengths. *)
(*                                                                         *)
(* TxPath: no payload buffer is shared or lost, every entry is in the list *)
(* it belongs to, the messages of a priority are not mixed on the bus, and *)
(* neither the driver nor a writer misses what it waits for.               *)
(*                                                                         *)
(* TransferLink: no frame is lost or doubled on its way through the        *)
(* transmit task and the mailboxes; and the receiver's session completes   *)
(* nothing that was not sent, and whatever reaches it undisturbed.         *)
(***************************************************************************)
EXTENDS TxPath, TransferLink, SequenceLemmas, FiniteSetTheorems

-----------------------------------------------------------------------------
(* Payload buffers.                                                         *)

\* Of n payload buffers each is free, the scratchpad, or at one of the places of
\* transfers; at has the index of the buffer of each place.
IsStock(at, free, scratchpad, n) ==
    /\ free \in Seq(0 .. n - 1) /\ IsInjective(free)
    /\ scratchpad # None => scratchpad \in 0 .. n - 1 /\ scratchpad \notin ToSet(free)
    /\ \A s \in DOMAIN at : at[s] # None =>
           at[s] \in 0 .. n - 1 /\ at[s] \notin ToSet(free) /\ at[s] # scratchpad
    /\ \A r, s \in DOMAIN at : at[r] # None /\ at[r] = at[s] => r = s
    /\ \A i \in 0 .. n - 1 :
           i \in ToSet(free) \/ i = scratchpad \/ \E s \in DOMAIN at : at[s] = i

\* A free buffer becomes the scratchpad.
LEMMA StockTakesFree ==
    ASSUME NEW at, NEW free, NEW n \in Nat, IsStock(at, free, None, n), free # << >>
    PROVE  IsStock(at, Front(free), Last(free), n)
<1>1. free \in Seq(0 .. n - 1) /\ IsInjective(free)
  BY DEF IsStock
<1>2. PICK f, x : f = Front(free) /\ x = Last(free)
  OBVIOUS
<1>3. /\ f \in Seq(0 .. n - 1)
      /\ x \in ToSet(free) /\ x \in 0 .. n - 1
      /\ ToSet(f) = ToSet(free) \ {x}
      /\ IsInjective(f)
  BY <1>1, <1>2, FrontElements
<1>4. x # None
  BY <1>3, TxPathAssumption
<1>5. \A s \in DOMAIN at : at[s] # None =>
          at[s] \in 0 .. n - 1 /\ at[s] \notin ToSet(f) /\ at[s] # x
  BY <1>3 DEF IsStock
<1>6. \A i \in 0 .. n - 1 :
          i \in ToSet(f) \/ i = x \/ \E s \in DOMAIN at : at[s] = i
  <2>1. SUFFICES ASSUME NEW i \in 0 .. n - 1, i \notin ToSet(free)
                 PROVE  \E s \in DOMAIN at : at[s] = i
    BY <1>3
  <2>2. i # None
    BY TxPathAssumption
  <2>3. QED
    BY <2>1, <2>2 DEF IsStock
<1>7. \A r, s \in DOMAIN at : at[r] # None /\ at[r] = at[s] => r = s
  BY DEF IsStock
<1>8. IsStock(at, f, x, n)
  BY <1>3, <1>4, <1>5, <1>6, <1>7 DEF IsStock
<1>9. QED
  BY <1>2, <1>8

\* The buffer of a place becomes the scratchpad.
LEMMA StockTakesPlace ==
    ASSUME NEW D, NEW at \in [D -> Nat \cup {None}], NEW free, NEW n \in Nat,
           IsStock(at, free, None, n), NEW s \in D, at[s] # None
    PROVE  IsStock([at EXCEPT ![s] = None], free, at[s], n)
<1> DEFINE after == [at EXCEPT ![s] = None]
<1>1. /\ DOMAIN at = D /\ DOMAIN after = D
      /\ \A r \in D : after[r] = IF r = s THEN None ELSE at[r]
  OBVIOUS
<1> HIDE DEF after
<1>2. QED
  BY <1>1 DEF IsStock, after

\* The scratchpad comes to a place that has no buffer.
LEMMA StockFillsPlace ==
    ASSUME NEW D, NEW at \in [D -> Nat \cup {None}], NEW free, NEW scratchpad, NEW n \in Nat,
           IsStock(at, free, scratchpad, n), scratchpad # None,
           NEW s \in D, at[s] = None
    PROVE  IsStock([at EXCEPT ![s] = scratchpad], free, None, n)
<1> DEFINE after == [at EXCEPT ![s] = scratchpad]
<1>1. /\ DOMAIN at = D /\ DOMAIN after = D
      /\ \A r \in D : after[r] = IF r = s THEN scratchpad ELSE at[r]
  OBVIOUS
<1> HIDE DEF after
<1>2. \A i \in 0 .. n - 1 : i # None
  BY TxPathAssumption
<1>3. QED
  BY <1>1, <1>2 DEF IsStock, after

\* The buffer of a place is freed.
LEMMA StockFrees ==
    ASSUME NEW D, NEW at \in [D -> Nat \cup {None}], NEW free, NEW scratchpad, NEW n \in Nat,
           IsStock(at, free, scratchpad, n), NEW s \in D, at[s] # None
    PROVE  IsStock([at EXCEPT ![s] = None], Append(free, at[s]), scratchpad, n)
<1> DEFINE after == [at EXCEPT ![s] = None]
<1>1. /\ DOMAIN at = D /\ DOMAIN after = D
      /\ \A r \in D : after[r] = IF r = s THEN None ELSE at[r]
  OBVIOUS
<1>2. at[s] \in 0 .. n - 1 /\ at[s] \notin ToSet(free) /\ at[s] # scratchpad
  BY <1>1 DEF IsStock
<1>3. PICK f : f = Append(free, at[s])
  OBVIOUS
<1>4. /\ f \in Seq(0 .. n - 1)
      /\ ToSet(f) = ToSet(free) \cup {at[s]}
      /\ IsInjective(f)
  BY <1>2, <1>3, AppendElements, AppendProperties DEF IsStock
<1> HIDE DEF after
<1>5. \A r \in D : after[r] # None => after[r] # at[s]
  BY <1>1 DEF IsStock
<1>6. QED
  BY <1>1, <1>2, <1>3, <1>4, <1>5 DEF IsStock, after

\* The buffer of a place comes to another one.
LEMMA StockMoves ==
    ASSUME NEW D, NEW at \in [D -> Nat \cup {None}], NEW free, NEW scratchpad, NEW n \in Nat,
           IsStock(at, free, scratchpad, n), NEW s \in D, NEW r \in D, r # s, at[r] = None
    PROVE  IsStock([at EXCEPT ![s] = None, ![r] = at[s]], free, scratchpad, n)
<1> DEFINE after == [at EXCEPT ![s] = None, ![r] = at[s]]
<1>1. /\ DOMAIN at = D /\ DOMAIN after = D
      /\ \A q \in D : after[q] = IF q = s THEN None ELSE IF q = r THEN at[s] ELSE at[q]
  OBVIOUS
<1> HIDE DEF after
<1>2. QED
  BY <1>1 DEF IsStock, after

-----------------------------------------------------------------------------
(* The buffers. A transfer that is kept has a frame to be fetched.          *)

\* The payload buffers of the transfers at their places.
Indexes(t) == [s \in DOMAIN t |-> IF t[s] = None THEN None ELSE t[s].buffer_idx]

InProgress(t) == t # None => t.sent < t.frames

\* One transfer at most was begun.
IsSignal(b) ==
    /\ b \in SignalStates
    /\ b.pending # None => b.pending.sent = 0
    /\ b.fragmented # None => b.fragmented.sent > 0 /\ InProgress(b.fragmented)
    /\ IsStock(Indexes(TransfersOf(b)), b.free, b.scratchpad, 2)

IsBlocking(b) == b \in BlockingStates /\ InProgress(b.pending)

IsResponse(b) ==
    /\ b \in ResponseStates
    /\ \A p \in Priorities : InProgress(b.transfers[p])
    /\ IsStock(Indexes(b.transfers), b.free, b.scratchpad, Cardinality(Priorities))

IsBuffer(b) == IsSignal(b) \/ IsBlocking(b) \/ IsResponse(b)

\* What a call leaves of the kind of a buffer, and of the transfers that were begun.
IsSameKind(b, after) ==
    after.kind = b.kind /\ (b.kind # "Response" => after.priority = b.priority)

GoesOn(b, after) ==
    \A p \in Begun(b) :
        LET t == BegunTransfer(b, p)
        IN  IF p \in Begun(after) THEN BegunTransfer(after, p) \in {t, Fetched(t)}
                                  ELSE Exhausted(Fetched(t))

\* What is promised of get_scratchpad: the queue need not be told.
ScratchpadPromise(b) ==
    LET after == GetScratchpad(b)
    IN  /\ IsBuffer(after) /\ IsSameKind(b, after)
        /\ PopReadiness(after) = PopReadiness(b)
        /\ PushReadiness(after) = PushReadiness(b)
        /\ Begun(after) = Begun(b) /\ GoesOn(b, after)
        /\ PushReadiness(b) # {} => HasScratchpad(after)

\* Of try_push,
PushPromise(b, p, size) ==
    LET after == Push(b, p, size)
    IN  /\ IsBuffer(after) /\ IsSameKind(b, after)
        /\ PopReadiness(after) = PopReadiness(b) \cup {p}
        /\ Begun(after) = Begun(b) /\ GoesOn(b, after)

\* and of try_pop: there is a frame, and whom the change is of use to is told.
PopPromise(b, p) ==
    LET o == TryPop(b, p)
    IN  /\ o.frame \in [sot : BOOLEAN, eot : BOOLEAN]
        /\ IsBuffer(o.buffer) /\ IsSameKind(b, o.buffer)
        /\ Begun(o.buffer) = StartedAfter(o.frame, Begun(b), p)
        /\ GoesOn(b, o.buffer)
        /\ PushReadiness(b) \subseteq PushReadiness(o.buffer)
        /\ PushReadiness(o.buffer) \subseteq PushReadiness(b) \cup o.ready
        /\ HasScratchpad(b) => HasScratchpad(o.buffer)
        /\ IsEmpty(o.buffer) => o.empty

\* What a fetched frame does to a transfer.
LEMMA FetchedTransfer ==
    ASSUME NEW t \in TxTransfers, t.sent < t.frames
    PROVE  /\ t # None
           /\ Fetched(t) \in TxTransfers /\ Fetched(t) # None
           /\ Fetched(t).buffer_idx = t.buffer_idx
           /\ Fetched(t).frames = t.frames /\ Fetched(t).sent = t.sent + 1
           /\ FrameOf(t) \in [sot : BOOLEAN, eot : BOOLEAN] /\ FrameOf(t) # None
           /\ FrameOf(t).eot = Exhausted(Fetched(t))
           /\ Exhausted(Fetched(t)) <=> t.sent + 1 = t.frames
           /\ ~ Exhausted(Fetched(t)) => Fetched(t).sent < Fetched(t).frames
           /\ Fetched(t).sent > 0
<1>1. t \in [buffer_idx : Nat, frames : Nat \ {0}, sent : Nat] /\ t # None
  BY TxPathAssumption DEF TxTransfers
<1>2. Fetched(t) = [buffer_idx |-> t.buffer_idx, frames |-> t.frames, sent |-> t.sent + 1]
  BY <1>1 DEF Fetched
<1>3. Fetched(t) \in TxTransfers /\ Fetched(t) # None
  BY <1>1, <1>2, TxPathAssumption DEF TxTransfers
<1>4. Exhausted(Fetched(t)) \in BOOLEAN
  BY DEF Exhausted
<1>5. /\ FrameOf(t) = [sot |-> t.sent = 0, eot |-> Exhausted(Fetched(t))]
      /\ FrameOf(t) \in [sot : BOOLEAN, eot : BOOLEAN]
  BY <1>4 DEF FrameOf
<1>6. Exhausted(Fetched(t)) <=> t.sent + 1 = t.frames
  BY <1>2 DEF Exhausted
<1>7. FrameOf(t) # None /\ FrameOf(t).eot = Exhausted(Fetched(t))
  <2>1. FrameOf(t) # None
    BY <1>5, TxPathAssumption
  <2>2. QED
    BY <1>5, <2>1
<1>8. t.sent \in Nat /\ t.frames \in Nat
  BY <1>1
<1>9. QED
  BY <1>1, <1>2, <1>3, <1>5, <1>6, <1>7, <1>8

\* The buffer of a transfer, if there is one.
IndexOf(t) == IF t = None THEN None ELSE t.buffer_idx

LEMMA IndexIsNatural ==
    ASSUME NEW t \in TxTransfers \cup {None}
    PROVE  IndexOf(t) \in Nat \cup {None} /\ (IndexOf(t) = None <=> t = None)
<1>1. CASE t = None
  BY <1>1 DEF IndexOf
<1>2. CASE t # None
  BY <1>2, TxPathAssumption DEF IndexOf, TxTransfers
<1>3. QED
  BY <1>1, <1>2

-----------------------------------------------------------------------------
(* A signal.                                                                *)

SignalPlaces(pending, fragmented) ==
    [s \in {"pending", "fragmented"} |->
        IF s = "pending" THEN IndexOf(pending) ELSE IndexOf(fragmented)]

\* The state of a signal, field by field: a pending transfer was not begun, and the
\* other one was.
IsSignalOf(b, p, pending, fragmented, scratchpad, free) ==
    /\ b = [kind |-> "Signal", priority |-> p, pending |-> pending,
            fragmented |-> fragmented, scratchpad |-> scratchpad, free |-> free]
    /\ p \in Priorities
    /\ pending \in TxTransfers \cup {None} /\ (pending # None => pending.sent = 0)
    /\ fragmented \in TxTransfers \cup {None}
    /\ fragmented # None => fragmented.sent > 0 /\ fragmented.sent < fragmented.frames
    /\ IsStock(SignalPlaces(pending, fragmented), free, scratchpad, 2)

\* The operators on buffers are those of its kind.
LEMMA SignalViews ==
    ASSUME NEW b, NEW p, NEW pending, NEW fragmented, NEW scratchpad, NEW free,
           IsSignalOf(b, p, pending, fragmented, scratchpad, free)
    PROVE  /\ IsSignal(b)
           /\ b.kind = "Signal" /\ b.priority = p
           /\ b.pending = pending /\ b.fragmented = fragmented
           /\ b.scratchpad = scratchpad /\ b.free = free
           /\ PopReadiness(b) = {q \in {p} : fragmented # None \/ pending # None}
           /\ IsEmpty(b) <=> fragmented = None /\ pending = None
           /\ PushReadiness(b) = {p}
           /\ Begun(b) = {q \in {p} : fragmented # None}
           /\ \A q : BegunTransfer(b, q) = fragmented
           /\ HasScratchpad(b) <=> scratchpad # None
<1>1. /\ b.kind = "Signal" /\ b.priority = p
      /\ b.pending = pending /\ b.fragmented = fragmented
      /\ b.scratchpad = scratchpad /\ b.free = free
  BY DEF IsSignalOf
<1>2. Indexes(TransfersOf(b)) = SignalPlaces(pending, fragmented)
  <2>1. TransfersOf(b) = [pending |-> pending, fragmented |-> fragmented]
    BY <1>1 DEF TransfersOf
  <2>2. QED
    BY <2>1 DEF Indexes, SignalPlaces, IndexOf
<1>3. b \in SignalStates
  <2>1. free \in Seq(0 .. 1) /\ scratchpad \in Nat \cup {None}
    BY DEF IsSignalOf, IsStock
  <2>2. free \in Seq(Nat)
    <3>1. 0 .. 1 \subseteq Nat
      OBVIOUS
    <3>2. QED
      BY <2>1, <3>1, SeqMonotonic
  <2>3. QED
    BY <2>1, <2>2 DEF IsSignalOf, SignalStates
<1>4. IsSignal(b)
  BY <1>1, <1>2, <1>3 DEF IsSignal, IsSignalOf, InProgress
<1>5. PopReadiness(b) = {q \in {p} : fragmented # None \/ pending # None}
  BY <1>1 DEF PopReadiness, SignalPopReadiness
<1>6. IsEmpty(b) <=> fragmented = None /\ pending = None
  BY <1>5 DEF IsEmpty
<1>7. PushReadiness(b) = {p}
  BY <1>1 DEF PushReadiness, SignalPushReadiness
<1>8. Begun(b) = {q \in {p} : fragmented # None}
  BY <1>1 DEF Begun
<1>9. \A q : BegunTransfer(b, q) = fragmented
  BY <1>1 DEF BegunTransfer
<1>10. HasScratchpad(b) <=> scratchpad # None
  BY <1>1 DEF HasScratchpad
<1>11. QED
  BY <1>1, <1>4, <1>5, <1>6, <1>7, <1>8, <1>9, <1>10

\* Every signal is of this form.
LEMMA SignalFields ==
    ASSUME NEW b, IsSignal(b)
    PROVE  \E p, pending, fragmented, scratchpad, free :
               IsSignalOf(b, p, pending, fragmented, scratchpad, free)
<1>1. /\ b = [kind |-> "Signal", priority |-> b.priority, pending |-> b.pending,
              fragmented |-> b.fragmented, scratchpad |-> b.scratchpad, free |-> b.free]
      /\ b.priority \in Priorities /\ b.kind = "Signal"
      /\ b.pending \in TxTransfers \cup {None} /\ b.fragmented \in TxTransfers \cup {None}
  BY DEF IsSignal, SignalStates
<1>2. Indexes(TransfersOf(b)) = SignalPlaces(b.pending, b.fragmented)
  <2>1. TransfersOf(b) = [pending |-> b.pending, fragmented |-> b.fragmented]
    BY <1>1 DEF TransfersOf
  <2>2. QED
    BY <2>1 DEF Indexes, SignalPlaces, IndexOf
<1>3. IsSignalOf(b, b.priority, b.pending, b.fragmented, b.scratchpad, b.free)
  BY <1>1, <1>2 DEF IsSignal, InProgress, IsSignalOf
<1>4. QED
  BY <1>3

\* The indexes at the places of a signal.
LEMMA SignalIndexes ==
    ASSUME NEW pending \in TxTransfers \cup {None},
           NEW fragmented \in TxTransfers \cup {None}, NEW at,
           at = SignalPlaces(pending, fragmented)
    PROVE  /\ at \in [{"pending", "fragmented"} -> Nat \cup {None}]
           /\ DOMAIN at = {"pending", "fragmented"}
           /\ at["pending"] = IndexOf(pending) /\ at["fragmented"] = IndexOf(fragmented)
           /\ at["pending"] = None <=> pending = None
           /\ at["fragmented"] = None <=> fragmented = None
BY IndexIsNatural DEF SignalPlaces

\* Without a change of the transfers that were begun they go on.
LEMMA SameGoesOn ==
    ASSUME NEW b, NEW after, Begun(after) = Begun(b),
           \A p \in Begun(b) : BegunTransfer(after, p) = BegunTransfer(b, p)
    PROVE  GoesOn(b, after)
BY DEF GoesOn

\* With both payload buffers in use there is a transfer that was not begun, and one that
\* was, which the driver goes on with.
LEMMA BothPlacesUsed ==
    ASSUME NEW pending \in TxTransfers \cup {None},
           NEW fragmented \in TxTransfers \cup {None},
           IsStock(SignalPlaces(pending, fragmented), << >>, None, 2)
    PROVE  pending # None /\ fragmented # None
<1>1. PICK at : at = SignalPlaces(pending, fragmented)
  OBVIOUS
<1>2. /\ DOMAIN at = {"pending", "fragmented"}
      /\ at["pending"] = None <=> pending = None
      /\ at["fragmented"] = None <=> fragmented = None
  BY <1>1, SignalIndexes
<1>3. ToSet(<< >>) = {}
  BY DEF ToSet
<1>4. 0 \in 0 .. 2 - 1 /\ 1 \in 0 .. 2 - 1 /\ 0 # None /\ 1 # None
  BY TxPathAssumption
<1>5. (\E s \in DOMAIN at : at[s] = 0) /\ (\E s \in DOMAIN at : at[s] = 1)
  BY <1>1, <1>3, <1>4 DEF IsStock
<1>6. QED
  BY <1>2, <1>4, <1>5

\* A push takes the scratchpad, so that the transfer that was begun need not.
LEMMA SignalScratchpadKeeps ==
    ASSUME NEW b, IsSignal(b)
    PROVE  ScratchpadPromise(b)
<1>1. PICK p, pending, fragmented, scratchpad, free :
          IsSignalOf(b, p, pending, fragmented, scratchpad, free)
  BY SignalFields
<1>2. /\ b.kind = "Signal" /\ b.priority = p
      /\ b.pending = pending /\ b.scratchpad = scratchpad /\ b.free = free
      /\ PopReadiness(b) = {q \in {p} : fragmented # None \/ pending # None}
      /\ PushReadiness(b) = {p}
      /\ Begun(b) = {q \in {p} : fragmented # None}
      /\ \A q : BegunTransfer(b, q) = fragmented
      /\ HasScratchpad(b) <=> scratchpad # None
  BY <1>1, SignalViews
<1>3. /\ pending \in TxTransfers \cup {None} /\ fragmented \in TxTransfers \cup {None}
      /\ IsStock(SignalPlaces(pending, fragmented), free, scratchpad, 2)
      /\ free \in Seq(0 .. 2 - 1)
  BY <1>1 DEF IsSignalOf, IsStock
<1>4. GetScratchpad(b) = SignalScratchpad(b)
  BY <1>2 DEF GetScratchpad
<1>5. CASE scratchpad # None
  <2>1. GetScratchpad(b) = b
    BY <1>2, <1>4, <1>5 DEF SignalScratchpad
  <2>2. GoesOn(b, b)
    BY SameGoesOn
  <2>3. QED
    BY <1>2, <1>5, <2>1, <2>2 DEF ScratchpadPromise, IsBuffer, IsSameKind
<1>6. ASSUME NEW left, NEW taken, NEW rest,
             IsSignalOf(GetScratchpad(b), p, left, fragmented, taken, rest),
             taken # None,
             fragmented # None \/ left # None <=> fragmented # None \/ pending # None
      PROVE  ScratchpadPromise(b)
  <2>1. PICK after : after = GetScratchpad(b)
    OBVIOUS
  <2>2. /\ IsSignal(after) /\ after.kind = "Signal" /\ after.priority = p
        /\ PopReadiness(after) = {q \in {p} : fragmented # None \/ left # None}
        /\ PushReadiness(after) = {p}
        /\ Begun(after) = {q \in {p} : fragmented # None}
        /\ \A q : BegunTransfer(after, q) = fragmented
        /\ HasScratchpad(after) <=> taken # None
    BY <1>6, <2>1, SignalViews
  <2>3. GoesOn(b, after)
    BY <1>2, <2>2, SameGoesOn
  <2>4. PopReadiness(after) = PopReadiness(b)
    BY <1>2, <1>6, <2>2
  <2>5. QED
    BY <1>2, <1>6, <2>1, <2>2, <2>3, <2>4 DEF ScratchpadPromise, IsBuffer, IsSameKind
<1>7. CASE scratchpad = None /\ free # << >>
  <2>1. PICK x, rest : x = Last(free) /\ rest = Front(free)
    OBVIOUS
  <2>2. GetScratchpad(b) = [b EXCEPT !.scratchpad = x, !.free = rest]
    BY <1>2, <1>4, <1>7, <2>1 DEF SignalScratchpad
  <2>3. IsStock(SignalPlaces(pending, fragmented), rest, x, 2)
    BY <1>3, <1>7, <2>1, StockTakesFree
  <2>4. x # None
    <3>1. x \in 0 .. 2 - 1
      BY <1>3, <1>7, <2>1, FrontElements DEF IsStock
    <3>2. QED
      BY <3>1, TxPathAssumption
  <2>5. IsSignalOf(GetScratchpad(b), p, pending, fragmented, x, rest)
    BY <1>1, <2>2, <2>3 DEF IsSignalOf
  <2>6. QED
    BY <1>6, <2>4, <2>5
<1>8. CASE scratchpad = None /\ free = << >>
  <2>1. pending # None /\ fragmented # None
    BY <1>3, <1>8, BothPlacesUsed
  <2>2. PICK x, at : x = pending.buffer_idx /\ at = SignalPlaces(pending, fragmented)
    OBVIOUS
  <2>3. GetScratchpad(b) = [b EXCEPT !.scratchpad = x, !.pending = None]
    BY <1>2, <1>4, <1>8, <2>2 DEF SignalScratchpad
  <2>4. /\ at \in [{"pending", "fragmented"} -> Nat \cup {None}]
        /\ at["pending"] = x /\ x # None
    BY <1>3, <2>1, <2>2, SignalIndexes DEF IndexOf
  <2>5. IsStock([at EXCEPT !["pending"] = None], free, at["pending"], 2)
    BY <1>3, <1>8, <2>2, <2>4, StockTakesPlace
  <2>6. [at EXCEPT !["pending"] = None] = SignalPlaces(None, fragmented)
    BY <2>2 DEF SignalPlaces, IndexOf
  <2>7. IsSignalOf(GetScratchpad(b), p, None, fragmented, x, free)
    BY <1>1, <2>3, <2>4, <2>5, <2>6 DEF IsSignalOf
  <2>8. QED
    BY <1>6, <2>1, <2>4, <2>7
<1>9. QED
  BY <1>5, <1>7, <1>8

LEMMA NewTransfer ==
    ASSUME NEW idx \in Nat, NEW size \in Nat \ {0}, NEW t, t = Transfer(idx, size)
    PROVE  /\ t \in TxTransfers /\ t # None /\ t.buffer_idx = idx
           /\ t.frames = size /\ t.sent = 0 /\ t.sent < t.frames
<1>1. t \in TxTransfers
  BY DEF Transfer, TxTransfers
<1>2. t # None
  BY <1>1, TxPathAssumption
<1>3. QED
  BY <1>1, <1>2 DEF Transfer

\* A signal keeps the transfer that was begun beside the new one.
LEMMA SignalPushKeeps ==
    ASSUME NEW b, IsSignal(b), HasScratchpad(b), NEW p \in PushReadiness(b),
           NEW size \in Nat \ {0}
    PROVE  PushPromise(b, p, size)
<1>1. PICK pri, pending, fragmented, scratchpad, free :
          IsSignalOf(b, pri, pending, fragmented, scratchpad, free)
  BY SignalFields
<1>2. /\ b.kind = "Signal" /\ b.priority = pri /\ p = pri /\ scratchpad # None
      /\ b.pending = pending /\ b.scratchpad = scratchpad /\ b.free = free
      /\ PopReadiness(b) = {q \in {p} : fragmented # None \/ pending # None}
      /\ Begun(b) = {q \in {p} : fragmented # None}
      /\ \A q : BegunTransfer(b, q) = fragmented
  BY <1>1, SignalViews
<1>3. /\ pending \in TxTransfers \cup {None} /\ fragmented \in TxTransfers \cup {None}
      /\ IsStock(SignalPlaces(pending, fragmented), free, scratchpad, 2)
      /\ scratchpad \in Nat
  BY <1>1, <1>2 DEF IsSignalOf, IsStock
<1>4. PICK t, rest, after : /\ t = Transfer(scratchpad, size) /\ rest = Replaced(b)
                            /\ after = Push(b, p, size)
  OBVIOUS
<1>5. /\ t \in TxTransfers /\ t # None /\ t.buffer_idx = scratchpad /\ t.sent = 0
  BY <1>3, <1>4, NewTransfer
<1>6. after = [b EXCEPT !.pending = t, !.scratchpad = None, !.free = rest]
  BY <1>2, <1>4 DEF Push, SignalPush
<1>7. IsStock(SignalPlaces(t, fragmented), rest, None, 2)
  <2>1. PICK at : at = SignalPlaces(pending, fragmented)
    OBVIOUS
  <2>2. /\ at \in [{"pending", "fragmented"} -> Nat \cup {None}]
        /\ at["pending"] = IndexOf(pending)
        /\ at["pending"] = None <=> pending = None
    BY <1>3, <2>1, SignalIndexes
  <2>3. PICK bare : bare = [at EXCEPT !["pending"] = None]
    OBVIOUS
  <2>4. /\ bare \in [{"pending", "fragmented"} -> Nat \cup {None}]
        /\ bare["pending"] = None
    BY <2>2, <2>3
  <2>5. IsStock(bare, rest, scratchpad, 2)
    <3>1. CASE pending = None
      <4>1. bare = at /\ rest = free
        BY <1>2, <1>4, <2>2, <2>3, <3>1 DEF Replaced
      <4>2. QED
        BY <1>3, <2>1, <4>1
    <3>2. CASE pending # None
      <4>1. rest = Append(free, at["pending"])
        BY <1>2, <1>4, <2>2, <3>2 DEF Replaced, IndexOf
      <4>2. IsStock(bare, Append(free, at["pending"]), scratchpad, 2)
        BY <1>3, <2>1, <2>2, <2>3, <3>2, StockFrees
      <4>3. QED
        BY <4>1, <4>2
    <3>3. QED
      BY <3>1, <3>2
  <2>6. IsStock([bare EXCEPT !["pending"] = scratchpad], rest, None, 2)
    BY <1>2, <2>4, <2>5, StockFillsPlace
  <2>7. [bare EXCEPT !["pending"] = scratchpad] = SignalPlaces(t, fragmented)
    BY <1>5, <2>1, <2>3 DEF SignalPlaces, IndexOf
  <2>8. QED
    BY <2>6, <2>7
<1>8. IsSignalOf(after, p, t, fragmented, None, rest)
  BY <1>1, <1>2, <1>5, <1>6, <1>7 DEF IsSignalOf
<1>9. /\ IsSignal(after) /\ after.kind = "Signal" /\ after.priority = p
      /\ PopReadiness(after) = {q \in {p} : fragmented # None \/ t # None}
      /\ Begun(after) = {q \in {p} : fragmented # None}
      /\ \A q : BegunTransfer(after, q) = fragmented
  BY <1>8, SignalViews
<1>10. GoesOn(b, after)
  BY <1>2, <1>9, SameGoesOn
<1>11. PopReadiness(after) = PopReadiness(b) \cup {p}
  BY <1>2, <1>5, <1>9
<1>12. QED
  BY <1>2, <1>4, <1>9, <1>10, <1>11 DEF PushPromise, IsBuffer, IsSameKind

\* The outcome of a fetch of transfer t of a signal, that leaves it and another one
\* where they are.
LEMMA SignalFetched ==
    ASSUME NEW b, NEW p, NEW pending, NEW fragmented, NEW scratchpad, NEW free,
           IsSignalOf(b, p, pending, fragmented, scratchpad, free),
           NEW t \in TxTransfers, t = IF fragmented # None THEN fragmented ELSE pending,
           NEW after, NEW left, NEW fresh, NEW rest,
           IsSignalOf(after, p, left, fresh, scratchpad, rest),
           fresh = IF Exhausted(Fetched(t)) THEN None ELSE Fetched(t),
           TryPop(b, p) = [frame |-> FrameOf(t), buffer |-> after, ready |-> {},
                           empty |-> IsEmpty(after)]
    PROVE  PopPromise(b, p)
<1>1. /\ b.kind = "Signal" /\ b.priority = p
      /\ PushReadiness(b) = {p}
      /\ Begun(b) = {q \in {p} : fragmented # None}
      /\ \A q : BegunTransfer(b, q) = fragmented
      /\ HasScratchpad(b) <=> scratchpad # None
  BY SignalViews
<1>2. /\ IsSignal(after) /\ after.kind = "Signal" /\ after.priority = p
      /\ PushReadiness(after) = {p}
      /\ Begun(after) = {q \in {p} : fresh # None}
      /\ \A q : BegunTransfer(after, q) = fresh
      /\ HasScratchpad(after) <=> scratchpad # None
  BY SignalViews
<1>3. t.sent < t.frames
  <2>1. t # None
    BY TxPathAssumption
  <2>2. pending # None => pending.sent = 0
    BY DEF IsSignalOf
  <2>3. fragmented # None => fragmented.sent < fragmented.frames
    BY DEF IsSignalOf
  <2>4. CASE fragmented # None
    <3>1. t = fragmented
      BY <2>4
    <3>2. QED
      BY <2>3, <2>4, <3>1
  <2>5. CASE fragmented = None
    <3>1. t = pending
      BY <2>5
    <3>2. QED
      BY <2>1, <2>2, <3>1 DEF TxTransfers
  <2>6. QED
    BY <2>4, <2>5
<1>4. /\ Fetched(t) # None /\ FrameOf(t) \in [sot : BOOLEAN, eot : BOOLEAN]
      /\ FrameOf(t) # None /\ FrameOf(t).eot = Exhausted(Fetched(t))
  BY <1>3, FetchedTransfer
<1>5. PICK o : o = TryPop(b, p)
  OBVIOUS
<1>6. /\ o.frame = FrameOf(t) /\ o.buffer = after /\ o.ready = {}
      /\ o.empty = IsEmpty(after)
  BY <1>5
<1>7. Begun(after) = StartedAfter(o.frame, Begun(b), p)
  BY <1>1, <1>2, <1>4, <1>6 DEF StartedAfter
<1>8. GoesOn(b, after)
  <2>1. SUFFICES ASSUME NEW q \in Begun(b)
                 PROVE  IF q \in Begun(after)
                        THEN BegunTransfer(after, q)
                                 \in {BegunTransfer(b, q), Fetched(BegunTransfer(b, q))}
                        ELSE Exhausted(Fetched(BegunTransfer(b, q)))
    BY DEF GoesOn
  <2>2. q = p /\ fragmented # None /\ t = fragmented /\ BegunTransfer(b, q) = t
    BY <1>1, <2>1
  <2>3. CASE Exhausted(Fetched(t))
    BY <1>2, <2>2, <2>3
  <2>4. CASE ~ Exhausted(Fetched(t))
    BY <1>2, <1>4, <2>2, <2>4
  <2>5. QED
    BY <2>3, <2>4
<1>9. QED
  BY <1>1, <1>2, <1>4, <1>5, <1>6, <1>7, <1>8
  DEF PopPromise, IsBuffer, IsSameKind

\* A signal completes the transfer that was begun before it begins the next one.
LEMMA SignalPopKeeps ==
    ASSUME NEW b, IsSignal(b), NEW p \in PopReadiness(b)
    PROVE  PopPromise(b, p)
<1>1. PICK pri, pending, fragmented, scratchpad, free :
          IsSignalOf(b, pri, pending, fragmented, scratchpad, free)
  BY SignalFields
<1>2. /\ b.kind = "Signal" /\ b.priority = pri /\ p = pri
      /\ b.pending = pending /\ b.fragmented = fragmented /\ b.free = free
      /\ fragmented # None \/ pending # None
  BY <1>1, SignalViews
<1>3. /\ pending \in TxTransfers \cup {None} /\ fragmented \in TxTransfers \cup {None}
      /\ IsStock(SignalPlaces(pending, fragmented), free, scratchpad, 2)
      /\ pending # None => pending.sent = 0
      /\ fragmented # None => fragmented.sent > 0 /\ fragmented.sent < fragmented.frames
  BY <1>1 DEF IsSignalOf
<1>4. PICK t : t = IF fragmented # None THEN fragmented ELSE pending
  OBVIOUS
<1>5. t \in TxTransfers /\ t # None /\ t.sent < t.frames
  BY <1>2, <1>3, <1>4 DEF TxTransfers
<1>6. /\ Fetched(t) \in TxTransfers /\ Fetched(t) # None /\ Fetched(t).sent > 0
      /\ Fetched(t).buffer_idx = t.buffer_idx
      /\ ~ Exhausted(Fetched(t)) => Fetched(t).sent < Fetched(t).frames
  BY <1>5, FetchedTransfer
<1>7. PICK taken, after :
          /\ taken = IF t = b.pending THEN [b EXCEPT !.pending = None] ELSE b
          /\ after = IF Exhausted(Fetched(t))
                     THEN [taken EXCEPT !.fragmented = None,
                                        !.free = Append(@, t.buffer_idx)]
                     ELSE [taken EXCEPT !.fragmented = Fetched(t)]
  OBVIOUS
<1>8. TryPop(b, p) = [frame |-> FrameOf(t), buffer |-> after, ready |-> {},
                      empty |-> IsEmpty(after)]
  BY <1>2, <1>4, <1>5, <1>7 DEF TryPop, SignalTryPop, FetchFrom
<1>9. PICK left : left = IF fragmented # None THEN pending ELSE None
  OBVIOUS
<1>10. taken = [b EXCEPT !.pending = left]
  <2>1. CASE fragmented # None
    <3>1. t # b.pending
      BY <1>2, <1>3, <1>4, <2>1
    <3>2. [b EXCEPT !.pending = b.pending] = b
      BY <1>1 DEF IsSignalOf
    <3>3. QED
      BY <1>2, <1>7, <1>9, <2>1, <3>1, <3>2
  <2>2. CASE fragmented = None
    BY <1>2, <1>4, <1>7, <1>9, <2>2
  <2>3. QED
    BY <2>1, <2>2
<1>11. PICK at : at = SignalPlaces(pending, fragmented)
  OBVIOUS
<1>12. /\ at \in [{"pending", "fragmented"} -> Nat \cup {None}]
       /\ at["pending"] = IndexOf(pending) /\ at["fragmented"] = IndexOf(fragmented)
       /\ at["pending"] = None <=> pending = None
       /\ at["fragmented"] = None <=> fragmented = None
  BY <1>3, <1>11, SignalIndexes
<1>13. CASE Exhausted(Fetched(t))
  <2>1. PICK s : s = IF fragmented # None THEN "fragmented" ELSE "pending"
    OBVIOUS
  <2>2. s \in {"pending", "fragmented"} /\ at[s] = t.buffer_idx /\ at[s] # None
    BY <1>2, <1>4, <1>5, <1>12, <2>1 DEF IndexOf
  <2>3. IsStock([at EXCEPT ![s] = None], Append(free, at[s]), scratchpad, 2)
    BY <1>3, <1>11, <1>12, <2>2, StockFrees
  <2>4. [at EXCEPT ![s] = None] = SignalPlaces(left, None)
    BY <1>9, <1>11, <2>1 DEF SignalPlaces, IndexOf
  <2>5. PICK rest : rest = Append(free, t.buffer_idx)
    OBVIOUS
  <2>6. IsStock(SignalPlaces(left, None), rest, scratchpad, 2)
    BY <2>2, <2>3, <2>4, <2>5
  <2>7. after = [kind |-> "Signal", priority |-> pri, pending |-> left,
                 fragmented |-> None, scratchpad |-> scratchpad, free |-> rest]
    <3>1. taken = [kind |-> "Signal", priority |-> pri, pending |-> left,
                   fragmented |-> fragmented, scratchpad |-> scratchpad, free |-> free]
      BY <1>1, <1>10 DEF IsSignalOf
    <3>2. after = [taken EXCEPT !.fragmented = None, !.free = rest]
      <4>1. taken.free = free
        BY <3>1
      <4>2. after = [taken EXCEPT !.fragmented = None,
                                  !.free = Append(taken.free, t.buffer_idx)]
        BY <1>7, <1>13, <3>1
      <4>3. QED
        BY <2>5, <4>1, <4>2
    <3>3. QED
      BY <3>1, <3>2
  <2>8. IsSignalOf(after, p, left, None, scratchpad, rest)
    BY <1>1, <1>2, <1>9, <2>6, <2>7 DEF IsSignalOf
  <2>9. QED
    BY <1>1, <1>2, <1>4, <1>5, <1>8, <1>13, <2>8, SignalFetched
<1>14. CASE ~ Exhausted(Fetched(t))
  <2>1. PICK fresh : fresh = Fetched(t)
    OBVIOUS
  <2>2. IsStock(SignalPlaces(left, fresh), free, scratchpad, 2)
    <3>1. CASE fragmented # None
      <4>1. SignalPlaces(left, fresh) = at
        BY <1>4, <1>6, <1>9, <1>11, <2>1, <3>1 DEF SignalPlaces, IndexOf
      <4>2. QED
        BY <1>3, <1>11, <4>1
    <3>2. CASE fragmented = None
      <4>1. PICK moved : moved = [at EXCEPT !["pending"] = None,
                                            !["fragmented"] = at["pending"]]
        OBVIOUS
      <4>2. IsStock(moved, free, scratchpad, 2)
        BY <1>3, <1>11, <1>12, <3>2, <4>1, StockMoves
      <4>3. moved = SignalPlaces(left, fresh)
        BY <1>2, <1>4, <1>6, <1>9, <1>11, <2>1, <3>2, <4>1 DEF SignalPlaces, IndexOf
      <4>4. QED
        BY <4>2, <4>3
    <3>3. QED
      BY <3>1, <3>2
  <2>3. after = [kind |-> "Signal", priority |-> pri, pending |-> left,
                 fragmented |-> fresh, scratchpad |-> scratchpad, free |-> free]
    <3>1. taken = [kind |-> "Signal", priority |-> pri, pending |-> left,
                   fragmented |-> fragmented, scratchpad |-> scratchpad, free |-> free]
      BY <1>1, <1>10 DEF IsSignalOf
    <3>2. after = [taken EXCEPT !.fragmented = fresh]
      BY <1>7, <1>14, <2>1
    <3>3. QED
      BY <3>1, <3>2
  <2>4. IsSignalOf(after, p, left, fresh, scratchpad, free)
    BY <1>1, <1>2, <1>6, <1>9, <1>14, <2>1, <2>2, <2>3 DEF IsSignalOf
  <2>5. QED
    BY <1>1, <1>2, <1>4, <1>5, <1>8, <1>14, <2>1, <2>4, SignalFetched
<1>15. QED
  BY <1>13, <1>14

-----------------------------------------------------------------------------
(* A blocking buffer.                                                       *)

\* Its state, field by field.
IsBlockingOf(b, p, pending, provided) ==
    /\ b = [kind |-> "Blocking", priority |-> p, pending |-> pending,
            scratchpad_provided |-> provided]
    /\ p \in Priorities /\ provided \in BOOLEAN
    /\ pending \in TxTransfers \cup {None} /\ (pending # None => pending.sent < pending.frames)

LEMMA BlockingViews ==
    ASSUME NEW b, NEW p, NEW pending, NEW provided, IsBlockingOf(b, p, pending, provided)
    PROVE  /\ IsBlocking(b)
           /\ b.kind = "Blocking" /\ b.priority = p
           /\ b.pending = pending /\ b.scratchpad_provided = provided
           /\ PopReadiness(b) = {q \in {p} : pending # None}
           /\ IsEmpty(b) <=> pending = None
           /\ PushReadiness(b) = {q \in {p} : pending = None}
           /\ Begun(b) = {q \in {p} : pending # None /\ pending.sent > 0}
           /\ \A q : BegunTransfer(b, q) = pending
           /\ HasScratchpad(b) <=> provided
<1>1. /\ b.kind = "Blocking" /\ b.priority = p
      /\ b.pending = pending /\ b.scratchpad_provided = provided
  BY DEF IsBlockingOf
<1>2. IsBlocking(b)
  <2>1. b \in BlockingStates
    BY DEF IsBlockingOf, BlockingStates
  <2>2. QED
    BY <1>1, <2>1 DEF IsBlocking, IsBlockingOf, InProgress
<1>3. PopReadiness(b) = {q \in {p} : pending # None}
  BY <1>1 DEF PopReadiness, BlockingPopReadiness
<1>4. IsEmpty(b) <=> pending = None
  BY <1>3 DEF IsEmpty
<1>5. PushReadiness(b) = {q \in {p} : pending = None}
  BY <1>1 DEF PushReadiness, BlockingPushReadiness
<1>6. Begun(b) = {q \in {p} : pending # None /\ pending.sent > 0}
  <2>1. Begun(b) = {q \in PopReadiness(b) : pending.sent > 0}
    BY <1>1 DEF Begun
  <2>2. QED
    BY <1>3, <2>1
<1>7. \A q : BegunTransfer(b, q) = pending
  BY <1>1 DEF BegunTransfer
<1>8. HasScratchpad(b) <=> provided
  BY <1>1 DEF HasScratchpad, IsBlockingOf
<1>9. QED
  BY <1>1, <1>2, <1>3, <1>4, <1>5, <1>6, <1>7, <1>8

LEMMA BlockingFields ==
    ASSUME NEW b, IsBlocking(b)
    PROVE  \E p, pending, provided : IsBlockingOf(b, p, pending, provided)
<1>1. IsBlockingOf(b, b.priority, b.pending, b.scratchpad_provided)
  BY DEF IsBlocking, BlockingStates, InProgress, IsBlockingOf
<1>2. QED
  BY <1>1

LEMMA BlockingScratchpadKeeps ==
    ASSUME NEW b, IsBlocking(b)
    PROVE  ScratchpadPromise(b)
<1>1. PICK p, pending, provided : IsBlockingOf(b, p, pending, provided)
  BY BlockingFields
<1>2. /\ b.kind = "Blocking" /\ b.priority = p
      /\ PopReadiness(b) = {q \in {p} : pending # None}
      /\ PushReadiness(b) = {q \in {p} : pending = None}
      /\ Begun(b) = {q \in {p} : pending # None /\ pending.sent > 0}
      /\ \A q : BegunTransfer(b, q) = pending
  BY <1>1, BlockingViews
<1>3. PICK after, given : after = GetScratchpad(b) /\ given = (provided \/ pending = None)
  OBVIOUS
<1>4. IsBlockingOf(after, p, pending, given)
  <2>1. GetScratchpad(b) = BlockingScratchpad(b) /\ BlockingPushReadiness(b) = PushReadiness(b)
    BY <1>2 DEF GetScratchpad, PushReadiness
  <2>2. CASE pending = None
    <3>1. after = [b EXCEPT !.scratchpad_provided = TRUE]
      BY <1>2, <1>3, <2>1, <2>2 DEF BlockingScratchpad
    <3>2. QED
      BY <1>1, <1>3, <2>2, <3>1 DEF IsBlockingOf
  <2>3. CASE pending # None
    <3>1. after = b
      BY <1>2, <1>3, <2>1, <2>3 DEF BlockingScratchpad
    <3>2. given = provided
      BY <1>1, <1>3, <2>3 DEF IsBlockingOf
    <3>3. QED
      BY <1>1, <3>1, <3>2
  <2>4. QED
    BY <2>2, <2>3
<1>5. /\ IsBlocking(after) /\ after.kind = "Blocking" /\ after.priority = p
      /\ PopReadiness(after) = {q \in {p} : pending # None}
      /\ PushReadiness(after) = {q \in {p} : pending = None}
      /\ Begun(after) = {q \in {p} : pending # None /\ pending.sent > 0}
      /\ \A q : BegunTransfer(after, q) = pending
      /\ HasScratchpad(after) <=> given
  BY <1>4, BlockingViews
<1>6. GoesOn(b, after)
  BY <1>2, <1>5, SameGoesOn
<1>7. PushReadiness(b) # {} => HasScratchpad(after)
  BY <1>2, <1>3, <1>5
<1>8. QED
  BY <1>2, <1>3, <1>5, <1>6, <1>7 DEF ScratchpadPromise, IsBuffer, IsSameKind

LEMMA BlockingPushKeeps ==
    ASSUME NEW b, IsBlocking(b), NEW p \in PushReadiness(b), NEW size \in Nat \ {0}
    PROVE  PushPromise(b, p, size)
<1>1. PICK pri, pending, provided : IsBlockingOf(b, pri, pending, provided)
  BY BlockingFields
<1>2. /\ b.kind = "Blocking" /\ b.priority = p /\ p = pri /\ pending = None
      /\ PopReadiness(b) = {} /\ Begun(b) = {}
  BY <1>1, BlockingViews
<1>3. PICK t, after : t = Transfer(0, size) /\ after = Push(b, p, size)
  OBVIOUS
<1>4. t \in TxTransfers /\ t # None /\ t.sent = 0 /\ t.sent < t.frames
  BY <1>3, NewTransfer
<1>5. after = [b EXCEPT !.pending = t, !.scratchpad_provided = FALSE]
  BY <1>2, <1>3 DEF Push, BlockingPush
<1>6. IsBlockingOf(after, p, t, FALSE)
  BY <1>1, <1>2, <1>4, <1>5 DEF IsBlockingOf
<1>7. /\ IsBlocking(after) /\ after.kind = "Blocking" /\ after.priority = p
      /\ PopReadiness(after) = {q \in {p} : t # None}
      /\ Begun(after) = {q \in {p} : t # None /\ t.sent > 0}
  BY <1>6, BlockingViews
<1>8. PopReadiness(after) = {p} /\ Begun(after) = {}
  BY <1>4, <1>7
<1>9. GoesOn(b, after)
  BY <1>2 DEF GoesOn
<1>10. QED
  BY <1>2, <1>3, <1>7, <1>8, <1>9 DEF PushPromise, IsBuffer, IsSameKind

LEMMA BlockingPopKeeps ==
    ASSUME NEW b, IsBlocking(b), NEW p \in PopReadiness(b)
    PROVE  PopPromise(b, p)
<1>1. PICK pri, pending, provided : IsBlockingOf(b, pri, pending, provided)
  BY BlockingFields
<1>2. /\ b.kind = "Blocking" /\ b.priority = p /\ p = pri
      /\ b.pending = pending /\ pending # None
      /\ PushReadiness(b) = {}
      /\ Begun(b) = {q \in {p} : pending # None /\ pending.sent > 0}
      /\ \A q : BegunTransfer(b, q) = pending
      /\ HasScratchpad(b) <=> provided
  BY <1>1, BlockingViews
<1>3. pending \in TxTransfers /\ pending.sent < pending.frames
  BY <1>1, <1>2 DEF IsBlockingOf
<1>4. /\ Fetched(pending) \in TxTransfers /\ Fetched(pending) # None
      /\ Fetched(pending).sent > 0
      /\ FrameOf(pending) \in [sot : BOOLEAN, eot : BOOLEAN] /\ FrameOf(pending) # None
      /\ FrameOf(pending).eot = Exhausted(Fetched(pending))
      /\ ~ Exhausted(Fetched(pending)) => Fetched(pending).sent < Fetched(pending).frames
  BY <1>3, FetchedTransfer
<1>5. PICK done \in BOOLEAN : done = Exhausted(Fetched(pending))
  BY DEF Exhausted
<1>6. PICK fresh, after : /\ fresh = (IF done THEN None ELSE Fetched(pending))
                          /\ after = [b EXCEPT !.pending = fresh]
  OBVIOUS
<1>7. TryPop(b, p) = [frame |-> FrameOf(pending), buffer |-> after,
                      ready |-> {q \in {p} : done}, empty |-> done]
  BY <1>2, <1>5, <1>6 DEF TryPop, BlockingTryPop
<1>8. IsBlockingOf(after, p, fresh, provided)
  BY <1>1, <1>2, <1>4, <1>5, <1>6 DEF IsBlockingOf
<1>9. /\ IsBlocking(after) /\ after.kind = "Blocking" /\ after.priority = p
      /\ IsEmpty(after) <=> fresh = None
      /\ PushReadiness(after) = {q \in {p} : fresh = None}
      /\ Begun(after) = {q \in {p} : fresh # None /\ fresh.sent > 0}
      /\ \A q : BegunTransfer(after, q) = fresh
      /\ HasScratchpad(after) <=> provided
  BY <1>8, BlockingViews
<1>10. PICK o : o = TryPop(b, p)
  OBVIOUS
<1>11. /\ o.frame = FrameOf(pending) /\ o.buffer = after
       /\ o.ready = {q \in {p} : done} /\ o.empty = done
  BY <1>7, <1>10
<1>12. fresh = None <=> done
  BY <1>4, <1>6
<1>13. Begun(after) = StartedAfter(o.frame, Begun(b), p)
  <2>1. Begun(after) = {q \in {p} : ~ done}
    <3>1. ~ done => fresh # None /\ fresh.sent > 0
      BY <1>4, <1>5, <1>6
    <3>2. QED
      BY <1>9, <1>12, <3>1
  <2>2. o.frame # None /\ o.frame.eot = done
    BY <1>4, <1>5, <1>11
  <2>3. Begun(b) \subseteq {p}
    BY <1>2
  <2>4. QED
    BY <2>1, <2>2, <2>3 DEF StartedAfter
<1>14. GoesOn(b, after)
  <2>1. SUFFICES ASSUME NEW q \in Begun(b)
                 PROVE  IF q \in Begun(after)
                        THEN BegunTransfer(after, q) \in {pending, Fetched(pending)}
                        ELSE Exhausted(Fetched(pending))
    BY <1>2 DEF GoesOn
  <2>2. q = p
    BY <1>2, <2>1
  <2>3. CASE done
    BY <1>5, <1>6, <1>9, <1>12, <2>2, <2>3
  <2>4. CASE ~ done
    BY <1>4, <1>5, <1>6, <1>9, <1>12, <2>2, <2>4
  <2>5. QED
    BY <2>3, <2>4
<1>15. PushReadiness(after) \subseteq o.ready
  BY <1>9, <1>11, <1>12
<1>16. IsEmpty(after) => o.empty
  BY <1>9, <1>11, <1>12
<1>17. QED
  BY <1>2, <1>4, <1>9, <1>10, <1>11, <1>13, <1>14, <1>15, <1>16
  DEF PopPromise, IsBuffer, IsSameKind

-----------------------------------------------------------------------------
(* A response buffer.                                                       *)

\* With as many payload buffers as places, and one place without a transfer, a payload
\* buffer is free.
LEMMA StockHasFree ==
    ASSUME NEW D, IsFiniteSet(D), NEW at \in [D -> Nat \cup {None}], NEW free,
           IsStock(at, free, None, Cardinality(D)), NEW p \in D, at[p] = None
    PROVE  free # << >>
<1>1. SUFFICES ASSUME free = << >>
               PROVE  FALSE
  OBVIOUS
<1>2. ToSet(free) = {}
  BY <1>1 DEF ToSet
<1>3. PICK n : n = Cardinality(D)
  OBVIOUS
<1>4. n \in Nat /\ IsFiniteSet(D \ {p}) /\ Cardinality(D \ {p}) = n - 1
  BY <1>3, FS_CardinalityType, FS_RemoveElement
<1>5. IsFiniteSet(0 .. n - 1) /\ Cardinality(0 .. n - 1) = n
  BY <1>4, FS_Interval
<1>6. \A i \in 0 .. n - 1 : i # None /\ \E s \in D \ {p} : at[s] = i
  <2>1. SUFFICES ASSUME NEW i \in 0 .. n - 1
                 PROVE  i # None /\ \E s \in D \ {p} : at[s] = i
    OBVIOUS
  <2>2. i # None
    BY TxPathAssumption
  <2>3. \E s \in D : at[s] = i
    BY <1>2, <1>3, <2>2 DEF IsStock
  <2>4. QED
    BY <2>2, <2>3
<1>7. PICK f : f = [i \in 0 .. n - 1 |-> CHOOSE s \in D \ {p} : at[s] = i]
  OBVIOUS
<1>8. f \in [0 .. n - 1 -> D \ {p}] /\ \A i \in 0 .. n - 1 : at[f[i]] = i
  BY <1>6, <1>7
<1>9. Cardinality(D \ {p}) < Cardinality(0 .. n - 1)
  BY <1>4, <1>5
<1>10. \E x, y \in 0 .. n - 1 : x # y /\ f[x] = f[y]
  <2>1. PICK S, T : S = 0 .. n - 1 /\ T = D \ {p}
    OBVIOUS
  <2>2. IsFiniteSet(S) /\ IsFiniteSet(T) /\ Cardinality(T) < Cardinality(S) /\ f \in [S -> T]
    BY <1>4, <1>5, <1>8, <1>9, <2>1
  <2>3. \E x, y \in S : x # y /\ f[x] = f[y]
    BY <2>2, FS_PigeonHole
  <2>4. QED
    BY <2>1, <2>3
<1>11. QED
  BY <1>8, <1>10

ResponsePlaces(ts) == [s \in Priorities |-> IndexOf(ts[s])]

\* Its state, field by field.
IsResponseOf(b, ts, scratchpad, free) ==
    /\ b = [kind |-> "Response", transfers |-> ts, scratchpad |-> scratchpad, free |-> free]
    /\ ts \in [Priorities -> TxTransfers \cup {None}]
    /\ \A p \in Priorities : ts[p] # None => ts[p].sent < ts[p].frames
    /\ IsStock(ResponsePlaces(ts), free, scratchpad, Cardinality(Priorities))

LEMMA ResponseViews ==
    ASSUME NEW b, NEW ts, NEW scratchpad, NEW free, IsResponseOf(b, ts, scratchpad, free)
    PROVE  /\ IsResponse(b)
           /\ b.kind = "Response" /\ b.transfers = ts
           /\ b.scratchpad = scratchpad /\ b.free = free
           /\ PopReadiness(b) = {q \in Priorities : ts[q] # None}
           /\ PushReadiness(b) = {q \in Priorities : ts[q] = None}
           /\ Begun(b) = {q \in Priorities : ts[q] # None /\ ts[q].sent > 0}
           /\ \A q : BegunTransfer(b, q) = ts[q]
           /\ HasScratchpad(b) <=> scratchpad # None
<1>1. /\ b.kind = "Response" /\ b.transfers = ts
      /\ b.scratchpad = scratchpad /\ b.free = free
  BY DEF IsResponseOf
<1>2. ts \in [Priorities -> TxTransfers \cup {None}] /\ DOMAIN ts = Priorities
  BY DEF IsResponseOf
<1>3. b \in ResponseStates
  <2>1. PICK n : n = Cardinality(Priorities)
    OBVIOUS
  <2>2. n \in Nat
    BY <2>1, FS_CardinalityType, TxBuffersAssumption
  <2>3. free \in Seq(0 .. n - 1) /\ scratchpad \in Nat \cup {None}
    <3>1. IsStock(ResponsePlaces(ts), free, scratchpad, n)
      BY <2>1 DEF IsResponseOf
    <3>2. QED
      BY <2>2, <3>1 DEF IsStock
  <2>4. free \in Seq(Nat)
    <3>1. 0 .. n - 1 \subseteq Nat
      BY <2>2
    <3>2. QED
      BY <2>3, <3>1, SeqMonotonic
  <2>5. QED
    BY <1>2, <2>3, <2>4 DEF IsResponseOf, ResponseStates
<1>4. IsResponse(b)
  <2>1. Indexes(b.transfers) = ResponsePlaces(ts)
    BY <1>1, <1>2 DEF Indexes, ResponsePlaces, IndexOf
  <2>2. \A p \in Priorities : InProgress(b.transfers[p])
    BY <1>1 DEF IsResponseOf, InProgress
  <2>3. IsStock(Indexes(b.transfers), b.free, b.scratchpad, Cardinality(Priorities))
    BY <1>1, <2>1 DEF IsResponseOf
  <2>4. QED
    BY <1>3, <2>2, <2>3 DEF IsResponse
<1>5. PopReadiness(b) = {q \in Priorities : ts[q] # None}
  BY <1>1 DEF PopReadiness, ResponsePopReadiness
<1>6. PushReadiness(b) = {q \in Priorities : ts[q] = None}
  BY <1>1 DEF PushReadiness, ResponsePushReadiness
<1>7. Begun(b) = {q \in Priorities : ts[q] # None /\ ts[q].sent > 0}
  <2>1. Begun(b) = {q \in PopReadiness(b) : ts[q].sent > 0}
    BY <1>1 DEF Begun
  <2>2. QED
    BY <1>5, <2>1
<1>8. \A q : BegunTransfer(b, q) = ts[q]
  BY <1>1 DEF BegunTransfer
<1>9. HasScratchpad(b) <=> scratchpad # None
  BY <1>1 DEF HasScratchpad
<1>10. QED
  BY <1>1, <1>4, <1>5, <1>6, <1>7, <1>8, <1>9

LEMMA ResponseFields ==
    ASSUME NEW b, IsResponse(b)
    PROVE  \E ts, scratchpad, free : IsResponseOf(b, ts, scratchpad, free)
<1>1. /\ b = [kind |-> "Response", transfers |-> b.transfers,
              scratchpad |-> b.scratchpad, free |-> b.free]
      /\ b.transfers \in [Priorities -> TxTransfers \cup {None}]
  BY DEF IsResponse, ResponseStates
<1>2. PICK ts : ts = b.transfers
  OBVIOUS
<1>3. Indexes(b.transfers) = ResponsePlaces(ts)
  <2>1. DOMAIN ts = Priorities
    BY <1>1, <1>2
  <2>2. QED
    BY <1>2, <2>1 DEF Indexes, ResponsePlaces, IndexOf
<1>4. \A p \in Priorities : ts[p] # None => ts[p].sent < ts[p].frames
  BY <1>2 DEF IsResponse, InProgress
<1>5. IsResponseOf(b, ts, b.scratchpad, b.free)
  <2>1. IsStock(ResponsePlaces(ts), b.free, b.scratchpad, Cardinality(Priorities))
    BY <1>3 DEF IsResponse
  <2>2. QED
    BY <1>1, <1>2, <1>4, <2>1 DEF IsResponseOf
<1>6. QED
  BY <1>5

\* The indexes at the places of a response buffer.
LEMMA ResponseIndexes ==
    ASSUME NEW ts \in [Priorities -> TxTransfers \cup {None}], NEW at, at = ResponsePlaces(ts)
    PROVE  /\ at \in [Priorities -> Nat \cup {None}] /\ DOMAIN at = Priorities
           /\ \A p \in Priorities : at[p] = IndexOf(ts[p]) /\ (at[p] = None <=> ts[p] = None)
<1>1. \A p \in Priorities : ts[p] \in TxTransfers \cup {None}
  OBVIOUS
<1>2. \A p \in Priorities :
          IndexOf(ts[p]) \in Nat \cup {None} /\ (IndexOf(ts[p]) = None <=> ts[p] = None)
  BY <1>1, IndexIsNatural
<1>3. QED
  BY <1>2 DEF ResponsePlaces

LEMMA ResponseScratchpadKeeps ==
    ASSUME NEW b, IsResponse(b)
    PROVE  ScratchpadPromise(b)
<1>1. PICK ts, scratchpad, free : IsResponseOf(b, ts, scratchpad, free)
  BY ResponseFields
<1>2. /\ b.kind = "Response" /\ b.scratchpad = scratchpad /\ b.free = free
      /\ PopReadiness(b) = {q \in Priorities : ts[q] # None}
      /\ PushReadiness(b) = {q \in Priorities : ts[q] = None}
      /\ Begun(b) = {q \in Priorities : ts[q] # None /\ ts[q].sent > 0}
      /\ \A q : BegunTransfer(b, q) = ts[q]
      /\ HasScratchpad(b) <=> scratchpad # None
  BY <1>1, ResponseViews
<1>3. PICK n : n = Cardinality(Priorities)
  OBVIOUS
<1>4. n \in Nat /\ IsFiniteSet(Priorities)
  BY <1>3, FS_CardinalityType, TxBuffersAssumption
<1>5. /\ ts \in [Priorities -> TxTransfers \cup {None}]
      /\ IsStock(ResponsePlaces(ts), free, scratchpad, n)
  BY <1>1, <1>3 DEF IsResponseOf
<1>6. GetScratchpad(b) = ResponseScratchpad(b)
  BY <1>2 DEF GetScratchpad
<1>7. ResponsePushReadiness(b) = PushReadiness(b)
  BY <1>2 DEF PushReadiness
<1>8. CASE PushReadiness(b) = {} \/ scratchpad # None
  <2>1. GetScratchpad(b) = b
    BY <1>2, <1>6, <1>7, <1>8 DEF ResponseScratchpad
  <2>2. GoesOn(b, b)
    BY SameGoesOn
  <2>3. QED
    BY <1>2, <1>8, <2>1, <2>2 DEF ScratchpadPromise, IsBuffer, IsSameKind
<1>9. CASE PushReadiness(b) # {} /\ scratchpad = None
  <2>1. PICK x, rest, after : x = Last(free) /\ rest = Front(free) /\ after = GetScratchpad(b)
    OBVIOUS
  <2>2. after = [b EXCEPT !.scratchpad = x, !.free = rest]
    BY <1>2, <1>6, <1>7, <1>9, <2>1 DEF ResponseScratchpad
  <2>3. free # << >>
    <3>1. PICK at : at = ResponsePlaces(ts)
      OBVIOUS
    <3>2. PICK p \in Priorities : ts[p] = None
      BY <1>2, <1>9
    <3>3. at \in [Priorities -> Nat \cup {None}] /\ at[p] = None
      BY <1>5, <3>1, <3>2, ResponseIndexes
    <3>4. IsStock(at, free, None, Cardinality(Priorities))
      BY <1>3, <1>5, <1>9, <3>1
    <3>5. QED
      BY <1>4, <3>3, <3>4, StockHasFree
  <2>4. IsStock(ResponsePlaces(ts), rest, x, n)
    BY <1>4, <1>5, <1>9, <2>1, <2>3, StockTakesFree
  <2>5. x # None
    <3>1. free \in Seq(0 .. n - 1)
      BY <1>5 DEF IsStock
    <3>2. IsInjective(free)
      BY <1>5 DEF IsStock
    <3>3. x \in 0 .. n - 1
      BY <2>1, <2>3, <3>1, <3>2, FrontElements
    <3>4. QED
      BY <3>3, TxPathAssumption
  <2>6. IsResponseOf(after, ts, x, rest)
    BY <1>1, <1>3, <2>2, <2>4 DEF IsResponseOf
  <2>7. /\ IsResponse(after) /\ after.kind = "Response"
        /\ PopReadiness(after) = {q \in Priorities : ts[q] # None}
        /\ PushReadiness(after) = {q \in Priorities : ts[q] = None}
        /\ Begun(after) = {q \in Priorities : ts[q] # None /\ ts[q].sent > 0}
        /\ \A q : BegunTransfer(after, q) = ts[q]
        /\ HasScratchpad(after) <=> x # None
    BY <2>6, ResponseViews
  <2>8. GoesOn(b, after)
    BY <1>2, <2>7, SameGoesOn
  <2>9. QED
    BY <1>2, <2>1, <2>5, <2>7, <2>8 DEF ScratchpadPromise, IsBuffer, IsSameKind
<1>10. QED
  BY <1>8, <1>9

LEMMA ResponsePushKeeps ==
    ASSUME NEW b, IsResponse(b), HasScratchpad(b), NEW p \in PushReadiness(b),
           NEW size \in Nat \ {0}
    PROVE  PushPromise(b, p, size)
<1>1. PICK ts, scratchpad, free : IsResponseOf(b, ts, scratchpad, free)
  BY ResponseFields
<1>2. /\ b.kind = "Response" /\ b.scratchpad = scratchpad /\ b.free = free
      /\ b.transfers = ts /\ scratchpad # None
      /\ p \in Priorities /\ ts[p] = None
      /\ PopReadiness(b) = {q \in Priorities : ts[q] # None}
      /\ Begun(b) = {q \in Priorities : ts[q] # None /\ ts[q].sent > 0}
      /\ \A q : BegunTransfer(b, q) = ts[q]
  BY <1>1, ResponseViews
<1>3. PICK n : n = Cardinality(Priorities)
  OBVIOUS
<1>4. n \in Nat
  BY <1>3, FS_CardinalityType, TxBuffersAssumption
<1>5. /\ ts \in [Priorities -> TxTransfers \cup {None}]
      /\ \A q \in Priorities : ts[q] # None => ts[q].sent < ts[q].frames
      /\ IsStock(ResponsePlaces(ts), free, scratchpad, n)
  BY <1>1, <1>3 DEF IsResponseOf
<1>6. scratchpad \in Nat
  BY <1>2, <1>4, <1>5 DEF IsStock
<1>7. PICK t : t = Transfer(scratchpad, size)
  OBVIOUS
<1>8. PICK fuller, after : fuller = [ts EXCEPT ![p] = t] /\ after = Push(b, p, size)
  OBVIOUS
<1>9. /\ t \in TxTransfers /\ t # None /\ t.buffer_idx = scratchpad
      /\ t.sent = 0 /\ t.sent < t.frames
  BY <1>6, <1>7, NewTransfer
<1>10. after = [b EXCEPT !.transfers = fuller, !.scratchpad = None]
  BY <1>2, <1>7, <1>8 DEF Push, ResponsePush
<1>11. /\ fuller \in [Priorities -> TxTransfers \cup {None}]
       /\ \A q \in Priorities : fuller[q] = IF q = p THEN t ELSE ts[q]
  BY <1>2, <1>5, <1>8, <1>9
<1>12. IsStock(ResponsePlaces(fuller), free, None, n)
  <2>1. PICK at : at = ResponsePlaces(ts)
    OBVIOUS
  <2>2. at \in [Priorities -> Nat \cup {None}] /\ at[p] = None
    BY <1>2, <1>5, <2>1, ResponseIndexes
  <2>3. IsStock([at EXCEPT ![p] = scratchpad], free, None, n)
    BY <1>2, <1>4, <1>5, <2>1, <2>2, StockFillsPlace
  <2>4. [at EXCEPT ![p] = scratchpad] = ResponsePlaces(fuller)
    BY <1>2, <1>9, <1>11, <2>1 DEF ResponsePlaces, IndexOf
  <2>5. QED
    BY <2>3, <2>4
<1>13. IsResponseOf(after, fuller, None, free)
  <2>1. after = [kind |-> "Response", transfers |-> fuller, scratchpad |-> None,
                 free |-> free]
    BY <1>1, <1>10 DEF IsResponseOf
  <2>2. \A q \in Priorities : fuller[q] # None => fuller[q].sent < fuller[q].frames
    BY <1>5, <1>9, <1>11
  <2>3. QED
    BY <1>3, <1>11, <1>12, <2>1, <2>2 DEF IsResponseOf
<1>14. /\ IsResponse(after) /\ after.kind = "Response"
       /\ PopReadiness(after) = {q \in Priorities : fuller[q] # None}
       /\ Begun(after) = {q \in Priorities : fuller[q] # None /\ fuller[q].sent > 0}
       /\ \A q : BegunTransfer(after, q) = fuller[q]
  BY <1>13, ResponseViews
<1>15. PopReadiness(after) = PopReadiness(b) \cup {p}
  BY <1>2, <1>9, <1>11, <1>14
<1>16. Begun(after) = Begun(b)
  BY <1>2, <1>9, <1>11, <1>14
<1>17. \A q \in Begun(b) : BegunTransfer(after, q) = BegunTransfer(b, q)
  <2>1. SUFFICES ASSUME NEW q \in Begun(b)
                 PROVE  BegunTransfer(after, q) = BegunTransfer(b, q)
    OBVIOUS
  <2>2. q \in Priorities /\ ts[q] # None
    BY <1>2
  <2>3. q # p
    BY <1>2, <2>2
  <2>4. fuller[q] = ts[q]
    BY <1>11, <2>2, <2>3
  <2>5. BegunTransfer(after, q) = fuller[q] /\ BegunTransfer(b, q) = ts[q]
    BY <1>2, <1>14
  <2>6. QED
    BY <2>4, <2>5
<1>18. GoesOn(b, after)
  BY <1>16, <1>17, SameGoesOn
<1>19. QED
  BY <1>2, <1>8, <1>14, <1>15, <1>16, <1>18 DEF PushPromise, IsBuffer, IsSameKind

LEMMA ResponsePopKeeps ==
    ASSUME NEW b, IsResponse(b), NEW p \in PopReadiness(b)
    PROVE  PopPromise(b, p)
<1>1. PICK ts, scratchpad, free : IsResponseOf(b, ts, scratchpad, free)
  BY ResponseFields
<1>2. /\ b.kind = "Response" /\ b.free = free /\ b.transfers = ts
      /\ p \in Priorities /\ ts[p] # None
      /\ PushReadiness(b) = {q \in Priorities : ts[q] = None}
      /\ Begun(b) = {q \in Priorities : ts[q] # None /\ ts[q].sent > 0}
      /\ \A q : BegunTransfer(b, q) = ts[q]
      /\ HasScratchpad(b) <=> scratchpad # None
  BY <1>1, ResponseViews
<1>3. PICK n : n = Cardinality(Priorities)
  OBVIOUS
<1>4. n \in Nat
  BY <1>3, FS_CardinalityType, TxBuffersAssumption
<1>5. /\ ts \in [Priorities -> TxTransfers \cup {None}]
      /\ \A q \in Priorities : ts[q] # None => ts[q].sent < ts[q].frames
      /\ IsStock(ResponsePlaces(ts), free, scratchpad, n)
  BY <1>1, <1>3 DEF IsResponseOf
<1>6. PICK t : t = ts[p]
  OBVIOUS
<1>7. t \in TxTransfers /\ t # None /\ t.sent < t.frames
  BY <1>2, <1>5, <1>6
<1>8. /\ Fetched(t) \in TxTransfers /\ Fetched(t) # None /\ Fetched(t).sent > 0
      /\ Fetched(t).buffer_idx = t.buffer_idx
      /\ FrameOf(t) \in [sot : BOOLEAN, eot : BOOLEAN] /\ FrameOf(t) # None
      /\ FrameOf(t).eot = Exhausted(Fetched(t))
      /\ ~ Exhausted(Fetched(t)) => Fetched(t).sent < Fetched(t).frames
  BY <1>7, FetchedTransfer
<1>9. PICK done \in BOOLEAN : done = Exhausted(Fetched(t))
  BY DEF Exhausted
<1>10. PICK fresh, rest : /\ fresh = (IF done THEN None ELSE Fetched(t))
                          /\ rest = (IF done THEN Append(free, t.buffer_idx) ELSE free)
  OBVIOUS
<1>11. PICK changed : changed = [ts EXCEPT ![p] = fresh]
  OBVIOUS
<1>12. PICK after : after = [b EXCEPT !.transfers = changed, !.free = rest]
  OBVIOUS
<1>13. TryPop(b, p) = [frame |-> FrameOf(t), buffer |-> after,
                       ready |-> {q \in {p} : done}, empty |-> IsEmpty(after)]
  <2>1. [b EXCEPT !.transfers[p] = IF done THEN None ELSE Fetched(t),
                  !.free = IF done THEN Append(@, t.buffer_idx) ELSE @] = after
    <3>1. [b EXCEPT !.transfers[p] = fresh,
                    !.free = IF done THEN Append(@, t.buffer_idx) ELSE @] = after
      BY <1>1, <1>10, <1>11, <1>12 DEF IsResponseOf
    <3>2. QED
      BY <1>10, <3>1
  <2>2. TryPop(b, p) = ResponseTryPop(b, p)
    BY <1>2 DEF TryPop
  <2>3. QED
    BY <1>2, <1>6, <1>7, <1>9, <2>1, <2>2 DEF ResponseTryPop
<1>14. /\ changed \in [Priorities -> TxTransfers \cup {None}]
       /\ \A q \in Priorities : changed[q] = IF q = p THEN fresh ELSE ts[q]
  BY <1>2, <1>5, <1>8, <1>10, <1>11
<1>15. PICK at : at = ResponsePlaces(ts)
  OBVIOUS
<1>16. /\ at \in [Priorities -> Nat \cup {None}]
       /\ at[p] = t.buffer_idx /\ at[p] # None
  BY <1>2, <1>5, <1>6, <1>7, <1>15, ResponseIndexes DEF IndexOf
<1>17. IsStock(ResponsePlaces(changed), rest, scratchpad, n)
  <2>1. CASE done
    <3>1. IsStock([at EXCEPT ![p] = None], Append(free, at[p]), scratchpad, n)
      BY <1>2, <1>4, <1>5, <1>15, <1>16, StockFrees
    <3>2. [at EXCEPT ![p] = None] = ResponsePlaces(changed)
      BY <1>2, <1>10, <1>14, <1>15, <2>1 DEF ResponsePlaces, IndexOf
    <3>3. rest = Append(free, at[p])
      BY <1>10, <1>16, <2>1
    <3>4. QED
      BY <3>1, <3>2, <3>3
  <2>2. CASE ~ done
    <3>1. \A q \in Priorities : IndexOf(changed[q]) = IndexOf(ts[q])
      BY <1>6, <1>7, <1>8, <1>10, <1>14, <2>2 DEF IndexOf
    <3>2. ResponsePlaces(changed) = ResponsePlaces(ts)
      BY <3>1 DEF ResponsePlaces
    <3>3. QED
      BY <1>5, <1>10, <2>2, <3>2
  <2>3. QED
    BY <2>1, <2>2
<1>18. IsResponseOf(after, changed, scratchpad, rest)
  <2>1. after = [kind |-> "Response", transfers |-> changed, scratchpad |-> scratchpad,
                 free |-> rest]
    BY <1>1, <1>12 DEF IsResponseOf
  <2>2. \A q \in Priorities : changed[q] # None => changed[q].sent < changed[q].frames
    BY <1>5, <1>8, <1>9, <1>10, <1>14
  <2>3. QED
    BY <1>3, <1>14, <1>17, <2>1, <2>2 DEF IsResponseOf
<1>19. /\ IsResponse(after) /\ after.kind = "Response"
       /\ PushReadiness(after) = {q \in Priorities : changed[q] = None}
       /\ Begun(after) = {q \in Priorities : changed[q] # None /\ changed[q].sent > 0}
       /\ \A q : BegunTransfer(after, q) = changed[q]
       /\ HasScratchpad(after) <=> scratchpad # None
  BY <1>18, ResponseViews
<1>20. PICK o : o = TryPop(b, p)
  OBVIOUS
<1>21. /\ o.frame = FrameOf(t) /\ o.buffer = after
       /\ o.ready = {q \in {p} : done} /\ o.empty = IsEmpty(after)
  BY <1>13, <1>20
<1>22. fresh = None <=> done
  BY <1>8, <1>10
<1>23. Begun(after) = StartedAfter(o.frame, Begun(b), p)
  <2>1. o.frame # None /\ o.frame.eot = done
    BY <1>8, <1>9, <1>21
  <2>2. CASE done
    <3>1. StartedAfter(o.frame, Begun(b), p) = Begun(b) \ {p}
      BY <2>1, <2>2 DEF StartedAfter
    <3>2. \A q \in Priorities : changed[q] # None /\ changed[q].sent > 0
                                <=> q # p /\ ts[q] # None /\ ts[q].sent > 0
      BY <1>14, <1>22, <2>2
    <3>3. Begun(after) = Begun(b) \ {p}
      BY <1>2, <1>19, <3>2
    <3>4. QED
      BY <3>1, <3>3
  <2>3. CASE ~ done
    <3>1. StartedAfter(o.frame, Begun(b), p) = Begun(b) \cup {p}
      BY <2>1, <2>3 DEF StartedAfter
    <3>2. fresh # None /\ fresh.sent > 0
      BY <1>8, <1>10, <2>3
    <3>3. \A q \in Priorities : changed[q] # None /\ changed[q].sent > 0
                                <=> q = p \/ (ts[q] # None /\ ts[q].sent > 0)
      BY <1>14, <3>2
    <3>4. p \in Priorities
      BY <1>2
    <3>5. Begun(after) = Begun(b) \cup {p}
      BY <1>2, <1>19, <3>3, <3>4
    <3>6. QED
      BY <3>1, <3>5
  <2>4. QED
    BY <2>2, <2>3
<1>24. GoesOn(b, after)
  <2>1. SUFFICES ASSUME NEW q \in Begun(b)
                 PROVE  IF q \in Begun(after)
                        THEN BegunTransfer(after, q) \in {ts[q], Fetched(ts[q])}
                        ELSE Exhausted(Fetched(ts[q]))
    BY <1>2 DEF GoesOn
  <2>2. q \in Priorities /\ ts[q] # None /\ ts[q].sent > 0
    BY <1>2
  <2>3. CASE q # p
    <3>1. changed[q] = ts[q]
      BY <1>14, <2>2, <2>3
    <3>2. q \in Begun(after) /\ BegunTransfer(after, q) = ts[q]
      BY <1>19, <2>2, <3>1
    <3>3. QED
      BY <3>2
  <2>4. CASE q = p
    <3>1. changed[q] = fresh /\ ts[q] = t
      BY <1>6, <1>14, <2>2, <2>4
    <3>2. CASE done
      <4>1. q \notin Begun(after)
        BY <1>19, <1>22, <3>1, <3>2
      <4>2. QED
        BY <1>9, <3>1, <3>2, <4>1
    <3>3. CASE ~ done
      <4>1. q \in Begun(after) /\ BegunTransfer(after, q) = Fetched(t)
        BY <1>8, <1>10, <1>19, <2>2, <3>1, <3>3
      <4>2. QED
        BY <3>1, <4>1
    <3>4. QED
      BY <3>2, <3>3
  <2>5. QED
    BY <2>3, <2>4
<1>25. /\ PushReadiness(b) \subseteq PushReadiness(after)
       /\ PushReadiness(after) \subseteq PushReadiness(b) \cup o.ready
  <2>1. \A q \in Priorities : q # p => changed[q] = ts[q]
    BY <1>14
  <2>2. changed[p] = None <=> done
    BY <1>2, <1>14, <1>22
  <2>3. QED
    BY <1>2, <1>19, <1>21, <2>1, <2>2
<1>26. QED
  BY <1>2, <1>8, <1>19, <1>20, <1>21, <1>23, <1>24, <1>25
  DEF PopPromise, IsBuffer, IsSameKind

-----------------------------------------------------------------------------
(* All buffers.                                                             *)

LEMMA BufferKeeps ==
    ASSUME NEW b, IsBuffer(b)
    PROVE  /\ ScratchpadPromise(b)
           /\ \A p \in PushReadiness(b), size \in Nat \ {0} :
                  HasScratchpad(b) => PushPromise(b, p, size)
           /\ \A p \in PopReadiness(b) : PopPromise(b, p)
<1>1. CASE IsSignal(b)
  BY <1>1, SignalScratchpadKeeps, SignalPushKeeps, SignalPopKeeps
<1>2. CASE IsBlocking(b)
  BY <1>2, BlockingScratchpadKeeps, BlockingPushKeeps, BlockingPopKeeps
<1>3. CASE IsResponse(b)
  BY <1>3, ResponseScratchpadKeeps, ResponsePushKeeps, ResponsePopKeeps
<1>4. QED
  BY <1>1, <1>2, <1>3 DEF IsBuffer

\* The buffer of a message has transfers of its own priority only.
LEMMA BufferFacts ==
    ASSUME NEW b, IsBuffer(b)
    PROVE  /\ b \in TxBufferStates /\ b # None
           /\ PopReadiness(b) \subseteq Priorities /\ PushReadiness(b) \subseteq Priorities
           /\ Begun(b) \subseteq PopReadiness(b)
           /\ b.kind # "Response" =>
                  b.priority \in Priorities /\ PopReadiness(b) \subseteq {b.priority}
<1>1. CASE IsSignal(b)
  <2>1. PICK p, pending, fragmented, scratchpad, free :
            IsSignalOf(b, p, pending, fragmented, scratchpad, free)
    BY <1>1, SignalFields
  <2>2. b.priority = p /\ p \in Priorities
    BY <2>1, SignalViews DEF IsSignalOf
  <2>3. /\ PopReadiness(b) = {q \in {p} : fragmented # None \/ pending # None}
        /\ PushReadiness(b) = {p}
        /\ Begun(b) = {q \in {p} : fragmented # None}
    BY <2>1, SignalViews
  <2>4. b \in TxBufferStates
    BY <1>1 DEF IsSignal, TxBufferStates
  <2>5. QED
    BY <2>2, <2>3, <2>4, TxPathAssumption
<1>2. CASE IsBlocking(b)
  <2>1. PICK p, pending, provided : IsBlockingOf(b, p, pending, provided)
    BY <1>2, BlockingFields
  <2>2. b.priority = p /\ p \in Priorities
    BY <2>1, BlockingViews DEF IsBlockingOf
  <2>3. /\ PopReadiness(b) = {q \in {p} : pending # None}
        /\ PushReadiness(b) = {q \in {p} : pending = None}
        /\ Begun(b) = {q \in {p} : pending # None /\ pending.sent > 0}
    BY <2>1, BlockingViews
  <2>4. b \in TxBufferStates
    BY <1>2 DEF IsBlocking, TxBufferStates
  <2>5. QED
    BY <2>2, <2>3, <2>4, TxPathAssumption
<1>3. CASE IsResponse(b)
  <2>1. PICK ts, scratchpad, free : IsResponseOf(b, ts, scratchpad, free)
    BY <1>3, ResponseFields
  <2>2. /\ PopReadiness(b) = {q \in Priorities : ts[q] # None}
        /\ PushReadiness(b) = {q \in Priorities : ts[q] = None}
        /\ Begun(b) = {q \in Priorities : ts[q] # None /\ ts[q].sent > 0}
        /\ b.kind = "Response"
    BY <2>1, ResponseViews
  <2>3. b \in TxBufferStates
    BY <1>3 DEF IsResponse, TxBufferStates
  <2>4. QED
    BY <2>2, <2>3, TxPathAssumption
<1>4. QED
  BY <1>1, <1>2, <1>3 DEF IsBuffer

\* At first all payload buffers are free.
LEMMA NewStock ==
    ASSUME NEW D, NEW at, at = [s \in D |-> None], NEW n \in Nat, NEW free,
           free = [i \in 1 .. n |-> i - 1]
    PROVE  IsStock(at, free, None, n)
<1>1. free \in Seq(0 .. n - 1) /\ Len(free) = n /\ DOMAIN free = 1 .. n
  OBVIOUS
<1>2. IsInjective(free)
  BY <1>1 DEF IsInjective
<1>3. \A i \in 0 .. n - 1 : i \in ToSet(free)
  <2>1. SUFFICES ASSUME NEW i \in 0 .. n - 1
                 PROVE  i \in ToSet(free)
    OBVIOUS
  <2>2. i + 1 \in DOMAIN free /\ free[i + 1] = i
    BY <1>1
  <2>3. QED
    BY <2>2 DEF ToSet
<1>4. QED
  BY <1>1, <1>2, <1>3 DEF IsStock

LEMMA NewBuffer ==
    ASSUME NEW kind \in {"Signal", "Blocking", "Response"}, NEW priority,
           kind # "Response" => priority \in Priorities, NEW b, b = New(kind, priority)
    PROVE  /\ IsBuffer(b) /\ b.kind = kind /\ (kind # "Response" => b.priority = priority)
           /\ PopReadiness(b) = {} /\ Begun(b) = {}
<1>1. CASE kind = "Signal"
  <2>1. PICK free : free = AllFree("Signal")
    OBVIOUS
  <2>2. IsStock(SignalPlaces(None, None), free, None, 2)
    <3>1. SignalPlaces(None, None) = [s \in {"pending", "fragmented"} |-> None]
      BY DEF SignalPlaces, IndexOf
    <3>2. free = [i \in 1 .. 2 |-> i - 1]
      BY <2>1 DEF AllFree, BufferCount
    <3>3. QED
      BY <3>1, <3>2, NewStock
  <2>3. IsSignalOf(b, priority, None, None, None, free)
    BY <1>1, <2>1, <2>2 DEF IsSignalOf, New, SignalNew
  <2>4. /\ IsSignal(b) /\ b.kind = "Signal" /\ b.priority = priority
        /\ PopReadiness(b) = {q \in {priority} : FALSE}
        /\ Begun(b) = {q \in {priority} : FALSE}
    BY <2>3, SignalViews
  <2>5. QED
    BY <1>1, <2>4 DEF IsBuffer
<1>2. CASE kind = "Blocking"
  <2>1. IsBlockingOf(b, priority, None, FALSE)
    BY <1>2 DEF IsBlockingOf, New, BlockingNew
  <2>2. /\ IsBlocking(b) /\ b.kind = "Blocking" /\ b.priority = priority
        /\ PopReadiness(b) = {q \in {priority} : FALSE}
        /\ Begun(b) = {q \in {priority} : FALSE}
    BY <2>1, BlockingViews
  <2>3. QED
    BY <1>2, <2>2 DEF IsBuffer
<1>3. CASE kind = "Response"
  <2>1. PICK free, ts, n : /\ free = AllFree("Response") /\ ts = [p \in Priorities |-> None]
                           /\ n = Cardinality(Priorities)
    OBVIOUS
  <2>2. n \in Nat
    BY <2>1, FS_CardinalityType, TxBuffersAssumption
  <2>3. IsStock(ResponsePlaces(ts), free, None, n)
    <3>1. ResponsePlaces(ts) = [s \in Priorities |-> None]
      BY <2>1 DEF ResponsePlaces, IndexOf
    <3>2. free = [i \in 1 .. n |-> i - 1]
      BY <2>1 DEF AllFree, BufferCount
    <3>3. QED
      BY <2>2, <3>1, <3>2, NewStock
  <2>4. IsResponseOf(b, ts, None, free)
    BY <1>3, <2>1, <2>3 DEF IsResponseOf, New, ResponseNew
  <2>5. /\ IsResponse(b) /\ b.kind = "Response"
        /\ PopReadiness(b) = {q \in Priorities : ts[q] # None}
        /\ Begun(b) = {q \in Priorities : ts[q] # None /\ ts[q].sent > 0}
    BY <2>4, ResponseViews
  <2>6. \A q \in Priorities : ts[q] = None
    BY <2>1
  <2>7. PopReadiness(b) = {} /\ Begun(b) = {}
    BY <2>5, <2>6
  <2>8. QED
    BY <1>3, <2>5, <2>7 DEF IsBuffer
<1>4. QED
  BY <1>1, <1>2, <1>3

\* A payload buffer of a stock has one owner.
LEMMA StockHasOneOwner ==
    ASSUME NEW b, NEW n \in Nat, NEW i \in 0 .. n - 1,
           IsStock(Indexes(TransfersOf(b)), b.free, b.scratchpad, n)
    PROVE  Cardinality(BufferOwners(b, i)) = 1
<1>1. PICK t, at, free : t = TransfersOf(b) /\ at = Indexes(t) /\ free = b.free
  OBVIOUS
<1>2. PICK X, Y, Z :
          /\ X = {<< "transfer", s >> : s \in {s \in DOMAIN t : t[s] # None /\ t[s].buffer_idx = i}}
          /\ Y = {<< "free", k >> : k \in {k \in DOMAIN free : free[k] = i}}
          /\ Z = {<< "scratchpad", i >> : k \in {k \in {b.scratchpad} : k = i}}
  OBVIOUS
<1>3. BufferOwners(b, i) = X \cup Y \cup Z
  BY <1>1, <1>2 DEF BufferOwners
<1>4. i # None
  BY TxPathAssumption
<1>5. IsStock(at, free, b.scratchpad, n)
  BY <1>1
<1>6. /\ DOMAIN at = DOMAIN t
      /\ \A s \in DOMAIN t : at[s] = i <=> t[s] # None /\ t[s].buffer_idx = i
  BY <1>1, <1>4 DEF Indexes
<1>7. /\ \A s \in DOMAIN t : at[s] = i => i \notin ToSet(free) /\ b.scratchpad # i
      /\ \A r, s \in DOMAIN t : at[r] = i /\ at[s] = i => r = s
      /\ b.scratchpad = i => i \notin ToSet(free)
      /\ i \in ToSet(free) \/ i = b.scratchpad \/ \E s \in DOMAIN t : at[s] = i
  BY <1>4, <1>5, <1>6 DEF IsStock
<1>8. /\ i \in ToSet(free) <=> \E k \in DOMAIN free : free[k] = i
      /\ \A j, k \in DOMAIN free : free[j] = i /\ free[k] = i => j = k
  <2>1. IsInjective(free)
    BY <1>5 DEF IsStock
  <2>2. QED
    BY <2>1 DEF ToSet, IsInjective
<1>9. \E x : BufferOwners(b, i) = {x}
  <2>1. CASE \E s \in DOMAIN t : at[s] = i
    <3>1. PICK s \in DOMAIN t : at[s] = i
      BY <2>1
    <3>2. X = {<< "transfer", s >>}
      BY <1>2, <1>6, <1>7, <3>1
    <3>3. Y = {} /\ Z = {}
      BY <1>2, <1>7, <1>8, <3>1
    <3>4. QED
      BY <1>3, <3>2, <3>3
  <2>2. CASE ~ (\E s \in DOMAIN t : at[s] = i) /\ i \in ToSet(free)
    <3>1. PICK k \in DOMAIN free : free[k] = i
      BY <1>8, <2>2
    <3>2. Y = {<< "free", k >>}
      BY <1>2, <1>8, <3>1
    <3>3. X = {} /\ Z = {}
      BY <1>2, <1>6, <1>7, <2>2
    <3>4. QED
      BY <1>3, <3>2, <3>3
  <2>3. CASE ~ (\E s \in DOMAIN t : at[s] = i) /\ i \notin ToSet(free)
    <3>1. b.scratchpad = i
      BY <1>7, <2>3
    <3>2. Z = {<< "scratchpad", i >>}
      BY <1>2, <3>1
    <3>3. X = {} /\ Y = {}
      BY <1>2, <1>6, <1>8, <2>3
    <3>4. QED
      BY <1>3, <3>2, <3>3
  <2>4. QED
    BY <2>1, <2>2, <2>3
<1>10. QED
  BY <1>9, FS_Singleton

\* Each payload buffer of a buffer that has several is in one place.
LEMMA BufferIsPartition ==
    ASSUME NEW b, IsBuffer(b), b.kind # "Blocking",
           NEW i \in 0 .. BufferCount(b.kind) - 1
    PROVE  Cardinality(BufferOwners(b, i)) = 1
<1>1. CASE IsSignal(b)
  <2>1. b.kind = "Signal"
    BY <1>1, SignalFields, SignalViews
  <2>2. BufferCount(b.kind) = 2
    BY <2>1 DEF BufferCount
  <2>3. IsStock(Indexes(TransfersOf(b)), b.free, b.scratchpad, 2)
    BY <1>1 DEF IsSignal
  <2>4. QED
    BY <2>2, <2>3, StockHasOneOwner
<1>2. CASE IsBlocking(b)
  <2>1. b.kind = "Blocking"
    BY <1>2, BlockingFields, BlockingViews
  <2>2. QED
    BY <2>1
<1>3. CASE IsResponse(b)
  <2>1. b.kind = "Response"
    BY <1>3, ResponseFields, ResponseViews
  <2>2. PICK n : n = Cardinality(Priorities)
    OBVIOUS
  <2>3. n \in Nat /\ BufferCount(b.kind) = n
    BY <2>1, <2>2, FS_CardinalityType, TxBuffersAssumption DEF BufferCount
  <2>4. TransfersOf(b) = b.transfers
    BY <2>1 DEF TransfersOf
  <2>5. IsStock(Indexes(TransfersOf(b)), b.free, b.scratchpad, n)
    BY <1>3, <2>2, <2>4 DEF IsResponse
  <2>6. QED
    BY <2>3, <2>5, StockHasOneOwner
<1>4. QED
  BY <1>1, <1>2, <1>3 DEF IsBuffer

-----------------------------------------------------------------------------
(* The lists of a hub.                                                      *)

Marks == [Entries -> QueueIds \cup {None}]

\* The lists of hub h hold its entries, each in the list of its mark.
InLists(lists, mark, h) ==
    /\ lists \in [QueueIds -> Seq(Entries)]
    /\ \A id \in QueueIds :
           /\ IsInjective(lists[id])
           /\ \A x : x \in ToSet(lists[id]) <=> x \in Entries /\ HubOf(x) = h /\ mark[x] = id

\* The cursor of dequeue is that of the entry.
LEMMA DequeueKeeps ==
    ASSUME NEW h, NEW e \in Entries, HubOf(e) = h, NEW mark \in Marks, NEW lists,
           InLists(lists, mark, h)
    PROVE  InLists(Dequeue(lists, mark[e], e), [mark EXCEPT ![e] = None], h)
<1>1. None \notin QueueIds
  BY TxPathAssumption
<1>2. PICK id : id = mark[e]
  OBVIOUS
<1>3. PICK bare : bare = [mark EXCEPT ![e] = None]
  OBVIOUS
<1>4. \A x \in Entries : bare[x] = IF x = e THEN None ELSE mark[x]
  BY <1>3 DEF Marks
<1>5. CASE id = None
  <2>1. bare = mark
    BY <1>2, <1>3, <1>5 DEF Marks
  <2>2. Dequeue(lists, id, e) = lists
    BY <1>5 DEF Dequeue
  <2>3. QED
    BY <1>2, <1>3, <2>1, <2>2
<1>6. CASE id # None
  <2>1. id \in QueueIds
    BY <1>2, <1>6 DEF Marks
  <2>2. PICK seq : seq = lists[id]
    OBVIOUS
  <2>3. seq \in Seq(Entries) /\ IsInjective(seq) /\ e \in ToSet(seq)
    BY <1>2, <2>1, <2>2 DEF InLists
  <2>4. PICK i : i = CHOOSE j \in DOMAIN seq : seq[j] = e
    OBVIOUS
  <2>5. i \in 1 .. Len(seq) /\ seq[i] = e
    <3>1. \E j \in DOMAIN seq : seq[j] = e
      BY <2>3 DEF ToSet
    <3>2. i \in DOMAIN seq /\ seq[i] = e
      BY <2>4, <3>1
    <3>3. QED
      BY <2>3, <3>2
  <2>6. PICK rest : rest = RemoveAt(seq, i)
    OBVIOUS
  <2>7. rest \in Seq(Entries) /\ IsInjective(rest) /\ ToSet(rest) = ToSet(seq) \ {e}
    BY <2>3, <2>5, <2>6, RemoveAtProperties, RemoveAtElements
  <2>8. PICK after : after = [lists EXCEPT ![id] = rest]
    OBVIOUS
  <2>9. Dequeue(lists, id, e) = after
    BY <1>6, <2>1, <2>2, <2>4, <2>6, <2>8 DEF Dequeue, InLists
  <2>10. /\ after \in [QueueIds -> Seq(Entries)]
         /\ \A d \in QueueIds : after[d] = IF d = id THEN rest ELSE lists[d]
    BY <2>1, <2>7, <2>8 DEF InLists
  <2>11. ASSUME NEW d \in QueueIds
         PROVE  /\ IsInjective(after[d])
                /\ \A x : x \in ToSet(after[d]) <=>
                              x \in Entries /\ HubOf(x) = h /\ bare[x] = d
    <3>1. /\ IsInjective(lists[d])
          /\ \A x : x \in ToSet(lists[d]) <=> x \in Entries /\ HubOf(x) = h /\ mark[x] = d
      BY DEF InLists
    <3>2. CASE d = id
      <4>1. after[d] = rest /\ lists[d] = seq
        BY <2>2, <2>10, <3>2
      <4>2. \A x : x \in ToSet(rest) <=> x \in ToSet(seq) /\ x # e
        BY <2>7
      <4>3. QED
        BY <1>1, <1>4, <2>7, <3>1, <4>1, <4>2
    <3>3. CASE d # id
      <4>1. after[d] = lists[d]
        BY <2>10, <3>3
      <4>2. \A x \in Entries : bare[x] = d <=> mark[x] = d
        BY <1>1, <1>2, <1>4, <3>3
      <4>3. QED
        BY <3>1, <4>1, <4>2
    <3>4. QED
      BY <3>2, <3>3
  <2>12. InLists(after, bare, h)
    BY <2>10, <2>11 DEF InLists
  <2>13. QED
    BY <1>2, <1>3, <2>9, <2>12
<1>7. QED
  BY <1>5, <1>6

\* An entry without a mark comes to the end of a list.
LEMMA EnqueueKeeps ==
    ASSUME NEW h, NEW e \in Entries, HubOf(e) = h, NEW mark \in Marks, NEW lists,
           InLists(lists, mark, h), mark[e] = None, NEW id \in QueueIds
    PROVE  InLists([lists EXCEPT ![id] = Append(@, e)], [mark EXCEPT ![e] = id], h)
<1>1. None \notin QueueIds
  BY TxPathAssumption
<1>2. PICK after, marked, longer :
          /\ longer = Append(lists[id], e)
          /\ after = [lists EXCEPT ![id] = Append(@, e)] /\ marked = [mark EXCEPT ![e] = id]
  OBVIOUS
<1>3. \A x \in Entries : marked[x] = IF x = e THEN id ELSE mark[x]
  BY <1>2 DEF Marks
<1>4. /\ lists[id] \in Seq(Entries) /\ IsInjective(lists[id])
      /\ e \notin ToSet(lists[id])
  BY <1>1 DEF InLists
<1>5. /\ longer \in Seq(Entries) /\ IsInjective(longer)
      /\ ToSet(longer) = ToSet(lists[id]) \cup {e}
  BY <1>2, <1>4, AppendElements, AppendProperties
<1>6. /\ after \in [QueueIds -> Seq(Entries)]
      /\ \A d \in QueueIds : after[d] = IF d = id THEN longer ELSE lists[d]
  BY <1>2, <1>5 DEF InLists
<1>7. ASSUME NEW d \in QueueIds
      PROVE  /\ IsInjective(after[d])
             /\ \A x : x \in ToSet(after[d]) <=>
                           x \in Entries /\ HubOf(x) = h /\ marked[x] = d
  <2>1. /\ IsInjective(lists[d])
        /\ \A x : x \in ToSet(lists[d]) <=> x \in Entries /\ HubOf(x) = h /\ mark[x] = d
    BY DEF InLists
  <2>2. CASE d = id
    <3>1. \A x : x \in ToSet(longer) <=> x \in ToSet(lists[d]) \/ x = e
      BY <1>5, <2>2
    <3>2. QED
      BY <1>3, <1>5, <1>6, <2>1, <2>2, <3>1
  <2>3. CASE d # id
    <3>1. \A x \in Entries : marked[x] = d <=> mark[x] = d
      BY <1>1, <1>3, <2>3
    <3>2. QED
      BY <1>6, <2>1, <2>3, <3>1
  <2>4. QED
    BY <2>2, <2>3
<1>8. InLists(after, marked, h)
  BY <1>6, <1>7 DEF InLists
<1>9. QED
  BY <1>2, <1>8

\* reg_update_queue_position leaves an entry in the list it is told.
LEMMA MovedKeeps ==
    ASSUME NEW h, NEW e \in Entries, HubOf(e) = h, NEW mark \in Marks, NEW lists,
           InLists(lists, mark, h), NEW id \in QueueIds \cup {None}
    PROVE  InLists(Moved(lists, mark[e], e, id), [mark EXCEPT ![e] = id], h)
<1>1. PICK bare, left : /\ bare = [mark EXCEPT ![e] = None]
                        /\ left = Dequeue(lists, mark[e], e)
  OBVIOUS
<1>2. InLists(left, bare, h) /\ bare \in Marks /\ bare[e] = None
  BY <1>1, DequeueKeeps DEF Marks
<1>3. CASE id = mark[e]
  <2>1. [mark EXCEPT ![e] = id] = mark
    BY <1>3 DEF Marks
  <2>2. Moved(lists, mark[e], e, id) = lists
    BY <1>3 DEF Moved
  <2>3. QED
    BY <2>1, <2>2
<1>4. CASE id # mark[e] /\ id = None
  BY <1>1, <1>2, <1>4 DEF Moved
<1>5. CASE id # mark[e] /\ id # None
  <2>1. Moved(lists, mark[e], e, id) = [left EXCEPT ![id] = Append(@, e)]
    BY <1>1, <1>5 DEF Moved
  <2>2. [mark EXCEPT ![e] = id] = [bare EXCEPT ![e] = id]
    BY <1>1 DEF Marks
  <2>3. id \in QueueIds
    BY <1>5
  <2>4. InLists([left EXCEPT ![id] = Append(@, e)], [bare EXCEPT ![e] = id], h)
    BY <1>2, <2>3, EnqueueKeeps
  <2>5. QED
    BY <2>1, <2>2, <2>4
<1>6. QED
  BY <1>3, <1>4, <1>5

\* The lists of the other hub do not change.
LEMMA OtherListsKeep ==
    ASSUME NEW h, NEW e \in Entries, HubOf(e) # h, NEW mark \in Marks, NEW lists,
           InLists(lists, mark, h), NEW id
    PROVE  InLists(lists, [mark EXCEPT ![e] = id], h)
<1>1. PICK marked : marked = [mark EXCEPT ![e] = id]
  OBVIOUS
<1>2. \A x \in Entries : marked[x] = IF x = e THEN id ELSE mark[x]
  BY <1>1 DEF Marks
<1>3. \A d \in QueueIds : \A x : x \in Entries /\ HubOf(x) = h /\ marked[x] = d
                                 <=> x \in Entries /\ HubOf(x) = h /\ mark[x] = d
  BY <1>2
<1>4. InLists(lists, marked, h)
  BY <1>3 DEF InLists
<1>5. QED
  BY <1>1, <1>4

-----------------------------------------------------------------------------
(* The inductive invariant.                                                 *)

\* What a writer waits for is not there, and what it serializes for is.
WriterIsGood(w, b) ==
    \/ w = Running
    \/ \E mask \in SUBSET Priorities :
           w = [at |-> "waitReady", mask |-> mask] /\ PushReadiness(b) \cap mask = {}
    \/ w = [at |-> "waitEmpty", mask |-> {}] /\ ~ IsEmpty(b)
    \/ \E p \in PushReadiness(b) :
           w = [at |-> "serializing", mask |-> {p}] /\ HasScratchpad(b)

IsBufferOf(e, b) ==
    IsBuffer(b) /\ b.kind = Kind[e] /\ (HubOf(e) = "tx_msg" => b.priority = PriorityOf[e])

\* What the registry keeps of an entry is what its buffer says.
EntryIsGood(e, b, st, mark, w) ==
    \/ b = None /\ st = {} /\ mark = None /\ w = Running
    \/ /\ IsBufferOf(e, b) /\ st = Begun(b) /\ mark = Position(b, Begun(b))
       /\ WriterIsGood(w, b)

\* Until it is woken the driver knows of all the entries in lists of its mask.
DriverIsGood(d, mark) ==
    /\ d \in [at : {"running", "responses", "waiting"}, mask : SUBSET Priorities,
              woken : BOOLEAN]
    /\ d.at = "running" => d = Idle
    /\ ~ d.woken => \A e \in Entries :
           /\ mark[e] # None
           /\ d.at = "waiting" \/ (d.at = "responses" /\ HubOf(e) = "tx_msg")
           => mark[e][1] \notin d.mask

\* Messages of the same priority are not mixed.
NotMixed(st) ==
    \A d, e \in Entries : HubOf(d) = "tx_msg" /\ HubOf(e) = "tx_msg" =>
        \A p \in Priorities : p \in st[d] /\ p \in st[e] => d = e

TypeInv ==
    /\ buffer \in [Entries -> TxBufferStates \cup {None}]
    /\ started \in [Entries -> SUBSET Priorities]
    /\ queue_mark \in Marks
    /\ queues \in [Hubs -> [QueueIds -> Seq(Entries)]]
    /\ writer \in [Entries -> [at : {"running", "waitReady", "waitEmpty", "serializing"},
                               mask : SUBSET Priorities]]

IInv ==
    /\ TypeInv
    /\ \A e \in Entries :
           EntryIsGood(e, buffer[e], started[e], queue_mark[e], writer[e])
    /\ \A h \in Hubs : InLists(queues[h], queue_mark, h)
    /\ NotMixed(started)
    /\ DriverIsGood(driver, queue_mark)

\* The transfers that were begun go on.
AllGoOn ==
    \A e \in Entries : buffer[e] # None /\ buffer'[e] # None => GoesOn(buffer[e], buffer'[e])

LEMMA PositionFacts ==
    ASSUME NEW b, IsBuffer(b), NEW id, id = Position(b, Begun(b))
    PROVE  /\ id \in QueueIds \cup {None}
           /\ id = None <=> IsEmpty(b)
           /\ id # None => /\ id[1] = Min(PopReadiness(b)) /\ id[1] \in PopReadiness(b)
                           /\ id[1] \in Priorities
                           /\ id[2] = IF id[1] \in Begun(b) THEN "Started" ELSE "Finished"
<1>1. CASE IsEmpty(b)
  BY <1>1 DEF Position
<1>2. CASE ~ IsEmpty(b)
  <2>1. PICK p : p = Min(PopReadiness(b))
    OBVIOUS
  <2>2. id = << p, IF p \in Begun(b) THEN "Started" ELSE "Finished" >>
    BY <1>2, <2>1 DEF Position
  <2>3. PopReadiness(b) \subseteq Priorities
    BY BufferFacts
  <2>4. PopReadiness(b) \subseteq Nat /\ PopReadiness(b) # {}
    BY <1>2, <2>3, TxBuffersAssumption DEF IsEmpty
  <2>5. p \in PopReadiness(b)
    BY <2>1, <2>4, MinIsLeast
  <2>6. id \in QueueIds
    BY <2>2, <2>3, <2>5 DEF QueueIds
  <2>7. id # None
    BY <2>6, TxPathAssumption
  <2>8. QED
    BY <1>2, <2>1, <2>2, <2>3, <2>5, <2>6, <2>7
<1>3. QED
  BY <1>1, <1>2

LEMMA EntryFacts ==
    ASSUME NEW e \in Entries, NEW b, NEW st, NEW mark, NEW w, EntryIsGood(e, b, st, mark, w)
    PROVE  /\ b \in TxBufferStates \cup {None} /\ st \in SUBSET Priorities
           /\ mark \in QueueIds \cup {None}
           /\ w \in [at : {"running", "waitReady", "waitEmpty", "serializing"},
                     mask : SUBSET Priorities]
<1>1. CASE b = None /\ st = {} /\ mark = None /\ w = Running
  BY <1>1 DEF Running
<1>2. CASE /\ IsBufferOf(e, b) /\ st = Begun(b) /\ mark = Position(b, Begun(b))
           /\ WriterIsGood(w, b)
  <2>1. IsBuffer(b)
    BY <1>2 DEF IsBufferOf
  <2>2. /\ b \in TxBufferStates /\ st \in SUBSET Priorities
        /\ PushReadiness(b) \subseteq Priorities
    BY <1>2, <2>1, BufferFacts
  <2>3. mark \in QueueIds \cup {None}
    BY <1>2, <2>1, PositionFacts
  <2>4. w \in [at : {"running", "waitReady", "waitEmpty", "serializing"},
               mask : SUBSET Priorities]
    <3>1. CASE w = Running
      BY <3>1 DEF Running
    <3>2. ASSUME NEW mask \in SUBSET Priorities, w = [at |-> "waitReady", mask |-> mask]
          PROVE  w \in [at : {"running", "waitReady", "waitEmpty", "serializing"},
                        mask : SUBSET Priorities]
      BY <3>2
    <3>3. CASE w = [at |-> "waitEmpty", mask |-> {}]
      BY <3>3
    <3>4. ASSUME NEW p \in PushReadiness(b), w = [at |-> "serializing", mask |-> {p}]
          PROVE  w \in [at : {"running", "waitReady", "waitEmpty", "serializing"},
                        mask : SUBSET Priorities]
      BY <2>2, <3>4
    <3>5. QED
      BY <1>2, <3>1, <3>2, <3>3, <3>4 DEF WriterIsGood
  <2>5. QED
    BY <2>2, <2>3, <2>4
<1>3. QED
  BY <1>1, <1>2 DEF EntryIsGood

\* A step of one entry, to the state given.
EntryMoves(e, b, st, mark, w, lists) ==
    /\ EntryIsGood(e, b, st, mark, w)
    /\ buffer[e] # None /\ b # None => GoesOn(buffer[e], b)
    /\ buffer' = [buffer EXCEPT ![e] = b] /\ started' = [started EXCEPT ![e] = st]
    /\ queue_mark' = [queue_mark EXCEPT ![e] = mark]
    /\ writer' = [writer EXCEPT ![e] = w]
    /\ queues' = [queues EXCEPT ![HubOf(e)] = lists]
    /\ InLists(lists, queue_mark', HubOf(e))
    /\ \A d \in Entries : d # e /\ HubOf(d) = "tx_msg" /\ HubOf(e) = "tx_msg" =>
           \A p \in st : p \notin started[d]
    /\ DriverIsGood(driver', queue_mark')

LEMMA EntryStep ==
    ASSUME IInv, NEW e \in Entries, NEW b, NEW st, NEW mark, NEW w, NEW lists,
           EntryMoves(e, b, st, mark, w, lists)
    PROVE  IInv' /\ AllGoOn
<1>1. /\ b \in TxBufferStates \cup {None} /\ st \in SUBSET Priorities
      /\ mark \in QueueIds \cup {None}
      /\ w \in [at : {"running", "waitReady", "waitEmpty", "serializing"},
                mask : SUBSET Priorities]
  BY EntryFacts DEF EntryMoves
<1>2. TypeInv
  BY DEF IInv
<1>3. HubOf(e) \in Hubs
  BY DEF HubOf, Hubs
<1>4. lists \in [QueueIds -> Seq(Entries)]
  BY DEF EntryMoves, InLists
<1>5. TypeInv'
  <2>1. buffer' \in [Entries -> TxBufferStates \cup {None}]
    BY <1>1, <1>2 DEF EntryMoves, TypeInv
  <2>2. started' \in [Entries -> SUBSET Priorities]
    BY <1>1, <1>2 DEF EntryMoves, TypeInv
  <2>3. queue_mark' \in Marks
    BY <1>1, <1>2 DEF EntryMoves, TypeInv, Marks
  <2>4. queues' \in [Hubs -> [QueueIds -> Seq(Entries)]]
    BY <1>2, <1>4 DEF EntryMoves, TypeInv
  <2>5. writer' \in [Entries -> [at : {"running", "waitReady", "waitEmpty", "serializing"},
                                 mask : SUBSET Priorities]]
    BY <1>1, <1>2 DEF EntryMoves, TypeInv
  <2>6. QED
    BY <2>1, <2>2, <2>3, <2>4, <2>5 DEF TypeInv
<1>6. \A d \in Entries :
          /\ buffer'[d] = (IF d = e THEN b ELSE buffer[d])
          /\ started'[d] = (IF d = e THEN st ELSE started[d])
          /\ queue_mark'[d] = (IF d = e THEN mark ELSE queue_mark[d])
          /\ writer'[d] = (IF d = e THEN w ELSE writer[d])
  BY <1>2 DEF EntryMoves, TypeInv, Marks
<1>7. ASSUME NEW d \in Entries
      PROVE  EntryIsGood(d, buffer'[d], started'[d], queue_mark'[d], writer'[d])
  <2>1. EntryIsGood(d, buffer[d], started[d], queue_mark[d], writer[d])
    BY DEF IInv
  <2>2. CASE d = e
    BY <1>6, <2>2 DEF EntryMoves
  <2>3. CASE d # e
    BY <1>6, <2>1, <2>3
  <2>4. QED
    BY <2>2, <2>3
<1>8. ASSUME NEW h \in Hubs
      PROVE  InLists(queues'[h], queue_mark', h)
  <2>1. CASE h = HubOf(e)
    <3>1. queues'[h] = lists
      BY <1>2, <2>1 DEF EntryMoves, TypeInv
    <3>2. QED
      BY <2>1, <3>1 DEF EntryMoves
  <2>2. CASE h # HubOf(e)
    <3>1. queues'[h] = queues[h]
      BY <1>2, <2>2 DEF EntryMoves, TypeInv
    <3>2. InLists(queues[h], queue_mark, h) /\ queue_mark \in Marks
      BY <1>2 DEF IInv, TypeInv
    <3>3. InLists(queues[h], [queue_mark EXCEPT ![e] = mark], h)
      BY <2>2, <3>2, OtherListsKeep
    <3>4. QED
      BY <3>1, <3>3 DEF EntryMoves
  <2>3. QED
    BY <2>1, <2>2
<1>9. NotMixed(started')
  <2>1. SUFFICES ASSUME NEW c \in Entries, NEW d \in Entries, NEW p \in Priorities,
                        HubOf(c) = "tx_msg", HubOf(d) = "tx_msg",
                        p \in started'[c], p \in started'[d]
                 PROVE  c = d
    BY DEF NotMixed
  <2>2. CASE c # e /\ d # e
    <3>1. p \in started[c] /\ p \in started[d]
      BY <1>6, <2>1, <2>2
    <3>2. QED
      BY <2>1, <3>1 DEF IInv, NotMixed
  <2>3. CASE c = e /\ d # e
    BY <1>6, <2>1, <2>3 DEF EntryMoves
  <2>4. CASE c # e /\ d = e
    BY <1>6, <2>1, <2>4 DEF EntryMoves
  <2>5. QED
    BY <2>2, <2>3, <2>4
<1>10. AllGoOn
  <2>1. SUFFICES ASSUME NEW d \in Entries, buffer[d] # None, buffer'[d] # None
                 PROVE  GoesOn(buffer[d], buffer'[d])
    BY DEF AllGoOn
  <2>2. CASE d = e
    BY <1>6, <2>1, <2>2 DEF EntryMoves
  <2>3. CASE d # e
    <3>1. buffer'[d] = buffer[d]
      BY <1>6, <2>3
    <3>2. GoesOn(buffer[d], buffer[d])
      BY SameGoesOn
    <3>3. QED
      BY <3>1, <3>2
  <2>4. QED
    BY <2>2, <2>3
<1>11. IInv'
  BY <1>5, <1>7, <1>8, <1>9 DEF EntryMoves, IInv
<1>12. QED
  BY <1>10, <1>11

LEMMA EndpointFacts ==
    ASSUME IInv, NEW e \in Entries, buffer[e] # None
    PROVE  /\ IsBufferOf(e, buffer[e]) /\ IsBuffer(buffer[e])
           /\ started[e] = Begun(buffer[e])
           /\ queue_mark[e] = Position(buffer[e], Begun(buffer[e]))
           /\ WriterIsGood(writer[e], buffer[e])
<1>1. EntryIsGood(e, buffer[e], started[e], queue_mark[e], writer[e])
  BY DEF IInv
<1>2. QED
  BY <1>1 DEF EntryIsGood, IsBufferOf

\* A step of one entry that the queue is not told of.
EntryStays(e, b, w) ==
    /\ EntryIsGood(e, b, started[e], queue_mark[e], w)
    /\ buffer[e] # None /\ b # None => GoesOn(buffer[e], b)
    /\ buffer' = [buffer EXCEPT ![e] = b] /\ writer' = [writer EXCEPT ![e] = w]
    /\ UNCHANGED << started, queue_mark, queues, driver >>

LEMMA UnmovedStep ==
    ASSUME IInv, NEW e \in Entries, NEW b, NEW w, EntryStays(e, b, w)
    PROVE  IInv' /\ AllGoOn
<1>1. TypeInv /\ DriverIsGood(driver, queue_mark) /\ HubOf(e) \in Hubs
  BY DEF IInv, HubOf, Hubs
<1>2. PICK st, mark, lists : /\ st = started[e] /\ mark = queue_mark[e]
                             /\ lists = queues[HubOf(e)]
  OBVIOUS
<1>3. /\ started' = [started EXCEPT ![e] = st] /\ queue_mark' = [queue_mark EXCEPT ![e] = mark]
      /\ queues' = [queues EXCEPT ![HubOf(e)] = lists]
  BY <1>1, <1>2 DEF EntryStays, TypeInv, Marks
<1>4. InLists(lists, queue_mark', HubOf(e))
  BY <1>1, <1>2 DEF EntryStays, IInv
<1>5. \A d \in Entries : d # e /\ HubOf(d) = "tx_msg" /\ HubOf(e) = "tx_msg" =>
          \A p \in st : p \notin started[d]
  <2>1. st \subseteq Priorities
    BY <1>1, <1>2 DEF TypeInv
  <2>2. QED
    BY <1>2, <2>1 DEF IInv, NotMixed
<1>6. EntryIsGood(e, b, st, mark, w)
  BY <1>2 DEF EntryStays
<1>7. DriverIsGood(driver', queue_mark')
  BY <1>1 DEF EntryStays
<1>8. EntryMoves(e, b, st, mark, w, lists)
  BY <1>3, <1>4, <1>5, <1>6, <1>7 DEF EntryStays, EntryMoves
<1>9. QED
  BY <1>8, EntryStep

LEMMA RegisteredKeeps ==
    ASSUME IInv, NEW e \in Entries, buffer[e] = None, Registered(e)
    PROVE  IInv' /\ AllGoOn
<1>1. PICK b : b = New(Kind[e], PriorityOf[e])
  OBVIOUS
<1>2. /\ Kind[e] \in {"Signal", "Blocking", "Response"}
      /\ Kind[e] # "Response" => PriorityOf[e] \in Priorities
      /\ HubOf(e) = "tx_msg" <=> Kind[e] # "Response"
  BY TxPathAssumption DEF HubOf
<1>3. /\ IsBuffer(b) /\ b.kind = Kind[e]
      /\ Kind[e] # "Response" => b.priority = PriorityOf[e]
      /\ PopReadiness(b) = {} /\ Begun(b) = {}
  BY <1>1, <1>2, NewBuffer
<1>4. started[e] = {} /\ queue_mark[e] = None
  <2>1. EntryIsGood(e, buffer[e], started[e], queue_mark[e], writer[e])
    BY DEF IInv
  <2>2. ~ IsBuffer(None)
    BY BufferFacts
  <2>3. QED
    BY <2>1, <2>2 DEF EntryIsGood, IsBufferOf
<1>5. Position(b, Begun(b)) = None
  BY <1>3 DEF Position, IsEmpty
<1>6. IsBufferOf(e, b)
  BY <1>2, <1>3 DEF IsBufferOf
<1>7. EntryIsGood(e, b, started[e], queue_mark[e], Running)
  BY <1>3, <1>4, <1>5, <1>6 DEF EntryIsGood, WriterIsGood
<1>8. started' = started
  BY <1>4 DEF Registered, IInv, TypeInv
<1>9. EntryStays(e, b, Running)
  BY <1>1, <1>7, <1>8 DEF Registered, EntryStays
<1>10. QED
  BY <1>9, UnmovedStep

LEMMA CreateMessageKeeps ==
    ASSUME IInv, NEW e \in Entries, CreateMessage(e)
    PROVE  IInv' /\ AllGoOn
<1>1. buffer[e] = None
  BY DEF CreateMessage, IsOccupied
<1>2. QED
  BY <1>1, RegisteredKeeps DEF CreateMessage

LEMMA CreateResponseKeeps ==
    ASSUME IInv, NEW e \in Entries, CreateResponse(e)
    PROVE  IInv' /\ AllGoOn
BY RegisteredKeeps DEF CreateResponse

\* A driver that is not woken for an entry knows of it when it leaves its list.
LEMMA DriverStays ==
    ASSUME NEW mark \in Marks, NEW e \in Entries, NEW d, DriverIsGood(d, mark)
    PROVE  DriverIsGood(d, [mark EXCEPT ![e] = None])
<1>1. PICK bare : bare = [mark EXCEPT ![e] = None]
  OBVIOUS
<1>2. \A x \in Entries : bare[x] = IF x = e THEN None ELSE mark[x]
  BY <1>1 DEF Marks
<1>3. DriverIsGood(d, bare)
  BY <1>2 DEF DriverIsGood
<1>4. QED
  BY <1>1, <1>3

LEMMA DropKeeps ==
    ASSUME IInv, NEW e \in Entries, Drop(e)
    PROVE  IInv' /\ AllGoOn
<1>1. PICK lists : lists = Dequeue(queues[HubOf(e)], queue_mark[e], e)
  OBVIOUS
<1>2. /\ buffer' = [buffer EXCEPT ![e] = None] /\ started' = [started EXCEPT ![e] = {}]
      /\ queue_mark' = [queue_mark EXCEPT ![e] = None]
      /\ writer' = [writer EXCEPT ![e] = Running]
      /\ queues' = [queues EXCEPT ![HubOf(e)] = lists] /\ driver' = driver
  BY <1>1 DEF Drop, Unregister
<1>3. HubOf(e) \in Hubs
  BY DEF HubOf, Hubs
<1>4. queue_mark \in Marks /\ InLists(queues[HubOf(e)], queue_mark, HubOf(e))
  BY <1>3 DEF IInv, TypeInv
<1>5. InLists(lists, queue_mark', HubOf(e))
  BY <1>1, <1>2, <1>4, DequeueKeeps
<1>6. DriverIsGood(driver', queue_mark')
  BY <1>2, <1>4, DriverStays DEF IInv
<1>7. EntryIsGood(e, None, {}, None, Running)
  BY DEF EntryIsGood
<1>8. EntryMoves(e, None, {}, None, Running, lists)
  BY <1>2, <1>5, <1>6, <1>7 DEF EntryMoves
<1>9. QED
  BY <1>8, EntryStep

\* The scratchpad is given, and the entry stays where it is: it has the priorities it had.
LEMMA BeginPushKeeps ==
    ASSUME IInv, NEW e \in Entries, NEW p \in Priorities, BeginPush(e, p)
    PROVE  IInv' /\ AllGoOn
<1>1. PICK b, after, w :
          /\ b = buffer[e] /\ after = GetScratchpad(b)
          /\ w = (IF p \in PushReadiness(b) THEN [at |-> "serializing", mask |-> {p}]
                                            ELSE Running)
  OBVIOUS
<1>2. b # None
  BY <1>1 DEF BeginPush
<1>3. /\ IsBufferOf(e, b) /\ IsBuffer(b) /\ started[e] = Begun(b)
      /\ queue_mark[e] = Position(b, Begun(b))
  BY <1>1, <1>2, EndpointFacts
<1>4. /\ IsBuffer(after) /\ IsSameKind(b, after)
      /\ PopReadiness(after) = PopReadiness(b)
      /\ PushReadiness(after) = PushReadiness(b)
      /\ Begun(after) = Begun(b) /\ GoesOn(b, after)
      /\ PushReadiness(b) # {} => HasScratchpad(after)
  BY <1>1, <1>3, BufferKeeps DEF ScratchpadPromise
<1>5. Position(after, Begun(after)) = Position(b, Begun(b))
  BY <1>4 DEF Position, IsEmpty
<1>6. IsBufferOf(e, after)
  BY <1>3, <1>4 DEF IsBufferOf, IsSameKind, HubOf
<1>7. WriterIsGood(w, after)
  BY <1>1, <1>4 DEF WriterIsGood
<1>8. EntryIsGood(e, after, started[e], queue_mark[e], w)
  BY <1>3, <1>4, <1>5, <1>6, <1>7 DEF EntryIsGood
<1>9. EntryStays(e, after, w)
  BY <1>1, <1>4, <1>8 DEF BeginPush, WithBuffer, queueVars, EntryStays
<1>10. QED
  BY <1>9, UnmovedStep

\* A step of a writer that leaves its buffer alone.
LEMMA WriterStep ==
    ASSUME IInv, NEW e \in Entries, buffer[e] # None, NEW w, WriterIsGood(w, buffer[e]),
           writer' = [writer EXCEPT ![e] = w], UNCHANGED << buffer, queueVars, driver >>
    PROVE  IInv' /\ AllGoOn
<1>1. PICK b : b = buffer[e]
  OBVIOUS
<1>2. /\ IsBufferOf(e, b) /\ started[e] = Begun(b) /\ queue_mark[e] = Position(b, Begun(b))
  BY <1>1, EndpointFacts
<1>3. EntryIsGood(e, b, started[e], queue_mark[e], w)
  BY <1>1, <1>2 DEF EntryIsGood
<1>4. GoesOn(b, b)
  BY SameGoesOn
<1>5. buffer' = [buffer EXCEPT ![e] = b]
  BY <1>1 DEF IInv, TypeInv
<1>6. EntryStays(e, b, w)
  BY <1>1, <1>3, <1>4, <1>5 DEF queueVars, EntryStays
<1>7. QED
  BY <1>6, UnmovedStep

LEMMA WaitPushReadinessKeeps ==
    ASSUME IInv, NEW e \in Entries, NEW p \in Priorities, WaitPushReadiness(e, {p})
    PROVE  IInv' /\ AllGoOn
<1>1. PICK w : w = [at |-> "waitReady", mask |-> {p}]
  OBVIOUS
<1>2. WriterIsGood(w, buffer[e])
  <2>1. {p} \in SUBSET Priorities /\ PushReadiness(buffer[e]) \cap {p} = {}
    BY DEF WaitPushReadiness
  <2>2. QED
    BY <1>1, <2>1 DEF WriterIsGood
<1>3. QED
  BY <1>1, <1>2, WriterStep DEF WaitPushReadiness

LEMMA WaitAllSentKeeps ==
    ASSUME IInv, NEW e \in Entries, WaitAllSent(e)
    PROVE  IInv' /\ AllGoOn
<1>1. PICK w : w = [at |-> "waitEmpty", mask |-> {}]
  OBVIOUS
<1>2. WriterIsGood(w, buffer[e])
  BY <1>1 DEF WaitAllSent, WriterIsGood
<1>3. QED
  BY <1>1, <1>2, WriterStep DEF WaitAllSent

LEMMA StopWaitingKeeps ==
    ASSUME IInv, NEW e \in Entries, StopWaiting(e)
    PROVE  IInv' /\ AllGoOn
<1>1. buffer[e] # None
  <2>1. EntryIsGood(e, buffer[e], started[e], queue_mark[e], writer[e])
    BY DEF IInv
  <2>2. writer[e] # Running
    BY DEF StopWaiting, Running
  <2>3. IsBuffer(buffer[e])
    BY <2>1, <2>2 DEF EntryIsGood, IsBufferOf
  <2>4. QED
    BY <2>3, BufferFacts
<1>2. WriterIsGood(Running, buffer[e])
  BY DEF WriterIsGood
<1>3. QED
  BY <1>1, <1>2, WriterStep DEF StopWaiting

\* The entry comes to the list it belongs to, and a driver that waits for it is woken.
LEMMA EndPushKeeps ==
    ASSUME IInv, NEW e \in Entries, NEW p \in Priorities, NEW size \in Lengths[e],
           EndPush(e, p, size)
    PROVE  IInv' /\ AllGoOn
<1>1. PICK b, after, id, lists :
          /\ b = buffer[e] /\ after = Push(b, p, size)
          /\ id = Position(after, started[e])
          /\ lists = Moved(queues[HubOf(e)], queue_mark[e], e, id)
  OBVIOUS
<1>2. TypeInv /\ DriverIsGood(driver, queue_mark) /\ HubOf(e) \in Hubs
  BY DEF IInv, HubOf, Hubs
<1>3. writer[e] = [at |-> "serializing", mask |-> {p}]
  BY DEF EndPush
<1>4. b # None
  <2>1. EntryIsGood(e, buffer[e], started[e], queue_mark[e], writer[e])
    BY DEF IInv
  <2>2. writer[e] # Running
    BY <1>3 DEF Running
  <2>3. IsBuffer(buffer[e])
    BY <2>1, <2>2 DEF EntryIsGood, IsBufferOf
  <2>4. QED
    BY <1>1, <2>3, BufferFacts
<1>5. /\ IsBufferOf(e, b) /\ IsBuffer(b) /\ started[e] = Begun(b)
      /\ WriterIsGood(writer[e], b)
  BY <1>1, <1>4, EndpointFacts
<1>6. p \in PushReadiness(b) /\ HasScratchpad(b)
  <2>1. PICK w : w = writer[e]
    OBVIOUS
  <2>2. w.at = "serializing" /\ w.mask = {p}
    BY <1>3, <2>1
  <2>3. w # Running /\ w # [at |-> "waitEmpty", mask |-> {}]
    BY <2>2 DEF Running
  <2>4. \A mask : w # [at |-> "waitReady", mask |-> mask]
    BY <2>2
  <2>5. PICK q \in PushReadiness(b) :
            w = [at |-> "serializing", mask |-> {q}] /\ HasScratchpad(b)
    BY <1>5, <2>1, <2>3, <2>4 DEF WriterIsGood
  <2>6. w.mask = {q}
    BY <2>5
  <2>7. q = p
    BY <2>2, <2>6
  <2>8. QED
    BY <2>5, <2>7
<1>7. size \in Nat \ {0}
  BY TxPathAssumption
<1>8. /\ IsBuffer(after) /\ IsSameKind(b, after)
      /\ Begun(after) = Begun(b) /\ GoesOn(b, after)
  BY <1>1, <1>5, <1>6, <1>7, BufferKeeps DEF PushPromise
<1>9. id = Position(after, Begun(after)) /\ id \in QueueIds \cup {None}
  BY <1>1, <1>5, <1>8, PositionFacts
<1>10. IsBufferOf(e, after)
  BY <1>5, <1>8 DEF IsBufferOf, IsSameKind, HubOf
<1>11. EntryIsGood(e, after, started[e], id, Running)
  BY <1>5, <1>8, <1>9, <1>10 DEF EntryIsGood, WriterIsGood
<1>12. /\ buffer' = [buffer EXCEPT ![e] = after]
       /\ queue_mark' = [queue_mark EXCEPT ![e] = id]
       /\ writer' = [writer EXCEPT ![e] = Running]
       /\ queues' = [queues EXCEPT ![HubOf(e)] = lists]
       /\ started' = started
       /\ driver' = [driver EXCEPT !.woken = @ \/ Wakes(HubOf(e), queue_mark[e], id)]
  BY <1>1 DEF EndPush, QueuePush, UpdateQueuePosition
<1>13. InLists(lists, queue_mark', HubOf(e))
  <2>1. InLists(queues[HubOf(e)], queue_mark, HubOf(e)) /\ queue_mark \in Marks
    BY <1>2 DEF IInv, TypeInv
  <2>2. QED
    BY <1>1, <1>9, <1>12, <2>1, MovedKeeps
<1>14. \A d \in Entries : d # e /\ HubOf(d) = "tx_msg" /\ HubOf(e) = "tx_msg" =>
           \A q \in started[e] : q \notin started[d]
  <2>1. started[e] \subseteq Priorities
    BY <1>2 DEF TypeInv
  <2>2. QED
    BY <2>1 DEF IInv, NotMixed
<1>15. DriverIsGood(driver', queue_mark')
  <2>1. PICK woken : woken = (driver.woken \/ Wakes(HubOf(e), queue_mark[e], id))
    OBVIOUS
  <2>2. driver \in [at : {"running", "responses", "waiting"}, mask : SUBSET Priorities,
                    woken : BOOLEAN]
    BY <1>2 DEF DriverIsGood
  <2>3. woken \in BOOLEAN
    BY <2>1, <2>2
  <2>4. /\ driver'.at = driver.at /\ driver'.mask = driver.mask /\ driver'.woken = woken
        /\ driver' \in [at : {"running", "responses", "waiting"}, mask : SUBSET Priorities,
                        woken : BOOLEAN]
        /\ woken = driver.woken => driver' = driver
    BY <1>12, <2>1, <2>2, <2>3
  <2>5. driver.at = "running" => driver' = Idle
    <3>1. SUFFICES ASSUME driver.at = "running"
                   PROVE  driver' = Idle
      OBVIOUS
    <3>2. Trigger(HubOf(e)) = {}
      BY <3>1 DEF Trigger
    <3>3. driver = Idle /\ driver.woken = FALSE
      BY <1>2, <3>1 DEF DriverIsGood, Idle
    <3>4. ~ Wakes(HubOf(e), queue_mark[e], id)
      BY <3>2 DEF Wakes
    <3>5. woken = FALSE
      BY <2>1, <3>3, <3>4
    <3>6. QED
      BY <2>4, <3>3, <3>5
  <2>6. ASSUME ~ woken, NEW d \in Entries, queue_mark'[d] # None,
               driver.at = "waiting" \/ (driver.at = "responses" /\ HubOf(d) = "tx_msg")
        PROVE  queue_mark'[d][1] \notin driver.mask
    <3>1. ~ driver.woken /\ ~ Wakes(HubOf(e), queue_mark[e], id)
      BY <2>1, <2>6
    <3>2. queue_mark'[d] = IF d = e THEN id ELSE queue_mark[d]
      BY <1>2, <1>12 DEF TypeInv, Marks
    <3>3. CASE d # e \/ id = queue_mark[e]
      BY <1>2, <2>6, <3>1, <3>2, <3>3 DEF DriverIsGood
    <3>4. CASE d = e /\ id # queue_mark[e]
      <4>1. id # None /\ queue_mark'[d] = id
        BY <2>6, <3>2, <3>4
      <4>2. Trigger(HubOf(e)) = driver.mask
        BY <2>6, <3>4 DEF Trigger
      <4>3. QED
        BY <3>1, <3>4, <4>1, <4>2 DEF Wakes
    <3>5. QED
      BY <3>3, <3>4
  <2>7. QED
    BY <2>4, <2>5, <2>6 DEF DriverIsGood
<1>16. started' = [started EXCEPT ![e] = started[e]]
  BY <1>2, <1>12 DEF TypeInv
<1>17. PICK st : st = started[e]
  OBVIOUS
<1>18. EntryMoves(e, after, st, id, Running, lists)
  BY <1>1, <1>8, <1>11, <1>12, <1>13, <1>14, <1>15, <1>16, <1>17 DEF EntryMoves
<1>19. QED
  BY <1>18, EntryStep

-----------------------------------------------------------------------------
(* Polls.                                                                   *)

\* The first list has entries, and it is of transfers that were begun if there are any.
LEMMA FirstQueueIsOffered ==
    ASSUME TypeInv, NEW h \in Hubs, NEW mask \in SUBSET Priorities, Offered(h, mask) # {},
           NEW id, id = FirstQueueId(h, mask)
    PROVE  /\ id \in QueueIds /\ id[1] \in mask /\ queues[h][id] # << >>
           /\ id[2] = "Finished" => queues[h][<< id[1], "Started" >>] = << >>
<1>1. PICK P : P = {d[1] : d \in Offered(h, mask)}
  OBVIOUS
<1>2. PICK p : p = Min(P)
  OBVIOUS
<1>3. id = << p, IF << p, "Started" >> \in Offered(h, mask) THEN "Started" ELSE "Finished" >>
  BY <1>1, <1>2 DEF FirstQueueId
<1>4. \A d \in Offered(h, mask) :
          d \in QueueIds /\ d[1] \in mask /\ queues[h][d] # << >>
  BY DEF Offered
<1>5. P \subseteq Nat /\ P # {}
  BY <1>1, <1>4, TxBuffersAssumption
<1>6. p \in P
  BY <1>2, <1>5, MinIsLeast
<1>7. PICK d \in Offered(h, mask) : d[1] = p
  BY <1>1, <1>6
<1>8. d = << p, "Started" >> \/ d = << p, "Finished" >>
  BY <1>4, <1>7 DEF QueueIds
<1>9. id \in Offered(h, mask)
  BY <1>3, <1>7, <1>8
<1>10. id[1] = p
  BY <1>3
<1>11. ASSUME id[2] = "Finished"
       PROVE  queues[h][<< p, "Started" >>] = << >>
  <2>1. << p, "Started" >> \notin Offered(h, mask)
    BY <1>3, <1>11
  <2>2. << p, "Started" >> \in QueueIds /\ p \in mask
    BY <1>4, <1>9, <1>10 DEF QueueIds
  <2>3. QED
    BY <2>1, <2>2 DEF Offered
<1>12. QED
  BY <1>4, <1>9, <1>10, <1>11

\* The front entry is an endpoint of the hub that has a transfer of the list's priority.
LEMMA FrontEntry ==
    ASSUME IInv, NEW h \in Hubs, NEW id \in QueueIds, queues[h][id] # << >>,
           NEW e, e = Head(queues[h][id])
    PROVE  /\ e \in Entries /\ HubOf(e) = h /\ queue_mark[e] = id /\ buffer[e] # None
           /\ id[1] \in PopReadiness(buffer[e])
           /\ id[2] = "Finished" => id[1] \notin Begun(buffer[e])
<1>1. InLists(queues[h], queue_mark, h)
  BY DEF IInv
<1>2. queues[h][id] \in Seq(Entries) /\ IsInjective(queues[h][id])
  BY <1>1 DEF InLists
<1>3. e \in ToSet(queues[h][id])
  BY <1>2, TailElements
<1>4. e \in Entries /\ HubOf(e) = h /\ queue_mark[e] = id
  BY <1>1, <1>3 DEF InLists
<1>5. id # None
  BY TxPathAssumption
<1>6. buffer[e] # None
  <2>1. EntryIsGood(e, buffer[e], started[e], queue_mark[e], writer[e])
    BY <1>4 DEF IInv
  <2>2. IsBuffer(buffer[e])
    BY <1>4, <1>5, <2>1 DEF EntryIsGood, IsBufferOf
  <2>3. QED
    BY <2>2, BufferFacts
<1>7. PICK b : b = buffer[e]
  OBVIOUS
<1>8. IsBuffer(b) /\ id = Position(b, Begun(b))
  BY <1>4, <1>6, <1>7, EndpointFacts
<1>9. /\ id[1] \in PopReadiness(b)
      /\ id[2] = IF id[1] \in Begun(b) THEN "Started" ELSE "Finished"
  BY <1>5, <1>8, PositionFacts
<1>10. QED
  BY <1>4, <1>6, <1>7, <1>9

\* Of messages of the same priority only one that was begun is in a list of those.
LEMMA BegunIsListed ==
    ASSUME IInv, NEW d \in Entries, HubOf(d) = "tx_msg", NEW p \in started[d]
    PROVE  queue_mark[d] = << p, "Started" >>
<1>1. PICK b : b = buffer[d]
  OBVIOUS
<1>2. b # None
  <2>1. EntryIsGood(d, buffer[d], started[d], queue_mark[d], writer[d])
    BY DEF IInv
  <2>2. IsBuffer(b)
    BY <1>1, <2>1 DEF EntryIsGood, IsBufferOf
  <2>3. QED
    BY <2>2, BufferFacts
<1>3. /\ IsBufferOf(d, b) /\ IsBuffer(b) /\ started[d] = Begun(b)
      /\ queue_mark[d] = Position(b, Begun(b))
  BY <1>1, <1>2, EndpointFacts
<1>4. Kind[d] # "Response" /\ b.kind # "Response"
  BY <1>3 DEF IsBufferOf, HubOf
<1>5. /\ Begun(b) \subseteq PopReadiness(b) /\ PopReadiness(b) \subseteq {b.priority}
  BY <1>3, <1>4, BufferFacts
<1>6. p \in PopReadiness(b) /\ p = b.priority
  BY <1>3, <1>5
<1>7. PICK id : id = Position(b, Begun(b))
  OBVIOUS
<1>8. id # None
  BY <1>3, <1>6, <1>7, PositionFacts DEF IsEmpty
<1>9. /\ id \in QueueIds /\ id[1] \in PopReadiness(b)
      /\ id[2] = IF id[1] \in Begun(b) THEN "Started" ELSE "Finished"
  BY <1>3, <1>7, <1>8, PositionFacts
<1>10. id[1] = p /\ id[2] = "Started"
  BY <1>3, <1>5, <1>6, <1>9
<1>11. id = << p, "Started" >>
  BY <1>9, <1>10 DEF QueueIds
<1>12. QED
  BY <1>3, <1>7, <1>11

\* A writer is woken for what it waits for, and keeps what it serializes for.
LEMMA WriterStaysGood ==
    ASSUME NEW b, NEW o, NEW w, WriterIsGood(w, b), PushReadiness(b) \subseteq Priorities,
           PushReadiness(b) \subseteq PushReadiness(o.buffer),
           PushReadiness(o.buffer) \subseteq PushReadiness(b) \cup o.ready,
           HasScratchpad(b) => HasScratchpad(o.buffer), IsEmpty(o.buffer) => o.empty
    PROVE  WriterIsGood(WakeWriter(w, o), o.buffer)
<1>1. WriterIsGood(Running, o.buffer)
  BY DEF WriterIsGood
<1>2. CASE w = Running
  <2>1. w.at = "running"
    BY <1>2 DEF Running
  <2>2. WakeWriter(w, o) = Running
    BY <1>2, <2>1 DEF WakeWriter
  <2>3. QED
    BY <1>1, <2>2
<1>3. ASSUME NEW mask \in SUBSET Priorities, w = [at |-> "waitReady", mask |-> mask],
             PushReadiness(b) \cap mask = {}
      PROVE  WriterIsGood(WakeWriter(w, o), o.buffer)
  <2>1. w.at = "waitReady" /\ w.mask = mask
    BY <1>3
  <2>2. CASE mask \cap o.ready # {}
    BY <1>1, <2>1, <2>2 DEF WakeWriter
  <2>3. CASE mask \cap o.ready = {}
    <3>1. WakeWriter(w, o) = w
      BY <2>1, <2>3 DEF WakeWriter
    <3>2. PushReadiness(o.buffer) \cap mask = {}
      BY <1>3, <2>3
    <3>3. WriterIsGood(w, o.buffer)
      BY <1>3, <3>2 DEF WriterIsGood
    <3>4. QED
      BY <3>1, <3>3
  <2>4. QED
    BY <2>2, <2>3
<1>4. CASE w = [at |-> "waitEmpty", mask |-> {}] /\ ~ IsEmpty(b)
  <2>1. w.at = "waitEmpty"
    BY <1>4
  <2>2. CASE o.empty
    BY <1>1, <2>1, <2>2 DEF WakeWriter
  <2>3. CASE ~ o.empty
    <3>1. WakeWriter(w, o) = w
      BY <2>1, <2>3 DEF WakeWriter
    <3>2. WriterIsGood(w, o.buffer)
      BY <1>4, <2>3 DEF WriterIsGood
    <3>3. QED
      BY <3>1, <3>2
  <2>4. QED
    BY <2>2, <2>3
<1>5. ASSUME NEW p \in PushReadiness(b), w = [at |-> "serializing", mask |-> {p}],
             HasScratchpad(b)
      PROVE  WriterIsGood(WakeWriter(w, o), o.buffer)
  <2>1. w.at = "serializing"
    BY <1>5
  <2>2. WakeWriter(w, o) = w
    BY <2>1 DEF WakeWriter
  <2>3. WriterIsGood(w, o.buffer)
    BY <1>5 DEF WriterIsGood
  <2>4. QED
    BY <2>2, <2>3
<1>6. QED
  BY <1>2, <1>3, <1>4, <1>5 DEF WriterIsGood

\* What is known of the front entry that is asked for a frame: it has one.
LEMMA FrontGives ==
    ASSUME IInv, NEW h \in Hubs, NEW mask \in SUBSET Priorities, Offered(h, mask) # {},
           NEW id, id = FirstQueueId(h, mask), NEW e, e = Head(queues[h][id]),
           NEW o, o = TryPop(buffer[e], id[1])
    PROVE  /\ id \in QueueIds /\ queues[h][id] # << >>
           /\ id[2] = "Finished" => queues[h][<< id[1], "Started" >>] = << >>
           /\ e \in Entries /\ HubOf(e) = h /\ queue_mark[e] = id /\ buffer[e] # None
           /\ id[2] = "Finished" => id[1] \notin Begun(buffer[e])
           /\ o.frame # None
           /\ IsBuffer(o.buffer) /\ IsSameKind(buffer[e], o.buffer)
           /\ Begun(o.buffer) = StartedAfter(o.frame, Begun(buffer[e]), id[1])
           /\ GoesOn(buffer[e], o.buffer)
           /\ WriterIsGood(WakeWriter(writer[e], o), o.buffer)
<1>1. TypeInv
  BY DEF IInv
<1>2. /\ id \in QueueIds /\ queues[h][id] # << >>
      /\ id[2] = "Finished" => queues[h][<< id[1], "Started" >>] = << >>
  BY <1>1, FirstQueueIsOffered
<1>3. /\ e \in Entries /\ HubOf(e) = h /\ queue_mark[e] = id /\ buffer[e] # None
      /\ id[1] \in PopReadiness(buffer[e])
      /\ id[2] = "Finished" => id[1] \notin Begun(buffer[e])
  BY <1>2, FrontEntry
<1>4. PICK b, p : b = buffer[e] /\ p = id[1]
  OBVIOUS
<1>5. IsBuffer(b) /\ WriterIsGood(writer[e], b)
  BY <1>3, <1>4, EndpointFacts
<1>6. PopPromise(b, p)
  BY <1>3, <1>4, <1>5, BufferKeeps
<1>7. /\ o.frame \in [sot : BOOLEAN, eot : BOOLEAN]
      /\ IsBuffer(o.buffer) /\ IsSameKind(b, o.buffer)
      /\ Begun(o.buffer) = StartedAfter(o.frame, Begun(b), p)
      /\ GoesOn(b, o.buffer)
      /\ PushReadiness(b) \subseteq PushReadiness(o.buffer)
      /\ PushReadiness(o.buffer) \subseteq PushReadiness(b) \cup o.ready
      /\ HasScratchpad(b) => HasScratchpad(o.buffer)
      /\ IsEmpty(o.buffer) => o.empty
  <2>1. o = TryPop(b, p)
    BY <1>4
  <2>2. QED
    BY <1>6, <2>1 DEF PopPromise
<1>8. o.frame # None
  BY <1>7, TxPathAssumption
<1>9. PushReadiness(b) \subseteq Priorities
  BY <1>5, BufferFacts
<1>10. WriterIsGood(WakeWriter(writer[e], o), o.buffer)
  BY <1>5, <1>7, <1>9, WriterStaysGood
<1>11. QED
  BY <1>2, <1>3, <1>4, <1>7, <1>8, <1>10

\* hub_try_pop has a frame whenever there are entries of the priorities asked for.
LEMMA OfferedGives ==
    ASSUME IInv, NEW h \in Hubs, NEW mask \in SUBSET Priorities, Offered(h, mask) # {}
    PROVE  Gives(h, mask)
<1>1. PICK id : id = FirstQueueId(h, mask)
  OBVIOUS
<1>2. PICK e : e = Head(queues[h][id])
  OBVIOUS
<1>3. PICK o : o = TryPop(buffer[e], id[1])
  OBVIOUS
<1>4. /\ id \in QueueIds
      /\ id[2] = "Finished" => queues[h][<< id[1], "Started" >>] = << >>
      /\ e \in Entries /\ HubOf(e) = h /\ queue_mark[e] = id /\ buffer[e] # None
      /\ id[2] = "Finished" => id[1] \notin Begun(buffer[e])
      /\ o.frame # None
      /\ IsBuffer(o.buffer)
  BY <1>1, <1>2, <1>3, FrontGives
<1>5. FrontPop(h, mask).outcome = o
  BY <1>1, <1>2, <1>3 DEF FrontPop
<1>6. QED
  BY <1>4, <1>5 DEF Gives

\* The front entry comes to the list it belongs to.
LEMMA PopKeeps ==
    ASSUME IInv, NEW h \in Hubs, NEW mask \in SUBSET Priorities, Offered(h, mask) # {},
           HubTryPop(h, mask), driver' = Idle
    PROVE  IInv' /\ AllGoOn
<1>1. PICK id : id = FirstQueueId(h, mask)
  OBVIOUS
<1>2. PICK e : e = Head(queues[h][id])
  OBVIOUS
<1>3. PICK o : o = TryPop(buffer[e], id[1])
  OBVIOUS
<1>4. PICK st, mid : st = StartedAfter(o.frame, started[e], id[1]) /\ mid = MarkAfter(o.frame, id)
  OBVIOUS
<1>5. PICK left, next :
          /\ left = (IF mid = None THEN Dequeue(queues[h], id, e) ELSE queues[h])
          /\ next = Position(o.buffer, st)
  OBVIOUS
<1>6. PICK lists, w : lists = Moved(left, mid, e, next) /\ w = WakeWriter(writer[e], o)
  OBVIOUS
<1>7. FrontPop(h, mask) = [entry |-> e, outcome |-> o, started |-> st, mark |-> next,
                           lists |-> lists]
  BY <1>1, <1>2, <1>3, <1>4, <1>5, <1>6 DEF FrontPop
<1>8. /\ buffer' = [buffer EXCEPT ![e] = o.buffer] /\ started' = [started EXCEPT ![e] = st]
      /\ queue_mark' = [queue_mark EXCEPT ![e] = next]
      /\ queues' = [queues EXCEPT ![h] = lists]
      /\ writer' = [writer EXCEPT ![e] = WakeWriter(writer[e], o)]
  <2>1. PICK r : r = FrontPop(h, mask)
    OBVIOUS
  <2>2. /\ r.entry = e /\ r.outcome = o /\ r.started = st /\ r.mark = next
        /\ r.lists = lists
    BY <1>7, <2>1
  <2>3. /\ buffer' = [buffer EXCEPT ![r.entry] = r.outcome.buffer]
        /\ started' = [started EXCEPT ![r.entry] = r.started]
        /\ queue_mark' = [queue_mark EXCEPT ![r.entry] = r.mark]
        /\ queues' = [queues EXCEPT ![h] = r.lists]
        /\ writer' = [writer EXCEPT ![r.entry] = WakeWriter(@, r.outcome)]
    BY <2>1 DEF HubTryPop
  <2>4. QED
    BY <2>2, <2>3
<1>9. /\ id \in QueueIds
      /\ id[2] = "Finished" => queues[h][<< id[1], "Started" >>] = << >>
      /\ e \in Entries /\ HubOf(e) = h /\ queue_mark[e] = id /\ buffer[e] # None
      /\ id[2] = "Finished" => id[1] \notin Begun(buffer[e])
      /\ o.frame # None
      /\ IsBuffer(o.buffer) /\ IsSameKind(buffer[e], o.buffer)
      /\ Begun(o.buffer) = StartedAfter(o.frame, Begun(buffer[e]), id[1])
      /\ GoesOn(buffer[e], o.buffer)
      /\ WriterIsGood(w, o.buffer)
  BY <1>1, <1>2, <1>3, <1>6, FrontGives
<1>10. /\ IsBufferOf(e, buffer[e]) /\ started[e] = Begun(buffer[e])
  BY <1>9, EndpointFacts
<1>11. st = Begun(o.buffer)
  BY <1>4, <1>9, <1>10
<1>12. next = Position(o.buffer, Begun(o.buffer)) /\ next \in QueueIds \cup {None}
  BY <1>5, <1>9, <1>11, PositionFacts
<1>13. EntryIsGood(e, o.buffer, st, next, w)
  <2>1. IsBufferOf(e, o.buffer)
    BY <1>9, <1>10 DEF IsBufferOf, IsSameKind, HubOf
  <2>2. QED
    BY <1>9, <1>11, <1>12, <2>1 DEF EntryIsGood
<1>14. TypeInv /\ queue_mark \in Marks /\ InLists(queues[h], queue_mark, h)
  BY DEF IInv, TypeInv
<1>15. InLists(lists, queue_mark', h)
  <2>1. mid = None \/ mid = id
    BY <1>4 DEF MarkAfter
  <2>2. PICK marks : marks = [queue_mark EXCEPT ![e] = mid]
    OBVIOUS
  <2>3. marks \in Marks /\ marks[e] = mid
    BY <1>9, <1>14, <2>1, <2>2 DEF Marks
  <2>4. InLists(left, marks, h)
    <3>1. CASE mid = None
      BY <1>5, <1>9, <1>14, <2>2, <3>1, DequeueKeeps
    <3>2. CASE mid # None
      <4>1. marks = queue_mark
        BY <1>9, <1>14, <2>1, <2>2, <3>2 DEF Marks
      <4>2. QED
        BY <1>5, <1>14, <3>2, <4>1
    <3>3. QED
      BY <3>1, <3>2
  <2>5. InLists(Moved(left, marks[e], e, next), [marks EXCEPT ![e] = next], h)
    BY <1>9, <1>12, <2>3, <2>4, MovedKeeps
  <2>6. [marks EXCEPT ![e] = next] = queue_mark'
    BY <1>8, <1>14, <2>2 DEF Marks
  <2>7. QED
    BY <1>6, <2>3, <2>5, <2>6
<1>16. ASSUME NEW d \in Entries, d # e, HubOf(d) = "tx_msg", HubOf(e) = "tx_msg",
              NEW p \in st
       PROVE  p \notin started[d]
  <2>1. SUFFICES ASSUME p \in started[d]
                 PROVE  FALSE
    OBVIOUS
  <2>2. p \in Priorities
    BY <1>14, <2>1 DEF TypeInv
  <2>3. CASE p \in started[e]
    BY <1>9, <1>16, <2>1, <2>2, <2>3 DEF IInv, NotMixed
  <2>4. CASE p \notin started[e]
    <3>1. p = id[1] /\ p \in PopReadiness(o.buffer)
      <4>1. p = id[1]
        BY <1>4, <2>4 DEF StartedAfter
      <4>2. p \in PopReadiness(o.buffer)
        BY <1>9, <1>11, BufferFacts
      <4>3. QED
        BY <4>1, <4>2
    <3>2. id[2] = "Finished"
      <4>1. id = Position(buffer[e], Begun(buffer[e])) /\ IsBuffer(buffer[e])
        BY <1>9, EndpointFacts
      <4>2. id # None
        BY <1>9, TxPathAssumption
      <4>3. id[2] = IF id[1] \in Begun(buffer[e]) THEN "Started" ELSE "Finished"
        BY <4>1, <4>2, PositionFacts
      <4>4. QED
        BY <1>10, <2>4, <3>1, <4>3
    <3>3. queues[h][<< p, "Started" >>] = << >>
      BY <1>9, <3>1, <3>2
    <3>4. queue_mark[d] = << p, "Started" >>
      BY <1>16, <2>1, BegunIsListed
    <3>5. << p, "Started" >> \in QueueIds
      BY <2>2 DEF QueueIds
    <3>6. d \in ToSet(queues[h][<< p, "Started" >>])
      BY <1>9, <1>14, <1>16, <3>4, <3>5 DEF InLists
    <3>7. ToSet(<< >>) = {}
      BY DEF ToSet
    <3>8. QED
      BY <3>3, <3>6, <3>7
  <2>5. QED
    BY <2>3, <2>4
<1>17. DriverIsGood(driver', queue_mark')
  BY DEF DriverIsGood, Idle
<1>18. EntryMoves(e, o.buffer, st, next, w, lists)
  BY <1>6, <1>8, <1>9, <1>13, <1>15, <1>16, <1>17 DEF EntryMoves
<1>19. QED
  BY <1>9, <1>18, EntryStep

LEMMA NotOffered ==
    ASSUME IInv, NEW h \in Hubs, NEW mask \in SUBSET Priorities, Offered(h, mask) = {},
           NEW e \in Entries, HubOf(e) = h, queue_mark[e] # None
    PROVE  queue_mark[e][1] \notin mask
<1>1. PICK id : id = queue_mark[e]
  OBVIOUS
<1>2. id \in QueueIds
  BY <1>1 DEF IInv, TypeInv, Marks
<1>3. e \in ToSet(queues[h][id])
  BY <1>1, <1>2 DEF IInv, InLists
<1>4. ToSet(<< >>) = {}
  BY DEF ToSet
<1>5. queues[h][id] # << >>
  BY <1>3, <1>4
<1>6. QED
  BY <1>1, <1>2, <1>5 DEF Offered

\* A step of the driver that leaves the hubs alone.
LEMMA DriverStep ==
    ASSUME IInv, UNCHANGED << buffer, queueVars, writer >>,
           DriverIsGood(driver', queue_mark)
    PROVE  IInv' /\ AllGoOn
<1>1. IInv'
  BY DEF IInv, TypeInv, queueVars
<1>2. AllGoOn
  <2>1. SUFFICES ASSUME NEW e \in Entries
                 PROVE  GoesOn(buffer[e], buffer'[e])
    BY DEF AllGoOn
  <2>2. buffer'[e] = buffer[e]
    OBVIOUS
  <2>3. GoesOn(buffer[e], buffer[e])
    BY SameGoesOn
  <2>4. QED
    BY <2>2, <2>3
<1>3. QED
  BY <1>1, <1>2

LEMMA PollMessagesKeeps ==
    ASSUME IInv, NEW mask \in Masks, PollMessages(mask)
    PROVE  IInv' /\ AllGoOn
<1>1. mask \in SUBSET Priorities /\ "tx_msg" \in Hubs
  BY TxPathAssumption DEF Hubs
<1>2. HubTryPop("tx_msg", mask) /\ driver = Idle
  BY DEF PollMessages, IInv, DriverIsGood
<1>3. CASE Offered("tx_msg", mask) # {}
  <2>1. Gives("tx_msg", mask)
    BY <1>1, <1>3, OfferedGives
  <2>2. driver' = Idle
    BY <2>1 DEF PollMessages
  <2>3. QED
    BY <1>1, <1>2, <1>3, <2>2, PopKeeps
<1>4. CASE Offered("tx_msg", mask) = {}
  <2>1. ~ Gives("tx_msg", mask)
    BY <1>4 DEF Gives
  <2>2. driver' = [at |-> "responses", mask |-> mask, woken |-> FALSE]
    BY <1>2, <2>1 DEF PollMessages, Idle
  <2>3. UNCHANGED << buffer, queueVars, writer >>
    BY <1>2, <1>4 DEF HubTryPop
  <2>4. \A e \in Entries : HubOf(e) = "tx_msg" /\ queue_mark[e] # None =>
            queue_mark[e][1] \notin mask
    BY <1>1, <1>4, NotOffered
  <2>5. DriverIsGood(driver', queue_mark)
    BY <1>1, <2>2, <2>4 DEF DriverIsGood
  <2>6. QED
    BY <2>3, <2>5, DriverStep
<1>5. QED
  BY <1>3, <1>4

\* An entry that came to a list of messages meanwhile has woken the driver.
LEMMA PollResponsesKeeps ==
    ASSUME IInv, PollResponses
    PROVE  IInv' /\ AllGoOn
<1>1. PICK mask : mask = driver.mask
  OBVIOUS
<1>2. DriverIsGood(driver, queue_mark)
  BY DEF IInv
<1>3. mask \in SUBSET Priorities /\ "tx_resp" \in Hubs
  BY <1>1, <1>2 DEF DriverIsGood, Hubs
<1>4. HubTryPop("tx_resp", mask) /\ driver.at = "responses"
  BY <1>1 DEF PollResponses
<1>5. CASE Offered("tx_resp", mask) # {}
  <2>1. Gives("tx_resp", mask)
    BY <1>3, <1>5, OfferedGives
  <2>2. driver' = Idle
    BY <1>1, <2>1 DEF PollResponses
  <2>3. QED
    BY <1>3, <1>4, <1>5, <2>2, PopKeeps
<1>6. CASE Offered("tx_resp", mask) = {}
  <2>1. ~ Gives("tx_resp", mask)
    BY <1>6 DEF Gives
  <2>2. UNCHANGED << buffer, queueVars, writer >>
    BY <1>4, <1>6 DEF HubTryPop
  <2>3. DriverIsGood(driver', queue_mark)
    <3>1. CASE driver.woken
      <4>1. driver' = Idle
        BY <3>1 DEF PollResponses
      <4>2. QED
        BY <4>1 DEF DriverIsGood, Idle
    <3>2. CASE ~ driver.woken
      <4>1. driver' = [driver EXCEPT !.at = "waiting"]
        BY <1>1, <2>1, <3>2 DEF PollResponses
      <4>2. /\ driver'.at = "waiting" /\ driver'.mask = mask
            /\ driver' \in [at : {"running", "responses", "waiting"},
                            mask : SUBSET Priorities, woken : BOOLEAN]
        BY <1>1, <1>2, <4>1 DEF DriverIsGood
      <4>3. ASSUME NEW e \in Entries, queue_mark[e] # None
            PROVE  queue_mark[e][1] \notin mask
        <5>1. CASE HubOf(e) = "tx_msg"
          BY <1>1, <1>2, <1>4, <3>2, <4>3, <5>1 DEF DriverIsGood
        <5>2. CASE HubOf(e) = "tx_resp"
          BY <1>3, <1>6, <4>3, <5>2, NotOffered
        <5>3. QED
          BY <5>1, <5>2 DEF HubOf
      <4>4. QED
        BY <4>2, <4>3 DEF DriverIsGood
    <3>3. QED
      BY <1>2, <3>1, <3>2 DEF DriverIsGood
  <2>4. QED
    BY <2>2, <2>3, DriverStep
<1>7. QED
  BY <1>5, <1>6

LEMMA IdleKeeps ==
    ASSUME IInv, Resume \/ GiveUp
    PROVE  IInv' /\ AllGoOn
<1>1. driver' = Idle /\ UNCHANGED << buffer, queueVars, writer >>
  BY DEF Resume, GiveUp
<1>2. DriverIsGood(driver', queue_mark)
  BY <1>1 DEF DriverIsGood, Idle
<1>3. QED
  BY <1>1, <1>2, DriverStep

LEMMA InitIsGood ==
    ASSUME Init
    PROVE  IInv
<1>1. /\ buffer = [e \in Entries |-> None] /\ started = [e \in Entries |-> {}]
      /\ queue_mark = [e \in Entries |-> None]
      /\ queues = [h \in Hubs |-> [id \in QueueIds |-> << >>]]
      /\ driver = Idle /\ writer = [e \in Entries |-> Running]
  BY DEF Init
<1>2. << >> \in Seq(Entries) /\ IsInjective(<< >>) /\ ToSet(<< >>) = {}
  BY DEF IsInjective, ToSet
<1>3. TypeInv
  <2>1. Running \in [at : {"running", "waitReady", "waitEmpty", "serializing"},
                     mask : SUBSET Priorities]
    BY DEF Running
  <2>2. queues \in [Hubs -> [QueueIds -> Seq(Entries)]]
    BY <1>1, <1>2
  <2>3. QED
    BY <1>1, <2>1, <2>2 DEF TypeInv, Marks
<1>4. \A e \in Entries : EntryIsGood(e, buffer[e], started[e], queue_mark[e], writer[e])
  BY <1>1 DEF EntryIsGood
<1>5. ASSUME NEW h \in Hubs
      PROVE  InLists(queues[h], queue_mark, h)
  <2>1. None \notin QueueIds
    BY TxPathAssumption
  <2>2. queues[h] = [id \in QueueIds |-> << >>]
    BY <1>1
  <2>3. \A id \in QueueIds : queues[h][id] = << >>
    BY <2>2
  <2>4. \A x \in Entries : queue_mark[x] = None
    BY <1>1
  <2>5. queues[h] \in [QueueIds -> Seq(Entries)]
    BY <1>3 DEF TypeInv
  <2>6. QED
    BY <1>2, <2>1, <2>3, <2>4, <2>5 DEF InLists
<1>6. NotMixed(started)
  BY <1>1 DEF NotMixed
<1>7. DriverIsGood(driver, queue_mark)
  BY <1>1 DEF DriverIsGood, Idle
<1>8. QED
  BY <1>3, <1>4, <1>5, <1>6, <1>7 DEF IInv

LEMMA StepIsGood ==
    ASSUME IInv, [Next]_vars
    PROVE  IInv' /\ AllGoOn
<1>1. CASE UNCHANGED vars
  <2>1. driver' = driver /\ UNCHANGED << buffer, queueVars, writer >>
    BY <1>1 DEF vars
  <2>2. DriverIsGood(driver', queue_mark)
    BY <2>1 DEF IInv
  <2>3. QED
    BY <2>1, <2>2, DriverStep
<1>2. ASSUME NEW e \in Entries,
             \/ CreateMessage(e) \/ CreateResponse(e) \/ Drop(e)
             \/ WaitAllSent(e) \/ StopWaiting(e)
      PROVE  IInv' /\ AllGoOn
  BY <1>2, CreateMessageKeeps, CreateResponseKeeps, DropKeeps, WaitAllSentKeeps,
     StopWaitingKeeps
<1>3. ASSUME NEW e \in Entries, NEW p \in Priorities,
             BeginPush(e, p) \/ WaitPushReadiness(e, {p})
      PROVE  IInv' /\ AllGoOn
  BY <1>3, BeginPushKeeps, WaitPushReadinessKeeps
<1>4. ASSUME NEW e \in Entries, NEW p \in Priorities, NEW size \in Lengths[e],
             EndPush(e, p, size)
      PROVE  IInv' /\ AllGoOn
  BY <1>4, EndPushKeeps
<1>5. ASSUME NEW mask \in Masks, PollMessages(mask)
      PROVE  IInv' /\ AllGoOn
  BY <1>5, PollMessagesKeeps
<1>6. CASE PollResponses
  BY <1>6, PollResponsesKeeps
<1>7. CASE Resume \/ GiveUp
  BY <1>7, IdleKeeps
<1>8. ASSUME NEW e \in Entries,
             \/ CreateMessage(e) \/ CreateResponse(e) \/ Drop(e)
             \/ WaitAllSent(e) \/ StopWaiting(e)
             \/ \E p \in Priorities :
                    \/ BeginPush(e, p)
                    \/ (HubOf(e) = "tx_msg" => p = PriorityOf[e]) /\ WaitPushReadiness(e, {p})
                    \/ \E size \in Lengths[e] : EndPush(e, p, size)
      PROVE  IInv' /\ AllGoOn
  BY <1>2, <1>3, <1>4, <1>8
<1>9. CASE Next
  BY <1>5, <1>6, <1>7, <1>8, <1>9 DEF Next
<1>10. QED
  BY <1>1, <1>9

-----------------------------------------------------------------------------
(* Theorems.                                                                *)

\* What the registries keep of each endpoint is what its buffer says, the lists hold the
\* entries that are marked for them, and the driver knows of these unless it is woken.
THEOREM InductiveInvariant == Spec => []IInv
<1>1. Init => IInv
  BY InitIsGood
<1>2. IInv /\ [Next]_vars => IInv'
  BY StepIsGood
<1>3. QED
  BY <1>1, <1>2, PTL DEF Spec

\* An entry without an endpoint has no mark.
LEMMA MarkedIsEndpoint ==
    ASSUME IInv, NEW e \in Entries, queue_mark[e] # None
    PROVE  buffer[e] # None
<1>1. EntryIsGood(e, buffer[e], started[e], queue_mark[e], writer[e])
  BY DEF IInv
<1>2. IsBuffer(buffer[e])
  BY <1>1 DEF EntryIsGood, IsBufferOf
<1>3. QED
  BY <1>2, BufferFacts

\* No payload buffer of a Signal or a response buffer is of two transfers, or written
\* while it is sent, and none leaks (tx_msg/signal.rs, tx_resp/blocking.rs).
THEOREM PayloadsArePartitioned == Spec => []BuffersPartition
<1>1. IInv => BuffersPartition
  <2>1. SUFFICES ASSUME IInv, NEW e \in Endpoints, buffer[e].kind # "Blocking",
                        NEW i \in 0 .. BufferCount(buffer[e].kind) - 1
                 PROVE  Cardinality(BufferOwners(buffer[e], i)) = 1
    BY DEF BuffersPartition
  <2>2. IsBuffer(buffer[e])
    BY <2>1, EndpointFacts DEF Endpoints
  <2>3. QED
    BY <2>1, <2>2, BufferIsPartition
<1>2. QED
  BY <1>1, InductiveInvariant, PTL

\* Every entry is in the list its buffer belongs to, and in that one only, although its
\* publisher may take a transfer back without a word to the queue (tx_queue.rs).
THEOREM QueuesAreCurrent == Spec => []PositionIsCurrent
<1>1. IInv => PositionIsCurrent
  <2>1. SUFFICES ASSUME IInv
                 PROVE  PositionIsCurrent
    OBVIOUS
  <2>2. ASSUME NEW e \in Endpoints
        PROVE  queue_mark[e] = Position(buffer[e], Begun(buffer[e]))
    BY <2>1, <2>2, EndpointFacts DEF Endpoints
  <2>3. ASSUME NEW h \in Hubs, NEW id \in QueueIds
        PROVE  /\ ToSet(queues[h][id]) = {e \in Endpoints : HubOf(e) = h /\ queue_mark[e] = id}
               /\ IsInjective(queues[h][id])
    <3>1. /\ IsInjective(queues[h][id])
          /\ \A x : x \in ToSet(queues[h][id]) <=>
                        x \in Entries /\ HubOf(x) = h /\ queue_mark[x] = id
      BY <2>1 DEF IInv, InLists
    <3>2. id # None
      BY TxPathAssumption
    <3>3. \A x \in Entries : queue_mark[x] = id => x \in Endpoints
      BY <2>1, <3>2, MarkedIsEndpoint DEF Endpoints
    <3>4. \A x : x \in ToSet(queues[h][id]) <=>
                     x \in Endpoints /\ HubOf(x) = h /\ queue_mark[x] = id
      BY <3>1, <3>3 DEF Endpoints
    <3>5. QED
      BY <3>1, <3>4
  <2>4. QED
    BY <2>2, <2>3 DEF PositionIsCurrent
<1>2. QED
  BY <1>1, InductiveInvariant, PTL

\* Of all the messages of a priority one at most has frames on the bus and is not at its
\* end: the started lists go first (tx_queue.rs).
THEOREM MessagesAreNotMixed == Spec => []NoInterleaving
<1>1. IInv => NoInterleaving
  <2>1. SUFFICES ASSUME IInv, NEW p \in Priorities
                 PROVE  Cardinality({e \in Endpoints : HubOf(e) = "tx_msg" /\
                                                       p \in Begun(buffer[e])}) <= 1
    BY DEF NoInterleaving
  <2>2. PICK S : S = {e \in Endpoints : HubOf(e) = "tx_msg" /\ p \in Begun(buffer[e])}
    OBVIOUS
  <2>3. \A d, e \in S : d = e
    <3>1. SUFFICES ASSUME NEW d \in S, NEW e \in S
                   PROVE  d = e
      OBVIOUS
    <3>2. /\ d \in Entries /\ buffer[d] # None /\ HubOf(d) = "tx_msg" /\ p \in Begun(buffer[d])
          /\ e \in Entries /\ buffer[e] # None /\ HubOf(e) = "tx_msg" /\ p \in Begun(buffer[e])
      BY <2>2 DEF Endpoints
    <3>3. p \in started[d] /\ p \in started[e]
      BY <2>1, <3>2, EndpointFacts
    <3>4. QED
      BY <2>1, <3>2, <3>3 DEF IInv, NotMixed
  <2>4. Cardinality(S) <= 1
    <3>1. CASE S = {}
      BY <3>1, FS_EmptySet
    <3>2. CASE S # {}
      <4>1. PICK e : S = {e}
        BY <2>3, <3>2
      <4>2. QED
        BY <4>1, FS_Singleton
    <3>3. QED
      BY <3>1, <3>2
  <2>5. QED
    BY <2>2, <2>4
<1>2. QED
  BY <1>1, InductiveInvariant, PTL

\* The transmit task does not sleep while there is a frame for a mailbox it has, whatever
\* is pushed between its two polls (core_node.rs, tx_queue.rs).
THEOREM DriverIsWoken == Spec => []NoLostWakeup
<1>1. IInv => NoLostWakeup
  <2>1. SUFFICES ASSUME IInv, driver.at = "waiting", ~ driver.woken, NEW e \in Endpoints,
                        ~ IsEmpty(buffer[e])
                 PROVE  Min(PopReadiness(buffer[e])) \notin driver.mask
    BY DEF NoLostWakeup
  <2>2. PICK b, id : b = buffer[e] /\ id = queue_mark[e]
    OBVIOUS
  <2>3. e \in Entries /\ IsBuffer(b) /\ id = Position(b, Begun(b))
    BY <2>1, <2>2, EndpointFacts DEF Endpoints
  <2>4. id # None /\ id[1] = Min(PopReadiness(b))
    BY <2>1, <2>2, <2>3, PositionFacts
  <2>5. id[1] \notin driver.mask
    <3>1. DriverIsGood(driver, queue_mark) /\ queue_mark[e] # None /\ e \in Entries
      BY <2>1, <2>2, <2>3, <2>4 DEF IInv
    <3>2. PICK d, m : d = driver /\ m = queue_mark
      OBVIOUS
    <3>3. DriverIsGood(d, m) /\ d.at = "waiting" /\ ~ d.woken /\ m[e] # None
      BY <2>1, <3>1, <3>2
    <3>4. m[e][1] \notin d.mask
      BY <3>1, <3>3 DEF DriverIsGood
    <3>5. QED
      BY <2>2, <3>2, <3>4
  <2>6. QED
    BY <2>2, <2>4, <2>5
<1>2. QED
  BY <1>1, InductiveInvariant, PTL

\* A publisher or responder does not sleep while it could go on, and its push is still
\* possible when it comes back from the serialization (endpoint.rs, registry/tx_msg.rs, tx_resp.rs).
THEOREM WritersAreWoken == Spec => []WriterIsWoken
<1>1. IInv => WriterIsWoken
  <2>1. SUFFICES ASSUME IInv, NEW e \in Endpoints
                 PROVE  /\ writer[e].at = "waitReady" =>
                               PushReadiness(buffer[e]) \cap writer[e].mask = {}
                        /\ writer[e].at = "waitEmpty" => ~ IsEmpty(buffer[e])
                        /\ writer[e].at = "serializing" =>
                               /\ HasScratchpad(buffer[e])
                               /\ writer[e].mask \subseteq PushReadiness(buffer[e])
    BY DEF WriterIsWoken
  <2>2. PICK w, b : w = writer[e] /\ b = buffer[e]
    OBVIOUS
  <2>3. WriterIsGood(w, b)
    BY <2>1, <2>2, EndpointFacts DEF Endpoints
  <2>4. /\ w.at = "waitReady" => PushReadiness(b) \cap w.mask = {}
        /\ w.at = "waitEmpty" => ~ IsEmpty(b)
        /\ w.at = "serializing" => HasScratchpad(b) /\ w.mask \subseteq PushReadiness(b)
    <3>1. CASE w = Running
      BY <3>1 DEF Running
    <3>2. ASSUME NEW mask \in SUBSET Priorities, w = [at |-> "waitReady", mask |-> mask],
                 PushReadiness(b) \cap mask = {}
          PROVE  w.at = "waitReady" /\ PushReadiness(b) \cap w.mask = {}
      BY <3>2
    <3>3. CASE w = [at |-> "waitEmpty", mask |-> {}] /\ ~ IsEmpty(b)
      BY <3>3
    <3>4. ASSUME NEW p \in PushReadiness(b), w = [at |-> "serializing", mask |-> {p}],
                 HasScratchpad(b)
          PROVE  w.at = "serializing" /\ HasScratchpad(b) /\ w.mask \subseteq PushReadiness(b)
      BY <3>4
    <3>5. QED
      BY <2>3, <3>1, <3>2, <3>3, <3>4 DEF WriterIsGood
  <2>5. QED
    BY <2>2, <2>4
<1>2. QED
  BY <1>1, InductiveInvariant, PTL

\* "The buffer always completes a partially sent transfer regardless of updates"
\* (tx_msg/signal.rs), and so do the others.
THEOREM BegunTransfersGoOn == Spec => BegunGoesOn
<1> DEFINE Step ==
        \A e \in Endpoints : buffer'[e] # None =>
            \A p \in Begun(buffer[e]) :
                LET t == BegunTransfer(buffer[e], p)
                IN  IF p \in Begun(buffer'[e])
                    THEN BegunTransfer(buffer'[e], p) \in {t, Fetched(t)}
                    ELSE Exhausted(Fetched(t))
<1>1. AllGoOn => Step
  BY DEF AllGoOn, GoesOn, Endpoints
<1> HIDE DEF Step
<1>2. IInv /\ [Next]_vars => Step
  BY <1>1, StepIsGood
<1>3. QED
  BY <1>2, InductiveInvariant, PTL DEF Step, Spec, BegunGoesOn

-----------------------------------------------------------------------------
(* Scatter: the frames of a transfer, whatever its length.                  *)

LEMMA LesserOfTwo ==
    ASSUME NEW a \in Nat, NEW b \in Nat
    PROVE  Min({a, b}) = IF a <= b THEN a ELSE b
<1>1. {a, b} \subseteq Nat /\ {a, b} # {}
  OBVIOUS
<1>2. Min({a, b}) \in {a, b} /\ \A y \in {a, b} : Min({a, b}) <= y
  BY <1>1, MinIsLeast
<1>3. QED
  BY <1>2

\* What fits a frame of 64 bytes has a data length, the least there is.
LEMMA CeilIsDataLength ==
    ASSUME NEW v \in 0 .. 64
    PROVE  /\ NewCeil(v) \in v .. 64
           /\ IsDataLength(NewCeil(v))
           /\ v <= 8 \/ v = 64 => NewCeil(v) = v
<1>1. CASE v < 8
  BY <1>1 DEF NewCeil, NewFloor, IsDataLength
<1>2. CASE v >= 8 /\ v < 24
  BY <1>2 DEF NewCeil, NewFloor, IsDataLength, CeilTo
<1>3. CASE v >= 24 /\ v < 32
  BY <1>3 DEF NewCeil, NewFloor, IsDataLength, CeilTo
<1>4. CASE v >= 32
  BY <1>4 DEF NewCeil, NewFloor, IsDataLength, CeilTo
<1>5. QED
  BY <1>1, <1>2, <1>3, <1>4

\* The states of a Scatter of a transfer of the length.
IsScatter(s, length) ==
    /\ s \in [transfer_id : Nat, data_length : {length}, offset : Nat, toggle : BOOLEAN]
    /\ s.offset <= length + CrcLength

\* What its frames are: the data of a single frame is all there is, and the first of
\* several frames brings some.
FrameDatas ==
    [length : 0 .. 64, sot : BOOLEAN, eot : BOOLEAN, toggle : BOOLEAN, transfer_id : Nat,
     part : Payloads \cup {NoPart}]

IsFrameData(d, length) ==
    /\ d \in FrameDatas
    /\ IsDataLength(d.length)
    /\ d.sot /\ ~ d.eot => d.part # NoPart
    /\ d.sot /\ d.eot =>
           IF d.part = NoPart THEN length = 0 ELSE d.part.from = 0 /\ d.part.to = length

\* The rest of a transfer is never padded behind the first byte of its CRC.
LEMMA ScatterNeverPanics ==
    ASSUME NEW length \in Nat, NEW s, IsScatter(s, length), NEW mtu \in {"Classic", "Fd"}
    PROVE  ~ FetchFrameData(s, mtu).panicked
<1>1. PICK max : max = MtuLength[mtu] - TailLength
  OBVIOUS
<1>2. max \in {7, 63}
  BY <1>1 DEF MtuLength, TailLength
<1>3. Residual(s) \in Nat /\ Residual(s) = length + 2 - s.offset /\ s.data_length = length
  BY DEF Residual, IsScatter, CrcLength
<1>4. ASSUME Residual(s) # 0
      PROVE  ~ FetchNextFrame(s, max).panicked
  <2>1. PICK m : m = Min({Residual(s), max})
    OBVIOUS
  <2>2. m = IF Residual(s) <= max THEN Residual(s) ELSE max
    BY <1>2, <1>3, <2>1, LesserOfTwo
  <2>3. m \in 1 .. 63 /\ m + 1 \in 0 .. 64
    BY <1>2, <1>3, <1>4, <2>2
  <2>4. /\ NewCeil(m + 1) \in m + 1 .. 64
        /\ m + 1 <= 8 => NewCeil(m + 1) = m + 1
    BY <2>3, CeilIsDataLength
  <2>5. PICK payload : payload = NewCeil(m + 1) - 1
    OBVIOUS
  <2>6. ~ (Residual(s) < payload /\ (s.offset > s.data_length \/ payload < 2))
    BY <1>2, <1>3, <1>4, <2>2, <2>3, <2>4, <2>5 DEF IsScatter
  <2>7. QED
    BY <2>1, <2>5, <2>6 DEF FetchNextFrame, Returned, TailLength, CrcLength
<1>5. QED
  BY <1>1, <1>4 DEF FetchFrameData, FetchSingleFrame, Returned

LEMMA SingleFrame ==
    ASSUME NEW length \in Nat, NEW s, IsScatter(s, length), s.offset = 0, length <= 63
    PROVE  LET o == FetchSingleFrame(s)
           IN  /\ IsScatter(o.scatter, length)
               /\ o.scatter.transfer_id = s.transfer_id /\ o.scatter.offset > 0
               /\ o.data.transfer_id = s.transfer_id
               /\ o.data.sot
               /\ IsFrameData(o.data, length)
<1>1. PICK o : o = FetchSingleFrame(s)
  OBVIOUS
<1>2. PICK n : n = NewCeil(s.data_length + TailLength)
  OBVIOUS
<1>3. n \in length + 1 .. 64 /\ IsDataLength(n) /\ s.data_length = length
  <2>1. s.data_length = length /\ length + 1 \in 0 .. 64
    BY DEF IsScatter
  <2>2. QED
    BY <1>2, <2>1, CeilIsDataLength DEF TailLength
<1>4. /\ o.scatter = [s EXCEPT !.offset = s.data_length + CrcLength]
      /\ o.data = Data(s, n, TRUE, TRUE, SinglePayload(s, n - TailLength))
  BY <1>1, <1>2 DEF FetchSingleFrame, Returned
<1>5. IsScatter(o.scatter, length) /\ o.scatter.transfer_id = s.transfer_id
      /\ o.scatter.offset > 0
  BY <1>3, <1>4 DEF IsScatter, CrcLength
<1>6. /\ o.data.sot /\ o.data.eot /\ o.data.length = n
      /\ o.data.transfer_id = s.transfer_id
      /\ o.data.part = SinglePayload(s, n - TailLength)
      /\ o.data.part \in Payloads \cup {NoPart} => o.data \in FrameDatas
  BY <1>3, <1>4 DEF Data, FrameDatas, IsScatter
<1>7. CASE n - TailLength = 0
  <2>1. SinglePayload(s, n - TailLength) = NoPart /\ length = 0
    BY <1>3, <1>7 DEF SinglePayload, TailLength
  <2>2. QED
    BY <1>1, <1>3, <1>5, <1>6, <2>1 DEF IsFrameData
<1>8. CASE n - TailLength # 0
  <2>1. o.data.part = [from |-> 0, to |-> length, pad |-> n - 1 - length, crc |-> {},
                       crc_pad |-> 0]
    BY <1>3, <1>6, <1>8 DEF SinglePayload, Payload, TailLength
  <2>2. n - 1 - length \in Nat
    BY <1>3
  <2>3. o.data.part \in Payloads /\ o.data.part.from = 0 /\ o.data.part.to = length
    BY <2>1, <2>2 DEF Payloads
  <2>4. QED
    BY <1>1, <1>3, <1>5, <1>6, <2>3, LinkAssumption DEF IsFrameData
<1>9. QED
  BY <1>7, <1>8

LEMMA NextFrame ==
    ASSUME NEW length \in Nat, NEW s, IsScatter(s, length), NEW max \in {7, 63},
           Residual(s) # 0, s.offset = 0 => length > max
    PROVE  LET o == FetchNextFrame(s, max)
           IN  /\ IsScatter(o.scatter, length)
               /\ o.scatter.transfer_id = s.transfer_id /\ o.scatter.offset > 0
               /\ o.data.transfer_id = s.transfer_id
               /\ o.data.sot <=> s.offset = 0
               /\ IsFrameData(o.data, length)
<1>1. PICK o : o = FetchNextFrame(s, max)
  OBVIOUS
<1>2. /\ Residual(s) \in Nat /\ Residual(s) = length + 2 - s.offset
      /\ s.data_length = length /\ s.offset \in Nat
  BY DEF Residual, IsScatter, CrcLength
<1>3. PICK m : m = Min({Residual(s), max})
  OBVIOUS
<1>4. m = IF Residual(s) <= max THEN Residual(s) ELSE max
  BY <1>2, <1>3, LesserOfTwo
<1>5. m \in 1 .. 63 /\ m + 1 \in 0 .. 64
  BY <1>2, <1>4
<1>6. PICK n : n = NewCeil(m + 1)
  OBVIOUS
<1>7. /\ n \in m + 1 .. 64 /\ IsDataLength(n)
      /\ m + 1 <= 8 \/ m + 1 = 64 => n = m + 1
  BY <1>5, <1>6, CeilIsDataLength
<1>8. PICK payload : payload = n - 1
  OBVIOUS
<1>9. PICK end : end = s.offset + Min({payload, Residual(s)})
  OBVIOUS
<1>10. /\ payload \in 1 .. 63 /\ payload >= m
       /\ end = s.offset + (IF payload <= Residual(s) THEN payload ELSE Residual(s))
  BY <1>2, <1>5, <1>7, <1>8, <1>9, LesserOfTwo
<1>11. end \in Nat /\ end > 0 /\ end <= length + 2
  BY <1>2, <1>10
<1>12. PICK part : part = IF Residual(s) < payload THEN PaddedSegment(s, payload)
                                                    ELSE FullSegment(s, payload)
  OBVIOUS
<1>13. /\ o.scatter = [s EXCEPT !.offset = end, !.toggle = ~ @]
       /\ o.data = Data(s, n, s.offset = 0, end = s.data_length + CrcLength, part)
  BY <1>1, <1>3, <1>6, <1>8, <1>9, <1>12 DEF FetchNextFrame, Returned, TailLength
<1>14. /\ IsScatter(o.scatter, length) /\ o.scatter.transfer_id = s.transfer_id
       /\ o.scatter.offset > 0
  BY <1>11, <1>13 DEF IsScatter, CrcLength
<1>15. /\ o.data.sot = (s.offset = 0) /\ o.data.eot = (end = length + 2)
       /\ o.data.length = n /\ o.data.part = part
       /\ o.data.transfer_id = s.transfer_id
       /\ o.data.part \in Payloads => o.data \in FrameDatas
  BY <1>2, <1>5, <1>7, <1>13 DEF Data, CrcLength, FrameDatas, IsScatter
<1>16. part \in Payloads
  <2>1. CASE Residual(s) < payload
    <3>1. part = [from |-> s.offset, to |-> length, pad |-> payload - Residual(s),
                  crc |-> 0 .. CrcLength - 1, crc_pad |-> payload - Residual(s)]
      BY <1>2, <1>12, <2>1 DEF PaddedSegment, Payload
    <3>2. payload - Residual(s) \in Nat
      BY <1>2, <1>10, <2>1
    <3>3. QED
      BY <1>2, <3>1, <3>2 DEF Payloads
  <2>2. CASE ~ (Residual(s) < payload)
    <3>1. PICK from, to, crc :
            /\ from = Min({s.offset, s.data_length})
            /\ to = Min({s.offset + payload, s.data_length})
            /\ crc = {i \in 0 .. CrcLength - 1 :
                         s.data_length + i \in s.offset .. s.offset + payload - 1}
      OBVIOUS
    <3>2. part = [from |-> from, to |-> to, pad |-> 0, crc |-> crc, crc_pad |-> 0]
      BY <1>12, <2>2, <3>1 DEF FullSegment, Payload
    <3>3. from \in Nat /\ to \in Nat
      BY <1>2, <1>10, <3>1, LesserOfTwo
    <3>4. crc \subseteq 0 .. CrcLength - 1
      BY <3>1
    <3>5. QED
      BY <3>2, <3>3, <3>4 DEF Payloads
  <2>3. QED
    BY <2>1, <2>2
<1>17. ~ (o.data.sot /\ o.data.eot)
  <2>1. ASSUME s.offset = 0
        PROVE  end # length + 2
    <3>1. Residual(s) > max
      BY <1>2, <2>1
    <3>2. m = max
      BY <1>2, <1>4, <3>1
    <3>3. payload = max
      BY <1>7, <1>8, <3>2
    <3>4. end = max
      BY <1>2, <1>10, <2>1, <3>1, <3>3
    <3>5. QED
      BY <2>1, <3>4
  <2>2. QED
    BY <1>15, <2>1
<1>18. o.data.part # NoPart
  BY <1>15, <1>16, LinkAssumption
<1>19. o.data \in FrameDatas
  BY <1>15, <1>16
<1>20. IsFrameData(o.data, length)
  BY <1>7, <1>15, <1>16, <1>17, <1>18, <1>19 DEF IsFrameData
<1>21. QED
  BY <1>1, <1>14, <1>15, <1>20

\* The next frame of a transfer that is not exhausted, and what it leaves.
LEMMA FetchedData ==
    ASSUME NEW length \in Nat, NEW s, IsScatter(s, length), NEW mtu \in {"Classic", "Fd"},
           ~ IsExhausted(s)
    PROVE  LET o == FetchFrameData(s, mtu)
           IN  /\ IsScatter(o.scatter, length)
               /\ o.scatter.transfer_id = s.transfer_id /\ o.scatter.offset > 0
               /\ o.data.transfer_id = s.transfer_id
               /\ o.data.sot <=> s.offset = 0
               /\ IsFrameData(o.data, length)
<1>1. PICK max : max = MtuLength[mtu] - TailLength
  OBVIOUS
<1>2. max \in {7, 63}
  BY <1>1 DEF MtuLength, TailLength
<1>3. s.data_length = length /\ Residual(s) # 0
  BY DEF IsScatter, Residual, IsExhausted, CrcLength
<1>4. CASE s.offset = 0 /\ length <= max
  <2>1. FetchFrameData(s, mtu) = FetchSingleFrame(s)
    BY <1>1, <1>3, <1>4 DEF FetchFrameData
  <2>2. length <= 63
    BY <1>2, <1>4
  <2>3. QED
    BY <1>4, <2>1, <2>2, SingleFrame
<1>5. CASE ~ (s.offset = 0 /\ length <= max)
  <2>1. FetchFrameData(s, mtu) = FetchNextFrame(s, max)
    BY <1>1, <1>3, <1>5 DEF FetchFrameData
  <2>2. s.offset = 0 => length > max
    BY <1>2, <1>5
  <2>3. QED
    BY <1>2, <1>3, <2>1, <2>2, NextFrame
<1>6. QED
  BY <1>4, <1>5

-----------------------------------------------------------------------------
(* The transmit task: one of its queues, and what a step makes of it.       *)

\* The frames there can be: the priority is that of the identifier.
Known ==
    {f \in [priority : Priorities, deadline : Nat, id : {CanIds[h] : h \in Headers},
            transfer : Transfers, index : Nat \ {0}] :
        DecodeCanIdPriority(f.id) = f.priority}

\* The queue of a priority and its deadline. It is that of the last frame; the others,
\* and all of a queue that has no deadline, have been preempted.
IsQueue(p, queue, deadline, pre) ==
    /\ queue \in Seq(Known) /\ IsInjective(queue)
    /\ \A f \in ToSet(queue) : f.priority = p
    /\ deadline \in Nat
    /\ queue = << >> => deadline = Never
    /\ deadline # Never => Last(queue).deadline = deadline
    /\ \A f \in ToSet(queue) : f \in pre \/ (f = Last(queue) /\ deadline = f.deadline)

LEMMA EmptyQueue == IsInjective(<< >>) /\ ToSet(<< >>) = {} /\ Len(<< >>) = 0
BY DEF IsInjective, ToSet

LEMMA QueueFetched ==
    ASSUME NEW p, NEW pre, NEW f \in Known, f.priority = p, f.deadline \in Nat
    PROVE  LET queue == Append(<< >>, f)
           IN  /\ IsQueue(p, queue, f.deadline, pre)
               /\ ToSet(queue) = {f} /\ Len(queue) = 1
<1>1. PICK queue : queue = Append(<< >>, f)
  OBVIOUS
<1>2. /\ queue \in Seq(Known) /\ Len(queue) = 1 /\ queue[1] = f
  BY <1>1, AppendProperties, EmptySeq
<1>3. ToSet(queue) = {f} /\ IsInjective(queue)
  <2>1. DOMAIN queue = 1 .. 1
    BY <1>2, LenProperties
  <2>2. QED
    BY <1>2, <2>1 DEF ToSet, IsInjective
<1>4. Last(queue) = f
  BY <1>2 DEF Last
<1>5. queue # << >>
  <2>1. ASSUME queue = << >>
        PROVE  FALSE
    <3>1. Len(queue) = 0
      BY <2>1, EmptyQueue
    <3>2. QED
      BY <1>2, <3>1
  <2>2. QED
    BY <2>1
<1>6. QED
  BY <1>1, <1>2, <1>3, <1>4, <1>5 DEF IsQueue

LEMMA QueueExpired ==
    ASSUME NEW p, NEW pre, NEW queue, NEW deadline, IsQueue(p, queue, deadline, pre),
           deadline # Never, Never \in Nat
    PROVE  /\ queue # << >> /\ Last(queue) \in ToSet(queue)
           /\ Last(queue).deadline = deadline
           /\ IsQueue(p, Front(queue), Never, pre)
           /\ ToSet(Front(queue)) = ToSet(queue) \ {Last(queue)}
           /\ Len(Front(queue)) = Len(queue) - 1
<1>1. /\ queue \in Seq(Known) /\ IsInjective(queue) /\ queue # << >>
      /\ Last(queue).deadline = deadline
      /\ \A f \in ToSet(queue) : f.priority = p
      /\ \A f \in ToSet(queue) :
             f \in pre \/ (f = Last(queue) /\ deadline = f.deadline)
  BY DEF IsQueue
<1>2. PICK front : front = Front(queue)
  OBVIOUS
<1>3. /\ front \in Seq(Known) /\ IsInjective(front)
      /\ Last(queue) \in ToSet(queue)
      /\ ToSet(front) = ToSet(queue) \ {Last(queue)}
  BY <1>1, <1>2, FrontElements
<1>4. Len(front) = Len(queue) - 1
  <2>1. PICK n : n = Len(queue) - 1
    OBVIOUS
  <2>2. n \in Nat /\ 1 .. n \subseteq 1 .. Len(queue)
    BY <1>1, <2>1, EmptySeq
  <2>3. \A i \in 1 .. n : queue[i] \in Known
    BY <1>1, <2>2, ElementOfSeq
  <2>4. Len(SubSeq(queue, 1, n)) = n
    BY <2>2, <2>3, SubSeqProperties
  <2>5. QED
    BY <1>2, <2>1, <2>4 DEF Front
<1>5. IsQueue(p, front, Never, pre)
  BY <1>1, <1>3 DEF IsQueue
<1>6. QED
  BY <1>1, <1>2, <1>3, <1>4, <1>5

LEMMA QueueTail ==
    ASSUME NEW p, NEW pre, NEW queue, NEW deadline, IsQueue(p, queue, deadline, pre),
           queue # << >>, Never \in Nat
    PROVE  LET rest == Tail(queue)
           IN  /\ IsQueue(p, rest, IF rest = << >> THEN Never ELSE deadline, pre)
               /\ Head(queue) \in ToSet(queue)
               /\ Head(queue) \in pre \/ Head(queue).deadline = deadline
               /\ ToSet(rest) = ToSet(queue) \ {Head(queue)}
               /\ Len(rest) = Len(queue) - 1
<1>1. /\ queue \in Seq(Known) /\ IsInjective(queue) /\ deadline \in Nat
      /\ deadline # Never => Last(queue).deadline = deadline
      /\ \A f \in ToSet(queue) : f.priority = p
      /\ \A f \in ToSet(queue) :
             f \in pre \/ (f = Last(queue) /\ deadline = f.deadline)
  BY DEF IsQueue
<1>2. PICK rest : rest = Tail(queue)
  OBVIOUS
<1>3. /\ rest \in Seq(Known) /\ IsInjective(rest)
      /\ Head(queue) \in ToSet(queue)
      /\ ToSet(rest) = ToSet(queue) \ {Head(queue)}
  BY <1>1, <1>2, TailElements
<1>4. /\ Len(rest) = Len(queue) - 1 /\ Len(queue) \in Nat
      /\ \A i \in 1 .. Len(rest) : rest[i] = queue[i + 1]
  BY <1>1, <1>2, HeadTailProperties, LenProperties
<1>5. ASSUME rest # << >>
      PROVE  Last(rest) = Last(queue)
  <2>1. Len(rest) \in Nat \ {0}
    BY <1>3, <1>5, EmptySeq
  <2>2. rest[Len(rest)] = queue[Len(rest) + 1]
    BY <1>4, <2>1
  <2>3. QED
    BY <1>4, <2>1, <2>2 DEF Last
<1>6. CASE rest = << >>
  <2>1. \A f \in ToSet(rest) : FALSE
    BY <1>6, EmptyQueue
  <2>2. IsQueue(p, rest, Never, pre)
    BY <1>3, <1>6, <2>1 DEF IsQueue
  <2>3. QED
    BY <1>1, <1>2, <1>3, <1>4, <1>6, <2>2
<1>7. CASE rest # << >>
  <2>1. IsQueue(p, rest, deadline, pre)
    BY <1>1, <1>3, <1>5, <1>7 DEF IsQueue
  <2>2. QED
    BY <1>1, <1>2, <1>3, <1>4, <1>7, <2>1
<1>8. QED
  BY <1>6, <1>7

LEMMA QueuePutBack ==
    ASSUME NEW p, NEW pre, NEW queue, NEW deadline, IsQueue(p, queue, deadline, pre),
           NEW b \in Known, b.priority = p, b \in pre, b \notin ToSet(queue)
    PROVE  LET more == << b >> \o queue
           IN  /\ IsQueue(p, more, deadline, pre)
               /\ ToSet(more) = ToSet(queue) \cup {b}
               /\ Len(more) = Len(queue) + 1
<1>1. /\ queue \in Seq(Known) /\ IsInjective(queue) /\ deadline \in Nat
      /\ queue = << >> => deadline = Never
      /\ deadline # Never => Last(queue).deadline = deadline
      /\ \A f \in ToSet(queue) : f.priority = p
      /\ \A f \in ToSet(queue) :
             f \in pre \/ (f = Last(queue) /\ deadline = f.deadline)
  BY DEF IsQueue
<1>2. PICK more : more = << b >> \o queue
  OBVIOUS
<1>3. /\ more \in Seq(Known) /\ IsInjective(more)
      /\ ToSet(more) = ToSet(queue) \cup {b}
      /\ Len(more) = Len(queue) + 1
      /\ \A i \in 1 .. Len(queue) + 1 : more[i] = IF i = 1 THEN b ELSE queue[i - 1]
  BY <1>1, <1>2, PrependElements
<1>4. Len(queue) \in Nat
  BY <1>1, LenProperties
<1>5. more # << >>
  BY <1>3, <1>4
<1>6. ASSUME queue # << >>
      PROVE  Last(more) = Last(queue)
  <2>1. Len(queue) # 0
    BY <1>1, <1>6, EmptySeq
  <2>2. QED
    BY <1>3, <1>4, <2>1 DEF Last
<1>7. \A f \in ToSet(queue) : queue # << >>
  BY EmptyQueue
<1>8. IsQueue(p, more, deadline, pre)
  BY <1>1, <1>3, <1>5, <1>6, <1>7 DEF IsQueue
<1>9. QED
  BY <1>2, <1>3, <1>8

\* More frames may have been preempted.
LEMMA QueueKept ==
    ASSUME NEW p, NEW pre, NEW more, pre \subseteq more,
           NEW queue, NEW deadline, IsQueue(p, queue, deadline, pre)
    PROVE  IsQueue(p, queue, deadline, more)
BY DEF IsQueue

LEMMA SequenceOfNone == SetToSeq({}) = << >>
<1>1. [1 .. Cardinality({}) -> {}] = {<< >>}
  <2>1. Cardinality({}) = 0
    BY FS_EmptySet
  <2>2. 1 .. 0 = {}
    OBVIOUS
  <2>3. << >> \in [{} -> {}] /\ \A f \in [{} -> {}] : f = << >>
    OBVIOUS
  <2>4. QED
    BY <2>1, <2>2, <2>3
<1>2. QED
  BY <1>1, EmptyQueue DEF SetToSeq

LEMMA SequenceOfOne ==
    ASSUME NEW b
    PROVE  SetToSeq({b}) = << b >>
<1>1. Cardinality({b}) = 1
  BY FS_Singleton
<1>2. << b >> \in [1 .. 1 -> {b}] /\ \A f \in [1 .. 1 -> {b}] : f = << b >>
  OBVIOUS
<1>3. IsInjective(<< b >>)
  BY DEF IsInjective
<1>4. QED
  BY <1>1, <1>2, <1>3 DEF SetToSeq

OfPriority(S, p) == {f \in S : f.priority = p}

IsAtMostOne(pre, S) == pre = {} \/ \E b \in S : pre = {b}

LEMMA CountRemoved ==
    ASSUME NEW S, IsFiniteSet(S), NEW pre, IsAtMostOne(pre, S), NEW p
    PROVE  /\ IsFiniteSet(S \ pre)
           /\ Cardinality(S \ pre) = Cardinality(S) - IF pre = {} THEN 0 ELSE 1
           /\ Cardinality(OfPriority(pre, p)) \in Nat
           /\ Cardinality(OfPriority(S \ pre, p)) + Cardinality(OfPriority(pre, p))
                = Cardinality(OfPriority(S, p))
           /\ Cardinality(OfPriority(S, p)) \in Nat
           /\ Cardinality(OfPriority(S \ pre, p)) \in Nat
<1> DEFINE of == OfPriority(S, p)
<1>1. IsFiniteSet(of) /\ Cardinality(of) \in Nat /\ Cardinality(S) \in Nat
  <2>1. of \in SUBSET S
    BY DEF OfPriority
  <2>2. QED
    BY <2>1, FS_Subset, FS_CardinalityType
<1>2. CASE pre = {}
  <2>1. S \ pre = S /\ OfPriority(pre, p) = {}
    BY <1>2 DEF OfPriority
  <2>2. QED
    BY <1>1, <1>2, <2>1, FS_EmptySet
<1>3. ASSUME NEW b \in S, pre = {b}
      PROVE  /\ IsFiniteSet(S \ pre)
             /\ Cardinality(S \ pre) = Cardinality(S) - 1
             /\ pre # {}
             /\ Cardinality(OfPriority(pre, p)) \in Nat
             /\ Cardinality(OfPriority(S \ pre, p)) + Cardinality(OfPriority(pre, p))
                  = Cardinality(of)
             /\ Cardinality(OfPriority(S \ pre, p)) \in Nat
  <2>1. /\ IsFiniteSet(S \ {b}) /\ Cardinality(S \ {b}) = Cardinality(S) - 1
    BY FS_RemoveElement
  <2>2. CASE b.priority = p
    <3>1. /\ OfPriority(S \ pre, p) = of \ {b} /\ b \in of
          /\ OfPriority(pre, p) = {b}
      BY <1>3, <2>2 DEF OfPriority
    <3>2. Cardinality(of \ {b}) = Cardinality(of) - 1 /\ IsFiniteSet(of \ {b})
      BY <1>1, <3>1, FS_RemoveElement
    <3>3. Cardinality(of \ {b}) \in Nat
      BY <3>2, FS_CardinalityType
    <3>4. Cardinality({b}) = 1
      BY FS_Singleton
    <3>5. Cardinality(of \ {b}) + Cardinality({b}) = Cardinality(of)
      BY <1>1, <3>2, <3>4
    <3>6. Cardinality({b}) \in Nat
      BY <3>4
    <3>7. pre # {}
      BY <1>3
    <3>8. QED
      BY <1>3, <2>1, <3>1, <3>3, <3>5, <3>6, <3>7
  <2>3. CASE b.priority # p
    <3>1. OfPriority(S \ pre, p) = of /\ OfPriority(pre, p) = {}
      BY <1>3, <2>3 DEF OfPriority
    <3>2. Cardinality({}) = 0
      BY FS_EmptySet
    <3>3. QED
      BY <1>1, <1>3, <2>1, <3>1, <3>2
  <2>4. QED
    BY <2>2, <2>3
<1>4. QED
  BY <1>1, <1>2, <1>3 DEF IsAtMostOne

LEMMA CountAdded ==
    ASSUME NEW S, IsFiniteSet(S), NEW f, f \notin S, NEW p
    PROVE  /\ IsFiniteSet(S \cup {f})
           /\ Cardinality(S \cup {f}) = Cardinality(S) + 1
           /\ Cardinality(OfPriority(S \cup {f}, p))
                = Cardinality(OfPriority(S, p)) + IF f.priority = p THEN 1 ELSE 0
           /\ Cardinality(OfPriority(S, p)) \in Nat
           /\ Cardinality(OfPriority(S, p)) <= Cardinality(S)
           /\ Cardinality(S) \in Nat
<1>1. /\ IsFiniteSet(OfPriority(S, p)) /\ Cardinality(OfPriority(S, p)) \in Nat
      /\ Cardinality(OfPriority(S, p)) <= Cardinality(S) /\ Cardinality(S) \in Nat
  <2>1. OfPriority(S, p) \in SUBSET S
    BY DEF OfPriority
  <2>2. QED
    BY <2>1, FS_Subset, FS_CardinalityType
<1>2. /\ IsFiniteSet(S \cup {f})
      /\ Cardinality(S \cup {f}) = Cardinality(S) + 1
  BY FS_AddElement
<1>3. CASE f.priority = p
  <2>1. OfPriority(S \cup {f}, p) = OfPriority(S, p) \cup {f} /\ f \notin OfPriority(S, p)
    BY <1>3 DEF OfPriority
  <2>2. Cardinality(OfPriority(S, p) \cup {f}) = Cardinality(OfPriority(S, p)) + 1
    BY <1>1, <2>1, FS_AddElement
  <2>3. QED
    BY <1>1, <1>2, <1>3, <2>1, <2>2
<1>4. CASE f.priority # p
  <2>1. OfPriority(S \cup {f}, p) = OfPriority(S, p)
    BY <1>4 DEF OfPriority
  <2>2. QED
    BY <1>1, <1>2, <1>4, <2>1
<1>5. QED
  BY <1>3, <1>4

\* What a frame that was taken out of a mailbox adds to the queue it goes back to.
LEMMA QueueAfterPutBack ==
    ASSUME NEW p, NEW pre, pre \subseteq Known, IsAtMostOne(pre, pre),
           NEW all, pre \subseteq all,
           NEW queue, NEW deadline, IsQueue(p, queue, deadline, all),
           pre \cap ToSet(queue) = {}
    PROVE  LET more == SetToSeq({b \in pre : DecodeCanIdPriority(b.id) = p}) \o queue
           IN  /\ IsQueue(p, more, deadline, all)
               /\ ToSet(more) = ToSet(queue) \cup OfPriority(pre, p)
               /\ Len(more) = Len(queue) + Cardinality(OfPriority(pre, p))
<1> DEFINE back == {b \in pre : DecodeCanIdPriority(b.id) = p}
<1>1. back = OfPriority(pre, p)
  BY DEF OfPriority, Known
<1>2. queue \in Seq(Known) /\ Len(queue) \in Nat
  BY LenProperties DEF IsQueue
<1>3. CASE back = {}
  <2>1. SetToSeq(back) \o queue = queue
    BY <1>2, <1>3, SequenceOfNone, ConcatEmptySeq
  <2>2. Cardinality(OfPriority(pre, p)) = 0 /\ OfPriority(pre, p) = {}
    BY <1>1, <1>3, FS_EmptySet
  <2>3. Len(queue) = Len(queue) + 0
    BY <1>2
  <2>4. QED
    BY <1>1, <2>1, <2>2, <2>3
<1>4. CASE back # {}
  <2>1. PICK b \in pre : back = {b} /\ b.priority = p
    BY <1>1, <1>4 DEF IsAtMostOne, OfPriority
  <2>2. SetToSeq(back) = << b >>
    BY <2>1, SequenceOfOne
  <2>3. /\ IsQueue(p, << b >> \o queue, deadline, all)
        /\ ToSet(<< b >> \o queue) = ToSet(queue) \cup {b}
        /\ Len(<< b >> \o queue) = Len(queue) + 1
    BY <2>1, QueuePutBack
  <2>4. Cardinality({b}) = 1
    BY FS_Singleton
  <2>5. QED
    BY <1>1, <2>1, <2>2, <2>3, <2>4
<1>5. QED
  BY <1>3, <1>4

LEMMA FirstIsLeast ==
    ASSUME NEW S, S \subseteq Nat, S # {}
    PROVE  First(S) \in S
<1>1. \E x \in S : \A y \in S : x <= y
  BY MinIsLeast
<1>2. QED
  BY <1>1 DEF First

LEMMA KnownFrame ==
    ASSUME case \in Cases, NEW t \in Transfers, NEW i \in Nat \ {0}
    PROVE  /\ RawFrame(t, i) \in Known
           /\ RawFrame(t, i).transfer = t /\ RawFrame(t, i).index = i
           /\ RawFrame(t, i).priority = HeaderOf(t).priority
           /\ RawFrame(t, i).deadline = Deadlines[t]
           /\ RawFrame(t, i).id = CanIds[HeaderOf(t)]
<1>1. HeaderOf(t) \in Headers
  BY DEF HeaderOf, Headers
<1>2. HeaderOf(t).priority \in Priorities /\ Deadlines[t] \in Nat
      /\ DecodeCanIdPriority(CanIds[HeaderOf(t)]) = HeaderOf(t).priority
  BY <1>1, LinkAssumption
<1>3. CanIds[HeaderOf(t)] \in {CanIds[h] : h \in Headers}
  BY <1>1
<1>4. PICK p, d, id : p = HeaderOf(t).priority /\ d = Deadlines[t]
                      /\ id = CanIds[HeaderOf(t)]
  OBVIOUS
<1>5. RawFrame(t, i) = [priority |-> p, deadline |-> d, id |-> id, transfer |-> t,
                        index |-> i]
  BY <1>4 DEF RawFrame
<1>6. QED
  BY <1>2, <1>3, <1>4, <1>5 DEF Known

-----------------------------------------------------------------------------
(* The invariant.                                                           *)

\* What the frames of a transfer are until the Scatter is exhausted.
SenderInv ==
    /\ case \in Cases
    /\ scatter \in [Transfers -> [transfer_id : Nat, data_length : Nat, offset : Nat,
                                  toggle : BOOLEAN]]
    /\ sent \in [Transfers -> Seq(FrameDatas)]
    /\ \A t \in Transfers :
           /\ IsScatter(scatter[t], LengthOf(t))
           /\ scatter[t].transfer_id = TransferIds[t]
           /\ scatter[t].offset = 0 => sent[t] = << >>
           /\ \A i \in 1 .. Len(sent[t]) :
                  /\ IsFrameData(sent[t][i], LengthOf(t))
                  /\ sent[t][i].transfer_id = TransferIds[t]
                  /\ sent[t][i].sot => i = 1

\* A queue of a priority has at most the frame that was fetched last, and of those before
\* it the ones that may come back from the mailboxes or did: no queue overflows.
TaskInv ==
    /\ now \in 0 .. MaxTime /\ panicked = FALSE
    /\ frames \in [Priorities -> Seq(Known)]
    /\ deadlines \in [Priorities -> Nat]
    /\ \A p \in Priorities : IsQueue(p, frames[p], deadlines[p], preempted)
    /\ IsFiniteSet(boxes) /\ Cardinality(boxes) <= BoxCount
    /\ \A p \in Priorities :
           Len(frames[p]) + Cardinality(OfPriority(boxes, p)) <= PreemptionDepth

FetchedFrames == {f \in Known : /\ f.index <= Len(sent[f.transfer])
                                /\ f = RawFrame(f.transfer, f.index)}

PlacesInv ==
    /\ gone \in [transmitted : SUBSET Known, expired : SUBSET Known]
    /\ Queued \cup boxes \cup gone.transmitted \cup gone.expired = FetchedFrames
    /\ Queued \cap boxes = {}
    /\ (Queued \cup boxes) \cap (gone.transmitted \cup gone.expired) = {}
    /\ gone.transmitted \cap gone.expired = {}

LinkIInv == SenderInv /\ TaskInv /\ PlacesInv /\ LateFramesWerePreempted

LEMMA Bounds == Never \in Nat /\ Never > MaxTime /\ PreemptionDepth = BoxCount + 1
                /\ BoxCount \in Nat /\ MaxTime \in Nat
BY LinkAssumption DEF Never, PreemptionDepth

LEMMA TaskFetches ==
    ASSUME TaskInv, NEW f \in Known, Fetch(f), preempted' = preempted
    PROVE  TaskInv' /\ Queued' = Queued \cup {f} /\ boxes' = boxes
<1>1. PICK p \in Priorities : p = f.priority
  BY DEF Known
<1>2. /\ frames[p] = << >> /\ boxes' = boxes /\ now' = now
      /\ frames' = [frames EXCEPT ![p] = Append(@, f)]
      /\ deadlines' = [deadlines EXCEPT ![p] = f.deadline]
      /\ panicked' = (Len(frames[p]) = PreemptionDepth)
  BY <1>1 DEF Fetch, FetchMask, Occupied
<1>3. PICK queue : queue = Append(<< >>, f)
  OBVIOUS
<1>4. f.deadline \in Nat
  BY DEF Known
<1>5. IsQueue(p, queue, f.deadline, preempted) /\ ToSet(queue) = {f} /\ Len(queue) = 1
  BY <1>1, <1>3, <1>4, QueueFetched
<1>6. /\ frames' = [frames EXCEPT ![p] = queue]
      /\ DOMAIN frames = Priorities /\ DOMAIN deadlines = Priorities
  BY <1>2, <1>3 DEF TaskInv
<1>7. /\ frames'[p] = queue /\ deadlines'[p] = f.deadline
      /\ \A q \in Priorities \ {p} :
             frames'[q] = frames[q] /\ deadlines'[q] = deadlines[q]
  BY <1>2, <1>6
<1>8. \A q \in Priorities : IsQueue(q, frames'[q], deadlines'[q], preempted')
  BY <1>5, <1>7 DEF TaskInv
<1>9. frames' \in [Priorities -> Seq(Known)] /\ deadlines' \in [Priorities -> Nat]
  <2>1. queue \in Seq(Known)
    BY <1>5 DEF IsQueue
  <2>2. QED
    BY <1>2, <1>4, <1>6, <2>1 DEF TaskInv
<1>10. panicked' = FALSE
  <2>1. Len(frames[p]) = 0
    BY <1>2, EmptyQueue
  <2>2. Len(frames[p]) # PreemptionDepth
    BY <2>1, Bounds
  <2>3. QED
    BY <1>2, <2>2, Zenon
<1>11. \A q \in Priorities :
           Len(frames'[q]) + Cardinality(OfPriority(boxes', q)) <= PreemptionDepth
  <2>1. IsFiniteSet(boxes) /\ Cardinality(boxes) <= BoxCount
    BY DEF TaskInv
  <2>2. /\ Cardinality(OfPriority(boxes, p)) \in Nat
        /\ Cardinality(OfPriority(boxes, p)) <= Cardinality(boxes)
        /\ Cardinality(boxes) \in Nat
    <3>1. OfPriority(boxes, p) \in SUBSET boxes
      BY DEF OfPriority
    <3>2. QED
      BY <2>1, <3>1, FS_Subset, FS_CardinalityType
  <2>3. Len(frames'[p]) + Cardinality(OfPriority(boxes', p)) <= PreemptionDepth
    BY <1>2, <1>5, <1>7, <2>1, <2>2, Bounds
  <2>4. QED
    BY <1>2, <1>7, <2>3 DEF TaskInv
<1>12. TaskInv'
  BY <1>2, <1>8, <1>9, <1>10, <1>11, Bounds DEF TaskInv
<1>13. Queued' = Queued \cup {f}
  <2>1. ToSet(frames[p]) = {}
    BY <1>2, EmptyQueue
  <2>2. \A q \in Priorities :
            ToSet(frames'[q]) = IF q = p THEN {f} ELSE ToSet(frames[q])
    BY <1>5, <1>7
  <2>3. QED
    BY <2>1, <2>2 DEF Queued
<1>14. QED
  BY <1>2, <1>12, <1>13

LEMMA TaskExpires ==
    ASSUME TaskInv, Expire, preempted' = preempted
    PROVE  /\ TaskInv' /\ Queued' \subseteq Queued /\ Queued \subseteq Known
           /\ boxes' = boxes /\ now' = now
           /\ \A f \in Queued \ Queued' : f.deadline < now
<1> DEFINE late == {p \in Priorities : now > deadlines[p]}
<1>1. /\ deadlines' = [p \in Priorities |-> IF p \in late THEN Never ELSE deadlines[p]]
      /\ frames' = [p \in Priorities |->
                      IF p \in late /\ frames[p] # << >> THEN Expired(frames[p])
                                                         ELSE frames[p]]
      /\ panicked' = \E p \in late : frames[p] = << >>
      /\ boxes' = boxes /\ now' = now
  BY DEF Expire
<1>2. now \in Nat /\ now <= MaxTime
  BY Bounds DEF TaskInv
<1>3. ASSUME NEW p \in late
      PROVE  /\ p \in Priorities /\ frames[p] # << >>
             /\ frames'[p] = Front(frames[p]) /\ deadlines'[p] = Never
             /\ IsQueue(p, Front(frames[p]), Never, preempted)
             /\ ToSet(Front(frames[p])) = ToSet(frames[p]) \ {Last(frames[p])}
             /\ Last(frames[p]).deadline < now
             /\ Len(Front(frames[p])) = Len(frames[p]) - 1
  <2>1. /\ p \in Priorities /\ deadlines[p] \in Nat /\ deadlines[p] < now
        /\ IsQueue(p, frames[p], deadlines[p], preempted)
    BY <1>2 DEF TaskInv
  <2>2. deadlines[p] # Never
    BY <1>2, <2>1, Bounds
  <2>3. /\ frames[p] # << >> /\ Last(frames[p]).deadline = deadlines[p]
        /\ IsQueue(p, Front(frames[p]), Never, preempted)
        /\ ToSet(Front(frames[p])) = ToSet(frames[p]) \ {Last(frames[p])}
        /\ Len(Front(frames[p])) = Len(frames[p]) - 1
    BY <2>1, <2>2, Bounds, QueueExpired
  <2>4. frames'[p] = Front(frames[p]) /\ deadlines'[p] = Never
    BY <1>1, <2>1, <2>3 DEF Expired
  <2>5. QED
    BY <2>1, <2>3, <2>4
<1>4. \A p \in Priorities \ late : frames'[p] = frames[p] /\ deadlines'[p] = deadlines[p]
  BY <1>1
<1>5. \A p \in Priorities :
          /\ IsQueue(p, frames'[p], deadlines'[p], preempted')
          /\ ToSet(frames'[p]) \subseteq ToSet(frames[p])
          /\ \A f \in ToSet(frames[p]) \ ToSet(frames'[p]) : f.deadline < now
          /\ frames'[p] \in Seq(Known) /\ deadlines'[p] \in Nat
  <2>1. SUFFICES ASSUME NEW p \in Priorities
                 PROVE  /\ IsQueue(p, frames'[p], deadlines'[p], preempted')
                        /\ ToSet(frames'[p]) \subseteq ToSet(frames[p])
                        /\ \A f \in ToSet(frames[p]) \ ToSet(frames'[p]) :
                               f.deadline < now
                        /\ frames'[p] \in Seq(Known) /\ deadlines'[p] \in Nat
    OBVIOUS
  <2>2. IsQueue(p, frames[p], deadlines[p], preempted)
    BY DEF TaskInv
  <2>3. CASE p \in late
    <3>1. /\ IsQueue(p, frames'[p], deadlines'[p], preempted)
          /\ ToSet(frames'[p]) = ToSet(frames[p]) \ {Last(frames[p])}
          /\ Last(frames[p]).deadline < now
      BY <1>3, <2>3
    <3>2. frames'[p] \in Seq(Known) /\ deadlines'[p] \in Nat
      BY <3>1 DEF IsQueue
    <3>3. QED
      BY <3>1, <3>2
  <2>4. CASE p \notin late
    BY <1>4, <2>2, <2>4 DEF IsQueue
  <2>5. QED
    BY <2>3, <2>4
<1>6. \A p \in Priorities :
          Len(frames'[p]) + Cardinality(OfPriority(boxes', p)) <= PreemptionDepth
  <2>1. SUFFICES ASSUME NEW p \in Priorities
                 PROVE  Len(frames'[p]) + Cardinality(OfPriority(boxes', p))
                            <= PreemptionDepth
    OBVIOUS
  <2>2. Len(frames'[p]) \in Nat /\ Len(frames[p]) \in Nat /\ Len(frames'[p]) <= Len(frames[p])
    <3>1. frames'[p] \in Seq(Known) /\ frames[p] \in Seq(Known)
      BY <1>5 DEF TaskInv
    <3>2. Len(frames'[p]) \in Nat /\ Len(frames[p]) \in Nat
      BY <3>1, LenProperties
    <3>3. Len(frames'[p]) = Len(frames[p]) - 1 \/ frames'[p] = frames[p]
      BY <1>3, <1>4
    <3>4. QED
      BY <3>2, <3>3
  <2>3. /\ Len(frames[p]) + Cardinality(OfPriority(boxes, p)) <= PreemptionDepth
        /\ Cardinality(OfPriority(boxes, p)) \in Nat
    <3>1. IsFiniteSet(boxes) /\ OfPriority(boxes, p) \in SUBSET boxes
      BY DEF TaskInv, OfPriority
    <3>2. QED
      BY <3>1, FS_Subset, FS_CardinalityType DEF TaskInv
  <2>4. PICK n : n = Cardinality(OfPriority(boxes, p))
    OBVIOUS
  <2>5. PreemptionDepth \in Nat
    BY Bounds
  <2>6. Len(frames'[p]) + n <= PreemptionDepth
    BY <2>2, <2>3, <2>4, <2>5
  <2>7. QED
    BY <1>1, <2>4, <2>6
<1>7. panicked' = FALSE
  BY <1>1, <1>3
<1>8. frames' \in [Priorities -> Seq(Known)] /\ deadlines' \in [Priorities -> Nat]
  <2>1. frames' = [p \in Priorities |-> frames'[p]]
    BY <1>1
  <2>2. deadlines' = [p \in Priorities |-> deadlines'[p]]
    BY <1>1
  <2>3. QED
    BY <1>5, <2>1, <2>2
<1>9. TaskInv'
  BY <1>1, <1>5, <1>6, <1>7, <1>8 DEF TaskInv
<1>10. Queued' \subseteq Queued /\ \A f \in Queued \ Queued' : f.deadline < now
  BY <1>5 DEF Queued
<1>11. Queued \subseteq Known
  <2>1. \A p \in Priorities : ToSet(frames[p]) \subseteq Known
    BY ToSetElements DEF TaskInv
  <2>2. QED
    BY <2>1 DEF Queued
<1>12. QED
  BY <1>1, <1>9, <1>10, <1>11

LEMMA TaskWrites ==
    ASSUME TaskInv, Write, boxes \subseteq Known, Queued \cap boxes = {},
           preempted' = preempted \cup (boxes \ boxes')
    PROVE  /\ TaskInv' /\ now' = now
           /\ \E f \in Queued, pre \in SUBSET boxes :
                 /\ boxes' = (boxes \ pre) \cup {f}
                 /\ Queued' = (Queued \ {f}) \cup pre
                 /\ f \in preempted \/ ~ (now > f.deadline)
<1>1. PICK p \in Priorities : p = First(Occupied) /\ frames[p] # << >>
  <2>1. Occupied \subseteq Nat /\ Occupied # {}
    BY LinkAssumption DEF Occupied, Write
  <2>2. First(Occupied) \in Occupied
    BY <2>1, FirstIsLeast
  <2>3. QED
    BY <2>2 DEF Occupied
<1>2. PICK f : f = Head(frames[p])
  OBVIOUS
<1>3. PICK left : left = [frames EXCEPT ![p] = Tail(@)]
  OBVIOUS
<1>4. PICK pre \in Displaced(f) :
         /\ boxes' = (boxes \ pre) \cup {f}
         /\ frames' = PutBack(left, pre)
         /\ panicked' = \E q \in Priorities : Len(frames'[q]) > PreemptionDepth
  BY <1>1, <1>2, <1>3 DEF Write
<1>5. /\ deadlines' = [deadlines EXCEPT ![p] = IF left[p] = << >> THEN Never ELSE @]
      /\ now' = now
      /\ \A q \in Priorities : ~ (deadlines[q] <= now)
  BY <1>1, <1>2, <1>3 DEF Write, DeadlineReady
<1>6. /\ pre \subseteq boxes /\ IsAtMostOne(pre, boxes) /\ IsAtMostOne(pre, pre)
      /\ pre = {} => Cardinality(boxes) < BoxCount
  BY DEF Displaced, IsAtMostOne
<1>7. IsQueue(p, frames[p], deadlines[p], preempted) /\ frames[p] \in Seq(Known)
  BY DEF TaskInv
<1>8. PICK rest : rest = Tail(frames[p])
  OBVIOUS
<1>9. /\ IsQueue(p, rest, IF rest = << >> THEN Never ELSE deadlines[p], preempted)
      /\ f \in ToSet(frames[p])
      /\ f \in preempted \/ f.deadline = deadlines[p]
      /\ ToSet(rest) = ToSet(frames[p]) \ {f}
      /\ Len(rest) = Len(frames[p]) - 1
  BY <1>1, <1>2, <1>7, <1>8, Bounds, QueueTail
<1>10. /\ left[p] = rest
       /\ deadlines'[p] = IF rest = << >> THEN Never ELSE deadlines[p]
       /\ \A q \in Priorities \ {p} :
              left[q] = frames[q] /\ deadlines'[q] = deadlines[q]
  <2>1. DOMAIN frames = Priorities /\ DOMAIN deadlines = Priorities
    BY DEF TaskInv
  <2>2. left[p] = rest /\ \A q \in Priorities \ {p} : left[q] = frames[q]
    BY <1>3, <1>8, <2>1
  <2>3. PICK d : d = IF rest = << >> THEN Never ELSE deadlines[p]
    OBVIOUS
  <2>4. deadlines' = [deadlines EXCEPT ![p] = d]
    BY <1>5, <2>2, <2>3
  <2>5. QED
    BY <2>1, <2>2, <2>3, <2>4
<1>11. f \in Queued /\ f \notin boxes /\ f.priority = p
  <2>1. f \in Queued /\ f.priority = p
    BY <1>7, <1>9 DEF Queued, IsQueue
  <2>2. QED
    BY <2>1
<1>12. boxes \ boxes' = pre
  BY <1>4, <1>6, <1>11
<1>13. preempted' = preempted \cup pre
  BY <1>12
<1>14. ASSUME NEW q \in Priorities
       PROVE  /\ IsQueue(q, left[q], deadlines'[q], preempted')
              /\ ToSet(left[q]) = ToSet(frames[q]) \ {f}
              /\ Len(left[q]) = Len(frames[q]) - IF q = p THEN 1 ELSE 0
              /\ Len(frames[q]) \in Nat
  <2>1. Len(frames[q]) \in Nat
    BY LenProperties DEF TaskInv
  <2>2. CASE q = p
    <3>1. IsQueue(p, left[p], deadlines'[p], preempted)
      BY <1>9, <1>10
    <3>2. IsQueue(p, left[p], deadlines'[p], preempted')
      BY <1>13, <3>1, QueueKept
    <3>3. QED
      BY <1>9, <1>10, <2>1, <2>2, <3>2
  <2>3. CASE q # p
    <3>1. IsQueue(q, left[q], deadlines'[q], preempted)
      BY <1>10, <2>3 DEF TaskInv
    <3>2. IsQueue(q, left[q], deadlines'[q], preempted')
      BY <1>13, <3>1, QueueKept
    <3>3. left[q] = frames[q] /\ f \notin ToSet(frames[q])
      BY <1>10, <1>11, <2>3 DEF TaskInv, IsQueue
    <3>4. Len(frames[q]) = Len(frames[q]) - 0
      BY <2>1
    <3>5. QED
      BY <2>1, <2>3, <3>2, <3>3, <3>4
  <2>4. QED
    BY <2>2, <2>3
<1>15. ASSUME NEW q \in Priorities
       PROVE  /\ IsQueue(q, frames'[q], deadlines'[q], preempted')
              /\ ToSet(frames'[q]) = (ToSet(frames[q]) \ {f}) \cup OfPriority(pre, q)
              /\ Len(frames'[q]) = Len(left[q]) + Cardinality(OfPriority(pre, q))
  <2>1. frames'[q] = SetToSeq({b \in pre : DecodeCanIdPriority(b.id) = q}) \o left[q]
    BY <1>4 DEF PutBack
  <2>2. /\ IsQueue(q, left[q], deadlines'[q], preempted')
        /\ ToSet(left[q]) = ToSet(frames[q]) \ {f}
    BY <1>14
  <2>3. pre \cap ToSet(left[q]) = {}
    BY <1>6, <2>2 DEF Queued
  <2>4. pre \subseteq Known /\ pre \subseteq preempted'
    BY <1>6, <1>13
  <2>5. PICK queue : queue = left[q]
    OBVIOUS
  <2>6. PICK more : more = SetToSeq({b \in pre : DecodeCanIdPriority(b.id) = q}) \o queue
    OBVIOUS
  <2>7. /\ IsQueue(q, more, deadlines'[q], preempted')
        /\ ToSet(more) = ToSet(queue) \cup OfPriority(pre, q)
        /\ Len(more) = Len(queue) + Cardinality(OfPriority(pre, q))
    BY <1>6, <2>2, <2>3, <2>4, <2>5, <2>6, QueueAfterPutBack
  <2>8. QED
    BY <2>1, <2>2, <2>5, <2>6, <2>7
<1>16. IsFiniteSet(boxes) /\ Cardinality(boxes) <= BoxCount /\ Cardinality(boxes) \in Nat
  BY FS_CardinalityType DEF TaskInv
<1>17. /\ IsFiniteSet(boxes \ pre)
       /\ Cardinality(boxes \ pre) = Cardinality(boxes) - IF pre = {} THEN 0 ELSE 1
  BY <1>6, <1>16, CountRemoved
<1>18. f \notin boxes \ pre
  BY <1>11
<1>19. IsFiniteSet(boxes') /\ Cardinality(boxes') <= BoxCount
  <2>1. /\ IsFiniteSet(boxes') /\ Cardinality(boxes') = Cardinality(boxes \ pre) + 1
    BY <1>4, <1>17, <1>18, CountAdded
  <2>2. QED
    BY <1>6, <1>16, <1>17, <2>1, Bounds
<1>20. ASSUME NEW q \in Priorities
       PROVE  Len(frames'[q]) + Cardinality(OfPriority(boxes', q)) <= PreemptionDepth
  <2>1. PICK old, out, kept, new :
           /\ old = Cardinality(OfPriority(boxes, q))
           /\ out = Cardinality(OfPriority(pre, q))
           /\ kept = Cardinality(OfPriority(boxes \ pre, q))
           /\ new = Cardinality(OfPriority(boxes', q))
    OBVIOUS
  <2>2. kept \in Nat /\ out \in Nat /\ old \in Nat /\ kept + out = old
    BY <1>6, <1>16, <2>1, CountRemoved
  <2>3. PICK d \in {0, 1} : d = IF q = p THEN 1 ELSE 0
    OBVIOUS
  <2>4. new = kept + d
    <3>1. Cardinality(OfPriority((boxes \ pre) \cup {f}, q))
            = Cardinality(OfPriority(boxes \ pre, q)) + IF f.priority = q THEN 1 ELSE 0
      BY <1>17, <1>18, CountAdded
    <3>2. Cardinality(OfPriority(boxes', q))
            = Cardinality(OfPriority(boxes \ pre, q)) + d
      BY <1>4, <1>11, <2>3, <3>1
    <3>3. QED
      BY <2>1, <3>2
  <2>5. PICK before, after : before = Len(frames[q]) /\ after = Len(frames'[q])
    OBVIOUS
  <2>6. after = Len(left[q]) + out /\ Len(left[q]) = before - d /\ before \in Nat
    BY <1>14, <1>15, <2>1, <2>3, <2>5
  <2>7. after = before - d + out
    BY <2>6
  <2>8. after + new = before + old
    BY <2>2, <2>4, <2>6, <2>7
  <2>9. before + old <= PreemptionDepth
    BY <2>1, <2>5 DEF TaskInv
  <2>10. QED
    BY <2>1, <2>5, <2>8, <2>9
<1>21. panicked' = FALSE
  <2>1. \A q \in Priorities : ~ (Len(frames'[q]) > PreemptionDepth)
    <3>1. SUFFICES ASSUME NEW q \in Priorities
                   PROVE  ~ (Len(frames'[q]) > PreemptionDepth)
      OBVIOUS
    <3>2. Cardinality(OfPriority(boxes', q)) \in Nat
      <4>1. OfPriority(boxes', q) \in SUBSET boxes'
        BY DEF OfPriority
      <4>2. QED
        BY <1>19, <4>1, FS_Subset, FS_CardinalityType
    <3>3. frames'[q] \in Seq(Known)
      BY <1>15 DEF IsQueue
    <3>4. Len(frames'[q]) \in Nat
      BY <3>3, LenProperties
    <3>5. PreemptionDepth \in Nat
      BY Bounds
    <3>6. PICK n : n = Cardinality(OfPriority(boxes', q))
      OBVIOUS
    <3>7. Len(frames'[q]) + n <= PreemptionDepth /\ n \in Nat
      BY <1>20, <3>2, <3>6
    <3>8. QED
      BY <3>4, <3>5, <3>7
  <2>2. QED
    BY <1>4, <2>1, Zenon
<1>22. frames' \in [Priorities -> Seq(Known)] /\ deadlines' \in [Priorities -> Nat]
  <2>1. frames' = [q \in Priorities |-> frames'[q]]
    BY <1>4 DEF PutBack
  <2>2. deadlines' = [q \in Priorities |-> deadlines'[q]]
    BY <1>5 DEF TaskInv
  <2>3. \A q \in Priorities : frames'[q] \in Seq(Known) /\ deadlines'[q] \in Nat
    BY <1>15 DEF IsQueue
  <2>4. QED
    BY <2>1, <2>2, <2>3
<1>23. TaskInv'
  BY <1>5, <1>15, <1>19, <1>20, <1>21, <1>22 DEF TaskInv
<1>24. Queued' = (Queued \ {f}) \cup pre
  <2>1. \A b \in pre : b.priority \in Priorities
    BY <1>6 DEF Known
  <2>2. pre = UNION {OfPriority(pre, q) : q \in Priorities}
    BY <2>1 DEF OfPriority
  <2>3. QED
    BY <1>15, <2>2 DEF Queued
<1>25. f \in preempted \/ ~ (now > f.deadline)
  <2>1. deadlines[p] \in Nat /\ now \in Nat
    BY Bounds DEF TaskInv
  <2>2. QED
    BY <1>5, <1>9, <2>1
<1>26. QED
  BY <1>4, <1>5, <1>6, <1>11, <1>23, <1>24, <1>25

LEMMA SenderKept ==
    ASSUME SenderInv, UNCHANGED << case, scatter, sent >>
    PROVE  /\ SenderInv' /\ FetchedFrames' = FetchedFrames
           /\ \A t \in Transfers : LengthOf(t)' = LengthOf(t)
<1>1. case' = case /\ scatter' = scatter /\ sent' = sent
  OBVIOUS
<1>2. /\ \A t \in Transfers : LengthOf(t)' = LengthOf(t)
      /\ \A t, i : RawFrame(t, i)' = RawFrame(t, i)
  BY <1>1 DEF LengthOf, RawFrame, HeaderOf
<1>3. FetchedFrames' = FetchedFrames
  BY <1>1, <1>2 DEF FetchedFrames
<1>4. SenderInv'
  BY <1>1, <1>2 DEF SenderInv
<1>5. QED
  BY <1>2, <1>3, <1>4

LEMMA TaskKept ==
    ASSUME TaskInv, UNCHANGED << frames, deadlines, boxes, panicked, preempted, now >>
    PROVE  TaskInv' /\ Queued' = Queued
BY DEF TaskInv, Queued

LEMMA LinkIInvInit == LinkInit => LinkIInv
<1>1. SUFFICES ASSUME LinkInit
               PROVE  LinkIInv
  OBVIOUS
<1>2. SenderInv
  <2>1. /\ case \in Cases /\ sent = [t \in Transfers |-> << >>]
        /\ scatter = [t \in Transfers |-> NewScatter(TransferIds[t], LengthOf(t))]
    BY <1>1 DEF LinkInit
  <2>2. \A t \in Transfers : TransferIds[t] \in Nat /\ LengthOf(t) \in Nat
    <3>1. NextTransferId(MaxTransferId) \in Nat /\ MaxTransferId \in Nat
      BY DEF NextTransferId, MaxTransferId
    <3>2. \A t \in Transfers : TransferIds[t] \in Nat
      BY <3>1 DEF TransferIds, Transfers
    <3>3. \A t \in Transfers : LengthOf(t) \in Nat
      BY <2>1, LinkAssumption DEF LengthOf
    <3>4. QED
      BY <3>2, <3>3
  <2>3. \A t \in Transfers :
            /\ scatter[t] = [transfer_id |-> TransferIds[t], data_length |-> LengthOf(t),
                             offset |-> 0, toggle |-> TRUE]
            /\ sent[t] = << >>
    BY <2>1 DEF NewScatter
  <2>4. \A t \in Transfers : 1 .. Len(sent[t]) = {}
    <3>1. \A t \in Transfers : Len(sent[t]) = 0
      BY <2>3, EmptyQueue
    <3>2. QED
      BY <3>1
  <2>5. \A t \in Transfers :
            /\ scatter[t] \in [transfer_id : Nat, data_length : Nat, offset : Nat,
                               toggle : BOOLEAN]
            /\ IsScatter(scatter[t], LengthOf(t))
            /\ scatter[t].transfer_id = TransferIds[t]
    <3>1. SUFFICES ASSUME NEW t \in Transfers
                   PROVE  /\ scatter[t] \in [transfer_id : Nat, data_length : Nat,
                                             offset : Nat, toggle : BOOLEAN]
                          /\ IsScatter(scatter[t], LengthOf(t))
                          /\ scatter[t].transfer_id = TransferIds[t]
      OBVIOUS
    <3>2. PICK s, id, n : s = scatter[t] /\ id = TransferIds[t] /\ n = LengthOf(t)
      OBVIOUS
    <3>3. /\ s = [transfer_id |-> id, data_length |-> n, offset |-> 0, toggle |-> TRUE]
          /\ id \in Nat /\ n \in Nat
      BY <2>2, <2>3, <3>2
    <3>4. /\ s \in [transfer_id : Nat, data_length : {n}, offset : Nat, toggle : BOOLEAN]
          /\ s.offset <= n + CrcLength
          /\ s.transfer_id = id
      BY <3>3 DEF CrcLength
    <3>5. s \in [transfer_id : Nat, data_length : Nat, offset : Nat, toggle : BOOLEAN]
      BY <3>3
    <3>6. QED
      BY <3>2, <3>4, <3>5 DEF IsScatter
  <2>6. scatter \in [Transfers -> [transfer_id : Nat, data_length : Nat, offset : Nat,
                                   toggle : BOOLEAN]]
    BY <2>1, <2>5
  <2>7. sent \in [Transfers -> Seq(FrameDatas)]
    BY <2>1, EmptySeq
  <2>8. QED
    BY <2>1, <2>3, <2>4, <2>5, <2>6, <2>7 DEF SenderInv
<1>3. /\ frames = [p \in Priorities |-> << >>] /\ boxes = {} /\ now = 0
      /\ deadlines = [p \in Priorities |-> Never] /\ panicked = FALSE
      /\ preempted = {} /\ overdue = {} /\ gone = [transmitted |-> {}, expired |-> {}]
      /\ sent = [t \in Transfers |-> << >>]
  BY <1>1 DEF LinkInit, TxInit
<1>4. TaskInv
  <2>1. << >> \in Seq(Known)
    BY EmptySeq
  <2>2. \A p \in Priorities : IsQueue(p, frames[p], deadlines[p], preempted)
    <3>1. \A f : f \notin ToSet(<< >>)
      BY EmptyQueue
    <3>2. IsInjective(<< >>)
      BY EmptyQueue
    <3>3. QED
      BY <1>3, <2>1, <3>1, <3>2, Bounds DEF IsQueue
  <2>3. IsFiniteSet(boxes) /\ Cardinality(boxes) = 0
    BY <1>3, FS_EmptySet
  <2>4. \A p \in Priorities :
            Len(frames[p]) = 0 /\ Cardinality(OfPriority(boxes, p)) = 0
    <3>1. \A p \in Priorities : OfPriority(boxes, p) = {}
      BY <1>3 DEF OfPriority
    <3>2. QED
      BY <1>3, <3>1, EmptyQueue, FS_EmptySet
  <2>5. \A p \in Priorities :
            Len(frames[p]) + Cardinality(OfPriority(boxes, p)) <= PreemptionDepth
    <3>1. 0 + 0 <= PreemptionDepth
      BY Bounds
    <3>2. QED
      BY <2>4, <3>1
  <2>6. QED
    BY <1>3, <2>1, <2>2, <2>3, <2>5, Bounds DEF TaskInv
<1>5. PlacesInv
  <2>1. Queued = {}
    BY <1>3, EmptyQueue DEF Queued
  <2>2. FetchedFrames = {}
    <3>1. \A f \in Known : f.transfer \in Transfers /\ f.index \in Nat \ {0}
      BY DEF Known
    <3>2. \A t \in Transfers : Len(sent[t]) = 0
      BY <1>3, EmptyQueue
    <3>3. QED
      BY <3>1, <3>2 DEF FetchedFrames
  <2>3. QED
    BY <1>3, <2>1, <2>2 DEF PlacesInv
<1>6. LateFramesWerePreempted
  BY <1>3 DEF LateFramesWerePreempted
<1>7. QED
  BY <1>2, <1>4, <1>5, <1>6 DEF LinkIInv

LEMMA LinkFetches ==
    ASSUME LinkIInv, NEW t \in Transfers, FetchFrame(t)
    PROVE  LinkIInv'
<1>1. SenderInv /\ TaskInv /\ PlacesInv /\ LateFramesWerePreempted
  BY DEF LinkIInv
<1>2. PICK fetched : fetched = FetchFrameData(scatter[t], case.mtu)
  OBVIOUS
<1>3. PICK d, s : d = fetched.data /\ s = fetched.scatter
  OBVIOUS
<1>4. /\ ~ IsExhausted(scatter[t])
      /\ Fetch(RawFrame(t, Len(sent[t]) + 1))
      /\ scatter' = [scatter EXCEPT ![t] = s]
      /\ sent' = [sent EXCEPT ![t] = Append(@, d)]
      /\ UNCHANGED << case, gone, preempted, overdue >>
  BY <1>2, <1>3 DEF FetchFrame, Available
<1>5. case \in Cases /\ case.mtu \in {"Classic", "Fd"} /\ LengthOf(t) \in Nat
  BY <1>1, LinkAssumption DEF SenderInv, LengthOf
<1>6. IsScatter(scatter[t], LengthOf(t))
  BY <1>1 DEF SenderInv
<1>7. /\ IsScatter(s, LengthOf(t)) /\ s.transfer_id = scatter[t].transfer_id
      /\ s.offset > 0
      /\ d.transfer_id = scatter[t].transfer_id
      /\ d.sot <=> scatter[t].offset = 0
      /\ IsFrameData(d, LengthOf(t))
  BY <1>2, <1>3, <1>4, <1>5, <1>6, FetchedData
<1>8. sent[t] \in Seq(FrameDatas) /\ d \in FrameDatas
  BY <1>1, <1>7 DEF SenderInv, IsFrameData
<1>9. PICK longer : longer = Append(sent[t], d)
  OBVIOUS
<1>10. /\ longer \in Seq(FrameDatas) /\ Len(longer) = Len(sent[t]) + 1
       /\ \A i \in 1 .. Len(sent[t]) : longer[i] = sent[t][i]
       /\ longer[Len(sent[t]) + 1] = d
       /\ Len(sent[t]) \in Nat
  BY <1>8, <1>9, AppendProperties, LenProperties
<1>11. /\ sent' = [sent EXCEPT ![t] = longer]
       /\ DOMAIN sent = Transfers /\ DOMAIN scatter = Transfers
  BY <1>1, <1>4, <1>9 DEF SenderInv
<1>12. /\ sent'[t] = longer /\ scatter'[t] = s
       /\ \A u \in Transfers \ {t} : sent'[u] = sent[u] /\ scatter'[u] = scatter[u]
  BY <1>4, <1>11
<1>13. case' = case /\ \A u \in Transfers : LengthOf(u)' = LengthOf(u)
  BY <1>4 DEF LengthOf
<1>14. s \in [transfer_id : Nat, data_length : Nat, offset : Nat, toggle : BOOLEAN]
  BY <1>5, <1>7 DEF IsScatter
<1>15. \A i \in 1 .. Len(longer) :
           /\ IsFrameData(longer[i], LengthOf(t))
           /\ longer[i].transfer_id = TransferIds[t]
           /\ longer[i].sot => i = 1
  <2>1. SUFFICES ASSUME NEW i \in 1 .. Len(longer)
                 PROVE  /\ IsFrameData(longer[i], LengthOf(t))
                        /\ longer[i].transfer_id = TransferIds[t]
                        /\ longer[i].sot => i = 1
    OBVIOUS
  <2>2. CASE i \in 1 .. Len(sent[t])
    BY <1>1, <1>10, <2>2 DEF SenderInv
  <2>3. CASE i = Len(sent[t]) + 1
    <3>1. longer[i] = d /\ d.transfer_id = TransferIds[t]
      BY <1>1, <1>7, <1>10, <2>3 DEF SenderInv
    <3>2. ASSUME d.sot
          PROVE  i = 1
      <4>1. sent[t] = << >>
        BY <1>1, <1>7, <3>2 DEF SenderInv
      <4>2. Len(sent[t]) = 0
        BY <4>1, EmptyQueue
      <4>3. QED
        BY <2>3, <4>2
    <3>3. QED
      BY <1>7, <3>1, <3>2
  <2>4. QED
    BY <1>10, <2>2, <2>3
<1>16. SenderInv'
  <2>1. /\ scatter' \in [Transfers -> [transfer_id : Nat, data_length : Nat, offset : Nat,
                                       toggle : BOOLEAN]]
        /\ sent' \in [Transfers -> Seq(FrameDatas)]
    BY <1>1, <1>4, <1>10, <1>11, <1>14 DEF SenderInv
  <2>2. \A u \in Transfers :
           /\ IsScatter(scatter'[u], LengthOf(u))
           /\ scatter'[u].transfer_id = TransferIds[u]
           /\ scatter'[u].offset = 0 => sent'[u] = << >>
           /\ \A i \in 1 .. Len(sent'[u]) :
                  /\ IsFrameData(sent'[u][i], LengthOf(u))
                  /\ sent'[u][i].transfer_id = TransferIds[u]
                  /\ sent'[u][i].sot => i = 1
    <3>1. SUFFICES ASSUME NEW u \in Transfers
                   PROVE  /\ IsScatter(scatter'[u], LengthOf(u))
                          /\ scatter'[u].transfer_id = TransferIds[u]
                          /\ scatter'[u].offset = 0 => sent'[u] = << >>
                          /\ \A i \in 1 .. Len(sent'[u]) :
                                 /\ IsFrameData(sent'[u][i], LengthOf(u))
                                 /\ sent'[u][i].transfer_id = TransferIds[u]
                                 /\ sent'[u][i].sot => i = 1
      OBVIOUS
    <3>2. CASE u = t
      <4>1. s.transfer_id = TransferIds[t] /\ s.offset # 0
        BY <1>1, <1>7, <1>14 DEF SenderInv
      <4>2. QED
        BY <1>7, <1>12, <1>15, <3>2, <4>1
    <3>3. CASE u # t
      BY <1>1, <1>12, <3>3 DEF SenderInv
    <3>4. QED
      BY <3>2, <3>3
  <2>3. QED
    BY <1>5, <1>13, <2>1, <2>2 DEF SenderInv
<1>17. PICK n : n = Len(sent[t]) + 1
  OBVIOUS
<1>18. PICK f : f = RawFrame(t, n)
  OBVIOUS
<1>19. n \in Nat \ {0} /\ f \in Known /\ f.transfer = t /\ f.index = n
  BY <1>5, <1>10, <1>17, <1>18, KnownFrame
<1>20. TaskInv' /\ Queued' = Queued \cup {f} /\ boxes' = boxes
  BY <1>1, <1>4, <1>17, <1>18, <1>19, TaskFetches
<1>21. FetchedFrames' = FetchedFrames \cup {f} /\ f \notin FetchedFrames
  <2>1. \A u, i : RawFrame(u, i)' = RawFrame(u, i)
    BY <1>13 DEF RawFrame, HeaderOf
  <2>2. \A g \in Known : g.transfer \in Transfers /\ g.index \in Nat
    BY DEF Known
  <2>3. \A g \in Known : /\ g.transfer = t => (g.index <= Len(sent'[t])
                                <=> g.index <= Len(sent[t]) \/ g.index = n)
                         /\ g.transfer # t => sent'[g.transfer] = sent[g.transfer]
    BY <1>10, <1>12, <1>17, <2>2
  <2>4. \A g \in Known : g = f <=> g = RawFrame(g.transfer, g.index)
                                   /\ g.transfer = t /\ g.index = n
    BY <1>18, <1>19
  <2>5. ~ (n <= Len(sent[t]))
    BY <1>10, <1>17
  <2>6. f \notin FetchedFrames
    BY <1>19, <2>5 DEF FetchedFrames
  <2>7. FetchedFrames' = {g \in Known : /\ g.index <= Len(sent'[g.transfer])
                                        /\ g = RawFrame(g.transfer, g.index)}
    BY <2>1 DEF FetchedFrames
  <2>8. \A g \in Known :
            (g.index <= Len(sent'[g.transfer]) /\ g = RawFrame(g.transfer, g.index))
            <=> (g.index <= Len(sent[g.transfer]) /\ g = RawFrame(g.transfer, g.index))
                \/ g = f
    BY <2>3, <2>4
  <2>9. QED
    BY <1>19, <2>6, <2>7, <2>8 DEF FetchedFrames
<1>22. gone' = gone /\ overdue' = overdue /\ preempted' = preempted /\ now' = now
  BY <1>4 DEF Fetch
<1>23. PlacesInv'
  BY <1>1, <1>20, <1>21, <1>22 DEF PlacesInv
<1>24. LateFramesWerePreempted'
  BY <1>1, <1>22 DEF LateFramesWerePreempted
<1>25. QED
  BY <1>16, <1>20, <1>23, <1>24 DEF LinkIInv

LEMMA FetchedFramesAreKnown ==
    ASSUME PlacesInv
    PROVE  /\ Queued \subseteq Known /\ boxes \subseteq Known
           /\ gone.transmitted \subseteq Known /\ gone.expired \subseteq Known
BY DEF PlacesInv, FetchedFrames

LEMMA LinkExpires ==
    ASSUME LinkIInv, ExpireFrames
    PROVE  LinkIInv'
<1>1. SenderInv /\ TaskInv /\ PlacesInv /\ LateFramesWerePreempted
  BY DEF LinkIInv
<1>2. /\ Expire /\ UNCHANGED << case, scatter, sent, preempted, overdue >>
      /\ gone' = [gone EXCEPT !.expired = @ \cup (Queued \ Queued')]
  BY DEF ExpireFrames
<1>3. SenderInv' /\ FetchedFrames' = FetchedFrames
  BY <1>1, <1>2, SenderKept
<1>4. /\ TaskInv' /\ Queued' \subseteq Queued /\ Queued \subseteq Known
      /\ boxes' = boxes /\ now' = now
      /\ \A f \in Queued \ Queued' : f.deadline < now
  BY <1>1, <1>2, TaskExpires
<1>5. /\ gone \in [transmitted : SUBSET Known, expired : SUBSET Known]
      /\ gone'.transmitted = gone.transmitted
      /\ gone'.expired = gone.expired \cup (Queued \ Queued')
      /\ gone' \in [transmitted : SUBSET Known, expired : SUBSET Known]
  <2>1. gone \in [transmitted : SUBSET Known, expired : SUBSET Known]
    BY <1>1 DEF PlacesInv
  <2>2. PICK lost : lost = Queued \ Queued'
    OBVIOUS
  <2>3. lost \subseteq Known
    BY <1>4, <2>2
  <2>4. QED
    BY <1>2, <2>1, <2>2, <2>3
<1>6. PlacesInv'
  <2>1. /\ Queued \cup boxes \cup gone.transmitted \cup gone.expired = FetchedFrames
        /\ Queued \cap boxes = {}
        /\ (Queued \cup boxes) \cap (gone.transmitted \cup gone.expired) = {}
        /\ gone.transmitted \cap gone.expired = {}
    BY <1>1 DEF PlacesInv
  <2>2. /\ Queued' \cup boxes' \cup gone'.transmitted \cup gone'.expired = FetchedFrames'
        /\ Queued' \cap boxes' = {}
        /\ (Queued' \cup boxes') \cap (gone'.transmitted \cup gone'.expired) = {}
        /\ gone'.transmitted \cap gone'.expired = {}
    BY <1>3, <1>4, <1>5, <2>1
  <2>3. QED
    BY <1>5, <2>2 DEF PlacesInv
<1>7. LateFramesWerePreempted'
  BY <1>1, <1>2, <1>4, <1>5 DEF LateFramesWerePreempted
<1>8. QED
  BY <1>3, <1>4, <1>6, <1>7 DEF LinkIInv

LEMMA LinkWrites ==
    ASSUME LinkIInv, WriteFrame
    PROVE  LinkIInv'
<1>1. SenderInv /\ TaskInv /\ PlacesInv /\ LateFramesWerePreempted
  BY DEF LinkIInv
<1>2. /\ Write /\ UNCHANGED << case, scatter, sent, gone >>
      /\ preempted' = preempted \cup (boxes \ boxes')
      /\ overdue' = overdue \cup {f \in boxes' \ boxes : now > f.deadline}
  BY DEF WriteFrame
<1>3. SenderInv' /\ FetchedFrames' = FetchedFrames
  BY <1>1, <1>2, SenderKept
<1>4. Queued \cap boxes = {} /\ boxes \subseteq Known
  BY <1>1, FetchedFramesAreKnown DEF PlacesInv
<1>5. TaskInv' /\ now' = now
  BY <1>1, <1>2, <1>4, TaskWrites
<1>6. PICK f \in Queued, pre \in SUBSET boxes :
         /\ boxes' = (boxes \ pre) \cup {f}
         /\ Queued' = (Queued \ {f}) \cup pre
         /\ f \in preempted \/ ~ (now > f.deadline)
  BY <1>1, <1>2, <1>4, TaskWrites
<1>7. PlacesInv'
  <2>1. /\ Queued \cup boxes \cup gone.transmitted \cup gone.expired = FetchedFrames
        /\ Queued \cap boxes = {}
        /\ (Queued \cup boxes) \cap (gone.transmitted \cup gone.expired) = {}
        /\ gone.transmitted \cap gone.expired = {}
    BY <1>1 DEF PlacesInv
  <2>2. Queued' \cup boxes' = Queued \cup boxes /\ Queued' \cap boxes' = {}
    BY <1>6, <2>1
  <2>3. gone' = gone
    BY <1>2
  <2>4. QED
    BY <1>1, <1>3, <2>1, <2>2, <2>3 DEF PlacesInv
<1>8. LateFramesWerePreempted'
  <2>1. boxes' \ boxes \subseteq {f}
    BY <1>6
  <2>2. overdue' \subseteq preempted'
    BY <1>1, <1>2, <1>6, <2>1 DEF LateFramesWerePreempted
  <2>3. QED
    BY <1>1, <1>2, <1>5, <2>2 DEF LateFramesWerePreempted
<1>9. QED
  BY <1>3, <1>5, <1>7, <1>8 DEF LinkIInv

LEMMA LinkTransmits ==
    ASSUME LinkIInv, NEW f \in boxes, Transmit(f)
    PROVE  LinkIInv'
<1>1. SenderInv /\ TaskInv /\ PlacesInv /\ LateFramesWerePreempted
  BY DEF LinkIInv
<1>2. /\ UNCHANGED << case, scatter, sent, frames, deadlines, now, panicked, preempted,
                      overdue >>
      /\ boxes' = boxes \ {f} \/ boxes' = boxes
      /\ gone' = [gone EXCEPT !.transmitted = @ \cup (boxes \ boxes')]
  BY DEF Transmit
<1>3. SenderInv' /\ FetchedFrames' = FetchedFrames
  BY <1>1, <1>2, SenderKept
<1>4. Queued' = Queued
  BY <1>2 DEF Queued
<1>5. TaskInv'
  <2>1. CASE boxes' = boxes
    BY <1>1, <1>2, <2>1, TaskKept
  <2>2. CASE boxes' = boxes \ {f}
    <3>1. IsFiniteSet(boxes) /\ Cardinality(boxes) <= BoxCount
          /\ Cardinality(boxes) \in Nat
      BY <1>1, FS_CardinalityType DEF TaskInv
    <3>2. IsAtMostOne({f}, boxes)
      BY DEF IsAtMostOne
    <3>3. {f} # {}
      OBVIOUS
    <3>4. IsFiniteSet(boxes \ {f}) /\ Cardinality(boxes \ {f}) <= BoxCount
      <4>1. IsFiniteSet(boxes \ {f}) /\ Cardinality(boxes \ {f}) = Cardinality(boxes) - 1
        BY <3>1, FS_RemoveElement
      <4>2. QED
        BY <3>1, <4>1, Bounds
    <3>5. ASSUME NEW p \in Priorities
          PROVE  Len(frames'[p]) + Cardinality(OfPriority(boxes', p)) <= PreemptionDepth
      <4>1. PICK kept, out, old, n : /\ kept = Cardinality(OfPriority(boxes \ {f}, p))
                                     /\ out = Cardinality(OfPriority({f}, p))
                                     /\ old = Cardinality(OfPriority(boxes, p))
                                     /\ n = Len(frames[p])
        OBVIOUS
      <4>2. kept \in Nat /\ out \in Nat /\ old \in Nat /\ kept + out = old
        BY <3>1, <3>2, <4>1, CountRemoved
      <4>3. n + old <= PreemptionDepth /\ n \in Nat
        BY <1>1, <4>1, LenProperties DEF TaskInv
      <4>4. n + kept <= PreemptionDepth
        BY <4>2, <4>3, Bounds
      <4>5. QED
        BY <1>2, <2>2, <4>1, <4>4
    <3>6. QED
      BY <1>1, <1>2, <2>2, <3>4, <3>5 DEF TaskInv
  <2>3. QED
    BY <1>2, <2>1, <2>2
<1>6. /\ gone \in [transmitted : SUBSET Known, expired : SUBSET Known]
      /\ gone'.transmitted = gone.transmitted \cup (boxes \ boxes')
      /\ gone'.expired = gone.expired
      /\ gone' \in [transmitted : SUBSET Known, expired : SUBSET Known]
  <2>1. gone \in [transmitted : SUBSET Known, expired : SUBSET Known]
    BY <1>1 DEF PlacesInv
  <2>2. PICK out : out = boxes \ boxes'
    OBVIOUS
  <2>3. out \subseteq Known
    BY <1>1, <2>2, FetchedFramesAreKnown
  <2>4. QED
    BY <1>2, <2>1, <2>2, <2>3
<1>7. PlacesInv'
  <2>1. /\ Queued \cup boxes \cup gone.transmitted \cup gone.expired = FetchedFrames
        /\ Queued \cap boxes = {}
        /\ (Queued \cup boxes) \cap (gone.transmitted \cup gone.expired) = {}
        /\ gone.transmitted \cap gone.expired = {}
    BY <1>1 DEF PlacesInv
  <2>2. boxes' \subseteq boxes
    BY <1>2
  <2>3. /\ Queued' \cup boxes' \cup gone'.transmitted \cup gone'.expired = FetchedFrames'
        /\ Queued' \cap boxes' = {}
        /\ (Queued' \cup boxes') \cap (gone'.transmitted \cup gone'.expired) = {}
        /\ gone'.transmitted \cap gone'.expired = {}
    BY <1>3, <1>4, <1>6, <2>1, <2>2
  <2>4. QED
    BY <1>6, <2>3 DEF PlacesInv
<1>8. LateFramesWerePreempted'
  BY <1>1, <1>2, <1>6 DEF LateFramesWerePreempted
<1>9. QED
  BY <1>3, <1>5, <1>7, <1>8 DEF LinkIInv

\* What leaves the transmit task and its frames alone.
LEMMA LinkKept ==
    ASSUME LinkIInv, UNCHANGED << case, scatter, sent, frames, deadlines, boxes, panicked,
                                  now, gone, preempted, overdue >>
    PROVE  LinkIInv'
<1>1. SenderInv /\ TaskInv /\ PlacesInv /\ LateFramesWerePreempted
  BY DEF LinkIInv
<1>2. SenderInv' /\ FetchedFrames' = FetchedFrames
  BY <1>1, SenderKept
<1>3. TaskInv' /\ Queued' = Queued
  BY <1>1, TaskKept
<1>4. PlacesInv'
  BY <1>1, <1>2, <1>3 DEF PlacesInv
<1>5. LateFramesWerePreempted'
  BY <1>1 DEF LateFramesWerePreempted
<1>6. QED
  BY <1>2, <1>3, <1>4, <1>5 DEF LinkIInv

LEMMA LinkTicks ==
    ASSUME LinkIInv, TickLink
    PROVE  LinkIInv'
<1>1. SenderInv /\ TaskInv /\ PlacesInv /\ LateFramesWerePreempted
  BY DEF LinkIInv
<1>2. /\ UNCHANGED << case, scatter, sent, frames, deadlines, boxes, panicked, gone,
                      preempted, overdue >>
      /\ now' = now + 1 /\ now < MaxTime
  BY DEF TickLink, linkVars, Tick, txVars
<1>3. SenderInv' /\ FetchedFrames' = FetchedFrames
  BY <1>1, <1>2, SenderKept
<1>4. now \in Nat /\ now' \in 0 .. MaxTime
  BY <1>1, <1>2, Bounds DEF TaskInv
<1>5. TaskInv' /\ Queued' = Queued
  BY <1>1, <1>2, <1>4 DEF TaskInv, Queued
<1>6. PlacesInv'
  BY <1>1, <1>2, <1>3, <1>5 DEF PlacesInv
<1>7. LateFramesWerePreempted'
  <2>1. \A f \in gone.expired : f.deadline \in Nat
    BY <1>1, FetchedFramesAreKnown DEF Known
  <2>2. QED
    BY <1>1, <1>2, <1>4, <2>1 DEF LateFramesWerePreempted
<1>8. QED
  BY <1>3, <1>5, <1>6, <1>7 DEF LinkIInv

LEMMA LinkIInvStep == LinkIInv /\ [LinkNext]_allVars => LinkIInv'
<1>1. SUFFICES ASSUME LinkIInv, [LinkNext]_allVars
               PROVE  LinkIInv'
  OBVIOUS
<1>2. ASSUME NEW t \in Transfers, Publish(t)
      PROVE  LinkIInv'
  BY <1>1, <1>2, LinkKept DEF Publish, txVars
<1>3. ASSUME NEW t \in Transfers, FetchFrame(t)
      PROVE  LinkIInv'
  BY <1>1, <1>3, LinkFetches
<1>4. CASE ExpireFrames
  BY <1>1, <1>4, LinkExpires
<1>5. CASE WriteFrame
  BY <1>1, <1>5, LinkWrites
<1>6. ASSUME NEW f \in boxes, Transmit(f)
      PROVE  LinkIInv'
  BY <1>1, <1>6, LinkTransmits
<1>7. ASSUME NEW f \in boxes, NEW bit \in StrangeBits, Strange(f, bit)
      PROVE  LinkIInv'
  BY <1>1, <1>7, LinkKept DEF Strange, txVars
<1>8. CASE TickLink
  BY <1>1, <1>8, LinkTicks
<1>9. CASE UNCHANGED allVars
  BY <1>1, <1>9, LinkKept DEF allVars, txVars, linkVars
<1>10. QED
  BY <1>1, <1>2, <1>3, <1>4, <1>5, <1>6, <1>7, <1>8, <1>9 DEF LinkNext

\* Whatever the transfers are: the frames the sender's Scatters have returned, the queues
\* and deadlines of the transmit task and the mailboxes go together as above.
THEOREM LinkInvariant == LinkSpec => []LinkIInv
BY LinkIInvInit, LinkIInvStep, PTL DEF LinkSpec

\* No frame is lost or doubled on its way through the transmit task, and none of its
\* queues overflows (TxRunner::run and PriorityDeque).
THEOREM FramesHaveOnePlace == LinkSpec => []EachFrameInOnePlace
<1>1. LinkIInv => EachFrameInOnePlace
  <2>1. SUFFICES ASSUME LinkIInv
                 PROVE  EachFrameInOnePlace
    OBVIOUS
  <2>2. SenderInv /\ TaskInv /\ PlacesInv
    BY <2>1 DEF LinkIInv
  <2>3. ~ panicked
    BY <2>2 DEF TaskInv
  <2>4. ASSUME NEW t \in Transfers
        PROVE  /\ ~ FetchFrameData(scatter[t], case.mtu).panicked
               /\ \A i \in DOMAIN sent[t] : IsDataLength(sent[t][i].length)
    <3>1. case.mtu \in {"Classic", "Fd"} /\ LengthOf(t) \in Nat
      BY <2>2, LinkAssumption DEF SenderInv, LengthOf
    <3>2. IsScatter(scatter[t], LengthOf(t)) /\ sent[t] \in Seq(FrameDatas)
      BY <2>2 DEF SenderInv
    <3>3. ~ FetchFrameData(scatter[t], case.mtu).panicked
      BY <3>1, <3>2, ScatterNeverPanics
    <3>4. DOMAIN sent[t] = 1 .. Len(sent[t])
      BY <3>2, LenProperties
    <3>5. QED
      BY <2>2, <3>3, <3>4 DEF SenderInv, IsFrameData
  <2>5. \A p \in Priorities : IsInjective(frames[p])
    BY <2>2 DEF TaskInv, IsQueue
  <2>6. ASSUME NEW p \in Priorities, NEW q \in Priorities, p # q
        PROVE  ToSet(frames[p]) \cap ToSet(frames[q]) = {}
    BY <2>2, <2>6 DEF TaskInv, IsQueue
  <2> DEFINE places == << Queued, boxes, gone.transmitted, gone.expired >>
  <2>7. \A i, j \in DOMAIN places : i # j => places[i] \cap places[j] = {}
    <3>1. /\ Queued \cap boxes = {}
          /\ (Queued \cup boxes) \cap (gone.transmitted \cup gone.expired) = {}
          /\ gone.transmitted \cap gone.expired = {}
      BY <2>2 DEF PlacesInv
    <3>2. DOMAIN places = {1, 2, 3, 4}
      OBVIOUS
    <3>3. \A i, j \in {1, 2, 3, 4} : i < j => places[i] \cap places[j] = {}
      BY <3>1
    <3>4. QED
      BY <3>2, <3>3
  <2>8. {<< f.transfer, f.index >> : f \in UNION ToSet(places)}
          = UNION {{t} \X DOMAIN sent[t] : t \in Transfers}
    <3>1. ToSet(places) = {Queued, boxes, gone.transmitted, gone.expired}
      BY DEF ToSet
    <3>2. UNION ToSet(places) = FetchedFrames
      BY <2>2, <3>1 DEF PlacesInv
    <3>3. \A t \in Transfers : DOMAIN sent[t] = 1 .. Len(sent[t]) /\ Len(sent[t]) \in Nat
      BY <2>2, LenProperties DEF SenderInv
    <3>4. ASSUME NEW f \in FetchedFrames
          PROVE  << f.transfer, f.index >> \in UNION {{t} \X DOMAIN sent[t] : t \in Transfers}
      <4>1. /\ f.transfer \in Transfers /\ f.index \in Nat \ {0}
            /\ f.index <= Len(sent[f.transfer])
        BY DEF FetchedFrames, Known
      <4>2. f.index \in DOMAIN sent[f.transfer]
        BY <3>3, <4>1
      <4>3. QED
        BY <4>1, <4>2
    <3>5. ASSUME NEW t \in Transfers, NEW i \in DOMAIN sent[t]
          PROVE  \E f \in FetchedFrames : << t, i >> = << f.transfer, f.index >>
      <4>1. i \in Nat \ {0} /\ i <= Len(sent[t]) /\ case \in Cases
        BY <2>2, <3>3 DEF SenderInv
      <4>2. PICK f : f = RawFrame(t, i)
        OBVIOUS
      <4>3. f \in Known /\ f.transfer = t /\ f.index = i
        BY <4>1, <4>2, KnownFrame
      <4>4. f \in FetchedFrames
        BY <4>1, <4>2, <4>3 DEF FetchedFrames
      <4>5. QED
        BY <4>3, <4>4
    <3>6. QED
      BY <3>2, <3>4, <3>5
  <2>9. QED
    BY <2>3, <2>4, <2>5, <2>6, <2>7, <2>8 DEF EachFrameInOnePlace
<1>2. QED
  BY <1>1, LinkInvariant, PTL

\* The task drops a frame only after its deadline, and writes one late only if embassy
\* has taken it out of a mailbox before (TxRunner::run).
THEOREM LateFramesComeBack == LinkSpec => []LateFramesWerePreempted
<1>1. LinkIInv => LateFramesWerePreempted
  BY DEF LinkIInv
<1>2. QED
  BY <1>1, LinkInvariant, PTL

-----------------------------------------------------------------------------
(* What the session completes.                                              *)

Arrivals == [transfer : Transfers, index : Nat, time : Nat]

\* What DeliveredWasSent says of one transfer, when these frames have come of the sender
\* and frames with these other bits of strangers.
IsSentAs(d, t, c, strange, came) ==
    /\ d.id = TransferIds[t]
    /\ strange \cap Priority = {} => d.priority = c.header.priority
    /\ [transfer |-> t, index |-> 1, time |-> d.timestamp] \in came
    /\ \A j \in DOMAIN d.parts : d.parts[j].of = t
    /\ IF d.parts = << >> THEN c.lengths[t] = 0
       ELSE d.parts[1].part.from = 0 /\ d.parts[Len(d.parts)].part.to = c.lengths[t]
    /\ \A j \in DOMAIN d.parts \ {1} : d.parts[j].part.from = d.parts[j - 1].part.to

\* The first part of what is accumulated is that of the first frame of a transfer, which
\* arrived at the session's timestamp. The parts behind it may be of another transfer that
\* has the same identifier: only the CRC tells.
IsBegun(g, c, came) ==
    /\ g.acc # << >>
    /\ LET t == g.acc[1].of
       IN  /\ t \in {1, 2} /\ g.transfer_id = TransferIds[t]
           /\ g.acc[1].data_length = c.lengths[t]
           /\ [transfer |-> t, index |-> 1, time |-> g.sof_timestamp] \in came

ReceiverInv ==
    /\ gather \in G!Gathers(Nat, SessionParts)
    /\ arrived \in Seq(Arrivals)
    /\ delivered \in Seq(ToSet(delivered))
    /\ gather.state \in G!Accumulating => IsBegun(gather, case, ToSet(arrived))
    /\ \A d \in ToSet(delivered) :
           \E t \in {1, 2} : IsSentAs(d, t, case, strangers, ToSet(arrived))

\* More frames have arrived, also of other stations.
LEMMA SentAsKept ==
    ASSUME NEW c, NEW strange, NEW stranger, strange \subseteq stranger,
           NEW came, NEW more, came \subseteq more, NEW d, NEW t,
           IsSentAs(d, t, c, strange, came)
    PROVE  IsSentAs(d, t, c, stranger, more)
<1>1. stranger \cap Priority = {} => strange \cap Priority = {}
  OBVIOUS
<1>2. QED
  BY <1>1 DEF IsSentAs

\* What the session's Gather is told of a frame that the sender has sent.
LEMMA ReceivedFrame ==
    ASSUME SenderInv, NEW f \in FetchedFrames, NEW h
    PROVE  LET r == Received(f, h)
               t == f.transfer
           IN  /\ r.priority = h.priority /\ r.transfer_id = TransferIds[t]
               /\ r.part \in SessionParts \cup {NoPart}
               /\ r.part # NoPart =>
                      r.part.of = t /\ r.part.data_length = LengthOf(t)
               /\ r.sot => f.index = 1
               /\ r.sot /\ ~ r.eot => r.part # NoPart
               /\ r.sot /\ r.eot =>
                      IF r.part = NoPart THEN LengthOf(t) = 0
                      ELSE r.part.part.from = 0 /\ r.part.part.to = LengthOf(t)
               /\ r.transfer_id \in Nat
<1>1. PICK t, i : t = f.transfer /\ i = f.index
  OBVIOUS
<1>2. t \in Transfers /\ i \in Nat \ {0} /\ i <= Len(sent[t])
  BY <1>1 DEF FetchedFrames, Known
<1>3. sent[t] \in Seq(FrameDatas) /\ Len(sent[t]) \in Nat
  BY <1>2, LenProperties DEF SenderInv
<1>4. i \in 1 .. Len(sent[t])
  BY <1>2, <1>3
<1>5. PICK d : d = sent[t][i]
  OBVIOUS
<1>6. /\ IsFrameData(d, LengthOf(t)) /\ d.transfer_id = TransferIds[t]
      /\ d.sot => i = 1
  BY <1>2, <1>4, <1>5 DEF SenderInv
<1>7. PICK r : r = Received(f, h)
  OBVIOUS
<1>8. /\ r.priority = h.priority /\ r.transfer_id = d.transfer_id
      /\ r.sot = d.sot /\ r.eot = d.eot
      /\ r.part = IF d.part = NoPart THEN NoPart
                  ELSE [of |-> t, part |-> d.part, data_length |-> LengthOf(t)]
  BY <1>1, <1>5, <1>7 DEF Received
<1>9. LengthOf(t) \in Nat /\ d.part \in Payloads \cup {NoPart} /\ d.transfer_id \in Nat
  BY <1>2, <1>6, LinkAssumption DEF SenderInv, LengthOf, IsFrameData, FrameDatas
<1>10. CASE d.part = NoPart
  BY <1>1, <1>6, <1>7, <1>8, <1>9, <1>10 DEF IsFrameData
<1>11. CASE d.part # NoPart
  <2>1. r.part \in SessionParts
    BY <1>2, <1>8, <1>9, <1>11 DEF SessionParts
  <2>2. r.part # NoPart
    BY <2>1, LinkAssumption
  <2>3. r.part.of = t /\ r.part.data_length = LengthOf(t) /\ r.part.part = d.part
    BY <1>8, <1>11
  <2>4. r.sot /\ r.eot => r.part.part.from = 0 /\ r.part.part.to = LengthOf(t)
    BY <1>6, <1>8, <1>11, <2>3 DEF IsFrameData
  <2>5. QED
    BY <1>1, <1>6, <1>7, <1>8, <1>9, <2>1, <2>2, <2>3, <2>4
<1>12. QED
  BY <1>10, <1>11

\* What the CRC tells of the parts of a transfer.
LEMMA CrcTellsTransfer ==
    ASSUME NEW parts, CrcMatches(parts), parts # << >>, parts \in Seq(SessionParts)
    PROVE  /\ \A j \in DOMAIN parts : parts[j].of = parts[1].of
           /\ parts[1].part.from = 0
           /\ parts[Len(parts)].part.to = parts[1].data_length
           /\ \A j \in DOMAIN parts \ {1} : parts[j].part.from = parts[j - 1].part.to
<1>1. DOMAIN parts = 1 .. Len(parts) /\ Len(parts) \in Nat \ {0}
  BY LenProperties, EmptySeq
<1> DEFINE part == [i \in DOMAIN parts |-> parts[i].part]
<1>2. Len(part) = Len(parts)
  BY <1>1
<1>3. /\ \A i \in DOMAIN parts : parts[i].of = parts[1].of
      /\ part[1].from = 0 /\ part[Len(part)].to = parts[1].data_length
      /\ \A i \in DOMAIN parts \ {1} : part[i].from = part[i - 1].to
  <2>1. \A i \in DOMAIN parts : parts[i].of = parts[1].of
    BY DEF CrcMatches
  <2>2. part[1].from = 0
    BY DEF CrcMatches
  <2>3. part[Len(part)].to = parts[1].data_length
    BY DEF CrcMatches
  <2>4. \A i \in DOMAIN parts \ {1} : part[i].from = part[i - 1].to
    BY DEF CrcMatches
  <2>5. QED
    BY <2>1, <2>2, <2>3, <2>4
<1>4. \A i \in 1 .. Len(parts) : part[i] = parts[i].part
  BY <1>1
<1>5. 1 \in 1 .. Len(parts) /\ Len(parts) \in 1 .. Len(parts)
      /\ \A j \in DOMAIN parts \ {1} : j \in 1 .. Len(parts) /\ j - 1 \in 1 .. Len(parts)
  BY <1>1
<1>6. QED
  BY <1>2, <1>3, <1>4, <1>5

LEMMA GatherParts ==
    ASSUME NEW r, r.part \in SessionParts \cup {NoPart}
    PROVE  /\ G!Parts(r) \in Seq(SessionParts)
           /\ r.part = NoPart => G!Parts(r) = << >>
           /\ r.part # NoPart =>
                  /\ G!Parts(r) = << r.part >> /\ r.part \in SessionParts
                  /\ G!Parts(r) # << >>
<1>1. CASE r.part = NoPart
  <2>1. G!Parts(r) = << >>
    BY <1>1 DEF G!Parts
  <2>2. QED
    BY <1>1, <2>1, EmptySeq
<1>2. CASE r.part # NoPart
  <2>1. G!Parts(r) = << r.part >> /\ r.part \in SessionParts
    BY <1>2 DEF G!Parts
  <2>2. << r.part >> # << >>
    OBVIOUS
  <2>3. << r.part >> \in Seq(SessionParts)
    BY <2>1
  <2>4. QED
    BY <1>2, <2>1, <2>2, <2>3
<1>3. QED
  BY <1>1, <1>2

LEMMA StoppedGather ==
    ASSUME NEW g \in G!Gathers(Nat, SessionParts)
    PROVE  /\ G!StopAssembly(g) \in G!Gathers(Nat, SessionParts)
           /\ G!StopAssembly(g).state \notin G!Accumulating
<1>1. << >> \in Seq(SessionParts)
  BY EmptySeq
<1>2. QED
  BY <1>1 DEF G!StopAssembly, G!Gathers, G!Accumulating

\* What becomes of a Gather that is fed with a frame: it skips it, stops, completes a
\* transfer of the one frame, or begins, continues or completes one of several.
IsOutcome(g, r, time, o) ==
    \/ o.gather = g /\ o.transfer = None
    \/ o.gather.state \notin G!Accumulating /\ o.transfer = None
    \/ /\ r.sot /\ r.eot /\ o.gather.state \notin G!Accumulating
       /\ o.transfer = G!Transfer(r.transfer_id, r, time, G!Parts(r))
    \/ /\ r.sot /\ ~ r.eot /\ o.gather.acc = G!Parts(r)
       /\ o.gather.transfer_id = r.transfer_id
       /\ o.gather.sof_timestamp = time /\ o.transfer = None
    \/ /\ g.state \in G!Accumulating /\ o.gather.acc = g.acc \o G!Parts(r)
       /\ o.gather.transfer_id = g.transfer_id
       /\ o.gather.sof_timestamp = g.sof_timestamp /\ o.transfer = None
    \/ /\ g.state \in G!Accumulating /\ r.part # NoPart
       /\ o.gather.state \notin G!Accumulating
       /\ CrcMatches(g.acc \o G!Parts(r))
       /\ o.transfer = G!Transfer(g.transfer_id, r, g.sof_timestamp,
                                  g.acc \o G!Parts(r))

LEMMA GatherOutcome ==
    ASSUME NEW g \in G!Gathers(Nat, SessionParts), NEW buf, NEW r,
           r.part \in SessionParts \cup {NoPart}, r.transfer_id \in Nat, NEW time \in Nat
    PROVE  LET o == G!PushFrame(g, buf, r, time)
           IN  o.gather \in G!Gathers(Nat, SessionParts) /\ IsOutcome(g, r, time, o)
<1>1. PICK o : o = G!PushFrame(g, buf, r, time)
  OBVIOUS
<1>2. PICK parts \in Seq(SessionParts) : parts = G!Parts(r)
  BY GatherParts
<1>3. g.acc \in Seq(SessionParts)
  BY DEF G!Gathers
<1>4. PICK more \in Seq(SessionParts) : more = g.acc \o parts
  BY <1>3, ConcatProperties
<1>5. << >> \in Seq(SessionParts)
  BY EmptySeq
<1>6. /\ G!StopAssembly(g) \in G!Gathers(Nat, SessionParts)
      /\ G!StopAssembly(g).state \notin G!Accumulating
  BY StoppedGather
<1>7. CASE G!Skips(g, r, time)
  BY <1>1, <1>7 DEF G!PushFrame, G!Outcome, IsOutcome
<1>8. CASE ~ G!Skips(g, r, time) /\ G!Starts(r) /\ r.eot
  <2>1. o = G!SingleFrameAssembly(r, time) /\ r.sot
    BY <1>1, <1>8 DEF G!PushFrame, G!Starts
  <2>2. /\ o.gather = [state |-> "Assembled", sof_timestamp |-> time,
                       transfer_id |-> r.transfer_id, acc |-> << >>]
        /\ o.transfer = G!Transfer(r.transfer_id, r, time, G!Parts(r))
    BY <2>1 DEF G!SingleFrameAssembly, G!Outcome
  <2>3. /\ o.gather \in G!Gathers(Nat, SessionParts)
        /\ o.gather.state \notin G!Accumulating
    BY <1>5, <2>2 DEF G!Gathers, G!Accumulating
  <2>4. QED
    BY <1>1, <1>8, <2>1, <2>2, <2>3 DEF IsOutcome
<1>9. CASE ~ G!Skips(g, r, time) /\ G!Starts(r) /\ ~ r.eot
  <2>1. o = G!AccumulateFirst(g, buf, r, time) /\ r.sot
    BY <1>1, <1>9 DEF G!PushFrame, G!Starts
  <2>2. CASE r.malformed
    BY <1>1, <1>6, <2>1, <2>2 DEF G!AccumulateFirst, G!Outcome, IsOutcome
  <2>3. CASE ~ r.malformed
    <3>1. /\ o.gather = [state |-> "AccumulatedFirst", sof_timestamp |-> time,
                         transfer_id |-> r.transfer_id, acc |-> parts]
          /\ o.transfer = None
      BY <1>2, <2>1, <2>3 DEF G!AccumulateFirst, G!Outcome
    <3>2. o.gather \in G!Gathers(Nat, SessionParts)
      BY <3>1 DEF G!Gathers, G!Accumulating
    <3>3. QED
      BY <1>1, <1>2, <1>9, <2>1, <3>1, <3>2 DEF IsOutcome
  <2>4. QED
    BY <2>2, <2>3
<1>10. CASE ~ G!Skips(g, r, time) /\ ~ G!Starts(r) /\ G!Continues(g, r, time) /\ ~ r.eot
  <2>1. o = G!AccumulateNext(g, buf, r) /\ g.state \in G!Accumulating
    BY <1>1, <1>10 DEF G!PushFrame, G!Continues
  <2>2. CASE r.malformed
    BY <1>1, <1>6, <2>1, <2>2 DEF G!AccumulateNext, G!Outcome, IsOutcome
  <2>3. CASE ~ r.malformed
    <3>1. PICK state \in {"AccumulatedEven", "AccumulatedOdd"} :
             o.gather = [g EXCEPT !.state = state, !.acc = more] /\ o.transfer = None
      BY <1>2, <1>4, <2>1, <2>3 DEF G!AccumulateNext, G!Outcome
    <3>2. /\ o.gather \in G!Gathers(Nat, SessionParts)
          /\ o.gather.acc = more /\ o.gather.transfer_id = g.transfer_id
          /\ o.gather.sof_timestamp = g.sof_timestamp
      BY <3>1 DEF G!Gathers, G!Accumulating
    <3>3. QED
      BY <1>1, <1>2, <1>4, <2>1, <3>1, <3>2 DEF IsOutcome
  <2>4. QED
    BY <2>2, <2>3
<1>11. CASE ~ G!Skips(g, r, time) /\ ~ G!Starts(r) /\ G!Continues(g, r, time) /\ r.eot
  <2>1. o = G!FinishAssembly(g, buf, r) /\ g.state \in G!Accumulating
    BY <1>1, <1>11 DEF G!PushFrame, G!Continues
  <2>2. CASE r.part = NoPart \/ ~ CrcMatches(more)
    <3>1. o.gather = G!StopAssembly(g) /\ o.transfer = None
      BY <1>2, <1>4, <2>1, <2>2 DEF G!FinishAssembly, G!Outcome
    <3>2. QED
      BY <1>1, <1>6, <3>1 DEF IsOutcome
  <2>3. CASE r.part # NoPart /\ CrcMatches(more)
    <3>1. /\ o.gather = [g EXCEPT !.state = "Assembled", !.acc = << >>]
          /\ o.transfer = G!Transfer(g.transfer_id, r, g.sof_timestamp, more)
      BY <1>2, <1>4, <2>1, <2>3 DEF G!FinishAssembly, G!Outcome
    <3>2. /\ o.gather \in G!Gathers(Nat, SessionParts)
          /\ o.gather.state \notin G!Accumulating
      BY <1>5, <3>1 DEF G!Gathers, G!Accumulating
    <3>3. QED
      BY <1>1, <1>2, <1>4, <2>1, <2>3, <3>1, <3>2 DEF IsOutcome
  <2>4. QED
    BY <2>2, <2>3
<1>12. CASE ~ G!Skips(g, r, time) /\ ~ G!Starts(r) /\ ~ G!Continues(g, r, time)
  BY <1>1, <1>6, <1>12 DEF G!PushFrame, G!Outcome, IsOutcome
<1>13. QED
  BY <1>7, <1>8, <1>9, <1>10, <1>11, <1>12

LEMMA SingleIsSent ==
    ASSUME SenderInv, NEW f \in FetchedFrames, f.transfer \in {1, 2}, NEW h,
           NEW strange, strange \cap Priority = {} => h.priority = case.header.priority,
           NEW time, NEW came,
           [transfer |-> f.transfer, index |-> f.index, time |-> time] \in came,
           Received(f, h).sot, Received(f, h).eot
    PROVE  LET r == Received(f, h)
           IN  IsSentAs(G!Transfer(r.transfer_id, r, time, G!Parts(r)), f.transfer, case,
                        strange, came)
<1>1. PICK r, t : r = Received(f, h) /\ t = f.transfer
  OBVIOUS
<1>2. /\ r.priority = h.priority /\ r.transfer_id = TransferIds[t]
      /\ r.part \in SessionParts \cup {NoPart}
      /\ r.part # NoPart => r.part.of = t /\ r.part.data_length = LengthOf(t)
      /\ f.index = 1
      /\ IF r.part = NoPart THEN LengthOf(t) = 0
         ELSE r.part.part.from = 0 /\ r.part.part.to = LengthOf(t)
  BY <1>1, ReceivedFrame
<1>3. PICK parts : parts = G!Parts(r)
  OBVIOUS
<1>4. PICK d : d = G!Transfer(r.transfer_id, r, time, parts)
  OBVIOUS
<1>5. /\ d.id = TransferIds[t] /\ d.priority = h.priority /\ d.timestamp = time
      /\ d.parts = parts
  BY <1>2, <1>4 DEF G!Transfer
<1>6. [transfer |-> t, index |-> 1, time |-> d.timestamp] \in came
  BY <1>1, <1>2, <1>5
<1>7. LengthOf(t) = case.lengths[t]
  BY DEF LengthOf
<1>8. CASE r.part = NoPart
  <2>1. parts = << >> /\ case.lengths[t] = 0
    BY <1>2, <1>3, <1>7, <1>8, GatherParts
  <2>2. DOMAIN << >> = {}
    OBVIOUS
  <2>3. DOMAIN d.parts = {} /\ d.parts = << >>
    BY <1>5, <2>1, <2>2
  <2>4. IsSentAs(d, t, case, strange, came)
    BY <1>5, <1>6, <2>1, <2>3 DEF IsSentAs
  <2>5. QED
    BY <1>1, <1>3, <1>4, <2>4
<1>9. CASE r.part # NoPart
  <2>1. parts = << r.part >> /\ parts # << >>
    BY <1>2, <1>3, <1>9, GatherParts
  <2>2. DOMAIN parts = {1} /\ Len(parts) = 1 /\ parts[1] = r.part
    BY <2>1
  <2>3. /\ \A j \in DOMAIN d.parts : d.parts[j].of = t
        /\ d.parts # << >> /\ d.parts[1].part.from = 0
        /\ d.parts[Len(d.parts)].part.to = case.lengths[t]
        /\ DOMAIN d.parts \ {1} = {}
    BY <1>2, <1>5, <1>7, <1>9, <2>1, <2>2
  <2>4. IsSentAs(d, t, case, strange, came)
    BY <1>5, <1>6, <2>3 DEF IsSentAs
  <2>5. QED
    BY <1>1, <1>3, <1>4, <2>4
<1>10. QED
  BY <1>8, <1>9

\* The last frame of several may be of another transfer: then the CRC does not match.
LEMMA AssembledIsSent ==
    ASSUME NEW g \in G!Gathers(Nat, SessionParts), NEW came, NEW c, IsBegun(g, c, came),
           NEW r, r.part \in SessionParts \cup {NoPart},
           CrcMatches(g.acc \o G!Parts(r)), NEW strange,
           strange \cap Priority = {} => r.priority = c.header.priority
    PROVE  \E t \in {1, 2} :
              IsSentAs(G!Transfer(g.transfer_id, r, g.sof_timestamp,
                                  g.acc \o G!Parts(r)), t, c, strange, came)
<1>1. PICK acc, more : acc = g.acc /\ more = G!Parts(r)
  OBVIOUS
<1>2. acc \in Seq(SessionParts) /\ more \in Seq(SessionParts) /\ acc # << >>
  BY <1>1, GatherParts DEF G!Gathers, IsBegun
<1>3. PICK parts : parts = acc \o more
  OBVIOUS
<1>4. parts \in Seq(SessionParts) /\ parts # << >> /\ parts[1] = acc[1]
  <2>1. Len(acc) \in Nat \ {0} /\ Len(more) \in Nat
    BY <1>2, EmptySeq, LenProperties
  <2>2. /\ parts \in Seq(SessionParts) /\ Len(parts) = Len(acc) + Len(more)
        /\ \A i \in 1 .. Len(acc) + Len(more) :
               parts[i] = IF i <= Len(acc) THEN acc[i] ELSE more[i - Len(acc)]
    BY <1>2, <1>3, ConcatProperties
  <2>3. Len(parts) # 0
    BY <2>1, <2>2
  <2>4. parts # << >>
    BY <2>3, EmptyQueue
  <2>5. QED
    BY <2>1, <2>2, <2>4
<1>5. PICK t \in {1, 2} : t = acc[1].of
  BY <1>1 DEF IsBegun
<1>6. /\ g.transfer_id = TransferIds[t] /\ acc[1].data_length = c.lengths[t]
      /\ [transfer |-> t, index |-> 1, time |-> g.sof_timestamp] \in came
  BY <1>1, <1>5 DEF IsBegun
<1>7. /\ \A j \in DOMAIN parts : parts[j].of = t
      /\ parts[1].part.from = 0
      /\ parts[Len(parts)].part.to = c.lengths[t]
      /\ \A j \in DOMAIN parts \ {1} : parts[j].part.from = parts[j - 1].part.to
  <2>1. CrcMatches(parts)
    BY <1>1, <1>3
  <2>2. /\ \A j \in DOMAIN parts : parts[j].of = parts[1].of
        /\ parts[1].part.from = 0
        /\ parts[Len(parts)].part.to = parts[1].data_length
        /\ \A j \in DOMAIN parts \ {1} : parts[j].part.from = parts[j - 1].part.to
    BY <1>4, <2>1, CrcTellsTransfer
  <2>3. QED
    BY <1>4, <1>5, <1>6, <2>2
<1>8. PICK d : d = G!Transfer(g.transfer_id, r, g.sof_timestamp, parts)
  OBVIOUS
<1>9. /\ d.id = g.transfer_id /\ d.priority = r.priority /\ d.timestamp = g.sof_timestamp
      /\ d.parts = parts
  BY <1>8 DEF G!Transfer
<1>10. IsSentAs(d, t, c, strange, came)
  BY <1>4, <1>6, <1>7, <1>9 DEF IsSentAs
<1>11. QED
  BY <1>1, <1>3, <1>8, <1>10

\* A frame of transfer 1 or 2 reaches the session.
LEMMA Arrives ==
    ASSUME SenderInv, ReceiverInv, now \in Nat,
           NEW f \in FetchedFrames, f.transfer \in {1, 2}, NEW h, Arrive(f, h),
           case' = case, strangers \subseteq strangers',
           strangers' \cap Priority = {} => h.priority = case.header.priority
    PROVE  ReceiverInv'
<1>1. PICK r, t, e : /\ r = Received(f, h) /\ t = f.transfer
                     /\ e = [transfer |-> t, index |-> f.index, time |-> now]
  OBVIOUS
<1>2. /\ r.priority = h.priority /\ r.transfer_id = TransferIds[t]
      /\ r.part \in SessionParts \cup {NoPart} /\ r.transfer_id \in Nat
      /\ r.part # NoPart => r.part.of = t /\ r.part.data_length = LengthOf(t)
      /\ r.sot => f.index = 1
      /\ r.sot /\ ~ r.eot => r.part # NoPart
  BY <1>1, ReceivedFrame
<1>3. PICK o : o = G!PushFrame(gather, content, r, now)
  OBVIOUS
<1>4. /\ gather' = o.gather
      /\ delivered' = IF o.transfer = None THEN delivered ELSE Append(delivered, o.transfer)
      /\ arrived' = Append(arrived, e)
  BY <1>1, <1>3 DEF Arrive
<1>5. PICK came, now_came : came = ToSet(arrived) /\ now_came = ToSet(arrived')
  OBVIOUS
<1>6. arrived' \in Seq(Arrivals) /\ now_came = came \cup {e}
  <2>1. e \in Arrivals /\ arrived \in Seq(Arrivals)
    BY <1>1 DEF Arrivals, FetchedFrames, Known, ReceiverInv
  <2>2. QED
    BY <1>4, <1>5, <2>1, AppendElements, AppendProperties
<1>7. \A d \in ToSet(delivered) :
          \E u \in {1, 2} : IsSentAs(d, u, case, strangers', now_came)
  BY <1>5, <1>6, SentAsKept DEF ReceiverInv
<1>8. gather \in G!Gathers(Nat, SessionParts)
  BY DEF ReceiverInv
<1>9. gather.state \in G!Accumulating => IsBegun(gather, case, came)
  BY <1>5 DEF ReceiverInv
<1>10. o.gather \in G!Gathers(Nat, SessionParts)
  BY <1>2, <1>3, <1>8, GatherOutcome
<1>11. t \in {1, 2} /\ e \in now_came /\ LengthOf(t) = case.lengths[t]
  BY <1>1, <1>6 DEF LengthOf
<1>12. IsOutcome(gather, r, now, o)
  BY <1>2, <1>3, <1>8, GatherOutcome
<1>13. o.gather.state \in G!Accumulating => IsBegun(o.gather, case, now_came)
  <2>1. SUFFICES ASSUME o.gather.state \in G!Accumulating
                 PROVE  IsBegun(o.gather, case, now_came)
    OBVIOUS
  <2>2. CASE o.gather = gather
    BY <1>6, <1>9, <2>1, <2>2 DEF IsBegun
  <2>3. CASE /\ r.sot /\ ~ r.eot /\ o.gather.acc = G!Parts(r)
             /\ o.gather.transfer_id = r.transfer_id /\ o.gather.sof_timestamp = now
    <3>1. G!Parts(r) = << r.part >> /\ << r.part >>[1] = r.part /\ G!Parts(r) # << >>
      BY <1>2, <2>3, GatherParts
    <3>2. o.gather.acc # << >> /\ o.gather.acc[1] = r.part
      BY <2>3, <3>1
    <3>3. r.part.of = t /\ r.part.data_length = case.lengths[t]
      BY <1>2, <1>11, <2>3
    <3>4. [transfer |-> t, index |-> 1, time |-> o.gather.sof_timestamp] \in now_came
      BY <1>1, <1>2, <1>11, <2>3
    <3>5. QED
      BY <1>2, <1>11, <2>3, <3>2, <3>3, <3>4 DEF IsBegun
  <2>4. CASE /\ gather.state \in G!Accumulating
             /\ o.gather.acc = gather.acc \o G!Parts(r)
             /\ o.gather.transfer_id = gather.transfer_id
             /\ o.gather.sof_timestamp = gather.sof_timestamp
    <3>1. IsBegun(gather, case, came)
      BY <1>9, <2>4
    <3>2. PICK acc, more : acc = gather.acc /\ more = G!Parts(r)
      OBVIOUS
    <3>3. acc \in Seq(SessionParts) /\ more \in Seq(SessionParts) /\ acc # << >>
      BY <1>2, <1>8, <3>1, <3>2, GatherParts DEF G!Gathers, IsBegun
    <3>4. Len(acc) \in Nat \ {0} /\ Len(more) \in Nat
      BY <3>3, EmptySeq, LenProperties
    <3>5. /\ Len(acc \o more) = Len(acc) + Len(more)
          /\ \A i \in 1 .. Len(acc) + Len(more) :
                 (acc \o more)[i] = IF i <= Len(acc) THEN acc[i] ELSE more[i - Len(acc)]
      BY <3>3, ConcatProperties
    <3>6. Len(acc \o more) # 0 /\ (acc \o more)[1] = acc[1]
      BY <3>4, <3>5
    <3>7. acc \o more # << >>
      BY <3>6, EmptyQueue
    <3>8. o.gather.acc # << >> /\ o.gather.acc[1] = gather.acc[1]
      BY <2>4, <3>2, <3>6, <3>7
    <3>9. QED
      BY <1>6, <2>4, <3>1, <3>8 DEF IsBegun
  <2>5. QED
    BY <1>12, <2>1, <2>2, <2>3, <2>4 DEF IsOutcome
<1>14. \/ o.transfer = None
       \/ \E u \in {1, 2} : IsSentAs(o.transfer, u, case, strangers', now_came)
  <2>1. CASE /\ r.sot /\ r.eot
             /\ o.transfer = G!Transfer(r.transfer_id, r, now, G!Parts(r))
    <3>1. IsSentAs(o.transfer, t, case, strangers', now_came)
      BY <1>1, <1>11, <2>1, SingleIsSent
    <3>2. QED
      BY <1>11, <3>1
  <2>2. CASE /\ gather.state \in G!Accumulating
             /\ CrcMatches(gather.acc \o G!Parts(r))
             /\ o.transfer = G!Transfer(gather.transfer_id, r, gather.sof_timestamp,
                                        gather.acc \o G!Parts(r))
    <3>1. IsBegun(gather, case, now_came)
      BY <1>6, <1>9, <2>2 DEF IsBegun
    <3>2. strangers' \cap Priority = {} => r.priority = case.header.priority
      BY <1>2
    <3>3. QED
      BY <1>2, <1>8, <2>2, <3>1, <3>2, AssembledIsSent
  <2>3. QED
    BY <1>12, <2>1, <2>2 DEF IsOutcome
<1>15. /\ delivered' \in Seq(ToSet(delivered'))
       /\ \A d \in ToSet(delivered') :
              \E u \in {1, 2} : IsSentAs(d, u, case, strangers', now_came)
  <2>1. CASE o.transfer = None
    BY <1>4, <1>7, <2>1 DEF ReceiverInv
  <2>2. CASE o.transfer # None
    <3>1. PICK d : d = o.transfer
      OBVIOUS
    <3>2. PICK all : all = ToSet(delivered) \cup {d}
      OBVIOUS
    <3>3. delivered \in Seq(all) /\ d \in all
      <4>1. delivered \in Seq(ToSet(delivered)) /\ ToSet(delivered) \subseteq all
        BY <3>2 DEF ReceiverInv
      <4>2. QED
        BY <3>2, <4>1, SeqMonotonic
    <3>4. delivered' = Append(delivered, d)
      BY <1>4, <2>2, <3>1
    <3>5. delivered' \in Seq(all) /\ ToSet(delivered') = all
      BY <3>2, <3>3, <3>4, AppendElements, AppendProperties
    <3>6. QED
      BY <1>7, <1>14, <2>2, <3>1, <3>2, <3>5
  <2>3. QED
    BY <2>1, <2>2
<1>16. QED
  BY <1>4, <1>5, <1>6, <1>10, <1>13, <1>15 DEF ReceiverInv

LEMMA ReceiverKept ==
    ASSUME ReceiverInv, UNCHANGED << gather, arrived, delivered, case >>,
           strangers \subseteq strangers'
    PROVE  ReceiverInv'
<1>1. PICK came : came = ToSet(arrived)
  OBVIOUS
<1>2. \A d \in ToSet(delivered) :
          \E t \in {1, 2} : IsSentAs(d, t, case, strangers', came)
  BY <1>1, SentAsKept DEF ReceiverInv
<1>3. QED
  BY <1>1, <1>2 DEF ReceiverInv

\* What reaches the session is of transfer 1 or 2, with their priority unless a bit of it
\* has been changed: that is known of the identifiers.
LEMMA Delivers ==
    ASSUME SenderInv, ReceiverInv, now \in Nat, NEW f \in FetchedFrames, NEW id,
           Deliver(f, id), case' = case, strangers \subseteq strangers',
           \/ id = f.id
           \/ \E bit \in StrangeBits :
                 /\ id = SymDiff(f.id, {bit})
                 /\ IsOfSession(case, LoadFrameHeader(case, id)) => bit \in strangers'
    PROVE  ReceiverInv'
<1>1. PICK h : h = LoadFrameHeader(case, id)
  OBVIOUS
<1>2. CASE ~ IsOfSession(case, h)
  <2>1. UNCHANGED << gather, arrived, delivered, case >>
    BY <1>1, <1>2 DEF Deliver, Miss
  <2>2. QED
    BY <2>1, ReceiverKept
<1>3. CASE IsOfSession(case, h)
  <2>1. Arrive(f, h)
    BY <1>1, <1>3 DEF Deliver
  <2>2. case \in Cases /\ f.transfer \in Transfers /\ f = RawFrame(f.transfer, f.index)
    BY DEF SenderInv, FetchedFrames, Known
  <2>3. f.id = CanIds[HeaderOf(f.transfer)]
    <3>1. f.index \in Nat \ {0}
      BY DEF FetchedFrames, Known
    <3>2. QED
      BY <2>2, <3>1, KnownFrame
  <2>4. id \in Altered(f.id) /\ IsOwn(case, id)
    BY <1>1, <1>3 DEF Altered, IsOwn
  <2>5. f.transfer \in {1, 2}
    <3>1. ASSUME f.transfer = 3
          PROVE  FALSE
      <4>1. f.id = CanIds[Urgent]
        BY <2>3, <3>1 DEF HeaderOf
      <4>2. ~ IsOwn(case, id)
        BY <2>2, <2>4, <4>1, LinkAssumption
      <4>3. QED
        BY <2>4, <4>2
    <3>2. QED
      BY <2>2, <3>1 DEF Transfers
  <2>6. f.id = CanIds[case.header]
    BY <2>3, <2>5 DEF HeaderOf
  <2>7. strangers' \cap Priority = {} => h.priority = case.header.priority
    <3>1. CASE id = f.id
      BY <1>1, <2>2, <2>6, <3>1, LinkAssumption
    <3>2. ASSUME NEW bit \in StrangeBits, id = SymDiff(f.id, {bit}), bit \in strangers'
          PROVE  strangers' \cap Priority = {} => h.priority = case.header.priority
      <4>1. CASE bit \in Priority
        BY <3>2, <4>1
      <4>2. CASE bit \notin Priority
        <5>1. LoadFrameHeader(case, id).priority = case.header.priority
          BY <2>2, <2>4, <2>6, <3>2, <4>2, LinkAssumption
        <5>2. QED
          BY <1>1, <5>1
      <4>3. QED
        BY <4>1, <4>2
    <3>3. QED
      BY <1>1, <1>3, <3>1, <3>2
  <2>8. QED
    BY <2>1, <2>5, <2>7, Arrives
<1>4. QED
  BY <1>2, <1>3

LEMMA ReceiverInvInit == LinkInit => ReceiverInv
<1>1. SUFFICES ASSUME LinkInit
               PROVE  ReceiverInv
  OBVIOUS
<1>2. gather = G!Default /\ arrived = << >> /\ delivered = << >>
  BY <1>1 DEF LinkInit
<1>3. << >> \in Seq(SessionParts)
  BY EmptySeq
<1>4. gather \in G!Gathers(Nat, SessionParts) /\ gather.state \notin G!Accumulating
  BY <1>2, <1>3 DEF G!Default, G!Gathers, G!Accumulating
<1>5. /\ arrived \in Seq(Arrivals) /\ delivered \in Seq(ToSet(delivered))
      /\ ToSet(delivered) = {}
  BY <1>2, EmptySeq, EmptyQueue
<1>6. QED
  BY <1>4, <1>5 DEF ReceiverInv

LEMMA ReceiverInvStep ==
    LinkIInv /\ ReceiverInv /\ [LinkNext]_allVars => ReceiverInv'
<1>1. SUFFICES ASSUME LinkIInv, ReceiverInv, [LinkNext]_allVars
               PROVE  ReceiverInv'
  OBVIOUS
<1>2. SenderInv /\ now \in Nat /\ boxes \subseteq FetchedFrames
  BY <1>1, Bounds DEF LinkIInv, TaskInv, PlacesInv
<1>3. ASSUME UNCHANGED << gather, arrived, delivered, case, strangers >>
      PROVE  ReceiverInv'
  BY <1>1, <1>3, ReceiverKept
<1>4. ASSUME NEW t \in Transfers, Publish(t)
      PROVE  ReceiverInv'
  BY <1>3, <1>4 DEF Publish
<1>5. ASSUME NEW t \in Transfers, FetchFrame(t)
      PROVE  ReceiverInv'
  BY <1>3, <1>5 DEF FetchFrame
<1>6. CASE ExpireFrames
  BY <1>3, <1>6 DEF ExpireFrames
<1>7. CASE WriteFrame
  BY <1>3, <1>7 DEF WriteFrame
<1>8. ASSUME NEW f \in boxes, Transmit(f)
      PROVE  ReceiverInv'
  <2>1. f \in FetchedFrames /\ case' = case /\ strangers' = strangers
    BY <1>2, <1>8 DEF Transmit
  <2>2. CASE Deliver(f, f.id)
    BY <1>1, <1>2, <2>1, <2>2, Delivers
  <2>3. CASE Miss
    BY <1>3, <2>1, <2>3 DEF Miss
  <2>4. QED
    BY <1>8, <2>2, <2>3 DEF Transmit
<1>9. ASSUME NEW f \in boxes, NEW bit \in StrangeBits, Strange(f, bit)
      PROVE  ReceiverInv'
  <2>1. PICK id : id = SymDiff(f.id, {bit})
    OBVIOUS
  <2>2. /\ Deliver(f, id) /\ case' = case
        /\ strangers' = IF IsOfSession(case, LoadFrameHeader(case, id))
                        THEN strangers \cup {bit} ELSE strangers
    BY <1>9, <2>1 DEF Strange
  <2>3. f \in FetchedFrames /\ strangers \subseteq strangers'
        /\ (IsOfSession(case, LoadFrameHeader(case, id)) => bit \in strangers')
    BY <1>2, <2>2
  <2>4. QED
    BY <1>1, <1>2, <2>1, <2>2, <2>3, Delivers
<1>10. CASE TickLink
  BY <1>3, <1>10 DEF TickLink, linkVars
<1>11. CASE UNCHANGED allVars
  BY <1>3, <1>11 DEF allVars, linkVars
<1>12. QED
  BY <1>1, <1>4, <1>5, <1>6, <1>7, <1>8, <1>9, <1>10, <1>11 DEF LinkNext

\* What the receiver makes of frames that are lost, repeated, reordered by the mailboxes
\* or sent by others: it completes nothing but what the sender's Scatter was given, all of
\* it, in order, under its identifier and at the time its first frame came
\* (Gather::push_frame, of what Scatter::fetch_frame_data returned).
THEOREM DeliveriesWereSent == LinkSpec => []DeliveredWasSent
<1>1. LinkInit => LinkIInv /\ ReceiverInv
  BY LinkIInvInit, ReceiverInvInit
<1>2. (LinkIInv /\ ReceiverInv) /\ [LinkNext]_allVars => (LinkIInv /\ ReceiverInv)'
  BY LinkIInvStep, ReceiverInvStep
<1>3. ReceiverInv => DeliveredWasSent
  <2>1. SUFFICES ASSUME ReceiverInv, NEW i \in DOMAIN delivered
                 PROVE  \E t \in {1, 2} :
                           IsSentAs(delivered[i], t, case, strangers, ToSet(arrived))
    BY DEF DeliveredWasSent, IsSentAs, LengthOf
  <2>2. delivered[i] \in ToSet(delivered)
    BY DEF ToSet
  <2>3. QED
    BY <2>1, <2>2 DEF ReceiverInv
<1>4. QED
  BY <1>1, <1>2, <1>3, PTL DEF LinkSpec


-----------------------------------------------------------------------------
(* The frames of a transfer in a row.                                       *)

MaxPayload(c) == MtuLength[c.mtu] - TailLength

\* How much of a transfer its first k frames have, with the CRC.
Cut(c, t, k) ==
    IF c.lengths[t] <= MaxPayload(c)
    THEN IF k = 0 THEN 0 ELSE c.lengths[t] + CrcLength
    ELSE IF k * MaxPayload(c) <= c.lengths[t] + CrcLength
    THEN k * MaxPayload(c) ELSE c.lengths[t] + CrcLength

\* The Scatter of a transfer that has returned k frames, and the next of them.
ScatterAt(c, t, k) ==
    [transfer_id |-> TransferIds[t], data_length |-> c.lengths[t],
     offset |-> Cut(c, t, k), toggle |-> c.lengths[t] <= MaxPayload(c) \/ k % 2 = 0]

IsLast(c, t, k) == IsExhausted(ScatterAt(c, t, k))

FrameAt(c, t, k) == FetchFrameData(ScatterAt(c, t, k - 1), c.mtu).data

\* The payload has the bytes of the transfer from one place to the other, data and CRC.
IsSegment(part, from, to, length) ==
    /\ part \in Payloads
    /\ part.from = (IF from <= length THEN from ELSE length)
    /\ part.to = (IF to <= length THEN to ELSE length)
    /\ part.crc = {b \in 0 .. CrcLength - 1 : from <= length + b /\ length + b < to}
    /\ part.crc_pad = part.pad

ScatterInv ==
    \A t \in Transfers :
        /\ scatter[t] = ScatterAt(case, t, Len(sent[t]))
        /\ \A k \in 1 .. Len(sent[t]) :
               sent[t][k] = FrameAt(case, t, k) /\ ~ IsLast(case, t, k - 1)

LEMMA CaseFacts ==
    ASSUME NEW c \in Cases, NEW t \in Transfers
    PROVE  /\ c.lengths[t] \in Nat /\ MaxPayload(c) \in {7, 63}
           /\ c.mtu \in {"Classic", "Fd"} /\ (MaxPayload(c) = 63 <=> c.mtu = "Fd")
           /\ TransferIds[t] \in Nat
<1>1. c.mtu \in {"Classic", "Fd"} /\ c.lengths[t] \in Nat
  BY LinkAssumption
<1>2. MaxPayload(c) \in {7, 63} /\ (MaxPayload(c) = 63 <=> c.mtu = "Fd")
  BY <1>1 DEF MaxPayload, MtuLength, TailLength
<1>3. TransferIds[t] \in Nat
  BY DEF TransferIds, Transfers, MaxTransferId, NextTransferId
<1>4. QED
  BY <1>1, <1>2, <1>3

\* A cut is one frame behind the other, until the end.
LEMMA CutFacts ==
    ASSUME NEW c \in Cases, NEW t \in Transfers, NEW k \in Nat
    PROVE  /\ Cut(c, t, 0) = 0
           /\ Cut(c, t, k) \in 0 .. c.lengths[t] + 2
           /\ IsLast(c, t, k) <=> Cut(c, t, k) = c.lengths[t] + 2
           /\ Cut(c, t, k) # c.lengths[t] + 2 =>
                  IF c.lengths[t] <= MaxPayload(c)
                  THEN k = 0 /\ Cut(c, t, k + 1) = c.lengths[t] + 2
                  ELSE /\ k > 0 => Cut(c, t, k) > 0
                       /\ Cut(c, t, k + 1)
                            = IF c.lengths[t] + 2 - Cut(c, t, k) <= MaxPayload(c)
                              THEN c.lengths[t] + 2 ELSE Cut(c, t, k) + MaxPayload(c)
<1>1. PICK length \in Nat, max \in {7, 63} :
         length = c.lengths[t] /\ max = MaxPayload(c)
  BY CaseFacts
<1>2. IsLast(c, t, k) <=> Cut(c, t, k) = length + 2
  BY <1>1 DEF IsLast, IsExhausted, ScatterAt, CrcLength
<1>3. CASE max = 7
  BY <1>1, <1>2, <1>3 DEF Cut, CrcLength
<1>4. CASE max = 63
  BY <1>1, <1>2, <1>4 DEF Cut, CrcLength
<1>5. QED
  BY <1>3, <1>4

\* A Scatter that has returned k frames returns the next one.
LEMMA SingleAt ==
    ASSUME NEW c \in Cases, NEW t \in Transfers, c.lengths[t] <= MaxPayload(c)
    PROVE  LET o == FetchFrameData(ScatterAt(c, t, 0), c.mtu)
               d == o.data
           IN  /\ o.scatter = ScatterAt(c, t, 1)
               /\ d.sot /\ d.eot /\ d.toggle = TRUE /\ d.transfer_id = TransferIds[t]
               /\ d.length \in 1 .. 64 /\ IsDataLength(d.length)
<1>1. PICK length, s, n : /\ length = c.lengths[t] /\ s = ScatterAt(c, t, 0)
                          /\ n = NewCeil(s.data_length + TailLength)
  OBVIOUS
<1>2. /\ s = [transfer_id |-> TransferIds[t], data_length |-> length, offset |-> 0,
              toggle |-> TRUE]
      /\ length \in Nat /\ length <= 63
      /\ ScatterAt(c, t, 1)
            = [transfer_id |-> TransferIds[t], data_length |-> length,
               offset |-> length + CrcLength, toggle |-> TRUE]
  <2>1. length \in Nat /\ length <= MaxPayload(c) /\ length <= 63
    BY <1>1, CaseFacts
  <2>2. Cut(c, t, 0) = 0 /\ Cut(c, t, 1) = length + CrcLength
    BY <1>1 DEF Cut
  <2>3. QED
    BY <1>1, <2>1, <2>2 DEF ScatterAt
<1>3. n \in length + 1 .. 64 /\ IsDataLength(n)
  <2>1. s.data_length + TailLength \in 0 .. 64 /\ s.data_length + TailLength = length + 1
    BY <1>2 DEF TailLength
  <2>2. QED
    BY <1>1, <2>1, CeilIsDataLength
<1>4. PICK o : o = FetchFrameData(s, c.mtu)
  OBVIOUS
<1>5. o = FetchSingleFrame(s)
  <2>1. s.offset = 0 /\ s.data_length <= MtuLength[c.mtu] - TailLength
    BY <1>1, <1>2 DEF MaxPayload
  <2>2. QED
    BY <1>4, <2>1 DEF FetchFrameData
<1>6. /\ o.scatter = [s EXCEPT !.offset = s.data_length + CrcLength]
      /\ o.data = Data(s, n, TRUE, TRUE, SinglePayload(s, n - TailLength))
  BY <1>1, <1>5 DEF FetchSingleFrame, Returned
<1>7. o.scatter = ScatterAt(c, t, 1)
  BY <1>2, <1>6
<1>8. /\ o.data.sot /\ o.data.eot /\ o.data.toggle = TRUE
      /\ o.data.transfer_id = TransferIds[t] /\ o.data.length = n
  BY <1>2, <1>6 DEF Data
<1>9. o.data.length \in 1 .. 64 /\ IsDataLength(o.data.length)
  BY <1>2, <1>3, <1>8
<1>10. QED
  BY <1>1, <1>4, <1>7, <1>8, <1>9

LEMMA SegmentAt ==
    ASSUME NEW c \in Cases, NEW t \in Transfers, ~ (c.lengths[t] <= MaxPayload(c)),
           NEW k \in Nat, ~ IsLast(c, t, k)
    PROVE  LET o == FetchFrameData(ScatterAt(c, t, k), c.mtu)
               d == o.data
           IN  /\ o.scatter = ScatterAt(c, t, k + 1)
               /\ d.sot <=> k = 0
               /\ d.eot <=> IsLast(c, t, k + 1)
               /\ d.toggle = (k % 2 = 0)
               /\ d.transfer_id = TransferIds[t]
               /\ d.length \in 1 .. 64 /\ IsDataLength(d.length)
               /\ ~ d.eot => d.length = MaxPayload(c) + 1 /\ d.part.pad = 0
               /\ IsSegment(d.part, Cut(c, t, k), Cut(c, t, k + 1), c.lengths[t])
<1>1. PICK length \in Nat, max \in {7, 63}, from \in Nat, s \in {ScatterAt(c, t, k)} :
         /\ length = c.lengths[t] /\ max = MaxPayload(c)
         /\ from = Cut(c, t, k) /\ s = ScatterAt(c, t, k)
  BY CaseFacts, CutFacts
<1>2. /\ from \in 0 .. length + 1 /\ length > max
      /\ k > 0 => from > 0
      /\ k = 0 => from = 0
      /\ Cut(c, t, k + 1) = IF length + 2 - from <= max THEN length + 2 ELSE from + max
  BY <1>1, CutFacts
<1>3. s = [transfer_id |-> TransferIds[t], data_length |-> length, offset |-> from,
           toggle |-> k % 2 = 0]
  BY <1>1 DEF ScatterAt
<1>4. PICK rest \in Nat : rest = length + 2 - from /\ rest > 0 /\ rest = Residual(s)
  BY <1>2, <1>3 DEF Residual, CrcLength
<1>5. PICK m : m = Min({Residual(s), max})
  OBVIOUS
<1>6. m = (IF rest <= max THEN rest ELSE max) /\ m \in 1 .. 63 /\ m + 1 \in 0 .. 64
  <2>1. Residual(s) \in Nat /\ max \in Nat
    BY <1>4
  <2>2. m = (IF rest <= max THEN rest ELSE max)
    BY <1>4, <1>5, <2>1, LesserOfTwo
  <2>3. QED
    BY <1>4, <2>2
<1>7. PICK n, payload : n = NewCeil(m + 1) /\ payload = n - 1
  OBVIOUS
<1>8. /\ n \in m + 1 .. 64 /\ IsDataLength(n) /\ payload \in 1 .. 63
      /\ m = max => n = max + 1
  BY <1>6, <1>7, CeilIsDataLength
<1>9. PICK end : end = s.offset + Min({payload, Residual(s)})
  OBVIOUS
<1>10. end = Cut(c, t, k + 1) /\ end \in Nat /\ end <= length + 2
  <2>1. end = from + (IF payload <= rest THEN payload ELSE rest)
    <3>1. payload \in Nat /\ rest \in Nat /\ s.offset = from /\ Residual(s) = rest
      BY <1>3, <1>4, <1>8
    <3>2. QED
      BY <1>9, <3>1, LesserOfTwo
  <2>2. CASE rest <= max
    <3>1. m = rest /\ payload >= rest
      BY <1>6, <1>7, <1>8, <2>2
    <3>2. end = length + 2
      BY <1>4, <1>8, <2>1, <3>1
    <3>3. QED
      BY <1>2, <1>4, <2>2, <3>2
  <2>3. CASE ~ (rest <= max)
    <3>1. m = max /\ payload = max
      BY <1>6, <1>7, <1>8, <2>3
    <3>2. end = from + max
      BY <2>1, <2>3, <3>1
    <3>3. QED
      BY <1>2, <1>4, <2>3, <3>2
  <2>4. QED
    BY <2>2, <2>3
<1>11. PICK part : part = IF Residual(s) < payload THEN PaddedSegment(s, payload)
                                                    ELSE FullSegment(s, payload)
  OBVIOUS
<1>12. PICK o : o = FetchFrameData(s, c.mtu)
  OBVIOUS
<1>13. o = FetchNextFrame(s, max)
  <2>1. /\ ~ (s.offset = 0 /\ s.data_length <= max) /\ Residual(s) # 0
        /\ max = MtuLength[c.mtu] - TailLength
    BY <1>1, <1>2, <1>3, <1>4 DEF MaxPayload
  <2>2. QED
    BY <1>12, <2>1 DEF FetchFrameData
<1>14. /\ o.scatter = [s EXCEPT !.offset = end, !.toggle = ~ @]
       /\ o.data = Data(s, n, s.offset = 0, end = s.data_length + CrcLength, part)
  BY <1>5, <1>7, <1>9, <1>11, <1>13 DEF FetchNextFrame, Returned, TailLength
<1>15. o.scatter = ScatterAt(c, t, k + 1)
  <2>1. (~ (k % 2 = 0)) = ((k + 1) % 2 = 0)
    OBVIOUS
  <2>2. o.scatter = [transfer_id |-> TransferIds[t], data_length |-> length,
                     offset |-> end, toggle |-> ~ (k % 2 = 0)]
    BY <1>3, <1>14
  <2>3. ScatterAt(c, t, k + 1)
          = [transfer_id |-> TransferIds[t], data_length |-> length,
             offset |-> end, toggle |-> (k + 1) % 2 = 0]
    BY <1>1, <1>2, <1>10 DEF ScatterAt
  <2>4. QED
    BY <2>1, <2>2, <2>3
<1>16. /\ o.data.sot = (from = 0) /\ o.data.eot = (end = length + 2)
       /\ o.data.toggle = (k % 2 = 0) /\ o.data.transfer_id = TransferIds[t]
       /\ o.data.length = n /\ o.data.part = part
  BY <1>3, <1>14 DEF Data, CrcLength
<1>17. /\ from = 0 <=> k = 0
       /\ end = length + 2 <=> IsLast(c, t, k + 1)
  BY <1>1, <1>2, <1>10, CutFacts
<1>18. end # length + 2 => m = max /\ ~ (rest < payload)
  BY <1>2, <1>4, <1>6, <1>7, <1>8, <1>10
<1>19. IsSegment(part, from, end, length) /\ (end # length + 2 => part.pad = 0)
  <2>1. CASE rest < payload
    <3>1. part = [from |-> from, to |-> length, pad |-> payload - rest,
                  crc |-> 0 .. CrcLength - 1, crc_pad |-> payload - rest]
      BY <1>3, <1>4, <1>11, <2>1 DEF PaddedSegment, Payload
    <3>2. from <= length /\ end = length + 2 /\ payload - rest \in Nat
      BY <1>2, <1>4, <1>6, <1>7, <1>8, <1>10, <2>1, CeilIsDataLength
    <3>3. part \in Payloads
      BY <3>1, <3>2 DEF Payloads
    <3>4. 0 .. CrcLength - 1
            = {b \in 0 .. CrcLength - 1 : from <= length + b /\ length + b < end}
      BY <3>2 DEF CrcLength
    <3>5. QED
      BY <3>1, <3>2, <3>3, <3>4 DEF IsSegment
  <2>2. CASE ~ (rest < payload)
    <3>1. PICK first, last, crc :
            /\ first = Min({s.offset, s.data_length})
            /\ last = Min({s.offset + payload, s.data_length})
            /\ crc = {i \in 0 .. CrcLength - 1 :
                         s.data_length + i \in s.offset .. s.offset + payload - 1}
      OBVIOUS
    <3>2. part = [from |-> first, to |-> last, pad |-> 0, crc |-> crc, crc_pad |-> 0]
      BY <1>4, <1>11, <2>2, <3>1 DEF FullSegment, Payload
    <3>3. end = from + payload
      BY <1>3, <1>4, <1>8, <1>9, <2>2, LesserOfTwo
    <3>4. /\ first = (IF from <= length THEN from ELSE length)
          /\ last = (IF end <= length THEN end ELSE length)
      BY <1>3, <1>10, <3>1, <3>3, LesserOfTwo
    <3>5. crc = {b \in 0 .. CrcLength - 1 : from <= length + b /\ length + b < end}
      BY <1>3, <1>8, <3>1, <3>3 DEF CrcLength
    <3>6. first \in Nat /\ last \in Nat /\ crc \subseteq 0 .. CrcLength - 1
      BY <1>10, <3>4, <3>5
    <3>7. part \in Payloads
      BY <3>2, <3>6 DEF Payloads
    <3>8. QED
      BY <3>2, <3>4, <3>5, <3>7 DEF IsSegment
  <2>3. QED
    BY <2>1, <2>2
<1>20. /\ o.data.length \in 1 .. 64 /\ IsDataLength(o.data.length)
       /\ ~ o.data.eot => o.data.length = max + 1 /\ o.data.part.pad = 0
       /\ IsSegment(o.data.part, from, Cut(c, t, k + 1), length)
  <2>1. ASSUME ~ o.data.eot
        PROVE  n = max + 1 /\ part.pad = 0
    <3>1. end # length + 2
      BY <1>16, <2>1
    <3>2. QED
      BY <1>8, <1>18, <1>19, <3>1
  <2>2. n \in 1 .. 64
    BY <1>6, <1>8
  <2>3. QED
    BY <1>8, <1>10, <1>16, <1>19, <2>1, <2>2
<1>21. QED
  BY <1>1, <1>12, <1>15, <1>16, <1>17, <1>20


LEMMA NextAt ==
    ASSUME NEW c \in Cases, NEW t \in Transfers, NEW k \in Nat, ~ IsLast(c, t, k)
    PROVE  LET o == FetchFrameData(ScatterAt(c, t, k), c.mtu)
               d == o.data
           IN  /\ o.scatter = ScatterAt(c, t, k + 1)
               /\ d.sot <=> k = 0
               /\ d.eot <=> IsLast(c, t, k + 1)
               /\ d.toggle = (k % 2 = 0)
               /\ d.transfer_id = TransferIds[t]
               /\ d.length \in 1 .. 64 /\ IsDataLength(d.length)
               /\ ~ d.eot => d.length = MaxPayload(c) + 1
<1>1. CASE c.lengths[t] <= MaxPayload(c)
  <2>1. k = 0 /\ k + 1 = 1 /\ IsLast(c, t, 1)
    <3>1. k = 0 /\ Cut(c, t, k + 1) = c.lengths[t] + 2
      BY <1>1, CutFacts
    <3>2. 1 \in Nat /\ k + 1 = 1
      BY <3>1
    <3>3. QED
      BY <3>1, <3>2, CutFacts
  <2>2. PICK o : o = FetchFrameData(ScatterAt(c, t, k), c.mtu)
    OBVIOUS
  <2>3. /\ o.scatter = ScatterAt(c, t, 1)
        /\ o.data.sot /\ o.data.eot /\ o.data.toggle = TRUE
        /\ o.data.transfer_id = TransferIds[t]
        /\ o.data.length \in 1 .. 64 /\ IsDataLength(o.data.length)
    BY <1>1, <2>1, <2>2, SingleAt
  <2>4. k % 2 = 0
    BY <2>1
  <2>5. o.scatter = ScatterAt(c, t, k + 1)
    BY <2>1, <2>3
  <2>6. (o.data.sot <=> k = 0) /\ o.data.toggle = (k % 2 = 0)
    BY <2>1, <2>3, <2>4
  <2>7. o.data.eot <=> IsLast(c, t, k + 1)
    BY <2>1, <2>3
  <2>8. QED
    BY <2>2, <2>3, <2>5, <2>6, <2>7, Zenon
<1>2. CASE ~ (c.lengths[t] <= MaxPayload(c))
  <2>1. PICK o : o = FetchFrameData(ScatterAt(c, t, k), c.mtu)
    OBVIOUS
  <2>2. /\ o.scatter = ScatterAt(c, t, k + 1)
        /\ o.data.sot <=> k = 0
        /\ o.data.eot <=> IsLast(c, t, k + 1)
        /\ o.data.toggle = (k % 2 = 0)
        /\ o.data.transfer_id = TransferIds[t]
        /\ o.data.length \in 1 .. 64 /\ IsDataLength(o.data.length)
        /\ ~ o.data.eot => o.data.length = MaxPayload(c) + 1
    BY <1>2, <2>1, SegmentAt
  <2>3. QED
    BY <2>1, <2>2, Zenon
<1>3. QED
  BY <1>1, <1>2

LEMMA ScatterInvInit == LinkInit => ScatterInv
<1>1. SUFFICES ASSUME LinkInit, NEW t \in Transfers
               PROVE  /\ scatter[t] = ScatterAt(case, t, Len(sent[t]))
                      /\ Len(sent[t]) = 0
  BY DEF ScatterInv
<1>2. /\ scatter[t] = NewScatter(TransferIds[t], LengthOf(t)) /\ sent[t] = << >>
      /\ case \in Cases
  BY <1>1 DEF LinkInit
<1>3. Len(sent[t]) = 0 /\ Cut(case, t, 0) = 0
  BY <1>2, CutFacts
<1>4. scatter[t] = [transfer_id |-> TransferIds[t], data_length |-> case.lengths[t],
                    offset |-> 0, toggle |-> TRUE]
  BY <1>2 DEF NewScatter, LengthOf
<1>5. ScatterAt(case, t, 0)
        = [transfer_id |-> TransferIds[t], data_length |-> case.lengths[t],
           offset |-> 0, toggle |-> TRUE]
  <2>1. 0 % 2 = 0
    OBVIOUS
  <2>2. (case.lengths[t] <= MaxPayload(case) \/ 0 % 2 = 0) = TRUE
    BY <2>1
  <2>3. QED
    BY <1>3, <2>2 DEF ScatterAt
<1>6. QED
  BY <1>3, <1>4, <1>5

LEMMA ScatterInvStep ==
    SenderInv /\ ScatterInv /\ [LinkNext]_allVars => ScatterInv'
<1>1. SUFFICES ASSUME SenderInv, ScatterInv, [LinkNext]_allVars
               PROVE  ScatterInv'
  OBVIOUS
<1>2. ASSUME UNCHANGED << case, scatter, sent >>
      PROVE  ScatterInv'
  BY <1>1, <1>2 DEF ScatterInv
<1>3. ASSUME NEW u \in Transfers, FetchFrame(u)
      PROVE  ScatterInv'
  <2>1. PICK o : o = FetchFrameData(scatter[u], case.mtu)
    OBVIOUS
  <2>2. /\ scatter' = [scatter EXCEPT ![u] = o.scatter]
        /\ sent' = [sent EXCEPT ![u] = Append(@, o.data)]
        /\ case' = case /\ ~ IsExhausted(scatter[u])
    BY <1>3, <2>1 DEF FetchFrame, Available
  <2>3. /\ case \in Cases /\ sent \in [Transfers -> Seq(FrameDatas)]
        /\ scatter \in [Transfers -> [transfer_id : Nat, data_length : Nat, offset : Nat,
                                      toggle : BOOLEAN]]
    BY <1>1 DEF SenderInv
  <2>4. SUFFICES ASSUME NEW t \in Transfers
                 PROVE  /\ scatter'[t] = ScatterAt(case, t, Len(sent'[t]))
                        /\ \A k \in 1 .. Len(sent'[t]) :
                               /\ sent'[t][k] = FrameAt(case, t, k)
                               /\ ~ IsLast(case, t, k - 1)
    BY <2>2 DEF ScatterInv
  <2>5. /\ scatter[t] = ScatterAt(case, t, Len(sent[t]))
        /\ \A k \in 1 .. Len(sent[t]) :
               sent[t][k] = FrameAt(case, t, k) /\ ~ IsLast(case, t, k - 1)
    BY <1>1 DEF ScatterInv
  <2>6. CASE t # u
    BY <2>2, <2>3, <2>5, <2>6
  <2>7. CASE t = u
    <3>1. PICK n \in Nat : n = Len(sent[t])
      BY <2>3, LenProperties
    <3>2. ~ IsLast(case, t, n) /\ o = FetchFrameData(ScatterAt(case, t, n), case.mtu)
      BY <2>1, <2>2, <2>5, <2>7, <3>1 DEF IsLast
    <3>3. o.scatter = ScatterAt(case, t, n + 1)
      BY <2>3, <3>1, <3>2, NextAt
    <3>4. o.data = FrameAt(case, t, n + 1) /\ n + 1 - 1 = n
      BY <3>1, <3>2 DEF FrameAt
    <3>5. scatter'[t] = o.scatter /\ sent'[t] = Append(sent[t], o.data)
      BY <2>2, <2>3, <2>7
    <3>6. /\ Len(sent'[t]) = n + 1
          /\ \A k \in 1 .. n : sent'[t][k] = sent[t][k]
          /\ sent'[t][n + 1] = o.data
      <4>1. PICK s \in Seq(FrameDatas) : s = sent[t]
        BY <2>3
      <4>2. QED
        BY <3>1, <3>5, <4>1
    <3>7. QED
      BY <2>5, <3>1, <3>2, <3>3, <3>4, <3>5, <3>6
  <2>8. QED
    BY <2>6, <2>7
<1>4. ASSUME NEW t \in Transfers, Publish(t)
      PROVE  ScatterInv'
  BY <1>2, <1>4 DEF Publish
<1>5. CASE ExpireFrames
  BY <1>2, <1>5 DEF ExpireFrames
<1>6. CASE WriteFrame
  BY <1>2, <1>6 DEF WriteFrame
<1>7. ASSUME NEW f \in boxes, Transmit(f)
      PROVE  ScatterInv'
  BY <1>2, <1>7 DEF Transmit
<1>8. ASSUME NEW f \in boxes, NEW bit \in StrangeBits, Strange(f, bit)
      PROVE  ScatterInv'
  BY <1>2, <1>8 DEF Strange
<1>9. CASE TickLink
  BY <1>2, <1>9 DEF TickLink, linkVars
<1>10. CASE UNCHANGED allVars
  BY <1>2, <1>10 DEF allVars, linkVars
<1>11. QED
  BY <1>1, <1>3, <1>4, <1>5, <1>6, <1>7, <1>8, <1>9, <1>10 DEF LinkNext

\* What the receiver reads of the length of a frame: a frame of the length of an MTU
\* keeps it.
LEMMA LengthRead ==
    ASSUME NEW n \in 1 .. 64, IsDataLength(n), NEW fd \in BOOLEAN
    PROVE  /\ ToDataLength(MakeDlc(n), fd) > 0
           /\ n = 8 \/ (n = 64 /\ fd) => ToDataLength(MakeDlc(n), fd) = n
<1>1. CASE n <= 8
  BY <1>1 DEF MakeDlc, ToDataLength
<1>2. CASE n > 8
  <2>1. /\ DOMAIN LongLengths = 1 .. 7
        /\ LongLengths[1] = 12 /\ LongLengths[2] = 16 /\ LongLengths[3] = 20
        /\ LongLengths[4] = 24 /\ LongLengths[5] = 32 /\ LongLengths[6] = 48
        /\ LongLengths[7] = 64
    BY DEF LongLengths
  <2>2. n \in {12, 16, 20, 24, 32, 48, 64}
    BY <1>2 DEF IsDataLength, NewFloor
  <2>3. \E i \in DOMAIN LongLengths : LongLengths[i] = n
    BY <2>1, <2>2
  <2>4. PICK i : i = CHOOSE j \in DOMAIN LongLengths : LongLengths[j] = n
    OBVIOUS
  <2>5. i \in 1 .. 7 /\ LongLengths[i] = n
    BY <2>1, <2>3, <2>4
  <2>6. MakeDlc(n) = 8 + i /\ ~ (8 + i <= 8) /\ 8 + i - 8 = i
    <3>1. MakeDlc(n) = 8 + i
      BY <1>2, <2>4 DEF MakeDlc
    <3>2. QED
      BY <2>5, <3>1
  <2>7. ToDataLength(MakeDlc(n), fd) = IF fd THEN n ELSE 8
    BY <2>5, <2>6 DEF ToDataLength
  <2>8. QED
    BY <1>2, <2>7
<1>3. QED
  BY <1>1, <1>2


\* The cuts ascend, and leave nothing out.
LEMMA CutsAscend ==
    ASSUME NEW c \in Cases, NEW t \in Transfers, NEW j \in Nat, NEW k \in Nat, j <= k
    PROVE  Cut(c, t, j) <= Cut(c, t, k) /\ (IsLast(c, t, j) => IsLast(c, t, k))
<1>1. PICK length \in Nat, max \in {7, 63} :
         length = c.lengths[t] /\ max = MaxPayload(c)
  BY CaseFacts
<1>2. /\ IsLast(c, t, j) <=> Cut(c, t, j) = length + 2
      /\ IsLast(c, t, k) <=> Cut(c, t, k) = length + 2
  BY <1>1, CutFacts
<1>3. CASE max = 7
  BY <1>1, <1>2, <1>3 DEF Cut, CrcLength
<1>4. CASE max = 63
  BY <1>1, <1>2, <1>4 DEF Cut, CrcLength
<1>5. QED
  BY <1>3, <1>4

LEMMA CutsCover ==
    ASSUME NEW c \in Cases, NEW t \in Transfers, ~ (c.lengths[t] <= MaxPayload(c)),
           NEW n \in Nat, NEW x \in Nat, x < Cut(c, t, n)
    PROVE  \E k \in 1 .. n : Cut(c, t, k - 1) <= x /\ x < Cut(c, t, k)
<1>1. PICK length \in Nat, max \in {7, 63} :
         length = c.lengths[t] /\ max = MaxPayload(c)
  BY CaseFacts
<1>2. PICK q \in Nat : q * max <= x /\ x < (q + 1) * max
  <2>1. CASE max = 7
    <3>1. x \div 7 \in Nat /\ (x \div 7) * 7 <= x /\ x < (x \div 7 + 1) * 7
      OBVIOUS
    <3>2. QED
      BY <2>1, <3>1
  <2>2. CASE max = 63
    <3>1. x \div 63 \in Nat /\ (x \div 63) * 63 <= x /\ x < (x \div 63 + 1) * 63
      OBVIOUS
    <3>2. QED
      BY <2>2, <3>1
  <2>3. QED
    BY <2>1, <2>2
<1>3. q + 1 \in 1 .. n /\ Cut(c, t, q) <= x /\ x < Cut(c, t, q + 1)
  <2>1. CASE max = 7
    BY <1>1, <1>2, <2>1 DEF Cut, CrcLength
  <2>2. CASE max = 63
    BY <1>1, <1>2, <2>2 DEF Cut, CrcLength
  <2>3. QED
    BY <2>1, <2>2
<1>4. q + 1 - 1 = q
  BY <1>2
<1>5. QED
  BY <1>3, <1>4

\* What a session accumulates of a frame.
PartAt(c, t, k) ==
    [of |-> t, part |-> FrameAt(c, t, k).part, data_length |-> c.lengths[t]]

LEMMA PartIsSegment ==
    ASSUME NEW c \in Cases, NEW t \in Transfers, ~ (c.lengths[t] <= MaxPayload(c)),
           NEW k \in Nat \ {0}, ~ IsLast(c, t, k - 1)
    PROVE  /\ PartAt(c, t, k) \in SessionParts
           /\ IsSegment(PartAt(c, t, k).part, Cut(c, t, k - 1), Cut(c, t, k), c.lengths[t])
           /\ ~ IsLast(c, t, k) => PartAt(c, t, k).part.pad = 0
<1>1. PICK j \in Nat : j = k - 1 /\ k = j + 1
  OBVIOUS
<1>2. PICK o, d : /\ o = FetchFrameData(ScatterAt(c, t, j), c.mtu)
                  /\ d = o.data /\ d = FrameAt(c, t, k)
  BY <1>1 DEF FrameAt
<1>3. /\ d.eot <=> IsLast(c, t, k)
      /\ ~ d.eot => d.part.pad = 0
      /\ IsSegment(d.part, Cut(c, t, j), Cut(c, t, k), c.lengths[t])
  <2>1. j \in Nat /\ ~ IsLast(c, t, j)
    BY <1>1
  <2>2. LET f == FetchFrameData(ScatterAt(c, t, j), c.mtu).data
        IN  /\ f.eot <=> IsLast(c, t, j + 1)
            /\ ~ f.eot => f.part.pad = 0
            /\ IsSegment(f.part, Cut(c, t, j), Cut(c, t, j + 1), c.lengths[t])
    BY <2>1, SegmentAt
  <2>3. QED
    BY <1>1, <1>2, <2>2
<1>4. PartAt(c, t, k) = [of |-> t, part |-> d.part, data_length |-> c.lengths[t]]
  BY <1>2 DEF PartAt
<1>5. d.part \in Payloads /\ c.lengths[t] \in Nat
  BY <1>3, CaseFacts DEF IsSegment
<1>6. PartAt(c, t, k) \in SessionParts
  BY <1>4, <1>5 DEF SessionParts
<1>7. QED
  BY <1>1, <1>3, <1>4, <1>6

\* The CRC of all the parts of a transfer, in order, is right.
LEMMA AllPartsMatch ==
    ASSUME NEW c \in Cases, NEW t \in Transfers, ~ (c.lengths[t] <= MaxPayload(c)),
           NEW n \in Nat \ {0}, ~ IsLast(c, t, n - 1), IsLast(c, t, n)
    PROVE  CrcMatches([k \in 1 .. n |-> PartAt(c, t, k)])
<1> DEFINE parts == [k \in 1 .. n |-> PartAt(c, t, k)]
           part  == [i \in DOMAIN parts |-> parts[i].part]
<1>1. DOMAIN parts = 1 .. n /\ Len(parts) = n
      /\ \A i \in 1 .. n : parts[i] = PartAt(c, t, i) /\ part[i] = PartAt(c, t, i).part
  <2>1. parts \in Seq({PartAt(c, t, k) : k \in 1 .. n})
    OBVIOUS
  <2>2. DOMAIN parts = 1 .. n
    OBVIOUS
  <2>3. Len(parts) = n
    BY <2>1, <2>2, LenProperties
  <2>4. QED
    BY <2>2, <2>3
<1>2. PICK length \in Nat : length = c.lengths[t]
  BY CaseFacts
<1>3. /\ Cut(c, t, 0) = 0 /\ Cut(c, t, n) = length + 2
      /\ \A k \in 0 .. n : Cut(c, t, k) \in Nat
  BY <1>2, CutFacts
<1>4. ASSUME NEW k \in 1 .. n
      PROVE  /\ IsSegment(part[k], Cut(c, t, k - 1), Cut(c, t, k), length)
             /\ k < n => part[k].pad = 0
             /\ parts[k].of = t /\ parts[k].data_length = length
  <2>1. ~ IsLast(c, t, k - 1) /\ (k < n => ~ IsLast(c, t, k))
    <3>1. \A j \in Nat : j <= n - 1 => ~ IsLast(c, t, j)
      BY CutsAscend
    <3>2. QED
      BY <3>1
  <2>2. QED
    BY <1>1, <1>2, <2>1, PartIsSegment DEF PartAt
<1>5. \A i \in DOMAIN parts : parts[i].of = parts[1].of
  BY <1>1, <1>4
<1>6. part[1].from = 0 /\ part[Len(parts)].to = parts[1].data_length
      /\ part[Len(parts)].crc_pad = part[Len(parts)].pad
  BY <1>1, <1>3, <1>4 DEF IsSegment
<1>7. \A i \in DOMAIN parts \ {1} :
          part[i].from = part[i - 1].to /\ part[i - 1].pad = 0
  <2>1. SUFFICES ASSUME NEW i \in DOMAIN parts \ {1}
                 PROVE  part[i].from = part[i - 1].to /\ part[i - 1].pad = 0
    BY Zenon
  <2>2. i \in 1 .. n /\ i - 1 \in 1 .. n /\ i - 1 < n
    BY <1>1
  <2>3. /\ IsSegment(part[i], Cut(c, t, i - 1), Cut(c, t, i), length)
        /\ IsSegment(part[i - 1], Cut(c, t, i - 1 - 1), Cut(c, t, i - 1), length)
        /\ part[i - 1].pad = 0
    BY <1>4, <2>2
  <2>4. QED
    BY <2>3 DEF IsSegment
<1>8. UNION {part[i].crc : i \in DOMAIN parts} = 0 .. CrcLength - 1
  <2>1. \A i \in 1 .. n : part[i].crc \subseteq 0 .. CrcLength - 1
    BY <1>4 DEF IsSegment
  <2>2. ASSUME NEW b \in 0 .. CrcLength - 1
        PROVE  \E i \in 1 .. n : b \in part[i].crc
    <3>1. length + b \in Nat /\ length + b < Cut(c, t, n)
      BY <1>3 DEF CrcLength
    <3>2. PICK i \in 1 .. n : Cut(c, t, i - 1) <= length + b /\ length + b < Cut(c, t, i)
      BY <3>1, CutsCover
    <3>3. QED
      BY <1>4, <3>2 DEF IsSegment
  <2>3. QED
    BY <1>1, <2>1, <2>2
<1>9. \A i, j \in DOMAIN parts : i < j => \A b \in part[i].crc, d \in part[j].crc : b < d
  <2>1. SUFFICES ASSUME NEW i \in 1 .. n, NEW j \in 1 .. n, i < j,
                        NEW b \in part[i].crc, NEW d \in part[j].crc
                 PROVE  b < d
    BY <1>1
  <2>2. Cut(c, t, i) <= Cut(c, t, j - 1)
    BY <2>1, CutsAscend
  <2>3. /\ b \in 0 .. CrcLength - 1 /\ length + b < Cut(c, t, i)
        /\ d \in 0 .. CrcLength - 1 /\ Cut(c, t, j - 1) <= length + d
    BY <1>4 DEF IsSegment
  <2>4. Cut(c, t, i) \in Nat /\ Cut(c, t, j - 1) \in Nat
    BY <1>3
  <2>5. QED
    BY <2>2, <2>3, <2>4 DEF CrcLength
<1>10. QED
  BY <1>5, <1>6, <1>7, <1>8, <1>9 DEF CrcMatches


-----------------------------------------------------------------------------
(* What the session makes of these frames.                                  *)

\* What it is told of the k-th frame of a transfer.
IsFrameAt(r, c, t, k) ==
    /\ k \in Nat \ {0} /\ ~ IsLast(c, t, k - 1)
    /\ r.data /\ ~ r.malformed /\ r.transfer_id = TransferIds[t]
    /\ r.sot <=> k = 1
    /\ r.eot <=> IsLast(c, t, k)
    /\ r.toggle = (k % 2 = 1)
    /\ r.part \in SessionParts \cup {NoPart} /\ r.priority \in Nat
    /\ ~ (c.lengths[t] <= MaxPayload(c)) => r.part = PartAt(c, t, k)

\* The session has accumulated the first m frames, the first of them not before an instant.
IsAt(g, c, t, m, since) ==
    /\ g.state = IF m = 1 THEN "AccumulatedFirst"
                 ELSE IF m % 2 = 0 THEN "AccumulatedOdd" ELSE "AccumulatedEven"
    /\ g.transfer_id = TransferIds[t]
    /\ g.sof_timestamp \in Nat /\ g.sof_timestamp >= since
    /\ g.acc = [k \in 1 .. m |-> PartAt(c, t, k)]

LEMMA SentFrameAt ==
    ASSUME SenderInv, ScatterInv, NEW f \in FetchedFrames, NEW h, h.priority \in Nat
    PROVE  IsFrameAt(Received(f, h), case, f.transfer, f.index)
<1>1. PICK t, k, d : t = f.transfer /\ k = f.index /\ d = sent[t][k]
  OBVIOUS
<1>2. /\ t \in Transfers /\ k \in Nat \ {0} /\ k \in 1 .. Len(sent[t])
      /\ case \in Cases
  <2>1. t \in Transfers /\ k \in Nat \ {0} /\ k <= Len(sent[t])
    BY <1>1 DEF FetchedFrames, Known
  <2>2. Len(sent[t]) \in Nat
    BY <2>1, LenProperties DEF SenderInv
  <2>3. QED
    BY <2>1, <2>2 DEF SenderInv
<1>3. d = FrameAt(case, t, k) /\ ~ IsLast(case, t, k - 1)
  BY <1>1, <1>2 DEF ScatterInv
<1>4. PICK j \in Nat : j = k - 1 /\ k = j + 1
  BY <1>2
<1>5. PICK o : o = FetchFrameData(ScatterAt(case, t, j), case.mtu) /\ d = o.data
  BY <1>3, <1>4 DEF FrameAt
<1>6. /\ d.sot <=> j = 0
      /\ d.eot <=> IsLast(case, t, k)
      /\ d.toggle = (j % 2 = 0)
      /\ d.transfer_id = TransferIds[t]
      /\ d.length \in 1 .. 64 /\ IsDataLength(d.length)
      /\ ~ d.eot => d.length = MaxPayload(case) + 1
  BY <1>2, <1>3, <1>4, <1>5, NextAt
<1>7. PICK r, length : /\ r = Received(f, h)
                       /\ length = ToDataLength(MakeDlc(d.length), case.mtu = "Fd")
  OBVIOUS
<1>8. /\ r.data = (length > 0) /\ r.malformed = (~ d.eot /\ length \notin {8, 64})
      /\ r.transfer_id = d.transfer_id /\ r.sot = d.sot /\ r.eot = d.eot
      /\ r.toggle = d.toggle /\ r.priority = h.priority
      /\ r.part = IF d.part = NoPart THEN NoPart
                  ELSE [of |-> t, part |-> d.part, data_length |-> LengthOf(t)]
  BY <1>1, <1>7 DEF Received
<1>9. length > 0 /\ (~ d.eot => length \in {8, 64})
  <2>1. (case.mtu = "Fd") \in BOOLEAN
    OBVIOUS
  <2>2. /\ length > 0
        /\ d.length = 8 \/ (d.length = 64 /\ case.mtu = "Fd") => length = d.length
    BY <1>6, <1>7, <2>1, LengthRead
  <2>3. ~ d.eot => d.length = 8 \/ (d.length = 64 /\ case.mtu = "Fd")
    BY <1>2, <1>6, CaseFacts
  <2>4. QED
    BY <2>2, <2>3
<1>10. r.data /\ ~ r.malformed
  BY <1>8, <1>9
<1>11. (j = 0 <=> k = 1) /\ (j % 2 = 0) = (k % 2 = 1)
  BY <1>4
<1>12. r.part \in SessionParts \cup {NoPart}
  BY <1>7, ReceivedFrame
<1>13. ASSUME ~ (case.lengths[t] <= MaxPayload(case))
       PROVE  r.part = PartAt(case, t, k)
  <2>1. PartAt(case, t, k) \in SessionParts
        /\ PartAt(case, t, k) = [of |-> t, part |-> d.part, data_length |-> LengthOf(t)]
    BY <1>2, <1>3, <1>13, PartIsSegment DEF PartAt, LengthOf
  <2>2. d.part \in Payloads
    BY <2>1 DEF SessionParts
  <2>3. d.part # NoPart
    BY <2>2, LinkAssumption
  <2>4. QED
    BY <1>8, <2>1, <2>3
<1>14. IsFrameAt(r, case, t, k)
  BY <1>2, <1>3, <1>6, <1>8, <1>10, <1>11, <1>12, <1>13 DEF IsFrameAt
<1>15. QED
  BY <1>1, <1>7, <1>14

\* What is made of a session's parts is no unset Option.
LEMMA TransferIsSome ==
    ASSUME NEW id \in Nat, NEW r, r.priority \in Nat, NEW time \in Nat,
           NEW parts \in Seq(SessionParts)
    PROVE  /\ G!Transfer(id, r, time, parts) # None
           /\ G!Transfer(id, r, time, parts).id = id
<1>1. G!Transfer(id, r, time, parts)
        = [id |-> id, priority |-> r.priority, timestamp |-> time, parts |-> parts]
  BY DEF G!Transfer
<1>2. G!Transfer(id, r, time, parts) \in SessionTransfers
  BY <1>1 DEF SessionTransfers
<1>3. QED
  BY <1>1, <1>2, LinkAssumption

\* The outcome is a transfer with the identifier.
Completes(o, id) == o.transfer # None /\ o.transfer.id = id

\* A first frame begins its transfer, or is all of it, unless that was assembled before.
LEMMA FirstArrives ==
    ASSUME NEW c \in Cases, NEW t \in Transfers, NEW g, NEW buf, NEW r,
           IsFrameAt(r, c, t, 1), NEW time \in Nat
    PROVE  LET o == G!PushFrame(g, buf, r, time)
           IN  \/ g.state = "Assembled" /\ g.transfer_id = TransferIds[t]
               \/ Completes(o, TransferIds[t])
               \/ ~ IsLast(c, t, 1) /\ IsAt(o.gather, c, t, 1, time)
<1>1. PICK o : o = G!PushFrame(g, buf, r, time)
  OBVIOUS
<1>2. /\ r.data /\ ~ r.malformed /\ r.transfer_id = TransferIds[t]
      /\ r.sot /\ r.toggle
      /\ r.eot <=> IsLast(c, t, 1)
      /\ r.part \in SessionParts \cup {NoPart} /\ r.priority \in Nat
      /\ ~ IsLast(c, t, 0)
  <2>1. 1 % 2 = 1 /\ 1 - 1 = 0
    OBVIOUS
  <2>2. QED
    BY <2>1 DEF IsFrameAt
<1>3. TransferIds[t] \in Nat
  BY CaseFacts
<1>4. CASE G!IsDuplicate(g, r, time)
  BY <1>1, <1>2, <1>4 DEF G!IsDuplicate, G!TidMatch
<1>5. CASE ~ G!IsDuplicate(g, r, time)
  <2>1. ~ G!Skips(g, r, time) /\ G!Starts(r)
    BY <1>2, <1>5 DEF G!Skips, G!Starts
  <2>2. CASE r.eot
    <3>1. o = G!SingleFrameAssembly(r, time)
      BY <1>1, <2>1, <2>2 DEF G!PushFrame
    <3>2. o.transfer = G!Transfer(TransferIds[t], r, time, G!Parts(r))
      BY <1>2, <3>1 DEF G!SingleFrameAssembly, G!Outcome
    <3>3. G!Parts(r) \in Seq(SessionParts)
      BY <1>2, GatherParts
    <3>4. Completes(o, TransferIds[t])
      BY <1>2, <1>3, <3>2, <3>3, TransferIsSome DEF Completes
    <3>5. QED
      BY <1>1, <3>4
  <2>3. CASE ~ r.eot
    <3>1. o = G!AccumulateFirst(g, buf, r, time)
      BY <1>1, <2>1, <2>3 DEF G!PushFrame
    <3>2. o.gather = [state |-> "AccumulatedFirst", sof_timestamp |-> time,
                      transfer_id |-> TransferIds[t], acc |-> G!Parts(r)]
      BY <1>2, <3>1 DEF G!AccumulateFirst, G!Outcome
    <3>3. ~ IsLast(c, t, 1) /\ ~ (c.lengths[t] <= MaxPayload(c))
      <4>1. ~ IsLast(c, t, 1)
        BY <1>2, <2>3
      <4>2. 0 \in Nat /\ 0 + 1 = 1 /\ 1 \in Nat
        OBVIOUS
      <4>3. Cut(c, t, 1) # c.lengths[t] + 2 /\ Cut(c, t, 0) # c.lengths[t] + 2
        BY <1>2, <4>1, <4>2, CutFacts
      <4>4. QED
        BY <4>1, <4>2, <4>3, CutFacts
    <3>4. r.part = PartAt(c, t, 1) /\ r.part \in SessionParts
      <4>1. r.part = PartAt(c, t, 1)
        BY <3>3 DEF IsFrameAt
      <4>2. 1 \in Nat \ {0} /\ 1 - 1 = 0
        OBVIOUS
      <4>3. PartAt(c, t, 1) \in SessionParts
        BY <1>2, <3>3, <4>2, PartIsSegment
      <4>4. QED
        BY <4>1, <4>3
    <3>5. G!Parts(r) = << PartAt(c, t, 1) >>
      BY <3>4, GatherParts, LinkAssumption
    <3>6. << PartAt(c, t, 1) >> = [k \in 1 .. 1 |-> PartAt(c, t, k)]
      OBVIOUS
    <3>7. IsAt(o.gather, c, t, 1, time)
      BY <3>2, <3>5, <3>6 DEF IsAt
    <3>8. QED
      BY <1>1, <3>3, <3>7
  <2>4. QED
    BY <2>2, <2>3
<1>6. QED
  BY <1>4, <1>5


\* The last frame again, in time, changes nothing.
LEMMA FrameRepeats ==
    ASSUME NEW c \in Cases, NEW t \in Transfers, NEW g, NEW buf, NEW r,
           NEW m \in Nat \ {0}, m # 1, NEW since \in Nat, NEW time \in Nat,
           time <= since + Timeout, IsAt(g, c, t, m, since), IsFrameAt(r, c, t, m),
           ~ IsLast(c, t, m)
    PROVE  G!PushFrame(g, buf, r, time).gather = g
<1>1. Timeout \in Nat
  BY LinkAssumption
<1>2. /\ g.state = (IF m % 2 = 0 THEN "AccumulatedOdd" ELSE "AccumulatedEven")
      /\ g.transfer_id = TransferIds[t]
      /\ g.sof_timestamp \in Nat /\ g.sof_timestamp >= since
  BY DEF IsAt
<1>3. r.transfer_id = TransferIds[t] /\ ~ r.sot /\ ~ r.eot /\ r.toggle = (m % 2 = 1)
  BY DEF IsFrameAt
<1>4. time <= g.sof_timestamp + Timeout
  BY <1>1, <1>2
<1>5. G!TidMatch(g, r, time)
  BY <1>2, <1>3, <1>4 DEF G!TidMatch, G!Accumulating
<1>6. r.toggle # (g.state = "AccumulatedOdd")
  <2>1. CASE m % 2 = 0
    BY <1>2, <1>3, <2>1
  <2>2. CASE m % 2 = 1
    BY <1>2, <1>3, <2>2
  <2>3. QED
    BY <2>1, <2>2
<1>7. G!Skips(g, r, time)
  BY <1>2, <1>3, <1>5, <1>6 DEF G!Skips, G!NewToggle
<1>8. QED
  BY <1>7 DEF G!PushFrame, G!Outcome

\* The next frame, in time, goes on with the transfer or completes it.
LEMMA NextArrives ==
    ASSUME NEW c \in Cases, NEW t \in Transfers, NEW g \in G!Gathers(Nat, SessionParts),
           NEW buf, NEW r, NEW m \in Nat \ {0}, NEW since \in Nat, NEW time \in Nat,
           time <= since + Timeout, IsAt(g, c, t, m, since), IsFrameAt(r, c, t, m + 1)
    PROVE  LET o == G!PushFrame(g, buf, r, time)
           IN  \/ Completes(o, TransferIds[t])
               \/ ~ IsLast(c, t, m + 1) /\ IsAt(o.gather, c, t, m + 1, since)
<1>1. PICK o : o = G!PushFrame(g, buf, r, time)
  OBVIOUS
<1>2. Timeout \in Nat /\ TransferIds[t] \in Nat
  BY LinkAssumption, CaseFacts
<1>3. /\ g.state = (IF m = 1 THEN "AccumulatedFirst"
                    ELSE IF m % 2 = 0 THEN "AccumulatedOdd" ELSE "AccumulatedEven")
      /\ g.transfer_id = TransferIds[t]
      /\ g.sof_timestamp \in Nat /\ g.sof_timestamp >= since
      /\ g.acc = [k \in 1 .. m |-> PartAt(c, t, k)]
  BY DEF IsAt
<1>4. m + 1 # 1 /\ m + 1 - 1 = m /\ m \in Nat
  OBVIOUS
<1>5. /\ r.data /\ ~ r.malformed /\ r.transfer_id = TransferIds[t] /\ ~ r.sot
      /\ r.eot <=> IsLast(c, t, m + 1)
      /\ r.toggle = ((m + 1) % 2 = 1)
      /\ r.priority \in Nat /\ ~ IsLast(c, t, m)
  BY <1>4 DEF IsFrameAt
<1>6. ~ (c.lengths[t] <= MaxPayload(c))
  <2>1. m # 0 /\ Cut(c, t, m) # c.lengths[t] + 2
    BY <1>4, <1>5, CutFacts
  <2>2. QED
    BY <1>4, <2>1, CutFacts
<1>7. /\ r.part = PartAt(c, t, m + 1) /\ r.part \in SessionParts /\ r.part # NoPart
      /\ \A k \in 1 .. m + 1 : PartAt(c, t, k) \in SessionParts
  <2>1. r.part = PartAt(c, t, m + 1)
    BY <1>6 DEF IsFrameAt
  <2>2. ASSUME NEW k \in 1 .. m + 1
        PROVE  PartAt(c, t, k) \in SessionParts
    <3>1. k \in Nat \ {0} /\ k - 1 \in Nat /\ k - 1 <= m
      BY <2>2
    <3>2. ~ IsLast(c, t, k - 1)
      BY <1>4, <1>5, <3>1, CutsAscend
    <3>3. QED
      BY <1>6, <3>1, <3>2, PartIsSegment
  <2>3. m + 1 \in 1 .. m + 1
    BY <1>4
  <2>4. QED
    BY <2>1, <2>2, <2>3, LinkAssumption
<1>8. PICK parts : parts = [k \in 1 .. m + 1 |-> PartAt(c, t, k)]
  OBVIOUS
<1>9. parts \in Seq(SessionParts) /\ g.acc \o G!Parts(r) = parts
  <2>1. PICK acc : acc = g.acc
    OBVIOUS
  <2>2. parts \in Seq(SessionParts) /\ acc \in Seq(SessionParts)
    <3>1. \A k \in 1 .. m : PartAt(c, t, k) \in SessionParts
      BY <1>4, <1>7
    <3>2. parts \in [1 .. m + 1 -> SessionParts] /\ acc \in [1 .. m -> SessionParts]
      BY <1>3, <1>7, <1>8, <2>1, <3>1
    <3>3. m + 1 \in Nat
      BY <1>4
    <3>4. QED
      BY <1>4, <3>2, <3>3, SeqDef
  <2>3. Len(acc) = m
    BY <1>3, <1>4, <2>1, <2>2, LenProperties
  <2>4. G!Parts(r) = << r.part >> /\ << r.part >> \in Seq(SessionParts)
    BY <1>7, GatherParts
  <2>5. /\ Len(acc \o << r.part >>) = m + 1
        /\ \A i \in 1 .. m + 1 :
               (acc \o << r.part >>)[i] = IF i <= m THEN acc[i] ELSE << r.part >>[i - m]
        /\ acc \o << r.part >> \in Seq(SessionParts)
    BY <2>2, <2>3, <2>4, ConcatProperties
  <2>6. \A i \in 1 .. m + 1 : (acc \o << r.part >>)[i] = parts[i]
    <3>1. ASSUME NEW i \in 1 .. m + 1
          PROVE  (acc \o << r.part >>)[i] = parts[i]
      <4>1. CASE i <= m
        BY <1>3, <1>8, <2>1, <2>5, <4>1
      <4>2. CASE ~ (i <= m)
        <5>1. i = m + 1 /\ i - m = 1
          BY <4>2
        <5>2. QED
          BY <1>7, <1>8, <2>5, <4>2, <5>1
      <4>3. QED
        BY <4>1, <4>2
    <3>2. QED
      BY <3>1
  <2>7. Len(parts) = m + 1
    BY <1>4, <1>8, <2>2, LenProperties
  <2>8. acc \o << r.part >> = parts
    BY <2>2, <2>5, <2>6, <2>7, SeqEqual
  <2>9. QED
    BY <2>1, <2>2, <2>4, <2>8
<1>10. time <= g.sof_timestamp + Timeout
  BY <1>2, <1>3
<1>11. G!TidMatch(g, r, time) /\ g.state \in G!Accumulating
  BY <1>3, <1>5, <1>10 DEF G!TidMatch, G!Accumulating
<1>12. r.toggle = (g.state = "AccumulatedOdd")
  <2>1. CASE m % 2 = 0
    <3>1. (m + 1) % 2 = 1 /\ m # 1
      BY <2>1
    <3>2. QED
      BY <1>3, <1>5, <2>1, <3>1
  <2>2. CASE m % 2 = 1
    <3>1. (m + 1) % 2 # 1 /\ m % 2 # 0
      BY <2>2
    <3>2. QED
      BY <1>3, <1>5, <3>1
  <2>3. QED
    BY <2>1, <2>2
<1>13. ~ G!Skips(g, r, time) /\ ~ G!Starts(r) /\ G!Continues(g, r, time)
  <2>1. ~ G!IsDuplicate(g, r, time)
    BY <1>3 DEF G!IsDuplicate
  <2>2. QED
    BY <1>5, <1>11, <1>12, <2>1 DEF G!Skips, G!Starts, G!Continues, G!NewToggle
<1>14. CASE r.eot
  <2>1. o = G!FinishAssembly(g, buf, r)
    BY <1>1, <1>13, <1>14 DEF G!PushFrame
  <2>2. CrcMatches(parts)
    <3>1. PICK n \in Nat \ {0} : n = m + 1 /\ n - 1 = m
      BY <1>4
    <3>2. ~ IsLast(c, t, n - 1) /\ IsLast(c, t, n)
      BY <1>5, <1>14, <3>1
    <3>3. CrcMatches([k \in 1 .. n |-> PartAt(c, t, k)])
      BY <1>6, <3>2, AllPartsMatch
    <3>4. QED
      BY <1>8, <3>1, <3>3
  <2>3. o.transfer = G!Transfer(g.transfer_id, r, g.sof_timestamp, parts)
    BY <1>7, <1>9, <2>1, <2>2 DEF G!FinishAssembly, G!Outcome
  <2>4. Completes(o, TransferIds[t])
    BY <1>2, <1>3, <1>5, <1>9, <2>3, TransferIsSome DEF Completes
  <2>5. QED
    BY <1>1, <2>4
<1>15. CASE ~ r.eot
  <2>1. o = G!AccumulateNext(g, buf, r)
    BY <1>1, <1>13, <1>15 DEF G!PushFrame
  <2>2. o.gather = [g EXCEPT !.state = IF r.toggle THEN "AccumulatedEven"
                                                   ELSE "AccumulatedOdd",
                             !.acc = parts]
    BY <1>5, <1>9, <2>1 DEF G!AccumulateNext, G!Outcome
  <2>3. (IF r.toggle THEN "AccumulatedEven" ELSE "AccumulatedOdd")
          = IF (m + 1) % 2 = 0 THEN "AccumulatedOdd" ELSE "AccumulatedEven"
    <3>1. CASE m % 2 = 0
      <4>1. (m + 1) % 2 = 1 /\ (m + 1) % 2 # 0
        BY <3>1
      <4>2. r.toggle
        BY <1>5, <4>1
      <4>3. QED
        BY <4>1, <4>2, Zenon
    <3>2. CASE m % 2 # 0
      <4>1. (m + 1) % 2 = 0 /\ (m + 1) % 2 # 1
        BY <3>2
      <4>2. ~ r.toggle
        BY <1>5, <4>1
      <4>3. QED
        BY <4>1, <4>2, Zenon
    <3>3. QED
      BY <3>1, <3>2
  <2>4. /\ o.gather.state = (IF (m + 1) % 2 = 0 THEN "AccumulatedOdd"
                                                ELSE "AccumulatedEven")
        /\ o.gather.transfer_id = g.transfer_id /\ o.gather.acc = parts
        /\ o.gather.sof_timestamp = g.sof_timestamp
    BY <2>2, <2>3 DEF G!Gathers
  <2>5. IsAt(o.gather, c, t, m + 1, since) /\ ~ IsLast(c, t, m + 1)
    BY <1>3, <1>4, <1>5, <1>8, <1>15, <2>4 DEF IsAt
  <2>6. QED
    BY <1>1, <2>5
<1>16. QED
  BY <1>14, <1>15


\* A Gather enters the state Assembled with a transfer of the identifier it keeps.
LEMMA AssemblyIsReported ==
    ASSUME NEW g \in G!Gathers(Nat, SessionParts), NEW buf, NEW r, NEW time \in Nat,
           g.state \in G!Accumulating => g.sof_timestamp \in Nat /\ g.transfer_id \in Nat,
           r.part \in SessionParts \cup {NoPart}, r.priority \in Nat, r.transfer_id \in Nat
    PROVE  LET o == G!PushFrame(g, buf, r, time)
           IN  o.gather.state = "Assembled" =>
                   o.gather = g \/ Completes(o, o.gather.transfer_id)
<1>1. PICK o : o = G!PushFrame(g, buf, r, time)
  OBVIOUS
<1>2. G!Parts(r) \in Seq(SessionParts) /\ g.acc \in Seq(SessionParts)
  BY GatherParts DEF G!Gathers
<1>3. g.acc \o G!Parts(r) \in Seq(SessionParts)
  BY <1>2, ConcatProperties
<1>4. G!StopAssembly(g).state # "Assembled"
  BY DEF G!StopAssembly, G!Gathers
<1>5. CASE G!Skips(g, r, time)
  BY <1>1, <1>5 DEF G!PushFrame, G!Outcome
<1>6. CASE ~ G!Skips(g, r, time) /\ G!Starts(r) /\ r.eot
  <2>1. o = G!SingleFrameAssembly(r, time)
    BY <1>1, <1>6 DEF G!PushFrame
  <2>2. /\ o.transfer = G!Transfer(r.transfer_id, r, time, G!Parts(r))
        /\ o.gather.transfer_id = r.transfer_id
    BY <2>1 DEF G!SingleFrameAssembly, G!Outcome
  <2>3. Completes(o, r.transfer_id)
    BY <1>2, <2>2, TransferIsSome DEF Completes
  <2>4. QED
    BY <1>1, <2>2, <2>3
<1>7. CASE ~ G!Skips(g, r, time) /\ G!Starts(r) /\ ~ r.eot
  <2>1. o = G!AccumulateFirst(g, buf, r, time)
    BY <1>1, <1>7 DEF G!PushFrame
  <2>2. o.gather.state # "Assembled"
    BY <1>4, <2>1 DEF G!AccumulateFirst, G!Outcome
  <2>3. QED
    BY <1>1, <2>2
<1>8. CASE ~ G!Skips(g, r, time) /\ ~ G!Starts(r) /\ G!Continues(g, r, time) /\ ~ r.eot
  <2>1. o = G!AccumulateNext(g, buf, r)
    BY <1>1, <1>8 DEF G!PushFrame
  <2>2. o.gather.state # "Assembled"
    BY <1>4, <2>1 DEF G!AccumulateNext, G!Outcome, G!Gathers
  <2>3. QED
    BY <1>1, <2>2
<1>9. CASE ~ G!Skips(g, r, time) /\ ~ G!Starts(r) /\ G!Continues(g, r, time) /\ r.eot
  <2>1. o = G!FinishAssembly(g, buf, r) /\ g.state \in G!Accumulating
    BY <1>1, <1>9 DEF G!PushFrame, G!Continues
  <2>2. CASE r.part # NoPart /\ CrcMatches(g.acc \o G!Parts(r))
    <3>1. /\ o.gather = [g EXCEPT !.state = "Assembled", !.acc = << >>]
          /\ o.transfer = G!Transfer(g.transfer_id, r, g.sof_timestamp,
                                     g.acc \o G!Parts(r))
      BY <2>1, <2>2 DEF G!FinishAssembly, G!Outcome
    <3>2. o.gather.transfer_id = g.transfer_id
      BY <3>1 DEF G!Gathers
    <3>3. Completes(o, g.transfer_id)
      <4>1. g.sof_timestamp \in Nat /\ g.transfer_id \in Nat
        BY <2>1
      <4>2. PICK parts \in Seq(SessionParts) : parts = g.acc \o G!Parts(r)
        BY <1>3
      <4>3. o.transfer = G!Transfer(g.transfer_id, r, g.sof_timestamp, parts)
        BY <3>1, <4>2
      <4>4. /\ G!Transfer(g.transfer_id, r, g.sof_timestamp, parts) # None
            /\ G!Transfer(g.transfer_id, r, g.sof_timestamp, parts).id = g.transfer_id
        BY <4>1, TransferIsSome
      <4>5. QED
        BY <4>3, <4>4 DEF Completes
    <3>4. QED
      BY <1>1, <3>2, <3>3
  <2>3. CASE ~ (r.part # NoPart /\ CrcMatches(g.acc \o G!Parts(r)))
    <3>1. o.gather = G!StopAssembly(g)
      BY <2>1, <2>3 DEF G!FinishAssembly, G!Outcome
    <3>2. QED
      BY <1>1, <1>4, <3>1
  <2>4. QED
    BY <2>2, <2>3
<1>10. CASE ~ G!Skips(g, r, time) /\ ~ G!Starts(r) /\ ~ G!Continues(g, r, time)
  <2>1. o.gather = G!StopAssembly(g)
    BY <1>1, <1>10 DEF G!PushFrame, G!Outcome
  <2>2. QED
    BY <1>1, <1>4, <2>1
<1>11. QED
  BY <1>5, <1>6, <1>7, <1>8, <1>9, <1>10

\* The frames i to j that came are the first ones of the transfer, in order and in time.
IsUndisturbed(came, t, i, j) ==
    /\ i <= j
    /\ came[i].index = 1
    /\ \A k \in i .. j : came[k].transfer = t
    /\ \A k \in i + 1 .. j : came[k].index \in {came[k - 1].index, came[k - 1].index + 1}
    /\ came[j].time <= came[i].time + Timeout

HasCompleted(all, id) == \E d \in ToSet(all) : d.id = id

\* Whatever was there before: when frames have come undisturbed, the session has
\* completed their transfer; or there are more, and it has them all if nothing came since.
ProgressInv ==
    /\ gather.state = "Assembled" => HasCompleted(delivered, gather.transfer_id)
    /\ \A k \in DOMAIN arrived :
           arrived[k].index \in Nat \ {0} /\ arrived[k].time \in Nat /\ arrived[k].time <= now
    /\ \A t \in {1, 2} : \A i, j \in DOMAIN arrived :
           IsUndisturbed(arrived, t, i, j) =>
               \/ HasCompleted(delivered, TransferIds[t])
               \/ /\ ~ IsLast(case, t, arrived[j].index)
                  /\ j = Len(arrived) =>
                         IsAt(gather, case, t, arrived[j].index, arrived[i].time)


\* A frame that comes behind others: the run they are is that of the others before it.
LEMMA UndisturbedBefore ==
    ASSUME NEW came \in Seq(Arrivals), NEW e \in Arrivals, NEW t,
           \A k \in DOMAIN came : came[k].time <= e.time,
           NEW i \in DOMAIN came,
           IsUndisturbed(Append(came, e), t, i, Len(came) + 1)
    PROVE  /\ IsUndisturbed(came, t, i, Len(came)) /\ Len(came) \in DOMAIN came
           /\ e.transfer = t
           /\ e.index \in {came[Len(came)].index, came[Len(came)].index + 1}
           /\ e.time <= came[i].time + Timeout
<1>1. PICK n \in Nat, all \in Seq(Arrivals) : n = Len(came) /\ all = Append(came, e)
  BY LenProperties, AppendProperties
<1>2. /\ DOMAIN came = 1 .. n
      /\ \A k \in 1 .. n : all[k] = came[k]
      /\ all[n + 1] = e
  BY <1>1, LenProperties, AppendProperties
<1>3. i \in 1 .. n /\ n \in DOMAIN came /\ i \in Nat
  BY <1>2
<1>4. /\ all[i].index = 1
      /\ \A k \in i .. n + 1 : all[k].transfer = t
      /\ \A k \in i + 1 .. n + 1 : all[k].index \in {all[k - 1].index, all[k - 1].index + 1}
      /\ all[n + 1].time <= all[i].time + Timeout
  BY <1>1 DEF IsUndisturbed
<1>5. e.transfer = t /\ e.time <= came[i].time + Timeout
  <2>1. n + 1 \in i .. n + 1
    BY <1>3
  <2>2. QED
    BY <1>2, <1>3, <1>4, <2>1
<1>6. e.index \in {came[n].index, came[n].index + 1}
  <2>1. n + 1 \in i + 1 .. n + 1 /\ n + 1 - 1 = n /\ n \in 1 .. n
    BY <1>3
  <2>2. QED
    BY <1>2, <1>4, <2>1
<1>7. IsUndisturbed(came, t, i, n)
  <2>1. came[i].index = 1 /\ i <= n
    BY <1>2, <1>3, <1>4
  <2>2. \A k \in i .. n : came[k].transfer = t
    BY <1>2, <1>3, <1>4
  <2>3. ASSUME NEW k \in i + 1 .. n
        PROVE  came[k].index \in {came[k - 1].index, came[k - 1].index + 1}
    <3>1. k \in i + 1 .. n + 1 /\ k \in 1 .. n /\ k - 1 \in 1 .. n
      BY <1>3
    <3>2. QED
      BY <1>2, <1>4, <3>1
  <2>4. came[n].time <= came[i].time + Timeout
    <3>1. came[n].time <= e.time /\ came[n] \in Arrivals /\ came[i] \in Arrivals
      BY <1>3, ElementOfSeq
    <3>2. Timeout \in Nat /\ e.time \in Nat /\ came[n].time \in Nat /\ came[i].time \in Nat
      BY <3>1, LinkAssumption DEF Arrivals
    <3>3. QED
      BY <1>5, <3>1, <3>2
  <2>5. QED
    BY <2>1, <2>2, <2>3, <2>4 DEF IsUndisturbed
<1>8. QED
  BY <1>1, <1>3, <1>5, <1>6, <1>7

\* A run of frames that came before is one of them.
LEMMA UndisturbedEarlier ==
    ASSUME NEW came \in Seq(Arrivals), NEW e \in Arrivals, NEW t,
           NEW i \in DOMAIN came, NEW j \in DOMAIN came,
           IsUndisturbed(Append(came, e), t, i, j)
    PROVE  IsUndisturbed(came, t, i, j)
<1>1. PICK n \in Nat, all \in Seq(Arrivals) : n = Len(came) /\ all = Append(came, e)
  BY LenProperties, AppendProperties
<1>2. DOMAIN came = 1 .. n /\ \A k \in 1 .. n : all[k] = came[k]
  BY <1>1, LenProperties, AppendProperties
<1>3. i \in 1 .. n /\ j \in 1 .. n
  BY <1>2
<1>4. /\ i <= j /\ all[i].index = 1
      /\ \A k \in i .. j : all[k].transfer = t
      /\ \A k \in i + 1 .. j : all[k].index \in {all[k - 1].index, all[k - 1].index + 1}
      /\ all[j].time <= all[i].time + Timeout
  BY <1>1 DEF IsUndisturbed
<1>5. \A k \in i .. j : came[k].transfer = t
  BY <1>2, <1>3, <1>4
<1>6. ASSUME NEW k \in i + 1 .. j
      PROVE  came[k].index \in {came[k - 1].index, came[k - 1].index + 1}
  <2>1. k \in 1 .. n /\ k - 1 \in 1 .. n
    BY <1>3
  <2>2. QED
    BY <1>2, <1>4, <2>1
<1>7. came[i].index = 1 /\ came[j].time <= came[i].time + Timeout
  BY <1>2, <1>3, <1>4
<1>8. QED
  BY <1>4, <1>5, <1>6, <1>7 DEF IsUndisturbed


LEMMA ProgressArrives ==
    ASSUME SenderInv, ScatterInv, ReceiverInv, ProgressInv, now \in Nat, now' = now,
           case' = case, NEW f \in FetchedFrames, f.transfer \in {1, 2}, NEW h,
           h.priority \in Nat, Arrive(f, h)
    PROVE  ProgressInv'
<1>1. PICK r, u, x, e : /\ r = Received(f, h) /\ u = f.transfer /\ x = f.index
                        /\ e = [transfer |-> u, index |-> x, time |-> now]
  OBVIOUS
<1>2. PICK o : o = G!PushFrame(gather, content, r, now)
  OBVIOUS
<1>3. /\ gather' = o.gather /\ arrived' = Append(arrived, e)
      /\ delivered' = IF o.transfer = None THEN delivered ELSE Append(delivered, o.transfer)
  BY <1>1, <1>2 DEF Arrive
<1>4. u \in {1, 2} /\ u \in Transfers /\ case \in Cases /\ IsFrameAt(r, case, u, x)
  BY <1>1, SentFrameAt DEF SenderInv, Transfers
<1>5. /\ r.transfer_id \in Nat /\ r.part \in SessionParts \cup {NoPart}
      /\ r.priority \in Nat /\ x \in Nat \ {0}
  BY <1>1, <1>4, ReceivedFrame DEF IsFrameAt
<1>6. /\ gather \in G!Gathers(Nat, SessionParts) /\ arrived \in Seq(Arrivals)
      /\ delivered \in Seq(ToSet(delivered))
  BY DEF ReceiverInv
<1>7. gather.state \in G!Accumulating =>
          gather.sof_timestamp \in Nat /\ gather.transfer_id \in Nat
  <2>1. SUFFICES ASSUME gather.state \in G!Accumulating
                 PROVE  gather.sof_timestamp \in Nat /\ gather.transfer_id \in Nat
    OBVIOUS
  <2>2. PICK t \in {1, 2} :
            /\ gather.transfer_id = TransferIds[t]
            /\ [transfer |-> t, index |-> 1, time |-> gather.sof_timestamp]
                   \in ToSet(arrived)
    BY <2>1 DEF ReceiverInv, IsBegun
  <2>3. [transfer |-> t, index |-> 1, time |-> gather.sof_timestamp] \in Arrivals
    BY <1>6, <2>2, ElementOfSeq DEF ToSet
  <2>4. t \in Transfers
    BY DEF Transfers
  <2>5. QED
    BY <1>4, <2>2, <2>3, <2>4, CaseFacts DEF Arrivals
<1>8. \A id : HasCompleted(delivered, id) \/ Completes(o, id) => HasCompleted(delivered', id)
  <2>1. CASE o.transfer = None
    BY <1>3, <2>1 DEF Completes
  <2>2. CASE o.transfer # None
    <3>1. PICK all : all = ToSet(delivered) \cup {o.transfer}
      OBVIOUS
    <3>2. delivered \in Seq(all) /\ o.transfer \in all
      BY <1>6, <3>1, SeqMonotonic
    <3>3. ToSet(delivered') = all
      BY <1>3, <2>2, <3>1, <3>2, AppendElements
    <3>4. QED
      BY <3>1, <3>3 DEF HasCompleted, Completes
  <2>3. QED
    BY <2>1, <2>2
<1>9. o.gather.state = "Assembled" => HasCompleted(delivered', o.gather.transfer_id)
  <2>1. o.gather.state = "Assembled" =>
            o.gather = gather \/ Completes(o, o.gather.transfer_id)
    BY <1>2, <1>5, <1>6, <1>7, AssemblyIsReported
  <2>2. QED
    BY <1>8, <2>1 DEF ProgressInv
<1>10. PICK n \in Nat : n = Len(arrived)
  BY <1>6, LenProperties
<1>11. /\ DOMAIN arrived = 1 .. n /\ DOMAIN arrived' = 1 .. n + 1
       /\ Len(arrived') = n + 1
       /\ \A k \in 1 .. n : arrived'[k] = arrived[k]
       /\ \A k \in 1 .. n : arrived[k] \in Arrivals
       /\ arrived'[n + 1] = e /\ e \in Arrivals
  <2>1. e \in Arrivals
    BY <1>1, <1>4, <1>5 DEF Arrivals
  <2>2. DOMAIN arrived = 1 .. n
    BY <1>6, <1>10, LenProperties
  <2>3. /\ arrived' \in Seq(Arrivals) /\ Len(arrived') = n + 1
        /\ \A k \in 1 .. n : arrived'[k] = arrived[k]
        /\ arrived'[n + 1] = e
    BY <1>3, <1>6, <1>10, <2>1, AppendProperties
  <2>4. DOMAIN arrived' = 1 .. n + 1
    BY <2>3, LenProperties
  <2>5. \A k \in 1 .. n : arrived[k] \in Arrivals
    BY <1>6, <2>2, ElementOfSeq
  <2>6. QED
    BY <2>1, <2>2, <2>3, <2>4, <2>5
<1>12. \A k \in DOMAIN arrived' :
           /\ arrived'[k].index \in Nat \ {0} /\ arrived'[k].time \in Nat
           /\ arrived'[k].time <= now
  <2>1. e.index \in Nat \ {0} /\ e.time \in Nat /\ e.time <= now
    BY <1>1, <1>5
  <2>2. \A k \in 1 .. n : /\ arrived[k].index \in Nat \ {0} /\ arrived[k].time \in Nat
                          /\ arrived[k].time <= now
    BY <1>11 DEF ProgressInv
  <2>3. QED
    BY <1>11, <2>1, <2>2
<1>13. ASSUME x = 1, NEW since \in Nat, since <= now
       PROVE  \/ HasCompleted(delivered', TransferIds[u])
              \/ ~ IsLast(case, u, 1) /\ IsAt(o.gather, case, u, 1, since)
  <2>1. \/ gather.state = "Assembled" /\ gather.transfer_id = TransferIds[u]
        \/ Completes(o, TransferIds[u])
        \/ ~ IsLast(case, u, 1) /\ IsAt(o.gather, case, u, 1, now)
    BY <1>2, <1>4, <1>13, FirstArrives
  <2>2. IsAt(o.gather, case, u, 1, now) => IsAt(o.gather, case, u, 1, since)
    BY <1>13 DEF IsAt
  <2>3. QED
    BY <1>8, <2>1, <2>2 DEF ProgressInv
<1>14. ASSUME NEW t \in {1, 2}, NEW i \in DOMAIN arrived', NEW j \in DOMAIN arrived',
              IsUndisturbed(arrived', t, i, j)
       PROVE  \/ HasCompleted(delivered', TransferIds[t])
              \/ /\ ~ IsLast(case, t, arrived'[j].index)
                 /\ j = Len(arrived') =>
                        IsAt(o.gather, case, t, arrived'[j].index, arrived'[i].time)
  <2>1. CASE j \in 1 .. n
    <3>1. i \in 1 .. n /\ j # n + 1
      BY <1>11, <1>14, <2>1 DEF IsUndisturbed
    <3>2. IsUndisturbed(arrived, t, i, j)
      BY <1>3, <1>6, <1>11, <1>14, <2>1, <3>1, UndisturbedEarlier
    <3>3. HasCompleted(delivered, TransferIds[t]) \/ ~ IsLast(case, t, arrived[j].index)
      BY <1>11, <2>1, <3>1, <3>2 DEF ProgressInv
    <3>4. QED
      BY <1>8, <1>11, <2>1, <3>1, <3>3
  <2>2. CASE j = n + 1 /\ i = n + 1
    <3>1. e.index = 1 /\ e.transfer = t
      <4>1. arrived'[i].index = 1 /\ i \in i .. j
        BY <1>10, <2>2, <1>14 DEF IsUndisturbed
      <4>2. arrived'[i].transfer = t
        BY <1>14, <4>1 DEF IsUndisturbed
      <4>3. QED
        BY <1>11, <2>2, <4>1, <4>2
    <3>2. x = 1 /\ t = u /\ e.time = now
      BY <1>1, <3>1
    <3>3. \/ HasCompleted(delivered', TransferIds[t])
          \/ ~ IsLast(case, t, 1) /\ IsAt(o.gather, case, t, 1, now)
      BY <1>13, <3>2
    <3>4. QED
      BY <1>11, <2>2, <3>1, <3>2, <3>3
  <2>3. CASE j = n + 1 /\ i \in 1 .. n
    <3>1. /\ IsUndisturbed(arrived, t, i, n) /\ n \in 1 .. n
          /\ e.transfer = t
          /\ e.index \in {arrived[n].index, arrived[n].index + 1}
          /\ e.time <= arrived[i].time + Timeout
      <4>1. \A k \in DOMAIN arrived : arrived[k].time <= e.time
        BY <1>1 DEF ProgressInv
      <4>2. IsUndisturbed(Append(arrived, e), t, i, Len(arrived) + 1)
        BY <1>3, <1>10, <1>14, <2>3
      <4>3. i \in DOMAIN arrived /\ e \in Arrivals /\ arrived \in Seq(Arrivals)
        BY <1>6, <1>11, <2>3
      <4>4. /\ IsUndisturbed(arrived, t, i, Len(arrived)) /\ Len(arrived) \in DOMAIN arrived
            /\ e.transfer = t
            /\ e.index \in {arrived[Len(arrived)].index, arrived[Len(arrived)].index + 1}
            /\ e.time <= arrived[i].time + Timeout
        BY <4>1, <4>2, <4>3, UndisturbedBefore
      <4>5. QED
        BY <1>10, <1>11, <4>4
    <3>2. PICK m, since : m = arrived[n].index /\ since = arrived[i].time
      OBVIOUS
    <3>3. /\ m \in Nat \ {0} /\ since \in Nat /\ since <= now
          /\ x \in {m, m + 1} /\ t = u /\ now <= since + Timeout
          /\ arrived'[i].time = since /\ arrived'[j].index = x
      BY <1>1, <1>11, <2>3, <3>1, <3>2 DEF ProgressInv
    <3>4. \/ HasCompleted(delivered, TransferIds[t])
          \/ ~ IsLast(case, t, m) /\ IsAt(gather, case, t, m, since)
      BY <1>10, <1>11, <2>3, <3>1, <3>2 DEF ProgressInv
    <3>5. SUFFICES ASSUME ~ IsLast(case, t, m), IsAt(gather, case, t, m, since)
                   PROVE  \/ HasCompleted(delivered', TransferIds[t])
                          \/ ~ IsLast(case, t, x) /\ IsAt(o.gather, case, t, x, since)
      BY <1>8, <3>3, <3>4
    <3>6. CASE x = 1
      BY <1>13, <3>3, <3>6
    <3>7. CASE x = m /\ x # 1
      <4>1. o.gather = gather
        BY <1>2, <1>4, <3>3, <3>5, <3>7, FrameRepeats
      <4>2. QED
        BY <3>5, <3>7, <4>1
    <3>8. CASE x = m + 1
      BY <1>2, <1>4, <1>6, <1>8, <3>3, <3>5, <3>8, NextArrives
    <3>9. QED
      BY <3>3, <3>6, <3>7, <3>8
  <2>4. QED
    <3>1. i \in 1 .. n + 1 /\ j \in 1 .. n + 1 /\ i <= j
      BY <1>11, <1>14 DEF IsUndisturbed
    <3>2. (j \in 1 .. n) \/ (j = n + 1 /\ i = n + 1) \/ (j = n + 1 /\ i \in 1 .. n)
      BY <1>10, <3>1
    <3>3. QED
      BY <2>1, <2>2, <2>3, <3>2
<1>15. QED
  BY <1>3, <1>9, <1>12, <1>14 DEF ProgressInv

LEMMA ProgressInvInit == LinkInit => ProgressInv
<1>1. SUFFICES ASSUME LinkInit
               PROVE  ProgressInv
  OBVIOUS
<1>2. gather = G!Default /\ arrived = << >>
  BY <1>1 DEF LinkInit
<1>3. gather.state # "Assembled"
  BY <1>2 DEF G!Default
<1>4. DOMAIN arrived = {}
  BY <1>2, EmptySeq
<1>5. QED
  BY <1>3, <1>4 DEF ProgressInv

LEMMA ProgressKept ==
    ASSUME ProgressInv, UNCHANGED << gather, arrived, delivered, case >>,
           now \in Nat, now' \in Nat, now <= now'
    PROVE  ProgressInv'
<1>1. /\ gather' = gather /\ arrived' = arrived /\ delivered' = delivered
      /\ case' = case
  OBVIOUS
<1>2. \A k \in DOMAIN arrived' : /\ arrived'[k].index \in Nat \ {0}
                                 /\ arrived'[k].time \in Nat /\ arrived'[k].time <= now'
  <2>1. ASSUME NEW k \in DOMAIN arrived
        PROVE  /\ arrived[k].index \in Nat \ {0}
               /\ arrived[k].time \in Nat /\ arrived[k].time <= now'
    <3>1. /\ arrived[k].index \in Nat \ {0}
          /\ arrived[k].time \in Nat /\ arrived[k].time <= now
      BY DEF ProgressInv
    <3>2. QED
      BY <3>1
  <2>2. QED
    BY <1>1, <2>1
<1>3. QED
  BY <1>1, <1>2 DEF ProgressInv

LEMMA ProgressDelivers ==
    ASSUME SenderInv, ScatterInv, ReceiverInv, ProgressInv, now \in Nat, now' = now,
           NEW f \in FetchedFrames, NEW id, Deliver(f, id), case' = case,
           id = f.id \/ \E bit \in StrangeBits : id = SymDiff(f.id, {bit})
    PROVE  ProgressInv'
<1>1. PICK h : h = LoadFrameHeader(case, id)
  OBVIOUS
<1>2. CASE ~ IsOfSession(case, h)
  <2>1. UNCHANGED << gather, arrived, delivered, case >>
    BY <1>1, <1>2 DEF Deliver, Miss
  <2>2. now' \in Nat /\ now <= now'
    OBVIOUS
  <2>3. QED
    BY <2>1, <2>2, ProgressKept
<1>3. CASE IsOfSession(case, h)
  <2>1. Arrive(f, h)
    BY <1>1, <1>3 DEF Deliver
  <2>2. case \in Cases /\ f.transfer \in Transfers /\ f = RawFrame(f.transfer, f.index)
    BY DEF SenderInv, FetchedFrames, Known
  <2>3. f.id = CanIds[HeaderOf(f.transfer)]
    <3>1. f.index \in Nat \ {0}
      BY DEF FetchedFrames, Known
    <3>2. QED
      BY <2>2, <3>1, KnownFrame
  <2>4. id \in Altered(f.id) /\ IsOwn(case, id)
    BY <1>1, <1>3 DEF Altered, IsOwn
  <2>5. f.transfer \in {1, 2}
    <3>1. ASSUME f.transfer = 3
          PROVE  FALSE
      <4>1. f.id = CanIds[Urgent]
        BY <2>3, <3>1 DEF HeaderOf
      <4>2. ~ IsOwn(case, id)
        BY <2>2, <2>4, <4>1, LinkAssumption
      <4>3. QED
        BY <2>4, <4>2
    <3>2. QED
      BY <2>2, <3>1 DEF Transfers
  <2>6. f.id = CanIds[case.header]
    BY <2>3, <2>5 DEF HeaderOf
  <2>7. case.header.priority \in Nat
    <3>1. case.header \in Headers
      BY <2>2 DEF Headers
    <3>2. QED
      BY <3>1, LinkAssumption
  <2>8. h.priority \in Nat
    <3>1. CASE id = f.id
      <4>1. h = case.header
        BY <1>1, <2>2, <2>6, <3>1, LinkAssumption
      <4>2. QED
        BY <2>7, <4>1
    <3>2. ASSUME NEW bit \in StrangeBits, id = SymDiff(f.id, {bit})
          PROVE  h.priority \in Nat
      <4>1. LoadFrameHeader(case, id).priority
                \in IF bit \in Priority THEN Nat ELSE {case.header.priority}
        BY <2>2, <2>4, <2>6, <3>2, LinkAssumption
      <4>2. QED
        BY <1>1, <2>7, <4>1
    <3>3. QED
      BY <3>1, <3>2
  <2>9. QED
    BY <2>1, <2>5, <2>8, ProgressArrives
<1>4. QED
  BY <1>2, <1>3

LEMMA ProgressInvStep ==
    LinkIInv /\ ScatterInv /\ ReceiverInv /\ ProgressInv /\ [LinkNext]_allVars
        => ProgressInv'
<1>1. SUFFICES ASSUME LinkIInv, ScatterInv, ReceiverInv, ProgressInv, [LinkNext]_allVars
               PROVE  ProgressInv'
  OBVIOUS
<1>2. SenderInv /\ now \in Nat /\ boxes \subseteq FetchedFrames
  BY <1>1, Bounds DEF LinkIInv, TaskInv, PlacesInv
<1>3. ASSUME UNCHANGED << gather, arrived, delivered, case, now >>
      PROVE  ProgressInv'
  <2>1. now' \in Nat /\ now <= now' /\ UNCHANGED << gather, arrived, delivered, case >>
    BY <1>2, <1>3
  <2>2. QED
    BY <1>1, <1>2, <2>1, ProgressKept
<1>4. ASSUME NEW t \in Transfers, Publish(t)
      PROVE  ProgressInv'
  BY <1>3, <1>4 DEF Publish
<1>5. ASSUME NEW t \in Transfers, FetchFrame(t)
      PROVE  ProgressInv'
  BY <1>3, <1>5 DEF FetchFrame, Fetch
<1>6. CASE ExpireFrames
  BY <1>3, <1>6 DEF ExpireFrames, Expire
<1>7. CASE WriteFrame
  BY <1>3, <1>7 DEF WriteFrame, Write
<1>8. ASSUME NEW f \in boxes, Transmit(f)
      PROVE  ProgressInv'
  <2>1. f \in FetchedFrames /\ case' = case /\ now' = now
    BY <1>2, <1>8 DEF Transmit
  <2>2. CASE Deliver(f, f.id)
    BY <1>1, <1>2, <2>1, <2>2, ProgressDelivers
  <2>3. CASE Miss
    BY <1>3, <2>1, <2>3 DEF Miss
  <2>4. QED
    BY <1>8, <2>2, <2>3 DEF Transmit
<1>9. ASSUME NEW f \in boxes, NEW bit \in StrangeBits, Strange(f, bit)
      PROVE  ProgressInv'
  <2>1. PICK id : id = SymDiff(f.id, {bit})
    OBVIOUS
  <2>2. f \in FetchedFrames /\ Deliver(f, id) /\ case' = case /\ now' = now
    BY <1>2, <1>9, <2>1 DEF Strange
  <2>3. QED
    BY <1>1, <1>2, <2>1, <2>2, ProgressDelivers
<1>10. CASE TickLink
  <2>1. now' = now + 1 /\ UNCHANGED << gather, arrived, delivered, case >>
    BY <1>10 DEF TickLink, Tick, linkVars
  <2>2. now' \in Nat /\ now <= now'
    BY <1>2, <2>1
  <2>3. QED
    BY <1>1, <1>2, <2>1, <2>2, ProgressKept
<1>11. CASE UNCHANGED allVars
  BY <1>3, <1>11 DEF allVars, linkVars
<1>12. QED
  BY <1>1, <1>4, <1>5, <1>6, <1>7, <1>8, <1>9, <1>10, <1>11 DEF LinkNext

\* A transfer whose frames come one after the other and in time is completed, whatever came
\* before it, for transfers of any lengths, with frames that are lost, repeated or of other
\* senders: Gather::push_frame starts anew at a first frame unless it has completed that
\* transfer, takes what Scatter::fetch_frame_data returned in turn and passes over what is
\* repeated; and what it has of the transfer in the end matches the CRC.
THEOREM UndisturbedTransfersComplete == LinkSpec => []UndisturbedIsDelivered
<1>1. LinkInit => LinkIInv /\ ScatterInv /\ ReceiverInv /\ ProgressInv
  BY LinkIInvInit, ScatterInvInit, ReceiverInvInit, ProgressInvInit
<1>2. (LinkIInv /\ ScatterInv /\ ReceiverInv /\ ProgressInv) /\ [LinkNext]_allVars
          => (LinkIInv /\ ScatterInv /\ ReceiverInv /\ ProgressInv)'
  <2>1. LinkIInv => SenderInv
    BY DEF LinkIInv
  <2>2. QED
    BY <2>1, LinkIInvStep, ScatterInvStep, ReceiverInvStep, ProgressInvStep
<1>3. LinkIInv /\ ScatterInv /\ ReceiverInv /\ ProgressInv => UndisturbedIsDelivered
  <2>1. SUFFICES ASSUME ScatterInv, ProgressInv, NEW t \in {1, 2},
                        NEW i \in DOMAIN arrived, NEW j \in DOMAIN arrived,
                        i <= j, IsExhausted(scatter[t]), IsRun(t, i, j),
                        arrived[j].time <= arrived[i].time + Timeout
                 PROVE  \E k \in DOMAIN delivered : delivered[k].id = TransferIds[t]
    BY DEF UndisturbedIsDelivered
  <2>2. IsUndisturbed(arrived, t, i, j) /\ arrived[j].index = Len(sent[t])
    BY <2>1 DEF IsRun, IsUndisturbed
  <2>3. IsLast(case, t, arrived[j].index)
    <3>1. t \in Transfers
      BY DEF Transfers
    <3>2. scatter[t] = ScatterAt(case, t, Len(sent[t]))
      BY <2>1, <3>1 DEF ScatterInv
    <3>3. QED
      BY <2>1, <2>2, <3>2 DEF IsLast
  <2>4. HasCompleted(delivered, TransferIds[t])
    BY <2>1, <2>2, <2>3 DEF ProgressInv
  <2>5. QED
    BY <2>4 DEF HasCompleted, ToSet
<1>4. QED
  BY <1>1, <1>2, <1>3, PTL DEF LinkSpec

===============================================================================
