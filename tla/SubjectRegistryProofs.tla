------------------------ MODULE SubjectRegistryProofs ------------------------
(***************************************************************************)
(* The inductive invariants of SubjectRegistry and the theorems that       *)
(* follow from them, for any entries, subjects and number of slots: the    *)
(* tree and its flags, the driver's filter, and the order of a push.       *)
(***************************************************************************)
EXTENDS SubjectRegistry, SequenceLemmas

\* The filter task holds an update exactly while it applies one, or if it has
\* panicked over an AddSubject.
UpdateInHand ==
    /\ driver \in {"polling", "waiting"} <=> update.kind = "None"
    /\ driver = "panicked" => update.kind = "AddSubject"

\* A frame is due to no entry, or to an active one of its subject.
PushPtrActive ==
    /\ frame_subject = NoSubject => next_push_ptr = NoEntry
    /\ next_push_ptr # NoEntry =>
           next_push_ptr \in Active /\ SubjectOf[next_push_ptr] = frame_subject

\* The invariant of the tree, the lists and the flags. It is inductive: the
\* flags need the order of the tree, the tree's types need the gaps to be
\* nonempty, and the gaps need the heads.
IInv ==
    /\ TypeOK
    /\ TreeInOrder
    /\ HeadIsFirst
    /\ LinksMatchFlags
    /\ CleanUpGapsNonEmpty
    /\ PushPtrActive
    /\ UpdateInHand

\* The subject is in the stale gap in front of head h: smaller than h's, and no
\* active entry has a subject between them.
InGapBefore(h, s) ==
    /\ s < SubjectOf[h]
    /\ \A x \in Active : SubjectOf[x] < s \/ SubjectOf[x] >= SubjectOf[h]

InLastGap(s) == \A x \in Active : SubjectOf[x] < s

\* A removal is on its way for the subject, or it is in a gap that is to be cleaned up.
RemovalScheduled(s) ==
    \/ update.kind = "RemoveSubjectRange" /\ s \in update.first .. update.last
    \/ \E h \in ToSet(clean_up_queue) : InGapBefore(h, s)
    \/ clean_up_last /\ InLastGap(s)

\* The subjects that take a slot, or will when the update in hand is applied.
Slots == filter \cup {s \in {update.first} : update.kind = "AddSubject"}

\* A subject that takes a slot has an active subscriber, or its removal is scheduled.
StaleSlotIsScheduled ==
    \A s \in Slots : HasSubject(Active, s) \/ RemovalScheduled(s)

\* Whether a is in front of b in the tree.
Before(a, b) ==
    \E i, j \in DOMAIN active_entry_tree :
        i < j /\ active_entry_tree[i] = a /\ active_entry_tree[j] = b

\* What was delivered lies in front of the entry that comes next, and what is owed
\* and not delivered at it or behind it.
PushInOrder ==
    /\ delivered \cup owed \subseteq {e \in Active : SubjectOf[e] = frame_subject}
    /\ \A e \in delivered : next_push_ptr # NoEntry => Before(e, next_push_ptr)
    /\ \A e \in owed \ delivered :
           next_push_ptr # NoEntry /\ (e = next_push_ptr \/ Before(next_push_ptr, e))

FilterInv ==
    /\ FilterCoversActive
    /\ StaleSlotIsScheduled

-----------------------------------------------------------------------------
(* The tree.                                                               *)

\* The elements and positions of the active tree.
LEMMA TreeElements ==
    ASSUME TypeOK
    PROVE  /\ Len(active_entry_tree) \in Nat
           /\ DOMAIN active_entry_tree = 1 .. Len(active_entry_tree)
           /\ Active \subseteq Entries
           /\ \A i \in 1 .. Len(active_entry_tree) :
                  /\ active_entry_tree[i] \in Active
                  /\ active_entry_tree[i] \in Entries
                  /\ SubjectOf[active_entry_tree[i]] \in Nat
                  /\ SubjectOf[active_entry_tree[i]] <= MaxSubject
           /\ \A e \in Active : \E i \in 1 .. Len(active_entry_tree) :
                  active_entry_tree[i] = e
<1>1. active_entry_tree \in Seq(Entries)
  BY DEF TypeOK
<1>2. /\ ToSet(active_entry_tree) \subseteq Entries
      /\ DOMAIN active_entry_tree = 1 .. Len(active_entry_tree)
      /\ Len(active_entry_tree) \in Nat
      /\ \A i \in 1 .. Len(active_entry_tree) :
             /\ active_entry_tree[i] \in ToSet(active_entry_tree)
             /\ active_entry_tree[i] \in Entries
      /\ \A e \in ToSet(active_entry_tree) :
             \E i \in 1 .. Len(active_entry_tree) : active_entry_tree[i] = e
  BY <1>1, ToSetElements
<1>3. \A e \in Entries : SubjectOf[e] \in Nat /\ SubjectOf[e] <= MaxSubject
  BY ConstantsAssumption DEF Subjects
<1>4. QED
  BY <1>2, <1>3 DEF Active

\* IndexOf returns the one position of an active entry.
LEMMA IndexOfActive ==
    ASSUME TypeOK, TreeInOrder, NEW e \in Active
    PROVE  /\ IndexOf(active_entry_tree, e) \in 1 .. Len(active_entry_tree)
           /\ active_entry_tree[IndexOf(active_entry_tree, e)] = e
           /\ \A i \in 1 .. Len(active_entry_tree) :
                  active_entry_tree[i] = e => i = IndexOf(active_entry_tree, e)
<1>1. PICK i \in 1 .. Len(active_entry_tree) : active_entry_tree[i] = e
  BY TreeElements
<1>2. DOMAIN active_entry_tree = 1 .. Len(active_entry_tree)
  BY TreeElements
<1>3. /\ IndexOf(active_entry_tree, e) \in DOMAIN active_entry_tree
      /\ active_entry_tree[IndexOf(active_entry_tree, e)] = e
  BY <1>1, <1>2 DEF IndexOf
<1>4. \A a, b \in DOMAIN active_entry_tree :
          active_entry_tree[a] = active_entry_tree[b] => a = b
  BY DEF TreeInOrder, IsInjective
<1>5. QED
  BY <1>2, <1>3, <1>4

\* Taking an entry out of the tree.
LEMMA WithoutActive ==
    ASSUME TypeOK, TreeInOrder, NEW e \in Active, NEW k, NEW rest,
           k = IndexOf(active_entry_tree, e), rest = Without(active_entry_tree, e)
    PROVE  /\ rest \in Seq(Entries)
           /\ Len(rest) = Len(active_entry_tree) - 1
           /\ DOMAIN rest = 1 .. Len(rest)
           /\ \A i \in 1 .. Len(rest) :
                  rest[i] = IF i < k THEN active_entry_tree[i]
                                     ELSE active_entry_tree[i + 1]
           /\ ToSet(rest) = Active \ {e}
           /\ IsInjective(rest)
           /\ \A i, j \in DOMAIN rest :
                  i < j => SubjectOf[rest[i]] <= SubjectOf[rest[j]]
<1>1. /\ active_entry_tree \in Seq(Entries)
      /\ IsInjective(active_entry_tree)
      /\ Len(active_entry_tree) \in Nat
      /\ DOMAIN active_entry_tree = 1 .. Len(active_entry_tree)
  BY TreeElements DEF TypeOK, TreeInOrder
<1>2. k \in 1 .. Len(active_entry_tree) /\ active_entry_tree[k] = e
  BY IndexOfActive
<1>3. rest = RemoveAt(active_entry_tree, k)
  BY DEF Without
<1>4. /\ rest \in Seq(Entries)
      /\ Len(rest) = Len(active_entry_tree) - 1
      /\ \A i \in 1 .. Len(rest) :
             rest[i] = IF i < k THEN active_entry_tree[i]
                                ELSE active_entry_tree[i + 1]
  BY <1>1, <1>2, <1>3, RemoveAtProperties
<1>5. ToSet(rest) = Active \ {e} /\ IsInjective(rest)
  BY <1>1, <1>2, <1>3, RemoveAtElements DEF Active
<1>6. DOMAIN rest = 1 .. Len(rest)
  BY <1>4, LenProperties
<1>7. ASSUME NEW i \in DOMAIN rest, NEW j \in DOMAIN rest, i < j
      PROVE  SubjectOf[rest[i]] <= SubjectOf[rest[j]]
  <2>1. PICK a \in 1 .. Len(active_entry_tree), b \in 1 .. Len(active_entry_tree) :
            a < b /\ rest[i] = active_entry_tree[a] /\ rest[j] = active_entry_tree[b]
    <3>1. CASE j < k
      BY <1>1, <1>2, <1>4, <1>6, <1>7, <3>1
    <3>2. CASE i < k /\ j >= k
      <4>1. i < j + 1 /\ rest[i] = active_entry_tree[i] /\ rest[j] = active_entry_tree[j + 1]
        BY <1>1, <1>2, <1>4, <1>6, <1>7, <3>2
      <4>2. QED
        BY <1>1, <1>4, <1>6, <4>1
    <3>3. CASE i >= k
      <4>1. /\ i + 1 < j + 1
            /\ rest[i] = active_entry_tree[i + 1]
            /\ rest[j] = active_entry_tree[j + 1]
        BY <1>1, <1>2, <1>4, <1>6, <1>7, <3>3
      <4>2. QED
        BY <1>1, <1>4, <1>6, <4>1
    <3>4. QED
      BY <1>1, <1>2, <1>4, <1>6, <3>1, <3>2, <3>3
  <2>2. QED
    BY <1>1, <2>1 DEF TreeInOrder
<1>8. QED
  BY <1>4, <1>5, <1>6, <1>7

\* insert_after at the upper bound: behind every entry whose subject is not
\* larger, and before all others.
LEMMA InsertPosProperties ==
    ASSUME TypeOK, TreeInOrder, NEW s \in Nat
    PROVE  /\ InsertPos(s) \in 1 .. Len(active_entry_tree) + 1
           /\ \A i \in 1 .. Len(active_entry_tree) :
                  i < InsertPos(s) <=> SubjectOf[active_entry_tree[i]] <= s
           /\ HasSubject(Active, s) =>
                  /\ InsertPos(s) > 1
                  /\ SubjectOf[active_entry_tree[InsertPos(s) - 1]] = s
<1> DEFINE n == Len(active_entry_tree)
           T == {n + 1} \cup
                    {i \in DOMAIN active_entry_tree : SubjectOf[active_entry_tree[i]] > s}
<1>1. /\ n \in Nat
      /\ DOMAIN active_entry_tree = 1 .. n
      /\ \A i \in 1 .. n : SubjectOf[active_entry_tree[i]] \in Nat
      /\ \A e \in Active : \E i \in 1 .. n : active_entry_tree[i] = e
  BY TreeElements
<1>2. InsertPos(s) \in T /\ \A y \in T : InsertPos(s) <= y
  <2>1. T \subseteq Nat /\ T # {}
    BY <1>1
  <2>2. QED
    BY <2>1, MinIsLeast DEF InsertPos
<1>3. InsertPos(s) \in 1 .. n + 1
  BY <1>1, <1>2
<1>4. ASSUME NEW i \in 1 .. n
      PROVE  i < InsertPos(s) <=> SubjectOf[active_entry_tree[i]] <= s
  <2>1. ASSUME i < InsertPos(s), SubjectOf[active_entry_tree[i]] > s
        PROVE  FALSE
    <3>1. i \in T
      BY <1>1, <2>1
    <3>2. QED
      BY <1>1, <1>2, <1>3, <2>1, <3>1
  <2>2. ASSUME i >= InsertPos(s)
        PROVE  SubjectOf[active_entry_tree[i]] > s
    <3>1. /\ InsertPos(s) \in 1 .. n
          /\ SubjectOf[active_entry_tree[InsertPos(s)]] > s
      BY <1>1, <1>2, <1>3, <2>2
    <3>2. SubjectOf[active_entry_tree[InsertPos(s)]] <= SubjectOf[active_entry_tree[i]]
      BY <1>1, <1>3, <2>2, <3>1 DEF TreeInOrder
    <3>3. QED
      BY <1>1, <3>1, <3>2
  <2>3. QED
    BY <1>1, <1>3, <2>1, <2>2
<1>5. ASSUME HasSubject(Active, s)
      PROVE  /\ InsertPos(s) > 1
             /\ SubjectOf[active_entry_tree[InsertPos(s) - 1]] = s
  <2>1. PICK i \in 1 .. n : SubjectOf[active_entry_tree[i]] = s
    BY <1>1, <1>5 DEF HasSubject
  <2>2. i < InsertPos(s)
    BY <1>1, <1>4, <2>1
  <2>3. InsertPos(s) - 1 \in 1 .. n /\ InsertPos(s) - 1 < InsertPos(s)
    BY <1>1, <1>3, <2>2
  <2>4. SubjectOf[active_entry_tree[InsertPos(s) - 1]] <= s
    BY <1>4, <2>3
  <2>5. s <= SubjectOf[active_entry_tree[InsertPos(s) - 1]]
    <3>1. CASE i = InsertPos(s) - 1
      BY <2>1, <3>1
    <3>2. CASE i < InsertPos(s) - 1
      BY <1>1, <2>1, <2>3, <3>2 DEF TreeInOrder
    <3>3. QED
      BY <1>1, <1>3, <2>2, <3>1, <3>2
  <2>6. QED
    BY <1>1, <1>3, <2>2, <2>3, <2>4, <2>5
<1>6. QED
  BY <1>3, <1>4, <1>5

\* Where the elements of the tree are once an entry is inserted at k.
LEMMA TreeInsertAt ==
    ASSUME TypeOK, NEW e \in Entries, NEW k \in 1 .. Len(active_entry_tree) + 1
    PROVE  /\ InsertAt(active_entry_tree, k, e) \in Seq(Entries)
           /\ Len(InsertAt(active_entry_tree, k, e)) = Len(active_entry_tree) + 1
           /\ \A i \in 1 .. Len(active_entry_tree) + 1 :
                  InsertAt(active_entry_tree, k, e)[i] =
                      IF i < k THEN active_entry_tree[i]
                      ELSE IF i = k THEN e
                      ELSE active_entry_tree[i - 1]
<1>1. active_entry_tree \in Seq(Entries)
  BY DEF TypeOK
<1>2. /\ InsertAt(active_entry_tree, k, e) \in Seq(Entries)
      /\ Len(InsertAt(active_entry_tree, k, e)) = Len(active_entry_tree) + 1
  BY <1>1, InsertAtProperties
<1>3. \A i \in 1 .. Len(active_entry_tree) + 1 :
          InsertAt(active_entry_tree, k, e)[i] =
              IF i < k THEN active_entry_tree[i]
              ELSE IF i = k THEN e
              ELSE active_entry_tree[i - 1]
  BY <1>1, InsertAtProperties
<1>4. QED
  BY <1>2, <1>3

\* Putting an entry into the tree.
LEMMA InsertActive ==
    ASSUME TypeOK, TreeInOrder, NEW e \in Entries, e \notin Active,
           NEW k, NEW more, k = InsertPos(SubjectOf[e]), more = Insert(e)
    PROVE  /\ k \in 1 .. Len(active_entry_tree) + 1
           /\ more \in Seq(Entries)
           /\ Len(more) = Len(active_entry_tree) + 1
           /\ DOMAIN more = 1 .. Len(more)
           /\ \A i \in 1 .. Len(more) :
                  more[i] = IF i < k THEN active_entry_tree[i]
                            ELSE IF i = k THEN e
                            ELSE active_entry_tree[i - 1]
           /\ ToSet(more) = Active \cup {e}
           /\ IsInjective(more)
           /\ \A i, j \in DOMAIN more :
                  i < j => SubjectOf[more[i]] <= SubjectOf[more[j]]
<1> DEFINE n == Len(active_entry_tree)
<1>1. /\ active_entry_tree \in Seq(Entries)
      /\ n \in Nat
      /\ DOMAIN active_entry_tree = 1 .. n
      /\ \A i \in 1 .. n : active_entry_tree[i] \in Active
      /\ \A i \in 1 .. n : SubjectOf[active_entry_tree[i]] \in Nat
      /\ \A x \in Active : \E i \in 1 .. n : active_entry_tree[i] = x
      /\ \A i, j \in 1 .. n : active_entry_tree[i] = active_entry_tree[j] => i = j
      /\ \A i, j \in 1 .. n :
             i < j => SubjectOf[active_entry_tree[i]] <= SubjectOf[active_entry_tree[j]]
  BY TreeElements DEF TypeOK, TreeInOrder, IsInjective
<1>2. SubjectOf[e] \in Nat
  BY ConstantsAssumption DEF Subjects
<1>3. /\ k \in 1 .. n + 1
      /\ \A i \in 1 .. n : i < k <=> SubjectOf[active_entry_tree[i]] <= SubjectOf[e]
  BY <1>2, InsertPosProperties
<1>4. /\ more \in Seq(Entries)
      /\ Len(more) = n + 1
      /\ \A i \in 1 .. n + 1 :
             more[i] = IF i < k THEN active_entry_tree[i]
                       ELSE IF i = k THEN e
                       ELSE active_entry_tree[i - 1]
  <2>1. more = InsertAt(active_entry_tree, k, e)
    BY DEF Insert
  <2>2. k \in 1 .. Len(active_entry_tree) + 1
    BY <1>3
  <2>3. QED
    BY <2>1, <2>2, TreeInsertAt
<1>5. DOMAIN more = 1 .. n + 1
  BY <1>1, <1>4, LenProperties
<1> DEFINE pos(i) == IF i < k THEN i ELSE i - 1
<1>6. \A i \in 1 .. n + 1 :
          i # k => pos(i) \in 1 .. n /\ more[i] = active_entry_tree[pos(i)]
  <2>1. ASSUME NEW i \in 1 .. n + 1, i < k
        PROVE  pos(i) \in 1 .. n /\ more[i] = active_entry_tree[pos(i)]
    BY <1>1, <1>3, <1>4, <2>1
  <2>2. ASSUME NEW i \in 1 .. n + 1, i > k
        PROVE  pos(i) \in 1 .. n /\ more[i] = active_entry_tree[pos(i)]
    BY <1>1, <1>3, <1>4, <2>2
  <2>3. QED
    BY <1>1, <1>3, <2>1, <2>2
<1>7. more[k] = e
  BY <1>1, <1>3, <1>4
<1>8. \A i, j \in 1 .. n + 1 : i # k /\ j # k /\ i < j => pos(i) < pos(j)
  BY <1>1, <1>3
<1>9. /\ \A i \in 1 .. n + 1 : i < k => pos(i) < k
      /\ \A i \in 1 .. n + 1 : i > k => pos(i) >= k
  BY <1>1, <1>3
<1>10. \A i \in 1 .. n :
           \E j \in 1 .. n + 1 : j # k /\ pos(j) = i
  <2>1. ASSUME NEW i \in 1 .. n
        PROVE  \E j \in 1 .. n + 1 : j # k /\ pos(j) = i
    <3>1. CASE i < k
      BY <1>1, <1>3, <3>1
    <3>2. CASE i >= k
      <4>1. i + 1 \in 1 .. n + 1 /\ i + 1 # k /\ pos(i + 1) = i
        BY <1>1, <1>3, <3>2
      <4>2. QED
        BY <4>1
    <3>3. QED
      BY <1>1, <1>3, <3>1, <3>2
  <2>2. QED
    BY <2>1
<1> HIDE DEF pos, n
<1>11. ToSet(more) = Active \cup {e}
  <2>1. \A x \in ToSet(more) : x \in Active \cup {e}
    BY <1>1, <1>5, <1>6, <1>7 DEF ToSet
  <2>2. e \in ToSet(more)
    BY <1>3, <1>5, <1>7 DEF ToSet
  <2>3. ASSUME NEW x \in Active
        PROVE  x \in ToSet(more)
    <3>1. PICK i \in 1 .. n : active_entry_tree[i] = x
      BY <1>1
    <3>2. PICK j \in 1 .. n + 1 : j # k /\ pos(j) = i
      BY <1>10
    <3>3. more[j] = x
      BY <1>6, <3>1, <3>2
    <3>4. QED
      BY <1>5, <3>3 DEF ToSet
  <2>4. QED
    BY <2>1, <2>2, <2>3
<1>12. IsInjective(more)
  <2>1. ASSUME NEW i \in 1 .. n + 1, NEW j \in 1 .. n + 1, more[i] = more[j]
        PROVE  i = j
    <3>1. CASE i = k \/ j = k
      BY <1>1, <1>6, <1>7, <2>1, <3>1
    <3>2. CASE i # k /\ j # k
      <4>1. pos(i) = pos(j)
        BY <1>1, <1>6, <2>1, <3>2
      <4>2. pos(i) \in 1 .. n /\ ~ (i < j) /\ ~ (j < i)
        BY <1>1, <1>6, <1>8, <3>2, <4>1
      <4>3. QED
        BY <1>1, <4>2
    <3>3. QED
      BY <3>1, <3>2
  <2>2. QED
    BY <1>5, <2>1 DEF IsInjective
<1>13. ASSUME NEW i \in DOMAIN more, NEW j \in DOMAIN more, i < j
       PROVE  SubjectOf[more[i]] <= SubjectOf[more[j]]
  <2>1. i \in 1 .. n + 1 /\ j \in 1 .. n + 1
    BY <1>5
  <2>2. CASE i = k
    <3>1. j # k /\ pos(j) \in 1 .. n /\ pos(j) >= k
      BY <1>1, <1>3, <1>6, <1>9, <1>13, <2>1, <2>2
    <3>2. SubjectOf[active_entry_tree[pos(j)]] \in Nat
      BY <1>1, <3>1
    <3>3. ~ (SubjectOf[active_entry_tree[pos(j)]] <= SubjectOf[e])
      BY <1>1, <1>3, <3>1
    <3>4. more[i] = e /\ more[j] = active_entry_tree[pos(j)]
      BY <1>6, <1>7, <2>1, <2>2, <3>1
    <3>5. QED
      BY <1>2, <3>2, <3>3, <3>4
  <2>3. CASE j = k
    <3>1. i # k /\ pos(i) \in 1 .. n /\ pos(i) < k
      BY <1>1, <1>3, <1>6, <1>9, <1>13, <2>1, <2>3
    <3>2. SubjectOf[active_entry_tree[pos(i)]] <= SubjectOf[e]
      BY <1>3, <3>1
    <3>3. QED
      BY <1>6, <1>7, <2>1, <2>3, <3>1, <3>2
  <2>4. CASE i # k /\ j # k
    BY <1>1, <1>6, <1>8, <1>13, <2>1, <2>4
  <2>5. QED
    BY <2>2, <2>3, <2>4
<1>14. QED
  BY <1>3, <1>4, <1>5, <1>11, <1>12, <1>13 DEF n

-----------------------------------------------------------------------------
(* Preservation of the invariant, one lemma for each action.               *)

LEMMA InitIInv == Init => IInv
<1> SUFFICES ASSUME Init PROVE IInv
  OBVIOUS
<1>1. TypeOK
  <2>1. << >> \in Seq(Entries)
    BY EmptySeq
  <2>2. 0 \in Subjects /\ SlotCount \in 0 .. MaxFreeSlots
    BY ConstantsAssumption DEF Subjects
  <2>3. NoUpdate \in Updates
    BY <2>2 DEF NoUpdate, Updates
  <2>4. QED
    BY <2>1, <2>2, <2>3 DEF Init, TypeOK
<1>2. /\ DOMAIN << >> = {}
      /\ ToSet(<< >>) = {}
      /\ IsInjective(<< >>)
      /\ Len(<< >>) = 0
  BY DEF ToSet, IsInjective
<1>3. TreeInOrder /\ HeadIsFirst /\ LinksMatchFlags
  BY <1>2 DEF Init, TreeInOrder, HeadIsFirst, LinksMatchFlags, Active
<1>4. CleanUpGapsNonEmpty
  BY <1>2 DEF Init, CleanUpGapsNonEmpty
<1>5. PushPtrActive /\ UpdateInHand
  BY DEF Init, PushPtrActive, UpdateInHand, NoUpdate
<1>6. QED
  BY <1>1, <1>3, <1>4, <1>5 DEF IInv

\* Waking the filter task does not touch the update it may hold.
LEMMA WakeStep ==
    ASSUME TypeOK, UpdateInHand, Wake \/ UNCHANGED driver, UNCHANGED update
    PROVE  /\ driver' \in {"polling", "waiting", "applying", "panicked"}
           /\ UpdateInHand'
BY DEF TypeOK, UpdateInHand, Wake

LEMMA EnqueueStep ==
    ASSUME IInv, NEW e \in Entries, e \notin Registered, Enqueue(e),
           free_slot_count' \in 0 .. MaxFreeSlots,
           Wake \/ UNCHANGED driver,
           UNCHANGED << clean_up_queue, clean_up_last, pushVars, update, filter >>
    PROVE  IInv'
<1> USE DEF pushVars
<1>1. /\ inactive_entry_tree' = inactive_entry_tree \cup {e}
      /\ activation_queue' = Append(activation_queue, e)
      /\ UNCHANGED << active_entry_tree, is_active, is_head >>
      /\ Active' = Active
      /\ e \notin inactive_entry_tree /\ e \notin Active
  BY DEF Enqueue, Active, Registered
<1>2. /\ activation_queue \in Seq(Entries)
      /\ inactive_entry_tree = ToSet(activation_queue)
      /\ IsInjective(activation_queue)
  BY DEF IInv, TypeOK, LinksMatchFlags
<1>3. /\ activation_queue' \in Seq(Entries)
      /\ inactive_entry_tree' = ToSet(activation_queue')
      /\ IsInjective(activation_queue')
  BY <1>1, <1>2, AppendElements, AppendProperties
<1>4. driver' \in {"polling", "waiting", "applying", "panicked"} /\ UpdateInHand'
  BY WakeStep DEF IInv
<1>5. TypeOK'
  BY <1>1, <1>3, <1>4 DEF IInv, TypeOK
<1>6. TreeInOrder' /\ HeadIsFirst'
  BY <1>1 DEF IInv, TreeInOrder, HeadIsFirst
<1>7. LinksMatchFlags'
  BY <1>1, <1>3 DEF IInv, LinksMatchFlags
<1>8. CleanUpGapsNonEmpty'
  BY <1>1 DEF IInv, CleanUpGapsNonEmpty, FirstCleanUp
<1>9. PushPtrActive'
  BY <1>1 DEF IInv, PushPtrActive
<1>10. QED
  BY <1>4, <1>5, <1>6, <1>7, <1>8, <1>9 DEF IInv

\* The prior entry of a position of the tree, and of the same one after an
\* insertion in front of it, have the same subject if e joins its own subject.
LEMMA RegisterActiveSubjectStep ==
    ASSUME IInv, NEW e \in Entries, e \notin Registered, RegisterActiveSubject(e),
           UNCHANGED << clean_up_queue, clean_up_last, pushVars, update, filter >>
    PROVE  IInv'
<1> USE DEF pushVars
<1> DEFINE tree == active_entry_tree
           n == Len(tree)
           k == InsertPos(SubjectOf[e])
           more == Insert(e)
<1>1. /\ TypeOK /\ TreeInOrder /\ HeadIsFirst /\ LinksMatchFlags
      /\ CleanUpGapsNonEmpty /\ PushPtrActive /\ UpdateInHand
  BY DEF IInv
<1>2. e \notin Active /\ e \notin inactive_entry_tree
  BY DEF Registered
<1>3. /\ n \in Nat
      /\ DOMAIN tree = 1 .. n
      /\ \A i \in 1 .. n : SubjectOf[tree[i]] \in Nat /\ tree[i] \in Active
      /\ SubjectOf[e] \in Nat
      /\ SubjectOf[e] <= MaxSubject
  BY <1>1, TreeElements, ConstantsAssumption DEF Subjects
<1>4. /\ k \in 1 .. n + 1
      /\ more \in Seq(Entries)
      /\ Len(more) = n + 1
      /\ DOMAIN more = 1 .. n + 1
      /\ \A i \in 1 .. n + 1 :
             more[i] = IF i < k THEN tree[i] ELSE IF i = k THEN e ELSE tree[i - 1]
      /\ ToSet(more) = Active \cup {e}
      /\ IsInjective(more)
      /\ \A i, j \in DOMAIN more :
             i < j => SubjectOf[more[i]] <= SubjectOf[more[j]]
  BY <1>1, <1>2, InsertActive
<1>5. k > 1 /\ SubjectOf[tree[k - 1]] = SubjectOf[e]
  BY <1>1, <1>3, InsertPosProperties DEF RegisterActiveSubject
<1>6. /\ active_entry_tree' = more
      /\ is_active' = is_active \cup {e}
      /\ UNCHANGED << inactive_entry_tree, is_head, activation_queue,
                      free_slot_count, driver >>
  BY DEF RegisterActiveSubject
<1> HIDE DEF tree, n, k, more
<1>7. Active' = Active \cup {e}
  BY <1>4, <1>6 DEF Active
<1>8. TypeOK'
  BY <1>1, <1>4, <1>6 DEF TypeOK
<1>9. TreeInOrder'
  BY <1>4, <1>6 DEF TreeInOrder
<1>10. /\ more[k] = e
       /\ more[k - 1] = tree[k - 1]
       /\ \A i \in 1 .. n + 1 : i > k => i - 1 \in 1 .. n /\ more[i] = tree[i - 1]
       /\ \A i \in 1 .. n + 1 : i < k => i \in 1 .. n /\ more[i] = tree[i]
  BY <1>3, <1>4, <1>5
<1>11. e \notin is_head
  BY <1>1, <1>2 DEF HeadIsFirst
<1> DEFINE prior(i) == SubjectOf[more[i - 1]]
<1>12. /\ \A i \in 1 .. n + 1 : i > k => prior(i) = SubjectOf[tree[(i - 1) - 1]]
       /\ \A i \in 1 .. n + 1 : i < k /\ i > 1 => prior(i) = SubjectOf[tree[i - 1]]
  <2>1. ASSUME NEW i \in 1 .. n + 1, i > k
        PROVE  prior(i) = SubjectOf[tree[(i - 1) - 1]]
    <3>1. CASE i = k + 1
      <4>1. i - 1 = k /\ (i - 1) - 1 = k - 1
        BY <1>3, <1>4, <3>1
      <4>2. QED
        BY <1>5, <1>10, <4>1
    <3>2. CASE i > k + 1
      <4>1. i - 1 \in 1 .. n + 1 /\ i - 1 > k
        BY <1>3, <1>4, <3>2
      <4>2. QED
        BY <1>10, <4>1
    <3>3. QED
      BY <1>3, <1>4, <2>1, <3>1, <3>2
  <2>2. ASSUME NEW i \in 1 .. n + 1, i < k, i > 1
        PROVE  prior(i) = SubjectOf[tree[i - 1]]
    <3>1. i - 1 \in 1 .. n + 1 /\ i - 1 < k
      BY <1>3, <1>4, <2>2
    <3>2. QED
      BY <1>10, <3>1
  <2>3. QED
    BY <2>1, <2>2
<1>13. HeadIsFirst'
  <2>1. ASSUME NEW i \in 1 .. n + 1
        PROVE  more[i] \in is_head <=> i = 1 \/ prior(i) # SubjectOf[more[i]]
    <3>1. \A j \in 1 .. n : tree[j] \in is_head <=>
              j = 1 \/ SubjectOf[tree[j - 1]] # SubjectOf[tree[j]]
      BY <1>1, <1>3 DEF HeadIsFirst, tree
    <3>2. CASE i < k
      <4>1. CASE i = 1
        BY <1>10, <3>1, <3>2, <4>1
      <4>2. CASE i > 1
        BY <1>10, <1>12, <3>1, <3>2, <4>2
      <4>3. QED
        BY <1>3, <4>1, <4>2
    <3>3. CASE i = k
      BY <1>5, <1>10, <1>11, <3>3
    <3>4. CASE i > k
      <4>1. i - 1 \in 1 .. n /\ i - 1 # 1 /\ i # 1
        BY <1>3, <1>4, <1>5, <3>4
      <4>2. QED
        BY <1>10, <1>12, <3>1, <3>4, <4>1
    <3>5. QED
      BY <1>3, <1>4, <3>2, <3>3, <3>4
  <2>2. is_head' \subseteq Active'
    BY <1>1, <1>6, <1>7 DEF HeadIsFirst
  <2>3. QED
    BY <1>4, <1>6, <2>1, <2>2 DEF HeadIsFirst
<1>14. LinksMatchFlags'
  BY <1>1, <1>2, <1>6, <1>7 DEF LinksMatchFlags
<1>15. CleanUpGapsNonEmpty'
  <2>1. \A j \in 1 .. n :
            tree[j] \in ToSet(clean_up_queue) =>
                (IF j = 1 THEN 0 ELSE SubjectOf[tree[j - 1]] + 1) < SubjectOf[tree[j]]
    BY <1>1, <1>3 DEF CleanUpGapsNonEmpty, FirstCleanUp, tree
  <2>2. e \notin ToSet(clean_up_queue)
    BY <1>1, <1>11 DEF LinksMatchFlags
  <2>3. ASSUME NEW i \in 1 .. n + 1, more[i] \in ToSet(clean_up_queue)
        PROVE  (IF i = 1 THEN 0 ELSE prior(i) + 1) < SubjectOf[more[i]]
    <3>1. i # k
      BY <1>10, <2>2, <2>3
    <3>2. CASE i < k
      <4>1. CASE i = 1
        BY <1>10, <2>1, <2>3, <3>2, <4>1
      <4>2. CASE i > 1
        BY <1>10, <1>12, <2>1, <2>3, <3>2, <4>2
      <4>3. QED
        BY <1>3, <4>1, <4>2
    <3>3. CASE i > k
      <4>1. i - 1 \in 1 .. n /\ i - 1 # 1 /\ i # 1
        BY <1>3, <1>4, <1>5, <3>3
      <4>2. QED
        BY <1>10, <1>12, <2>1, <2>3, <3>3, <4>1
    <3>4. QED
      BY <1>3, <1>4, <3>1, <3>2, <3>3
  <2>4. clean_up_last => SubjectOf[more[n + 1]] + 1 <= MaxSubject
    <3>1. n >= 1 /\ SubjectOf[more[n + 1]] = SubjectOf[tree[n]]
      <4>1. CASE k = n + 1
        BY <1>3, <1>4, <1>5, <1>10, <4>1
      <4>2. CASE k < n + 1
        BY <1>3, <1>4, <1>10, <4>2
      <4>3. QED
        BY <1>3, <1>4, <4>1, <4>2
    <3>2. clean_up_last => SubjectOf[tree[n]] + 1 <= MaxSubject
      <4>1. n + 1 # 1 /\ (n + 1) - 1 = n
        BY <1>3, <3>1
      <4>2. QED
        BY <1>1, <4>1 DEF CleanUpGapsNonEmpty, FirstCleanUp, tree, n
    <3>3. QED
      BY <3>1, <3>2
  <2>5. (n + 1) + 1 # 1 /\ ((n + 1) + 1) - 1 = n + 1
    BY <1>3
  <2>6. QED
    BY <1>4, <1>6, <2>3, <2>4, <2>5 DEF CleanUpGapsNonEmpty, FirstCleanUp
<1>16. PushPtrActive'
  BY <1>1, <1>7 DEF PushPtrActive
<1>17. UpdateInHand'
  BY <1>1, <1>6 DEF UpdateInHand
<1>18. QED
  BY <1>8, <1>9, <1>13, <1>14, <1>15, <1>16, <1>17 DEF IInv

\* Taking an element out of a list of distinct elements.
LEMMA WithoutElement ==
    ASSUME NEW S, NEW seq \in Seq(S), IsInjective(seq), NEW e \in ToSet(seq)
    PROVE  /\ Without(seq, e) \in Seq(S)
           /\ ToSet(Without(seq, e)) = ToSet(seq) \ {e}
           /\ IsInjective(Without(seq, e))
<1>1. PICK i \in 1 .. Len(seq) : seq[i] = e
  BY ToSetElements
<1>2. DOMAIN seq = 1 .. Len(seq)
  BY ToSetElements
<1>3. IndexOf(seq, e) \in 1 .. Len(seq) /\ seq[IndexOf(seq, e)] = e
  BY <1>1, <1>2 DEF IndexOf
<1>4. QED
  BY <1>3, RemoveAtProperties, RemoveAtElements DEF Without

LEMMA UnregisterInactiveStep ==
    ASSUME IInv, NEW e \in Entries, UnregisterInactive(e)
    PROVE  IInv'
<1> USE DEF pushVars, driverVars
<1>1. /\ e \in ToSet(activation_queue)
      /\ activation_queue \in Seq(Entries)
      /\ inactive_entry_tree = ToSet(activation_queue)
      /\ IsInjective(activation_queue)
      /\ inactive_entry_tree \cap Active = {}
  BY DEF IInv, TypeOK, LinksMatchFlags, UnregisterInactive
<1>2. /\ inactive_entry_tree' = inactive_entry_tree \ {e}
      /\ activation_queue' = Without(activation_queue, e)
      /\ UNCHANGED << active_entry_tree, is_active, is_head, clean_up_queue,
                      clean_up_last, free_slot_count, pushVars, driverVars >>
      /\ Active' = Active
  BY DEF UnregisterInactive, Active
<1>3. /\ activation_queue' \in Seq(Entries)
      /\ inactive_entry_tree' = ToSet(activation_queue')
      /\ IsInjective(activation_queue')
  BY <1>1, <1>2, WithoutElement
<1>4. TypeOK'
  BY <1>2, <1>3 DEF IInv, TypeOK
<1>5. TreeInOrder' /\ HeadIsFirst'
  BY <1>2 DEF IInv, TreeInOrder, HeadIsFirst
<1>6. LinksMatchFlags'
  BY <1>1, <1>2, <1>3 DEF IInv, LinksMatchFlags
<1>7. CleanUpGapsNonEmpty'
  BY <1>2 DEF IInv, CleanUpGapsNonEmpty, FirstCleanUp
<1>8. PushPtrActive' /\ UpdateInHand'
  BY <1>2 DEF IInv, PushPtrActive, UpdateInHand
<1>9. QED
  BY <1>4, <1>5, <1>6, <1>7, <1>8 DEF IInv

\* The next tail is an active entry of the same subject, behind e.
LEMMA NextTailProperties ==
    ASSUME TypeOK, TreeInOrder, HeadIsFirst, NEW e \in Active, NEW k,
           k = IndexOf(active_entry_tree, e)
    PROVE  /\ NextTail(e) # NoEntry =>
                  /\ k + 1 \in 1 .. Len(active_entry_tree)
                  /\ NextTail(e) = active_entry_tree[k + 1]
                  /\ NextTail(e) \in Active
                  /\ NextTail(e) # e
                  /\ SubjectOf[NextTail(e)] = SubjectOf[e]
           /\ NextTail(e) = NoEntry =>
                  \A i \in 1 .. Len(active_entry_tree) :
                      i > k => SubjectOf[active_entry_tree[i]] # SubjectOf[e]
<1> DEFINE tree == active_entry_tree
           n == Len(tree)
<1>1. /\ n \in Nat
      /\ DOMAIN tree = 1 .. n
      /\ \A i \in 1 .. n : tree[i] \in Active /\ tree[i] \in Entries
                           /\ SubjectOf[tree[i]] \in Nat
      /\ k \in 1 .. n /\ tree[k] = e
      /\ \A i \in 1 .. n : tree[i] = e => i = k
  BY TreeElements, IndexOfActive
<1>2. CASE k = n
  <2>1. NextTail(e) = NoEntry
    BY <1>2 DEF NextTail, IsLast
  <2>2. QED
    BY <1>1, <1>2, <2>1
<1>3. CASE k # n
  <2>1. k + 1 \in 1 .. n /\ (k + 1) - 1 = k /\ k + 1 # 1 /\ k + 1 # k
    BY <1>1, <1>3
  <2>2. NextTail(e) = IF tree[k + 1] \in is_head THEN NoEntry ELSE tree[k + 1]
    BY <1>3 DEF NextTail, IsLast, Succ
  <2>3. tree[k + 1] \in is_head <=> SubjectOf[e] # SubjectOf[tree[k + 1]]
    <3>1. tree[k + 1] \in is_head <=>
              k + 1 = 1 \/ SubjectOf[tree[(k + 1) - 1]] # SubjectOf[tree[k + 1]]
      BY <1>1, <2>1 DEF HeadIsFirst
    <3>2. QED
      BY <1>1, <2>1, <3>1
  <2>4. tree[k + 1] # NoEntry
    BY <1>1, <2>1, ConstantsAssumption
  <2>5. CASE tree[k + 1] \in is_head
    <3>1. SubjectOf[e] < SubjectOf[tree[k + 1]]
      BY <1>1, <2>1, <2>3, <2>5 DEF TreeInOrder
    <3>2. ASSUME NEW i \in 1 .. n, i > k
          PROVE  SubjectOf[tree[i]] # SubjectOf[e]
      <4>1. i = k + 1 \/ i > k + 1
        BY <1>1, <3>2
      <4>2. SubjectOf[tree[k + 1]] <= SubjectOf[tree[i]]
        BY <1>1, <2>1, <4>1 DEF TreeInOrder
      <4>3. QED
        BY <1>1, <2>1, <3>1, <4>2
    <3>3. QED
      BY <2>2, <2>5, <3>2
  <2>6. CASE tree[k + 1] \notin is_head
    BY <1>1, <2>1, <2>2, <2>3, <2>4, <2>6
  <2>7. QED
    BY <2>5, <2>6
<1>4. QED
  BY <1>2, <1>3

\* What both removals of an active entry do to the tree and the push pointer.
LEMMA UnlinkActiveStep ==
    ASSUME IInv, NEW e \in Active, UnlinkActive(e), UNCHANGED frame_subject,
           NEW k, k = IndexOf(active_entry_tree, e)
    PROVE  /\ k \in 1 .. Len(active_entry_tree)
           /\ active_entry_tree[k] = e
           /\ active_entry_tree' \in Seq(Entries)
           /\ Len(active_entry_tree') = Len(active_entry_tree) - 1
           /\ DOMAIN active_entry_tree' = 1 .. Len(active_entry_tree) - 1
           /\ \A i \in 1 .. Len(active_entry_tree) - 1 :
                  active_entry_tree'[i] = IF i < k THEN active_entry_tree[i]
                                                   ELSE active_entry_tree[i + 1]
           /\ Active' = Active \ {e}
           /\ is_active' = Active'
           /\ TreeInOrder'
           /\ PushPtrActive'
           /\ next_push_ptr' \in Entries \cup {NoEntry}
           /\ delivered' \subseteq Entries
           /\ owed' \subseteq Entries
<1>1. TypeOK /\ TreeInOrder /\ HeadIsFirst /\ LinksMatchFlags /\ PushPtrActive
  BY DEF IInv
<1> DEFINE rest == Without(active_entry_tree, e)
<1>2. /\ rest \in Seq(Entries)
      /\ Len(rest) = Len(active_entry_tree) - 1
      /\ DOMAIN rest = 1 .. Len(rest)
      /\ \A i \in 1 .. Len(rest) :
             rest[i] = IF i < k THEN active_entry_tree[i]
                                ELSE active_entry_tree[i + 1]
      /\ ToSet(rest) = Active \ {e}
      /\ IsInjective(rest)
      /\ \A i, j \in DOMAIN rest :
             i < j => SubjectOf[rest[i]] <= SubjectOf[rest[j]]
  BY <1>1, WithoutActive
<1>3. active_entry_tree' = rest
  BY DEF UnlinkActive
<1> HIDE DEF rest
<1>4. Active' = Active \ {e} /\ TreeInOrder'
  BY <1>2, <1>3 DEF Active, TreeInOrder
<1>5. is_active' = Active'
  BY <1>1, <1>4 DEF LinksMatchFlags, UnlinkActive
<1>6. next_push_ptr' = IF next_push_ptr = e THEN NextTail(e) ELSE next_push_ptr
  BY DEF UnlinkActive, PushPtrWithout
<1>7. Active \subseteq Entries /\ NoEntry \notin Entries
  BY <1>1, TreeElements, ConstantsAssumption
<1>8. NextTail(e) # NoEntry =>
          NextTail(e) \in Active \ {e} /\ SubjectOf[NextTail(e)] = SubjectOf[e]
  BY <1>1, NextTailProperties
<1>9. PushPtrActive' /\ next_push_ptr' \in Entries \cup {NoEntry}
  <2>1. CASE next_push_ptr = e
    BY <1>1, <1>4, <1>6, <1>7, <1>8, <2>1 DEF PushPtrActive
  <2>2. CASE next_push_ptr # e
    BY <1>1, <1>4, <1>6, <2>2 DEF PushPtrActive, TypeOK
  <2>3. QED
    BY <2>1, <2>2
<1>10. delivered' \subseteq Entries /\ owed' \subseteq Entries
  BY <1>1 DEF TypeOK, UnlinkActive
<1>11. k \in 1 .. Len(active_entry_tree) /\ active_entry_tree[k] = e
  BY <1>1, IndexOfActive
<1>12. QED
  BY <1>2, <1>3, <1>4, <1>5, <1>9, <1>10, <1>11

\* The list entry of a removed head goes with it.
LEMMA UnlinkCleanUpProperties ==
    ASSUME IInv, NEW e \in Entries
    PROVE  /\ UnlinkCleanUp(e) \in Seq(Entries)
           /\ ToSet(UnlinkCleanUp(e)) = ToSet(clean_up_queue) \ {e}
           /\ IsInjective(UnlinkCleanUp(e))
<1>1. clean_up_queue \in Seq(Entries) /\ IsInjective(clean_up_queue)
  BY DEF IInv, TypeOK, LinksMatchFlags
<1>2. CASE e \in ToSet(clean_up_queue)
  BY <1>1, <1>2, WithoutElement DEF UnlinkCleanUp
<1>3. CASE e \notin ToSet(clean_up_queue)
  BY <1>1, <1>3 DEF UnlinkCleanUp
<1>4. QED
  BY <1>2, <1>3

\* The entries that stay keep the subject in front of them; the one behind the
\* removed entry gets the subject that was in front of that.
LEMMA UnlinkedNeighbours ==
    ASSUME IInv, NEW e \in Active, UnlinkActive(e), UNCHANGED frame_subject,
           NEW k, k = IndexOf(active_entry_tree, e), NEW n,
           n = Len(active_entry_tree)
    PROVE  /\ n \in Nat
           /\ \A i \in 1 .. n - 1 :
                  /\ i < k => active_entry_tree'[i] = active_entry_tree[i]
                  /\ i >= k => /\ i + 1 \in 1 .. n
                               /\ active_entry_tree'[i] = active_entry_tree[i + 1]
                  /\ i > 1 /\ i <= k =>
                         active_entry_tree'[i - 1] = active_entry_tree[i - 1]
                  /\ i > k => active_entry_tree'[i - 1] = active_entry_tree[i]
<1>1. /\ k \in 1 .. n
      /\ \A i \in 1 .. n - 1 :
             active_entry_tree'[i] = IF i < k THEN active_entry_tree[i]
                                              ELSE active_entry_tree[i + 1]
  BY UnlinkActiveStep
<1>2. n \in Nat
  BY TreeElements DEF IInv
<1>3. ASSUME NEW i \in 1 .. n - 1
      PROVE  /\ i < k => active_entry_tree'[i] = active_entry_tree[i]
             /\ i >= k => /\ i + 1 \in 1 .. n
                          /\ active_entry_tree'[i] = active_entry_tree[i + 1]
  BY <1>1, <1>2
<1>4. ASSUME NEW i \in 1 .. n - 1, i > 1, i <= k
      PROVE  active_entry_tree'[i - 1] = active_entry_tree[i - 1]
  <2>1. i - 1 \in 1 .. n - 1 /\ i - 1 < k
    BY <1>1, <1>2, <1>4
  <2>2. QED
    BY <1>1, <2>1
<1>5. ASSUME NEW i \in 1 .. n - 1, i > k
      PROVE  active_entry_tree'[i - 1] = active_entry_tree[i]
  <2>1. i - 1 \in 1 .. n - 1 /\ ~ (i - 1 < k) /\ (i - 1) + 1 = i
    BY <1>1, <1>2, <1>5
  <2>2. QED
    BY <1>1, <2>1
<1>6. QED
  BY <1>2, <1>3, <1>4, <1>5

LEMMA UnregisterActiveTailStep ==
    ASSUME IInv, NEW e \in Entries, UnregisterActiveTail(e)
    PROVE  IInv'
<1> USE DEF queueVars, driverVars
<1> DEFINE tree == active_entry_tree
           n == Len(tree)
           k == IndexOf(tree, e)
<1>1. /\ TypeOK /\ TreeInOrder /\ HeadIsFirst /\ LinksMatchFlags
      /\ CleanUpGapsNonEmpty /\ UpdateInHand
  BY DEF IInv
<1>2. /\ e \in Active /\ e \notin is_head
      /\ UnlinkActive(e)
      /\ UNCHANGED << inactive_entry_tree, is_head, queueVars, free_slot_count,
                      frame_subject, driverVars >>
  BY <1>1 DEF UnregisterActiveTail, LinksMatchFlags
<1>3. /\ k \in 1 .. n
      /\ tree[k] = e
      /\ tree' \in Seq(Entries)
      /\ Len(tree') = n - 1
      /\ DOMAIN tree' = 1 .. n - 1
      /\ Active' = Active \ {e}
      /\ is_active' = Active'
      /\ TreeInOrder'
      /\ PushPtrActive'
      /\ next_push_ptr' \in Entries \cup {NoEntry}
      /\ delivered' \subseteq Entries
      /\ owed' \subseteq Entries
  BY <1>2, UnlinkActiveStep
<1>4. /\ n \in Nat
      /\ \A i \in 1 .. n - 1 :
             /\ i < k => tree'[i] = tree[i]
             /\ i >= k => i + 1 \in 1 .. n /\ tree'[i] = tree[i + 1]
             /\ i > 1 /\ i <= k => tree'[i - 1] = tree[i - 1]
             /\ i > k => tree'[i - 1] = tree[i]
  BY <1>2, UnlinkedNeighbours
<1>5. /\ DOMAIN tree = 1 .. n
      /\ \A i \in 1 .. n : SubjectOf[tree[i]] \in Nat
  BY <1>1, TreeElements
<1>6. k > 1 /\ SubjectOf[tree[k - 1]] = SubjectOf[e]
  BY <1>1, <1>2, <1>3, <1>5 DEF HeadIsFirst
<1>7. \A i \in 1 .. n - 1 :
          /\ i < k => i \in 1 .. n /\ tree'[i] = tree[i]
                      /\ (i > 1 => SubjectOf[tree'[i - 1]] = SubjectOf[tree[i - 1]])
          /\ i >= k => /\ i + 1 \in 1 .. n /\ i + 1 # 1 /\ i # 1
                       /\ tree'[i] = tree[i + 1]
                       /\ SubjectOf[tree'[i - 1]] = SubjectOf[tree[(i + 1) - 1]]
  <2>1. ASSUME NEW i \in 1 .. n - 1, i < k
        PROVE  i \in 1 .. n /\ tree'[i] = tree[i]
               /\ (i > 1 => SubjectOf[tree'[i - 1]] = SubjectOf[tree[i - 1]])
    BY <1>3, <1>4, <2>1
  <2>2. ASSUME NEW i \in 1 .. n - 1, i >= k
        PROVE  /\ i + 1 \in 1 .. n /\ i + 1 # 1 /\ i # 1
               /\ tree'[i] = tree[i + 1]
               /\ SubjectOf[tree'[i - 1]] = SubjectOf[tree[(i + 1) - 1]]
    <3>1. i + 1 \in 1 .. n /\ i + 1 # 1 /\ i > 1 /\ (i + 1) - 1 = i
      BY <1>3, <1>4, <1>6, <2>2
    <3>2. CASE i = k
      BY <1>3, <1>4, <1>6, <3>1, <3>2
    <3>3. CASE i > k
      BY <1>3, <1>4, <3>1, <3>3
    <3>4. QED
      BY <1>3, <1>4, <2>2, <3>1, <3>2, <3>3
  <2>3. QED
    BY <1>3, <1>4, <2>1, <2>2
<1> HIDE DEF n, k
<1>8. HeadIsFirst'
  <2>1. \A i \in 1 .. n : tree[i] \in is_head <=>
            i = 1 \/ SubjectOf[tree[i - 1]] # SubjectOf[tree[i]]
    BY <1>1, <1>5 DEF HeadIsFirst
  <2>2. ASSUME NEW i \in 1 .. n - 1
        PROVE  tree'[i] \in is_head <=>
                   i = 1 \/ SubjectOf[tree'[i - 1]] # SubjectOf[tree'[i]]
    <3>1. CASE i < k
      <4>1. CASE i = 1
        BY <1>7, <2>1, <3>1, <4>1
      <4>2. CASE i > 1
        BY <1>7, <2>1, <3>1, <4>2
      <4>3. QED
        BY <1>4, <4>1, <4>2
    <3>2. CASE i >= k
      BY <1>7, <2>1, <3>2
    <3>3. QED
      BY <1>3, <1>4, <3>1, <3>2
  <2>3. is_head' \subseteq Active'
    BY <1>1, <1>2, <1>3 DEF HeadIsFirst
  <2>4. QED
    BY <1>2, <1>3, <2>2, <2>3 DEF HeadIsFirst
<1>9. LinksMatchFlags'
  BY <1>1, <1>2, <1>3 DEF LinksMatchFlags
<1>10. CleanUpGapsNonEmpty'
  <2>1. \A j \in 1 .. n :
            tree[j] \in ToSet(clean_up_queue) =>
                (IF j = 1 THEN 0 ELSE SubjectOf[tree[j - 1]] + 1) < SubjectOf[tree[j]]
    BY <1>1, <1>5 DEF CleanUpGapsNonEmpty, FirstCleanUp
  <2>2. ASSUME NEW i \in 1 .. n - 1, tree'[i] \in ToSet(clean_up_queue)
        PROVE  (IF i = 1 THEN 0 ELSE SubjectOf[tree'[i - 1]] + 1) < SubjectOf[tree'[i]]
    <3>1. CASE i < k
      <4>1. CASE i = 1
        BY <1>7, <2>1, <2>2, <3>1, <4>1
      <4>2. CASE i > 1
        BY <1>7, <2>1, <2>2, <3>1, <4>2
      <4>3. QED
        BY <1>4, <4>1, <4>2
    <3>2. CASE i >= k
      BY <1>7, <2>1, <2>2, <3>2
    <3>3. QED
      BY <1>3, <1>4, <3>1, <3>2
  <2>3. clean_up_last => SubjectOf[tree[n]] + 1 <= MaxSubject
    <3>1. n + 1 # 1 /\ (n + 1) - 1 = n
      BY <1>3, <1>4
    <3>2. QED
      BY <1>1, <3>1 DEF CleanUpGapsNonEmpty, FirstCleanUp, n
  <2>4. n - 1 \in 1 .. n - 1 /\ SubjectOf[tree'[n - 1]] = SubjectOf[tree[n]]
    <3>1. n - 1 \in 1 .. n - 1
      BY <1>3, <1>4, <1>6
    <3>2. CASE k = n
      BY <1>3, <1>4, <1>6, <1>7, <3>1, <3>2
    <3>3. CASE k < n
      <4>1. n - 1 >= k /\ (n - 1) + 1 = n
        BY <1>3, <1>4, <3>3
      <4>2. QED
        BY <1>7, <3>1, <4>1
    <3>4. QED
      BY <1>3, <1>4, <3>1, <3>2, <3>3
  <2>5. (n - 1) + 1 # 1 /\ ((n - 1) + 1) - 1 = n - 1
    BY <1>4, <2>4
  <2>6. QED
    BY <1>2, <1>3, <2>2, <2>3, <2>4, <2>5 DEF CleanUpGapsNonEmpty, FirstCleanUp
<1>11. TypeOK'
  <2>1. is_active' \subseteq Entries
    BY <1>1, <1>2 DEF TypeOK, UnlinkActive
  <2>2. QED
    BY <1>1, <1>2, <1>3, <2>1 DEF TypeOK
<1>12. UpdateInHand'
  BY <1>1, <1>2 DEF UpdateInHand
<1>13. QED
  BY <1>3, <1>8, <1>9, <1>10, <1>11, <1>12 DEF IInv

\* Removing the head of the last entries of the tree marks the gap at the end.
LEMMA UnregisterLastHeadStep ==
    ASSUME IInv, NEW e \in Entries, UnregisterActiveHead(e), IsLast(e)
    PROVE  IInv'
<1> DEFINE tree == active_entry_tree
           n == Len(tree)
           k == IndexOf(tree, e)
<1>1. /\ TypeOK /\ TreeInOrder /\ HeadIsFirst /\ LinksMatchFlags
      /\ CleanUpGapsNonEmpty /\ UpdateInHand
  BY DEF IInv
<1>2. /\ e \in Active /\ e \in is_head
      /\ UnlinkActive(e)
      /\ is_head' = is_head \ {e}
      /\ clean_up_queue' = UnlinkCleanUp(e)
      /\ clean_up_last' = TRUE
      /\ free_slot_count' \in 0 .. MaxFreeSlots
      /\ Wake
      /\ UNCHANGED << inactive_entry_tree, activation_queue, frame_subject,
                      update, filter >>
  BY <1>1, ConstantsAssumption
     DEF UnregisterActiveHead, LinksMatchFlags, FreeSlot, TypeOK
<1>3. /\ tree[k] = e
      /\ tree' \in Seq(Entries)
      /\ Len(tree') = n - 1
      /\ DOMAIN tree' = 1 .. n - 1
      /\ Active' = Active \ {e}
      /\ is_active' = Active'
      /\ TreeInOrder'
      /\ PushPtrActive'
      /\ next_push_ptr' \in Entries \cup {NoEntry}
      /\ delivered' \subseteq Entries
      /\ owed' \subseteq Entries
  BY <1>2, UnlinkActiveStep
<1>4. /\ n \in Nat
      /\ k = n
      /\ n >= 1
      /\ \A i \in 1 .. n - 1 :
             /\ i < k => tree'[i] = tree[i]
             /\ i > 1 /\ i <= k => tree'[i - 1] = tree[i - 1]
  <2>1. k \in 1 .. n
    BY <1>2, UnlinkActiveStep
  <2>2. QED
    BY <1>2, <2>1, UnlinkedNeighbours DEF IsLast
<1>5. /\ DOMAIN tree = 1 .. n
      /\ \A i \in 1 .. n : SubjectOf[tree[i]] \in Nat /\ SubjectOf[tree[i]] <= MaxSubject
  BY <1>1, TreeElements
<1>6. \A i \in 1 .. n - 1 :
          /\ i \in 1 .. n
          /\ tree'[i] = tree[i]
          /\ tree'[i] # e
          /\ i > 1 => tree'[i - 1] = tree[i - 1]
  <2>1. \A i \in 1 .. n : tree[i] = e => i = n
    BY <1>1, <1>2, <1>4, IndexOfActive
  <2>2. \A i \in 1 .. n - 1 : i \in 1 .. n /\ i < n
    BY <1>4
  <2>3. QED
    BY <1>4, <2>1, <2>2
<1>7. /\ clean_up_queue' \in Seq(Entries)
      /\ ToSet(clean_up_queue') = ToSet(clean_up_queue) \ {e}
      /\ IsInjective(clean_up_queue')
  BY <1>2, UnlinkCleanUpProperties
<1> HIDE DEF n, k
<1>8. HeadIsFirst'
  <2>1. \A i \in 1 .. n - 1 :
            tree'[i] \in is_head' <=>
                i = 1 \/ SubjectOf[tree'[i - 1]] # SubjectOf[tree'[i]]
    <3>1. \A i \in 1 .. n : tree[i] \in is_head <=>
              i = 1 \/ SubjectOf[tree[i - 1]] # SubjectOf[tree[i]]
      BY <1>1, <1>5 DEF HeadIsFirst
    <3>2. QED
      BY <1>2, <1>4, <1>6, <3>1
  <2>2. is_head' \subseteq Active'
    BY <1>1, <1>2, <1>3 DEF HeadIsFirst
  <2>3. QED
    BY <1>3, <2>1, <2>2 DEF HeadIsFirst
<1>9. LinksMatchFlags'
  BY <1>1, <1>2, <1>3, <1>7 DEF LinksMatchFlags
<1>10. CleanUpGapsNonEmpty'
  <2>1. ASSUME NEW i \in 1 .. n - 1, tree'[i] \in ToSet(clean_up_queue')
        PROVE  (IF i = 1 THEN 0 ELSE SubjectOf[tree'[i - 1]] + 1) < SubjectOf[tree'[i]]
    <3>1. tree[i] \in ToSet(clean_up_queue)
      BY <1>6, <1>7, <2>1
    <3>2. (IF i = 1 THEN 0 ELSE SubjectOf[tree[i - 1]] + 1) < SubjectOf[tree[i]]
      BY <1>1, <1>5, <1>6, <3>1 DEF CleanUpGapsNonEmpty, FirstCleanUp
    <3>3. QED
      BY <1>4, <1>6, <3>2
  <2>2. ASSUME (n - 1) + 1 # 1
        PROVE  SubjectOf[tree'[((n - 1) + 1) - 1]] + 1 <= MaxSubject
    <3>1. /\ n - 1 \in 1 .. n - 1 /\ n \in 1 .. n /\ n - 1 < n
          /\ n # 1 /\ ((n - 1) + 1) - 1 = n - 1
      BY <1>4, <2>2
    <3>2. SubjectOf[tree[n - 1]] # SubjectOf[tree[n]]
      BY <1>1, <1>2, <1>3, <1>4, <1>5, <3>1 DEF HeadIsFirst
    <3>3. SubjectOf[tree[n - 1]] <= SubjectOf[tree[n]]
      BY <1>1, <1>5, <1>6, <3>1 DEF TreeInOrder
    <3>4. SubjectOf[tree[n - 1]] \in Nat /\ SubjectOf[tree[n]] \in Nat
          /\ SubjectOf[tree[n]] <= MaxSubject
      BY <1>5, <1>6, <3>1
    <3>5. QED
      BY <1>6, <3>1, <3>2, <3>3, <3>4, ConstantsAssumption
  <2>3. 0 <= MaxSubject
    BY ConstantsAssumption
  <2>4. QED
    BY <1>3, <2>1, <2>2, <2>3 DEF CleanUpGapsNonEmpty, FirstCleanUp
<1>11. driver' \in {"polling", "waiting", "applying", "panicked"} /\ UpdateInHand'
  BY <1>1, <1>2, WakeStep
<1>12. TypeOK'
  <2>1. is_active' \subseteq Entries
    BY <1>1, <1>2 DEF TypeOK, UnlinkActive
  <2>2. QED
    BY <1>1, <1>2, <1>3, <1>7, <1>11, <2>1 DEF TypeOK
<1>13. QED
  BY <1>3, <1>8, <1>9, <1>10, <1>11, <1>12 DEF IInv

\* Removing another head makes a head of its successor, which is marked if the
\* removed one was, or if it is a head already.
LEMMA UnregisterInnerHeadStep ==
    ASSUME IInv, NEW e \in Entries, UnregisterActiveHead(e), ~ IsLast(e)
    PROVE  IInv'
<1> DEFINE tree == active_entry_tree
           n == Len(tree)
           k == IndexOf(tree, e)
           succ == Succ(e)
<1>1. /\ TypeOK /\ TreeInOrder /\ HeadIsFirst /\ LinksMatchFlags
      /\ CleanUpGapsNonEmpty /\ UpdateInHand
  BY DEF IInv
<1>2. /\ e \in Active /\ e \in is_head
      /\ UnlinkActive(e)
      /\ is_head' = (is_head \ {e}) \cup {succ}
      /\ PassCleanUp(e)
      /\ UNCHANGED << clean_up_last, inactive_entry_tree, activation_queue,
                      frame_subject, update, filter >>
  BY <1>1 DEF UnregisterActiveHead, LinksMatchFlags
<1>3. /\ tree[k] = e
      /\ tree' \in Seq(Entries)
      /\ Len(tree') = n - 1
      /\ DOMAIN tree' = 1 .. n - 1
      /\ Active' = Active \ {e}
      /\ is_active' = Active'
      /\ TreeInOrder'
      /\ PushPtrActive'
      /\ next_push_ptr' \in Entries \cup {NoEntry}
      /\ delivered' \subseteq Entries
      /\ owed' \subseteq Entries
  BY <1>2, UnlinkActiveStep
<1>4. /\ n \in Nat
      /\ \A i \in 1 .. n - 1 :
             /\ i < k => tree'[i] = tree[i]
             /\ i >= k => i + 1 \in 1 .. n /\ tree'[i] = tree[i + 1]
             /\ i > 1 /\ i <= k => tree'[i - 1] = tree[i - 1]
             /\ i > k => tree'[i - 1] = tree[i]
  BY <1>2, UnlinkedNeighbours
<1>5. /\ DOMAIN tree = 1 .. n
      /\ \A i \in 1 .. n : SubjectOf[tree[i]] \in Nat /\ tree[i] \in Active
      /\ \A i \in 1 .. n : tree[i] = e => i = k
      /\ \A i, j \in 1 .. n : tree[i] = tree[j] => i = j
      /\ k \in 1 .. n
  BY <1>1, <1>2, TreeElements, IndexOfActive DEF TreeInOrder, IsInjective
<1>6. /\ k \in 1 .. n - 1
      /\ k + 1 \in 1 .. n
      /\ succ = tree[k + 1]
      /\ succ \in Active'
      /\ SubjectOf[e] <= SubjectOf[succ]
  <2>1. k # n
    BY DEF IsLast
  <2>2. k \in 1 .. n - 1 /\ k + 1 \in 1 .. n /\ k < k + 1
    BY <1>4, <1>5, <2>1
  <2>3. succ = tree[k + 1]
    BY DEF Succ
  <2>4. succ \in Active' /\ SubjectOf[e] <= SubjectOf[succ]
    BY <1>1, <1>3, <1>5, <2>2, <2>3 DEF TreeInOrder
  <2>5. QED
    BY <2>2, <2>3, <2>4
<1> HIDE DEF n, k, succ
<1>7. \A i \in 1 .. n - 1 :
          /\ i < k => /\ i \in 1 .. n
                      /\ tree'[i] = tree[i]
                      /\ tree'[i] # succ
                      /\ tree'[i] # e
                      /\ i > 1 => tree'[i - 1] = tree[i - 1]
          /\ i = k => /\ tree'[i] = succ
                      /\ i > 1 => tree'[i - 1] = tree[i - 1]
          /\ i > k => /\ i + 1 \in 1 .. n /\ i + 1 # 1 /\ i # 1 /\ (i + 1) - 1 = i
                      /\ tree'[i] = tree[i + 1]
                      /\ tree'[i] # succ
                      /\ tree'[i] # e
                      /\ tree'[i - 1] = tree[i]
  <2>1. ASSUME NEW i \in 1 .. n - 1, i < k
        PROVE  /\ i \in 1 .. n
               /\ tree'[i] = tree[i]
               /\ tree'[i] # succ
               /\ tree'[i] # e
               /\ i > 1 => tree'[i - 1] = tree[i - 1]
    <3>1. i \in 1 .. n /\ i # k + 1 /\ i # k /\ i <= k
      BY <1>4, <1>6, <2>1
    <3>2. QED
      BY <1>4, <1>5, <1>6, <2>1, <3>1
  <2>2. ASSUME NEW i \in 1 .. n - 1, i = k
        PROVE  tree'[i] = succ /\ (i > 1 => tree'[i - 1] = tree[i - 1])
    BY <1>4, <1>6, <2>2
  <2>3. ASSUME NEW i \in 1 .. n - 1, i > k
        PROVE  /\ i + 1 \in 1 .. n /\ i + 1 # 1 /\ i # 1 /\ (i + 1) - 1 = i
               /\ tree'[i] = tree[i + 1]
               /\ tree'[i] # succ
               /\ tree'[i] # e
               /\ tree'[i - 1] = tree[i]
    <3>1. /\ i + 1 \in 1 .. n /\ i + 1 # 1 /\ i # 1 /\ (i + 1) - 1 = i
          /\ i + 1 # k + 1 /\ i + 1 # k /\ i >= k
      BY <1>4, <1>6, <2>3
    <3>2. QED
      BY <1>4, <1>5, <1>6, <2>3, <3>1
  <2>4. QED
    BY <2>1, <2>2, <2>3
<1>8. \A i \in 1 .. n : tree[i] \in is_head <=>
          i = 1 \/ SubjectOf[tree[i - 1]] # SubjectOf[tree[i]]
  BY <1>1, <1>5 DEF HeadIsFirst
<1>9. k > 1 => /\ SubjectOf[tree[k - 1]] \in Nat
               /\ SubjectOf[tree[k - 1]] + 1 <= SubjectOf[e]
  <2>1. ASSUME k > 1
        PROVE  SubjectOf[tree[k - 1]] \in Nat /\ SubjectOf[tree[k - 1]] + 1 <= SubjectOf[e]
    <3>1. k - 1 \in 1 .. n /\ k \in 1 .. n /\ k - 1 < k /\ k # 1
      BY <1>4, <1>6, <2>1
    <3>2. SubjectOf[tree[k - 1]] # SubjectOf[e]
      BY <1>2, <1>3, <1>8, <3>1
    <3>3. SubjectOf[tree[k - 1]] <= SubjectOf[e]
      BY <1>1, <1>3, <1>5, <3>1 DEF TreeInOrder
    <3>4. SubjectOf[tree[k - 1]] \in Nat /\ SubjectOf[e] \in Nat
      BY <1>3, <1>5, <3>1
    <3>5. QED
      BY <3>2, <3>3, <3>4
  <2>2. QED
    BY <2>1
<1>10. SubjectOf[e] \in Nat /\ SubjectOf[succ] \in Nat
  BY <1>3, <1>5, <1>6
<1>11. HeadIsFirst'
  <2>1. ASSUME NEW i \in 1 .. n - 1
        PROVE  tree'[i] \in is_head' <=>
                   i = 1 \/ SubjectOf[tree'[i - 1]] # SubjectOf[tree'[i]]
    <3>1. CASE i < k
      <4>1. CASE i = 1
        BY <1>2, <1>7, <1>8, <3>1, <4>1
      <4>2. CASE i > 1
        BY <1>2, <1>7, <1>8, <3>1, <4>2
      <4>3. QED
        BY <1>4, <4>1, <4>2
    <3>2. CASE i = k
      <4>1. tree'[i] \in is_head'
        BY <1>2, <1>7, <3>2
      <4>2. i > 1 => SubjectOf[tree'[i - 1]] # SubjectOf[tree'[i]]
        BY <1>6, <1>7, <1>9, <1>10, <3>2
      <4>3. QED
        BY <1>4, <4>1, <4>2
    <3>3. CASE i > k
      BY <1>2, <1>7, <1>8, <3>3
    <3>4. QED
      BY <1>4, <1>6, <3>1, <3>2, <3>3
  <2>2. is_head' \subseteq Active'
    BY <1>1, <1>2, <1>3, <1>6 DEF HeadIsFirst
  <2>3. QED
    BY <1>3, <2>1, <2>2 DEF HeadIsFirst
<1>12. /\ UnlinkCleanUp(e) \in Seq(Entries)
       /\ ToSet(UnlinkCleanUp(e)) = ToSet(clean_up_queue) \ {e}
       /\ IsInjective(UnlinkCleanUp(e))
  BY UnlinkCleanUpProperties
<1>13. /\ clean_up_queue' \in Seq(Entries)
       /\ IsInjective(clean_up_queue')
       /\ ToSet(clean_up_queue') \subseteq (ToSet(clean_up_queue) \ {e}) \cup {succ}
       /\ succ \in ToSet(clean_up_queue') => TakesOver(e) \/ succ \in ToSet(clean_up_queue)
       /\ free_slot_count' \in 0 .. MaxFreeSlots
       /\ Wake \/ UNCHANGED driver
  <2>1. CASE TakesOver(e)
    <3>1. /\ clean_up_queue' = Append(UnlinkCleanUp(e), succ)
          /\ FreeSlot
          /\ Wake
      BY <1>2, <2>1 DEF PassCleanUp, succ
    <3>2. succ \in Entries /\ succ \notin ToSet(UnlinkCleanUp(e))
      BY <1>1, <1>5, <1>6, <1>12, <2>1, TreeElements DEF TakesOver, succ
    <3>3. /\ clean_up_queue' \in Seq(Entries)
          /\ ToSet(clean_up_queue') = ToSet(UnlinkCleanUp(e)) \cup {succ}
          /\ IsInjective(clean_up_queue')
      BY <1>12, <3>1, <3>2, AppendElements, AppendProperties
    <3>4. free_slot_count' \in 0 .. MaxFreeSlots
      BY <1>1, <3>1, ConstantsAssumption DEF FreeSlot, TypeOK
    <3>5. QED
      BY <1>12, <2>1, <3>1, <3>3, <3>4
  <2>2. CASE ~ TakesOver(e)
    <3>1. clean_up_queue' = UnlinkCleanUp(e) /\ UNCHANGED << free_slot_count, driver >>
      BY <1>2, <2>2 DEF PassCleanUp
    <3>2. QED
      BY <1>1, <1>12, <3>1 DEF TypeOK
  <2>3. QED
    BY <2>1, <2>2
<1>14. LinksMatchFlags'
  BY <1>1, <1>2, <1>3, <1>13 DEF LinksMatchFlags
<1>15. \A j \in 1 .. n :
          tree[j] \in ToSet(clean_up_queue) =>
              (IF j = 1 THEN 0 ELSE SubjectOf[tree[j - 1]] + 1) < SubjectOf[tree[j]]
  BY <1>1, <1>5 DEF CleanUpGapsNonEmpty, FirstCleanUp
<1>16. succ \in ToSet(clean_up_queue') =>
           (IF k = 1 THEN 0 ELSE SubjectOf[tree[k - 1]] + 1) < SubjectOf[succ]
  <2>1. (IF k = 1 THEN 0 ELSE SubjectOf[tree[k - 1]] + 1) <= SubjectOf[e]
    BY <1>4, <1>6, <1>9, <1>10
  <2>2. (IF k = 1 THEN 0 ELSE SubjectOf[tree[k - 1]] + 1) \in Nat
    BY <1>4, <1>6, <1>9
  <2>3. CASE e \in ToSet(clean_up_queue)
    <3>1. (IF k = 1 THEN 0 ELSE SubjectOf[tree[k - 1]] + 1) < SubjectOf[e]
      BY <1>3, <1>5, <1>15, <2>3
    <3>2. QED
      BY <1>6, <1>10, <2>2, <3>1
  <2>4. CASE succ \in is_head
    <3>1. SubjectOf[e] # SubjectOf[succ]
      <4>1. k + 1 # 1 /\ (k + 1) - 1 = k
        BY <1>4, <1>6
      <4>2. QED
        BY <1>3, <1>6, <1>8, <2>4, <4>1
    <3>2. QED
      BY <1>6, <1>10, <2>1, <2>2, <3>1
  <2>5. succ \in ToSet(clean_up_queue) => succ \in is_head
    BY <1>1 DEF LinksMatchFlags
  <2>6. QED
    BY <1>13, <2>3, <2>4, <2>5 DEF TakesOver, succ
<1>17. CleanUpGapsNonEmpty'
  <2>1. ASSUME NEW i \in 1 .. n - 1, tree'[i] \in ToSet(clean_up_queue')
        PROVE  (IF i = 1 THEN 0 ELSE SubjectOf[tree'[i - 1]] + 1) < SubjectOf[tree'[i]]
    <3>1. CASE i < k
      <4>1. tree[i] \in ToSet(clean_up_queue)
        BY <1>7, <1>13, <2>1, <3>1
      <4>2. (IF i = 1 THEN 0 ELSE SubjectOf[tree[i - 1]] + 1) < SubjectOf[tree[i]]
        BY <1>7, <1>15, <3>1, <4>1
      <4>3. QED
        BY <1>4, <1>7, <3>1, <4>2
    <3>2. CASE i = k
      BY <1>4, <1>7, <1>16, <2>1, <3>2
    <3>3. CASE i > k
      BY <1>7, <1>13, <1>15, <2>1, <3>3
    <3>4. QED
      BY <1>4, <1>6, <3>1, <3>2, <3>3
  <2>2. clean_up_last => SubjectOf[tree[n]] + 1 <= MaxSubject
    <3>1. n + 1 # 1 /\ (n + 1) - 1 = n
      BY <1>4, <1>6
    <3>2. QED
      BY <1>1, <3>1 DEF CleanUpGapsNonEmpty, FirstCleanUp, n
  <2>3. n - 1 \in 1 .. n - 1 /\ tree'[n - 1] = tree[n]
    <3>1. n - 1 \in 1 .. n - 1 /\ n - 1 >= k /\ (n - 1) + 1 = n
      BY <1>4, <1>6
    <3>2. QED
      BY <1>4, <3>1
  <2>4. (n - 1) + 1 # 1 /\ ((n - 1) + 1) - 1 = n - 1
    BY <1>4, <2>3
  <2>5. QED
    BY <1>2, <1>3, <2>1, <2>2, <2>3, <2>4 DEF CleanUpGapsNonEmpty, FirstCleanUp
<1>18. driver' \in {"polling", "waiting", "applying", "panicked"} /\ UpdateInHand'
  BY <1>1, <1>2, <1>13, WakeStep
<1>19. TypeOK'
  <2>1. /\ is_active' \subseteq Entries
        /\ is_head' \subseteq Entries
    BY <1>1, <1>2, <1>5, <1>6, TreeElements DEF TypeOK, UnlinkActive
  <2>2. QED
    BY <1>1, <1>2, <1>3, <1>13, <1>18, <2>1 DEF TypeOK
<1>20. QED
  BY <1>3, <1>11, <1>14, <1>17, <1>18, <1>19 DEF IInv

LEMMA RegisterStep ==
    ASSUME IInv, NEW e \in Entries, Register(e)
    PROVE  IInv'
<1>1. /\ e \notin Registered
      /\ UNCHANGED << clean_up_queue, clean_up_last, pushVars, update, filter >>
  BY DEF Register
<1>2. CASE RegisterEnqueuedSubject(e)
  BY <1>1, <1>2, EnqueueStep DEF RegisterEnqueuedSubject, IInv, TypeOK
<1>3. CASE RegisterActiveSubject(e)
  BY <1>1, <1>3, RegisterActiveSubjectStep
<1>4. CASE RegisterNewSubject(e)
  <2>1. free_slot_count' \in 0 .. MaxFreeSlots
    BY <1>4, ConstantsAssumption DEF RegisterNewSubject, IInv, TypeOK
  <2>2. QED
    BY <1>1, <1>4, <2>1, EnqueueStep DEF RegisterNewSubject
<1>5. QED
  BY <1>2, <1>3, <1>4 DEF Register

LEMMA UnregisterStep ==
    ASSUME IInv, NEW e \in Entries, Unregister(e)
    PROVE  IInv'
BY UnregisterLastHeadStep, UnregisterInnerHeadStep, UnregisterActiveTailStep,
   UnregisterInactiveStep DEF Unregister

\* A push starts with the first subscriber of the frame's subject.
LEMMA FirstSubscriber ==
    ASSUME TypeOK, TreeInOrder, NEW s \in Nat, SubscribersOf(s) # {}, NEW k,
           k = Min({i \in DOMAIN active_entry_tree :
                        SubjectOf[active_entry_tree[i]] >= s})
    PROVE  /\ k \in 1 .. Len(active_entry_tree)
           /\ SubjectOf[active_entry_tree[k]] = s
           /\ \A i \in 1 .. Len(active_entry_tree) :
                  SubjectOf[active_entry_tree[i]] = s => k <= i
<1> DEFINE tree == active_entry_tree
           n == Len(tree)
           T == {i \in DOMAIN tree : SubjectOf[tree[i]] >= s}
<1>1. /\ n \in Nat
      /\ DOMAIN tree = 1 .. n
      /\ \A i \in 1 .. n : SubjectOf[tree[i]] \in Nat
      /\ \A e \in Active : \E i \in 1 .. n : tree[i] = e
  BY TreeElements
<1>2. PICK i \in 1 .. n : SubjectOf[tree[i]] = s
  BY <1>1 DEF SubscribersOf
<1>3. \A j \in 1 .. n : SubjectOf[tree[j]] = s => j \in T
  BY <1>1
<1>4. k \in T /\ \A y \in T : k <= y
  <2>1. T \subseteq Nat /\ T # {}
    BY <1>1, <1>2, <1>3
  <2>2. QED
    BY <2>1, MinIsLeast
<1>5. SubjectOf[tree[k]] <= s
  <2>1. k \in 1 .. n /\ k <= i
    BY <1>1, <1>2, <1>3, <1>4
  <2>2. CASE k = i
    BY <1>2, <2>2
  <2>3. CASE k < i
    BY <1>1, <1>2, <2>1, <2>3 DEF TreeInOrder
  <2>4. QED
    BY <1>1, <2>1, <2>2, <2>3
<1>6. QED
  BY <1>1, <1>3, <1>4, <1>5

LEMMA HubPushStartStep ==
    ASSUME IInv, NEW s \in Subjects, HubPushStart(s)
    PROVE  IInv'
<1> USE DEF entryVars, queueVars, driverVars
<1> DEFINE k == Min({i \in DOMAIN active_entry_tree :
                         SubjectOf[active_entry_tree[i]] >= s})
<1>1. /\ TypeOK /\ TreeInOrder /\ HeadIsFirst /\ LinksMatchFlags
      /\ CleanUpGapsNonEmpty /\ UpdateInHand
  BY DEF IInv
<1>2. /\ next_push_ptr' = active_entry_tree[k]
      /\ frame_subject' = s
      /\ delivered' = {}
      /\ owed' = SubscribersOf(s)
      /\ UNCHANGED << entryVars, queueVars, free_slot_count, driverVars >>
      /\ Active' = Active
  BY DEF HubPushStart, Active
<1>3. s \in Nat /\ s # NoSubject
  BY ConstantsAssumption DEF Subjects, NoSubject
<1>4. k \in 1 .. Len(active_entry_tree) /\ SubjectOf[active_entry_tree[k]] = s
  BY <1>1, <1>3, FirstSubscriber DEF HubPushStart
<1>5. active_entry_tree[k] \in Active /\ Active \subseteq Entries
  BY <1>1, <1>4, TreeElements
<1>6. TypeOK'
  BY <1>1, <1>2, <1>5 DEF TypeOK, SubscribersOf
<1>7. TreeInOrder' /\ HeadIsFirst' /\ LinksMatchFlags' /\ UpdateInHand'
  BY <1>1, <1>2 DEF TreeInOrder, HeadIsFirst, LinksMatchFlags, UpdateInHand
<1>8. CleanUpGapsNonEmpty'
  BY <1>1, <1>2 DEF CleanUpGapsNonEmpty, FirstCleanUp
<1>9. PushPtrActive'
  BY <1>2, <1>3, <1>4, <1>5 DEF PushPtrActive
<1>10. QED
  BY <1>6, <1>7, <1>8, <1>9 DEF IInv

LEMMA HubPushNextStep ==
    ASSUME IInv, HubPushNext
    PROVE  IInv'
<1> USE DEF entryVars, queueVars, driverVars
<1>1. /\ TypeOK /\ TreeInOrder /\ HeadIsFirst /\ LinksMatchFlags
      /\ CleanUpGapsNonEmpty /\ UpdateInHand /\ PushPtrActive
  BY DEF IInv
<1>2. /\ UNCHANGED << entryVars, queueVars, free_slot_count, driverVars >>
      /\ Active' = Active
      /\ next_push_ptr' = IF next_push_ptr = NoEntry THEN NoEntry
                                                     ELSE NextTail(next_push_ptr)
      /\ IF next_push_ptr' = NoEntry
         THEN frame_subject' = NoSubject /\ delivered' = {} /\ owed' = {}
         ELSE delivered' = Delivery /\ UNCHANGED << frame_subject, owed >>
  BY DEF HubPushNext, Active
<1>3. ASSUME next_push_ptr' # NoEntry
      PROVE  /\ next_push_ptr' \in Active
             /\ SubjectOf[next_push_ptr'] = frame_subject
             /\ frame_subject # NoSubject
  <2>1. next_push_ptr \in Active /\ SubjectOf[next_push_ptr] = frame_subject
    BY <1>1, <1>2, <1>3 DEF PushPtrActive
  <2>2. next_push_ptr' = NextTail(next_push_ptr)
    BY <1>2, <1>3
  <2>3. QED
    BY <1>1, <1>3, <2>1, <2>2, NextTailProperties DEF HubPushNext
<1>4. Active \subseteq Entries
  BY <1>1, TreeElements
<1>5. /\ next_push_ptr' \in Entries \cup {NoEntry}
      /\ frame_subject' \in Subjects \cup {NoSubject}
      /\ delivered' \subseteq Entries
      /\ owed' \subseteq Entries
  BY <1>1, <1>2, <1>3, <1>4 DEF TypeOK, Delivery
<1>6. TypeOK'
  BY <1>1, <1>2, <1>5 DEF TypeOK
<1>7. TreeInOrder' /\ HeadIsFirst' /\ LinksMatchFlags' /\ UpdateInHand'
  BY <1>1, <1>2 DEF TreeInOrder, HeadIsFirst, LinksMatchFlags, UpdateInHand
<1>8. CleanUpGapsNonEmpty'
  BY <1>1, <1>2 DEF CleanUpGapsNonEmpty, FirstCleanUp
<1>9. PushPtrActive'
  BY <1>2, <1>3 DEF PushPtrActive
<1>10. QED
  BY <1>6, <1>7, <1>8, <1>9 DEF IInv

\* Fetching the clean-up of a queued head.
LEMMA PopCleanUpQueueStep ==
    ASSUME IInv, PopCleanUpQueue, driver = "polling",
           UNCHANGED << free_slot_count, pushVars, filter >>
    PROVE  IInv'
<1> USE DEF entryVars, pushVars
<1> DEFINE entry == Head(clean_up_queue)
           k == IndexOf(active_entry_tree, entry)
<1>1. /\ TypeOK /\ TreeInOrder /\ HeadIsFirst /\ LinksMatchFlags
      /\ CleanUpGapsNonEmpty /\ PushPtrActive
  BY DEF IInv
<1>2. /\ clean_up_queue # << >>
      /\ Hold("RemoveSubjectRange", FirstCleanUp(k), LastCleanUp(entry))
      /\ clean_up_queue' = Tail(clean_up_queue)
      /\ UNCHANGED << entryVars, clean_up_last, activation_queue >>
      /\ Active' = Active
  BY DEF PopCleanUpQueue, Active
<1>3. /\ entry \in ToSet(clean_up_queue)
      /\ clean_up_queue' \in Seq(Entries)
      /\ ToSet(clean_up_queue') = ToSet(clean_up_queue) \ {entry}
      /\ IsInjective(clean_up_queue')
  BY <1>1, <1>2, TailElements DEF TypeOK, LinksMatchFlags
<1>4. /\ k \in 1 .. Len(active_entry_tree)
      /\ active_entry_tree[k] = entry
  BY <1>1, <1>3, IndexOfActive DEF LinksMatchFlags, HeadIsFirst
<1> HIDE DEF k, entry
<1>5. FirstCleanUp(k) \in Subjects /\ LastCleanUp(entry) \in Subjects
  <2>1. FirstCleanUp(k) < SubjectOf[entry]
    BY <1>1, <1>3, <1>4, TreeElements DEF CleanUpGapsNonEmpty
  <2>2. FirstCleanUp(k) \in Nat
    <3>1. CASE k = 1
      BY <3>1 DEF FirstCleanUp
    <3>2. CASE k # 1
      <4>1. k - 1 \in 1 .. Len(active_entry_tree)
        BY <1>1, <1>4, <3>2, TreeElements
      <4>2. QED
        BY <1>1, <3>2, <4>1, TreeElements DEF FirstCleanUp
    <3>3. QED
      BY <3>1, <3>2
  <2>3. SubjectOf[entry] \in Nat /\ SubjectOf[entry] <= MaxSubject
    BY <1>1, <1>4, TreeElements
  <2>4. QED
    BY <2>1, <2>2, <2>3, ConstantsAssumption DEF Subjects, LastCleanUp
<1>6. /\ driver' = "applying"
      /\ update' = [kind |-> "RemoveSubjectRange", first |-> FirstCleanUp(k),
                    last |-> LastCleanUp(entry)]
  BY <1>2 DEF Hold
<1>7. update' \in Updates /\ UpdateInHand'
  BY <1>5, <1>6 DEF Updates, UpdateInHand
<1>8. TypeOK'
  BY <1>1, <1>2, <1>3, <1>6, <1>7 DEF TypeOK
<1>9. TreeInOrder' /\ HeadIsFirst' /\ LinksMatchFlags' /\ PushPtrActive'
  BY <1>1, <1>2, <1>3 DEF TreeInOrder, HeadIsFirst, LinksMatchFlags, PushPtrActive
<1>10. CleanUpGapsNonEmpty'
  BY <1>1, <1>2, <1>3 DEF CleanUpGapsNonEmpty, FirstCleanUp
<1>11. QED
  BY <1>7, <1>8, <1>9, <1>10 DEF IInv

\* Fetching the clean-up of the gap at the end.
LEMMA PopCleanUpLastStep ==
    ASSUME IInv, PopCleanUpLast, driver = "polling",
           UNCHANGED << free_slot_count, pushVars, filter >>
    PROVE  IInv'
<1> USE DEF entryVars, pushVars
<1> DEFINE first == FirstCleanUp(Len(active_entry_tree) + 1)
<1>1. /\ TypeOK /\ TreeInOrder /\ HeadIsFirst /\ LinksMatchFlags
      /\ CleanUpGapsNonEmpty /\ PushPtrActive
  BY DEF IInv
<1>2. /\ clean_up_last
      /\ clean_up_last' = FALSE
      /\ Hold("RemoveSubjectRange", first, MaxSubject)
      /\ UNCHANGED << entryVars, clean_up_queue, activation_queue >>
      /\ Active' = Active
  BY DEF PopCleanUpLast, Active
<1>3. first \in Subjects
  <2>1. first <= MaxSubject
    BY <1>1, <1>2 DEF CleanUpGapsNonEmpty
  <2>2. first \in Nat
    <3>1. Len(active_entry_tree) \in Nat
      BY <1>1, TreeElements
    <3>2. CASE Len(active_entry_tree) = 0
      BY <3>1, <3>2 DEF FirstCleanUp
    <3>3. CASE Len(active_entry_tree) # 0
      <4>1. /\ Len(active_entry_tree) \in 1 .. Len(active_entry_tree)
            /\ Len(active_entry_tree) + 1 # 1
            /\ (Len(active_entry_tree) + 1) - 1 = Len(active_entry_tree)
        BY <3>1, <3>3
      <4>2. SubjectOf[active_entry_tree[Len(active_entry_tree)]] \in Nat
        BY <1>1, <4>1, TreeElements
      <4>3. QED
        BY <4>1, <4>2 DEF FirstCleanUp
    <3>4. QED
      BY <3>2, <3>3
  <2>3. QED
    BY <2>1, <2>2, ConstantsAssumption DEF Subjects
<1>4. MaxSubject \in Subjects
  BY ConstantsAssumption DEF Subjects
<1>5. /\ driver' = "applying"
      /\ update' = [kind |-> "RemoveSubjectRange", first |-> first, last |-> MaxSubject]
  BY <1>2 DEF Hold
<1> HIDE DEF first
<1>6. update' \in Updates /\ UpdateInHand'
  BY <1>3, <1>4, <1>5 DEF Updates, UpdateInHand
<1>7. TypeOK'
  BY <1>1, <1>2, <1>5, <1>6 DEF TypeOK
<1>8. TreeInOrder' /\ HeadIsFirst' /\ LinksMatchFlags' /\ PushPtrActive'
  BY <1>1, <1>2 DEF TreeInOrder, HeadIsFirst, LinksMatchFlags, PushPtrActive
<1>9. CleanUpGapsNonEmpty'
  BY <1>1, <1>2 DEF CleanUpGapsNonEmpty, FirstCleanUp
<1>10. QED
  BY <1>6, <1>7, <1>8, <1>9 DEF IInv

\* The entries of the tree keep their predecessor when e is inserted, except the
\* one that gets e in front of it.
LEMMA InsertedNeighbours ==
    ASSUME TypeOK, TreeInOrder, NEW e \in Entries, e \notin Active,
           NEW k, NEW more, k = InsertPos(SubjectOf[e]), more = Insert(e),
           NEW i \in 1 .. Len(active_entry_tree) + 1
    PROVE  /\ i <= k /\ i > 1 => /\ i - 1 \in 1 .. Len(active_entry_tree)
                                 /\ more[i - 1] = active_entry_tree[i - 1]
           /\ i < k => /\ i \in 1 .. Len(active_entry_tree)
                       /\ more[i] = active_entry_tree[i]
           /\ i = k => more[i] = e
           /\ i > k => /\ i - 1 \in 1 .. Len(active_entry_tree)
                       /\ more[i] = active_entry_tree[i - 1]
           /\ i = k + 1 => more[i - 1] = e
           /\ i > k + 1 => /\ (i - 1) - 1 \in 1 .. Len(active_entry_tree)
                           /\ i - 1 # 1
                           /\ more[i - 1] = active_entry_tree[(i - 1) - 1]
<1> DEFINE n == Len(active_entry_tree)
<1>1. /\ k \in 1 .. n + 1
      /\ Len(more) = n + 1
      /\ \A j \in 1 .. n + 1 :
             more[j] = IF j < k THEN active_entry_tree[j]
                       ELSE IF j = k THEN e
                       ELSE active_entry_tree[j - 1]
  BY InsertActive
<1>2. n \in Nat
  BY TreeElements
<1> HIDE DEF n
<1>3. \A j \in 1 .. n + 1 :
          /\ j < k => j \in 1 .. n /\ more[j] = active_entry_tree[j]
          /\ j = k => more[j] = e
          /\ j > k => j - 1 \in 1 .. n /\ more[j] = active_entry_tree[j - 1]
  BY <1>1, <1>2
<1>4. i \in 1 .. n + 1
  BY DEF n
<1>5. i <= k /\ i > 1 => i - 1 \in 1 .. n /\ more[i - 1] = active_entry_tree[i - 1]
  <2>1. i <= k /\ i > 1 => i - 1 \in 1 .. n + 1 /\ i - 1 < k
    BY <1>1, <1>2, <1>4
  <2>2. QED
    BY <1>3, <2>1
<1>6. i = k + 1 => more[i - 1] = e
  <2>1. i = k + 1 => i - 1 = k
    BY <1>1, <1>2, <1>4
  <2>2. QED
    BY <1>1, <1>3, <2>1
<1>7. i > k + 1 => /\ (i - 1) - 1 \in 1 .. n
                   /\ i - 1 # 1
                   /\ more[i - 1] = active_entry_tree[(i - 1) - 1]
  <2>1. i > k + 1 => i - 1 \in 1 .. n + 1 /\ i - 1 > k /\ i - 1 # 1
    BY <1>1, <1>2, <1>4
  <2>2. QED
    BY <1>3, <2>1
<1>8. QED
  BY <1>3, <1>4, <1>5, <1>6, <1>7 DEF n

\* Activating a registered entry: a head if its subject is new to the tree.
LEMMA PopRegistrationQueueStep ==
    ASSUME IInv, PopRegistrationQueue, driver = "polling",
           UNCHANGED << free_slot_count, pushVars, filter >>
    PROVE  IInv'
<1> USE DEF pushVars
<1> DEFINE e == Head(activation_queue)
           tree == active_entry_tree
           n == Len(tree)
           k == InsertPos(SubjectOf[e])
           more == Insert(e)
<1>1. /\ TypeOK /\ TreeInOrder /\ HeadIsFirst /\ LinksMatchFlags
      /\ PushPtrActive /\ UpdateInHand
  BY DEF IInv
<1>2. /\ clean_up_queue = << >> /\ ~ clean_up_last /\ activation_queue # << >>
      /\ UNCHANGED << clean_up_queue, clean_up_last >>
      /\ activation_queue' = Tail(activation_queue)
      /\ inactive_entry_tree' = inactive_entry_tree \ {e}
      /\ active_entry_tree' = more
      /\ is_active' = is_active \cup {e}
      /\ \/ /\ ~ HasSubject(Active, SubjectOf[e])
            /\ is_head' = is_head \cup {e}
            /\ Hold("AddSubject", SubjectOf[e], SubjectOf[e])
         \/ /\ HasSubject(Active, SubjectOf[e])
            /\ UNCHANGED << is_head, driver, update >>
  BY DEF PopRegistrationQueue, Activate, BecomesHead
<1>3. /\ e \in inactive_entry_tree
      /\ e \in Entries
      /\ e \notin Active
      /\ activation_queue' \in Seq(Entries)
      /\ ToSet(activation_queue') = inactive_entry_tree'
      /\ IsInjective(activation_queue')
  BY <1>1, <1>2, TailElements DEF TypeOK, LinksMatchFlags
<1> HIDE DEF e
<1>4. /\ n \in Nat
      /\ DOMAIN tree = 1 .. n
      /\ \A i \in 1 .. n : SubjectOf[tree[i]] \in Nat /\ tree[i] \in Active
      /\ SubjectOf[e] \in Nat
      /\ SubjectOf[e] \in Subjects
  BY <1>1, <1>3, TreeElements, ConstantsAssumption DEF Subjects
<1>5. /\ k \in 1 .. n + 1
      /\ more \in Seq(Entries)
      /\ Len(more) = n + 1
      /\ DOMAIN more = 1 .. n + 1
      /\ ToSet(more) = Active \cup {e}
      /\ IsInjective(more)
      /\ \A i, j \in DOMAIN more :
             i < j => SubjectOf[more[i]] <= SubjectOf[more[j]]
  BY <1>1, <1>3, InsertActive
<1>6. \A i \in 1 .. n + 1 :
          /\ i <= k /\ i > 1 => i - 1 \in 1 .. n /\ more[i - 1] = tree[i - 1]
          /\ i < k => i \in 1 .. n /\ more[i] = tree[i]
          /\ i = k => more[i] = e
          /\ i > k => i - 1 \in 1 .. n /\ more[i] = tree[i - 1]
          /\ i = k + 1 => more[i - 1] = e
          /\ i > k + 1 => /\ (i - 1) - 1 \in 1 .. n
                          /\ i - 1 # 1
                          /\ more[i - 1] = tree[(i - 1) - 1]
  <2>1. ASSUME NEW i \in 1 .. n + 1
        PROVE  /\ i <= k /\ i > 1 => i - 1 \in 1 .. n /\ more[i - 1] = tree[i - 1]
               /\ i < k => i \in 1 .. n /\ more[i] = tree[i]
               /\ i = k => more[i] = e
               /\ i > k => i - 1 \in 1 .. n /\ more[i] = tree[i - 1]
               /\ i = k + 1 => more[i - 1] = e
               /\ i > k + 1 => /\ (i - 1) - 1 \in 1 .. n
                               /\ i - 1 # 1
                               /\ more[i - 1] = tree[(i - 1) - 1]
    BY <1>1, <1>3, InsertedNeighbours
  <2>2. QED
    BY <2>1
<1>7. /\ \A i \in 1 .. n : i < k <=> SubjectOf[tree[i]] <= SubjectOf[e]
      /\ HasSubject(Active, SubjectOf[e]) =>
             k > 1 /\ SubjectOf[tree[k - 1]] = SubjectOf[e]
  BY <1>1, <1>4, InsertPosProperties
<1> HIDE DEF n, k, more
<1>8. Active' = Active \cup {e}
  BY <1>2, <1>5 DEF Active
<1>9. is_head' \subseteq Active' /\ e \notin is_head
  BY <1>1, <1>2, <1>3, <1>8 DEF HeadIsFirst
<1>10. \A i \in 1 .. n : tree[i] \in is_head <=>
           i = 1 \/ SubjectOf[tree[i - 1]] # SubjectOf[tree[i]]
  BY <1>1, <1>4 DEF HeadIsFirst
<1>11. \A i \in 1 .. n : tree[i] # e
  BY <1>3, <1>4
<1>12. ASSUME NEW i \in 1 .. n + 1
       PROVE  more[i] \in is_head' <=>
                  i = 1 \/ SubjectOf[more[i - 1]] # SubjectOf[more[i]]
  <2>1. \A j \in 1 .. n : tree[j] \in is_head' <=> tree[j] \in is_head
    BY <1>2, <1>11
  <2>2. CASE i < k
    <3>1. CASE i = 1
      BY <1>6, <1>10, <2>1, <2>2, <3>1
    <3>2. CASE i > 1
      <4>1. i <= k /\ i # 1
        BY <1>4, <1>5, <2>2, <3>2
      <4>2. QED
        BY <1>6, <1>10, <2>1, <2>2, <3>2, <4>1
    <3>3. QED
      BY <1>4, <3>1, <3>2
  <2>3. CASE i = k
    <3>1. CASE HasSubject(Active, SubjectOf[e])
      <4>1. i <= k /\ i > 1 /\ i # 1 /\ e \notin is_head'
        BY <1>2, <1>4, <1>5, <1>7, <1>9, <2>3, <3>1
      <4>2. SubjectOf[more[i - 1]] = SubjectOf[more[i]]
        BY <1>6, <1>7, <2>3, <3>1, <4>1
      <4>3. QED
        BY <1>6, <2>3, <4>1, <4>2
    <3>2. CASE ~ HasSubject(Active, SubjectOf[e])
      <4>1. e \in is_head'
        BY <1>2, <3>2
      <4>2. ASSUME i # 1
            PROVE  SubjectOf[more[i - 1]] # SubjectOf[e]
        <5>1. i <= k /\ i > 1
          BY <1>4, <1>5, <2>3, <4>2
        <5>2. more[i - 1] \in Active
          BY <1>4, <1>6, <5>1
        <5>3. QED
          BY <3>2, <5>2 DEF HasSubject
      <4>3. QED
        BY <1>6, <2>3, <4>1, <4>2
    <3>3. QED
      BY <3>1, <3>2
  <2>4. CASE i = k + 1
    <3>1. i - 1 = k /\ i > k /\ i # 1
      BY <1>4, <1>5, <2>4
    <3>2. k \in 1 .. n /\ more[i] = tree[k] /\ more[i - 1] = e
      BY <1>6, <2>4, <3>1
    <3>3. ~ (SubjectOf[tree[k]] <= SubjectOf[e])
      BY <1>4, <1>7, <3>2
    <3>4. tree[k] \in is_head
      <4>1. ASSUME k # 1
            PROVE  SubjectOf[tree[k - 1]] # SubjectOf[tree[k]]
        <5>1. k - 1 \in 1 .. n /\ k - 1 < k
          BY <1>4, <3>2, <4>1
        <5>2. SubjectOf[tree[k - 1]] <= SubjectOf[e]
          BY <1>7, <5>1
        <5>3. QED
          BY <3>3, <5>2
      <4>2. QED
        BY <1>10, <3>2, <4>1
    <3>5. SubjectOf[e] # SubjectOf[tree[k]]
      BY <1>4, <3>3
    <3>6. QED
      BY <2>1, <3>2, <3>4, <3>5
  <2>5. CASE i > k + 1
    <3>1. i > k /\ i # 1
      BY <1>4, <1>5, <2>5
    <3>2. QED
      BY <1>6, <1>10, <2>1, <2>5, <3>1
  <2>6. QED
    BY <1>4, <1>5, <2>2, <2>3, <2>4, <2>5
<1>13. HeadIsFirst'
  BY <1>2, <1>5, <1>9, <1>12 DEF HeadIsFirst
<1>14. TreeInOrder'
  BY <1>2, <1>5 DEF TreeInOrder
<1>15. LinksMatchFlags'
  <2>1. ToSet(clean_up_queue') \subseteq is_head'
    BY <1>1, <1>2 DEF LinksMatchFlags
  <2>2. is_active' = Active' /\ inactive_entry_tree' \cap Active' = {}
    BY <1>1, <1>2, <1>8 DEF LinksMatchFlags
  <2>3. IsInjective(clean_up_queue')
    BY <1>1, <1>2 DEF LinksMatchFlags
  <2>4. QED
    BY <1>3, <2>1, <2>2, <2>3 DEF LinksMatchFlags
<1>16. CleanUpGapsNonEmpty'
  BY <1>2 DEF CleanUpGapsNonEmpty, ToSet
<1>17. PushPtrActive'
  BY <1>1, <1>8 DEF PushPtrActive
<1>18. /\ driver' \in {"polling", "waiting", "applying", "panicked"}
       /\ update' \in Updates
       /\ UpdateInHand'
  <2>1. CASE HasSubject(Active, SubjectOf[e])
    BY <1>1, <1>2, <2>1 DEF UpdateInHand, TypeOK
  <2>2. CASE ~ HasSubject(Active, SubjectOf[e])
    <3>1. /\ driver' = "applying"
          /\ update' = [kind |-> "AddSubject", first |-> SubjectOf[e],
                        last |-> SubjectOf[e]]
      BY <1>2, <2>2 DEF Hold
    <3>2. QED
      BY <1>4, <3>1 DEF UpdateInHand, Updates
  <2>3. QED
    BY <2>1, <2>2
<1>19. TypeOK'
  <2>1. is_head' \subseteq Entries
    BY <1>1, <1>2, <1>3 DEF TypeOK
  <2>2. QED
    BY <1>1, <1>2, <1>3, <1>5, <1>18, <2>1 DEF TypeOK
<1>20. QED
  BY <1>13, <1>14, <1>15, <1>16, <1>17, <1>18, <1>19 DEF IInv

\* A poll that finds nothing to do.
LEMMA SuspendStep ==
    ASSUME IInv, Suspend, driver = "polling",
           UNCHANGED << free_slot_count, pushVars, filter >>
    PROVE  IInv'
<1> USE DEF entryVars, queueVars, pushVars
<1>1. /\ driver' = "waiting"
      /\ UNCHANGED << entryVars, queueVars, update >>
      /\ Active' = Active
  BY DEF Suspend, Active
<1>2. TypeOK' /\ TreeInOrder' /\ HeadIsFirst' /\ LinksMatchFlags'
  BY <1>1 DEF IInv, TypeOK, TreeInOrder, HeadIsFirst, LinksMatchFlags
<1>3. CleanUpGapsNonEmpty' /\ PushPtrActive' /\ UpdateInHand'
  BY <1>1 DEF IInv, CleanUpGapsNonEmpty, FirstCleanUp, PushPtrActive, UpdateInHand
<1>4. QED
  BY <1>2, <1>3 DEF IInv

LEMMA PollPopFilterUpdateStep ==
    ASSUME IInv, PollPopFilterUpdate
    PROVE  IInv'
BY PopCleanUpQueueStep, PopCleanUpLastStep, PopRegistrationQueueStep, SuspendStep
   DEF PollPopFilterUpdate

LEMMA ApplyUpdateStep ==
    ASSUME IInv, ApplyUpdate
    PROVE  IInv'
<1> USE DEF entryVars, queueVars, pushVars
<1>1. /\ UNCHANGED << entryVars, queueVars, free_slot_count, pushVars >>
      /\ Active' = Active
  BY DEF ApplyUpdate, Active
<1>2. TreeInOrder' /\ HeadIsFirst' /\ LinksMatchFlags'
  BY <1>1 DEF IInv, TreeInOrder, HeadIsFirst, LinksMatchFlags
<1>3. CleanUpGapsNonEmpty' /\ PushPtrActive'
  BY <1>1 DEF IInv, CleanUpGapsNonEmpty, FirstCleanUp, PushPtrActive
<1>4. NoUpdate \in Updates
  BY ConstantsAssumption DEF NoUpdate, Updates, Subjects
<1>5. /\ driver' \in {"polling", "panicked"}
      /\ update' \in Updates
      /\ filter' \subseteq Subjects
      /\ UpdateInHand'
  BY <1>4 DEF ApplyUpdate, IInv, TypeOK, Updates, UpdateInHand, NoUpdate
<1>6. TypeOK'
  BY <1>1, <1>5 DEF IInv, TypeOK
<1>7. QED
  BY <1>2, <1>3, <1>5, <1>6 DEF IInv

LEMMA SpuriousPollStep ==
    ASSUME IInv, SpuriousPoll
    PROVE  IInv'
<1> USE DEF entryVars, queueVars, pushVars
<1>1. /\ driver = "waiting" /\ driver' = "polling"
      /\ UNCHANGED << entryVars, queueVars, free_slot_count, pushVars, update, filter >>
      /\ Active' = Active
  BY DEF SpuriousPoll, Active
<1>2. TypeOK' /\ TreeInOrder' /\ HeadIsFirst' /\ LinksMatchFlags'
  BY <1>1 DEF IInv, TypeOK, TreeInOrder, HeadIsFirst, LinksMatchFlags
<1>3. CleanUpGapsNonEmpty' /\ PushPtrActive' /\ UpdateInHand'
  BY <1>1 DEF IInv, CleanUpGapsNonEmpty, FirstCleanUp, PushPtrActive, UpdateInHand
<1>4. QED
  BY <1>2, <1>3 DEF IInv

LEMMA StutterStep ==
    ASSUME IInv, UNCHANGED vars
    PROVE  IInv'
<1> USE DEF vars, entryVars, queueVars, pushVars, driverVars
<1>1. Active' = Active
  BY DEF Active
<1>2. TypeOK' /\ TreeInOrder' /\ HeadIsFirst' /\ LinksMatchFlags'
  BY <1>1 DEF IInv, TypeOK, TreeInOrder, HeadIsFirst, LinksMatchFlags
<1>3. CleanUpGapsNonEmpty' /\ PushPtrActive' /\ UpdateInHand'
  BY <1>1 DEF IInv, CleanUpGapsNonEmpty, FirstCleanUp, PushPtrActive, UpdateInHand
<1>4. QED
  BY <1>2, <1>3 DEF IInv

LEMMA NextIInv == IInv /\ [Next]_vars => IInv'
<1> SUFFICES ASSUME IInv, [Next]_vars PROVE IInv'
  OBVIOUS
<1>1. ASSUME NEW e \in Entries, Register(e) PROVE IInv'
  BY <1>1, RegisterStep
<1>2. ASSUME NEW e \in Entries, Unregister(e) PROVE IInv'
  BY <1>2, UnregisterStep
<1>3. ASSUME NEW s \in Subjects, HubPushStart(s) PROVE IInv'
  BY <1>3, HubPushStartStep
<1>4. CASE HubPushNext
  BY <1>4, HubPushNextStep
<1>5. CASE PollPopFilterUpdate
  BY <1>5, PollPopFilterUpdateStep
<1>6. CASE ApplyUpdate
  BY <1>6, ApplyUpdateStep
<1>7. CASE SpuriousPoll
  BY <1>7, SpuriousPollStep
<1>8. CASE UNCHANGED vars
  BY <1>8, StutterStep
<1>9. QED
  BY <1>1, <1>2, <1>3, <1>4, <1>5, <1>6, <1>7, <1>8 DEF Next, FilterTask

-----------------------------------------------------------------------------
(* The filter.                                                             *)

\* Subjects are numbers, those of the entries and those of the slots.
LEMMA SubjectsAreNumbers ==
    ASSUME TypeOK
    PROVE  /\ \A e \in Entries : SubjectOf[e] \in Nat /\ SubjectOf[e] <= MaxSubject
           /\ Active \subseteq Entries
           /\ \A s \in Slots : s \in Nat /\ s <= MaxSubject
           /\ update.first \in Nat /\ update.last \in Nat
<1>1. \A e \in Entries : SubjectOf[e] \in Nat /\ SubjectOf[e] <= MaxSubject
  BY ConstantsAssumption DEF Subjects
<1>2. update \in Updates /\ filter \subseteq Subjects
  BY DEF TypeOK
<1>3. update.first \in Subjects /\ update.last \in Subjects
  BY <1>2 DEF Updates
<1>4. QED
  BY <1>1, <1>2, <1>3, TreeElements, ConstantsAssumption DEF Slots, Subjects

\* Steps that neither touch the tree and the clean-ups nor the filter and its updates.
LEMMA FilterUntouched ==
    ASSUME FilterInv, Active' = Active,
           ToSet(clean_up_queue') = ToSet(clean_up_queue),
           UNCHANGED << clean_up_last, update, filter >>
    PROVE  FilterInv'
<1>1. FilterCoversActive'
  BY DEF FilterInv, FilterCoversActive, RemovalSparesActive, AddIsNew
<1>2. StaleSlotIsScheduled'
  BY DEF FilterInv, StaleSlotIsScheduled, RemovalScheduled, Slots, HasSubject,
         InGapBefore, InLastGap
<1>3. QED
  BY <1>1, <1>2 DEF FilterInv

\* An endpoint that joins a subject which is active already.
LEMMA JoinKeepsFilter ==
    ASSUME TypeOK, FilterInv, NEW e \in Entries, HasSubject(Active, SubjectOf[e]),
           Active' = Active \cup {e},
           UNCHANGED << clean_up_queue, clean_up_last, update, filter >>
    PROVE  FilterInv'
<1>1. PICK y \in Active : SubjectOf[y] = SubjectOf[e]
  BY DEF HasSubject
<1>2. FilterCoversActive'
  BY <1>1 DEF FilterInv, FilterCoversActive, RemovalSparesActive, AddIsNew
<1>3. ASSUME NEW s \in Slots'
      PROVE  HasSubject(Active, s)' \/ RemovalScheduled(s)'
  <2>1. s \in Slots
    BY DEF Slots
  <2>2. HasSubject(Active, s) \/ RemovalScheduled(s)
    BY <2>1 DEF FilterInv, StaleSlotIsScheduled
  <2>3. \A h : InGapBefore(h, s) => InGapBefore(h, s)'
    BY <1>1 DEF InGapBefore
  <2>4. InLastGap(s) => InLastGap(s)'
    BY <1>1 DEF InLastGap
  <2>5. QED
    BY <2>2, <2>3, <2>4 DEF HasSubject, RemovalScheduled
<1>4. QED
  BY <1>2, <1>3 DEF FilterInv, StaleSlotIsScheduled

\* An active endpoint that leaves: what has to be shown is that its own subject, and
\* the gap it was to clean up, are not forgotten.
LEMMA LeaveKeepsFilter ==
    ASSUME TypeOK, FilterInv, NEW e \in Active, Active' = Active \ {e},
           ToSet(clean_up_queue) \ {e} \subseteq ToSet(clean_up_queue'),
           clean_up_last => clean_up_last',
           UNCHANGED << update, filter >>,
           HasSubject(Active', SubjectOf[e]) \/ RemovalScheduled(SubjectOf[e])',
           \A s \in Nat :
               e \in ToSet(clean_up_queue) /\ InGapBefore(e, s) => RemovalScheduled(s)'
    PROVE  FilterInv'
<1>1. FilterCoversActive'
  BY DEF FilterInv, FilterCoversActive, RemovalSparesActive, AddIsNew
<1>2. ASSUME NEW s \in Slots'
      PROVE  HasSubject(Active, s)' \/ RemovalScheduled(s)'
  <2>1. s \in Slots
    BY DEF Slots
  <2>2. s \in Nat
    BY <2>1, SubjectsAreNumbers
  <2>3. CASE HasSubject(Active, s)
    BY <2>3 DEF HasSubject
  <2>4. CASE update.kind = "RemoveSubjectRange" /\ s \in update.first .. update.last
    BY <2>4 DEF RemovalScheduled
  <2>5. CASE \E h \in ToSet(clean_up_queue) : InGapBefore(h, s)
    <3>1. PICK h \in ToSet(clean_up_queue) : InGapBefore(h, s)
      BY <2>5
    <3>2. InGapBefore(h, s)'
      BY <3>1 DEF InGapBefore
    <3>3. h = e => RemovalScheduled(s)'
      BY <2>2, <3>1
    <3>4. QED
      BY <3>2, <3>3 DEF RemovalScheduled
  <2>6. CASE clean_up_last /\ InLastGap(s)
    BY <2>6 DEF RemovalScheduled, InLastGap
  <2>7. QED
    BY <2>1, <2>3, <2>4, <2>5, <2>6 DEF FilterInv, StaleSlotIsScheduled, RemovalScheduled
<1>3. QED
  BY <1>1, <1>2 DEF FilterInv, StaleSlotIsScheduled

\* The subjects around a head: the others are smaller than its own, or not smaller
\* than its successor's; the successor is a head if its subject is another one.
LEMMA AroundHead ==
    ASSUME IInv, NEW e \in is_head
    PROVE  /\ e \in Active
           /\ IsLast(e) => \A x \in Active \ {e} : SubjectOf[x] < SubjectOf[e]
           /\ ~ IsLast(e) =>
                  /\ Succ(e) \in Active \ {e}
                  /\ SubjectOf[e] <= SubjectOf[Succ(e)]
                  /\ \A x \in Active \ {e} :
                         \/ SubjectOf[x] < SubjectOf[e]
                         \/ SubjectOf[x] >= SubjectOf[Succ(e)]
                  /\ Succ(e) \in is_head <=> SubjectOf[Succ(e)] # SubjectOf[e]
<1> DEFINE tree == active_entry_tree
           n == Len(tree)
           k == IndexOf(tree, e)
<1>1. TypeOK /\ TreeInOrder /\ HeadIsFirst
  BY DEF IInv
<1>2. e \in Active
  BY <1>1 DEF HeadIsFirst
<1>3. /\ n \in Nat
      /\ DOMAIN tree = 1 .. n
      /\ \A i \in 1 .. n : tree[i] \in Active /\ SubjectOf[tree[i]] \in Nat
      /\ \A x \in Active : \E i \in 1 .. n : tree[i] = x
      /\ k \in 1 .. n /\ tree[k] = e
      /\ \A i \in 1 .. n : tree[i] = e => i = k
  BY <1>1, <1>2, TreeElements, IndexOfActive
<1>4. IsLast(e) <=> k = n
  BY DEF IsLast
<1>5. ~ IsLast(e) => Succ(e) = tree[k + 1]
  BY DEF Succ
<1>6. \A i, j \in 1 .. n : i < j => SubjectOf[tree[i]] <= SubjectOf[tree[j]]
  BY <1>1, <1>3 DEF TreeInOrder
<1>7. \A i \in 1 .. n : tree[i] \in is_head <=>
          i = 1 \/ SubjectOf[tree[i - 1]] # SubjectOf[tree[i]]
  BY <1>1, <1>3 DEF HeadIsFirst
<1> HIDE DEF n, k, tree
<1>8. ASSUME NEW i \in 1 .. n, i < k
      PROVE  SubjectOf[tree[i]] < SubjectOf[e]
  <2>1. k # 1 /\ k - 1 \in 1 .. n /\ k - 1 < k
    BY <1>3, <1>8
  <2>2. SubjectOf[tree[k - 1]] # SubjectOf[e]
    BY <1>3, <1>7, <2>1
  <2>3. SubjectOf[tree[k - 1]] <= SubjectOf[e]
    BY <1>3, <1>6, <2>1
  <2>4. i = k - 1 \/ SubjectOf[tree[i]] <= SubjectOf[tree[k - 1]]
    <3>1. i = k - 1 \/ i < k - 1
      BY <1>3, <1>8
    <3>2. QED
      BY <1>6, <2>1, <3>1
  <2>5. QED
    BY <1>3, <2>1, <2>2, <2>3, <2>4
<1>9. ASSUME IsLast(e), NEW x \in Active \ {e}
      PROVE  SubjectOf[x] < SubjectOf[e]
  <2>1. PICK i \in 1 .. n : tree[i] = x
    BY <1>3
  <2>2. i < k
    BY <1>3, <1>4, <1>9, <2>1
  <2>3. QED
    BY <1>8, <2>1, <2>2
<1>10. ASSUME ~ IsLast(e)
       PROVE  /\ Succ(e) \in Active \ {e}
              /\ SubjectOf[e] <= SubjectOf[Succ(e)]
              /\ \A x \in Active \ {e} : \/ SubjectOf[x] < SubjectOf[e]
                                         \/ SubjectOf[x] >= SubjectOf[Succ(e)]
              /\ Succ(e) \in is_head <=> SubjectOf[Succ(e)] # SubjectOf[e]
  <2>1. /\ k + 1 \in 1 .. n /\ k + 1 # k /\ k < k + 1
        /\ k + 1 # 1 /\ (k + 1) - 1 = k
    BY <1>3, <1>4, <1>10
  <2>2. Succ(e) = tree[k + 1] /\ Succ(e) \in Active \ {e}
    BY <1>3, <1>5, <1>10, <2>1
  <2>3. SubjectOf[e] <= SubjectOf[Succ(e)]
    BY <1>3, <1>6, <2>1, <2>2
  <2>4. Succ(e) \in is_head <=> SubjectOf[Succ(e)] # SubjectOf[e]
    BY <1>3, <1>7, <2>1, <2>2
  <2>5. ASSUME NEW x \in Active \ {e}
        PROVE  SubjectOf[x] < SubjectOf[e] \/ SubjectOf[x] >= SubjectOf[Succ(e)]
    <3>1. PICK i \in 1 .. n : tree[i] = x
      BY <1>3
    <3>2. i < k \/ i = k + 1 \/ i > k + 1
      BY <1>3, <3>1
    <3>3. CASE i < k
      BY <1>8, <3>1, <3>3
    <3>4. CASE i = k + 1
      BY <1>3, <2>1, <2>2, <3>1, <3>4
    <3>5. CASE i > k + 1
      BY <1>3, <1>6, <2>1, <2>2, <3>1, <3>5
    <3>6. QED
      BY <3>2, <3>3, <3>4, <3>5
  <2>6. QED
    BY <2>2, <2>3, <2>4, <2>5
<1>11. QED
  BY <1>2, <1>9, <1>10

\* The clean-up in front of position k starts behind the subjects in front of k.
LEMMA FirstCleanUpBound ==
    ASSUME TypeOK, TreeInOrder, NEW k \in 1 .. Len(active_entry_tree) + 1
    PROVE  /\ FirstCleanUp(k) \in Nat
           /\ \A s \in Nat :
                  FirstCleanUp(k) <= s <=>
                      \A i \in 1 .. Len(active_entry_tree) :
                          i < k => SubjectOf[active_entry_tree[i]] < s
<1> DEFINE tree == active_entry_tree
           n == Len(tree)
<1>1. /\ n \in Nat
      /\ DOMAIN tree = 1 .. n
      /\ \A i \in 1 .. n : SubjectOf[tree[i]] \in Nat
      /\ \A i, j \in 1 .. n : i < j => SubjectOf[tree[i]] <= SubjectOf[tree[j]]
  BY TreeElements DEF TreeInOrder
<1> HIDE DEF n, tree
<1>2. k \in 1 .. n + 1
  BY DEF n, tree
<1>3. CASE k = 1
  BY <1>1, <1>3 DEF FirstCleanUp, n, tree
<1>4. CASE k # 1
  <2>1. k - 1 \in 1 .. n /\ k - 1 < k
    BY <1>1, <1>2, <1>4
  <2>2. FirstCleanUp(k) = SubjectOf[tree[k - 1]] + 1
    BY <1>4 DEF FirstCleanUp, tree
  <2>3. ASSUME NEW i \in 1 .. n, i < k
        PROVE  SubjectOf[tree[i]] <= SubjectOf[tree[k - 1]]
    <3>1. i = k - 1 \/ i < k - 1
      BY <1>2, <2>3
    <3>2. QED
      BY <1>1, <2>1, <3>1
  <2>4. ASSUME NEW s \in Nat
        PROVE  FirstCleanUp(k) <= s <=>
                   \A i \in 1 .. n : i < k => SubjectOf[tree[i]] < s
    BY <1>1, <2>1, <2>2, <2>3
  <2>5. QED
    BY <1>1, <2>1, <2>2, <2>4 DEF n, tree
<1>5. QED
  BY <1>3, <1>4

LEMMA RegisterKeepsFilter ==
    ASSUME IInv, FilterInv, NEW e \in Entries, Register(e)
    PROVE  FilterInv'
<1> USE DEF pushVars
<1>1. /\ e \notin Active
      /\ UNCHANGED << clean_up_queue, clean_up_last, update, filter >>
  BY DEF Register, Registered
<1>2. CASE RegisterActiveSubject(e)
  <2>1. HasSubject(Active, SubjectOf[e]) /\ active_entry_tree' = Insert(e)
    BY <1>2 DEF RegisterActiveSubject
  <2>2. Active' = Active \cup {e}
    BY <1>1, <2>1, InsertActive DEF IInv, Active
  <2>3. QED
    BY <1>1, <2>1, <2>2, JoinKeepsFilter DEF IInv
<1>3. CASE ~ RegisterActiveSubject(e)
  <2>1. UNCHANGED active_entry_tree
    BY <1>3 DEF Register, RegisterEnqueuedSubject, RegisterNewSubject, Enqueue
  <2>2. Active' = Active
    BY <2>1 DEF Active
  <2>3. QED
    BY <1>1, <2>2, FilterUntouched
<1>4. QED
  BY <1>2, <1>3

\* A tail leaves its subject to the entry in front of it.
LEMMA UnregisterTailKeepsFilter ==
    ASSUME IInv, FilterInv, NEW e \in Entries, UnregisterActiveTail(e)
    PROVE  FilterInv'
<1> USE DEF queueVars, driverVars
<1>1. TypeOK /\ TreeInOrder /\ HeadIsFirst /\ LinksMatchFlags
  BY DEF IInv
<1>2. /\ e \in Active /\ e \notin is_head
      /\ UnlinkActive(e)
      /\ UNCHANGED << queueVars, frame_subject, driverVars >>
  BY <1>1 DEF UnregisterActiveTail, LinksMatchFlags
<1>3. Active' = Active \ {e}
  BY <1>2, UnlinkActiveStep
<1>4. HasSubject(Active', SubjectOf[e])
  <2> DEFINE k == IndexOf(active_entry_tree, e)
             n == Len(active_entry_tree)
  <2>1. /\ n \in Nat
        /\ DOMAIN active_entry_tree = 1 .. n
        /\ \A i \in 1 .. n : active_entry_tree[i] \in Active
        /\ k \in 1 .. n /\ active_entry_tree[k] = e
        /\ \A i \in 1 .. n : active_entry_tree[i] = e => i = k
    BY <1>1, <1>2, TreeElements, IndexOfActive
  <2> HIDE DEF k, n
  <2>2. k # 1 /\ SubjectOf[active_entry_tree[k - 1]] = SubjectOf[e]
    BY <1>1, <1>2, <2>1 DEF HeadIsFirst
  <2>3. k - 1 \in 1 .. n /\ k - 1 # k
    BY <2>1, <2>2
  <2>4. active_entry_tree[k - 1] \in Active \ {e}
    BY <2>1, <2>3
  <2>5. QED
    BY <1>3, <2>2, <2>4 DEF HasSubject
<1>5. e \notin ToSet(clean_up_queue)
  BY <1>1, <1>2 DEF LinksMatchFlags
<1>6. QED
  BY <1>1, <1>2, <1>3, <1>4, <1>5, LeaveKeepsFilter

\* The last head leaves the gap behind the last entry.
LEMMA UnregisterLastHeadKeepsFilter ==
    ASSUME IInv, FilterInv, NEW e \in Entries, UnregisterActiveHead(e), IsLast(e)
    PROVE  FilterInv'
<1>1. TypeOK /\ LinksMatchFlags
  BY DEF IInv
<1>2. /\ e \in Active /\ e \in is_head
      /\ UnlinkActive(e)
      /\ clean_up_queue' = UnlinkCleanUp(e)
      /\ clean_up_last' = TRUE
      /\ UNCHANGED << frame_subject, update, filter >>
  BY <1>1 DEF UnregisterActiveHead, LinksMatchFlags
<1>3. Active' = Active \ {e}
  BY <1>2, UnlinkActiveStep
<1>4. \A x \in Active \ {e} : SubjectOf[x] < SubjectOf[e]
  BY <1>2, AroundHead
<1>5. ToSet(clean_up_queue') = ToSet(clean_up_queue) \ {e}
  BY <1>2, UnlinkCleanUpProperties
<1>6. RemovalScheduled(SubjectOf[e])'
  BY <1>2, <1>3, <1>4 DEF RemovalScheduled, InLastGap
<1>7. ASSUME NEW s \in Nat, InGapBefore(e, s)
      PROVE  RemovalScheduled(s)'
  <2>1. \A x \in Active : SubjectOf[x] \in Nat
    BY <1>1, SubjectsAreNumbers
  <2>2. \A x \in Active' : SubjectOf[x] < s
    BY <1>2, <1>3, <1>4, <1>7, <2>1 DEF InGapBefore
  <2>3. QED
    BY <1>2, <2>2 DEF RemovalScheduled, InLastGap
<1>8. QED
  BY <1>1, <1>2, <1>3, <1>5, <1>6, <1>7, LeaveKeepsFilter

\* Any other head leaves its gaps to the entry behind it.
LEMMA UnregisterInnerHeadKeepsFilter ==
    ASSUME IInv, FilterInv, NEW e \in Entries, UnregisterActiveHead(e), ~ IsLast(e)
    PROVE  FilterInv'
<1>1. TypeOK /\ LinksMatchFlags
  BY DEF IInv
<1>2. /\ e \in Active /\ e \in is_head
      /\ UnlinkActive(e)
      /\ PassCleanUp(e)
      /\ UNCHANGED << clean_up_last, frame_subject, update, filter >>
  BY <1>1 DEF UnregisterActiveHead, LinksMatchFlags
<1>3. Active' = Active \ {e}
  BY <1>2, UnlinkActiveStep
<1>4. PICK succ :
          /\ succ = Succ(e)
          /\ succ \in Active \ {e}
          /\ SubjectOf[e] <= SubjectOf[succ]
          /\ \A x \in Active \ {e} : \/ SubjectOf[x] < SubjectOf[e]
                                     \/ SubjectOf[x] >= SubjectOf[succ]
          /\ succ \in is_head <=> SubjectOf[succ] # SubjectOf[e]
  BY <1>2, AroundHead
<1>5. /\ UnlinkCleanUp(e) \in Seq(Entries)
      /\ ToSet(UnlinkCleanUp(e)) = ToSet(clean_up_queue) \ {e}
  BY <1>2, UnlinkCleanUpProperties
<1>6. Active \subseteq Entries /\ \A x \in Entries : SubjectOf[x] \in Nat
  BY <1>1, SubjectsAreNumbers
<1>7. /\ ToSet(clean_up_queue) \ {e} \subseteq ToSet(clean_up_queue')
      /\ e \in ToSet(clean_up_queue) \/ succ \in is_head => succ \in ToSet(clean_up_queue')
  <2>1. CASE TakesOver(e)
    <3>1. clean_up_queue' = Append(UnlinkCleanUp(e), succ)
      BY <1>2, <1>4, <2>1 DEF PassCleanUp
    <3>2. ToSet(clean_up_queue') = (ToSet(clean_up_queue) \ {e}) \cup {succ}
      BY <1>4, <1>5, <1>6, <3>1, AppendElements
    <3>3. QED
      BY <3>2
  <2>2. CASE ~ TakesOver(e)
    <3>1. clean_up_queue' = UnlinkCleanUp(e)
      BY <1>2, <2>2 DEF PassCleanUp
    <3>2. e \in ToSet(clean_up_queue) \/ succ \in is_head => succ \in ToSet(clean_up_queue)
      BY <1>4, <2>2 DEF TakesOver
    <3>3. QED
      BY <1>4, <1>5, <3>1, <3>2
  <2>3. QED
    BY <2>1, <2>2
<1>8. HasSubject(Active', SubjectOf[e]) \/ RemovalScheduled(SubjectOf[e])'
  <2>1. CASE SubjectOf[succ] = SubjectOf[e]
    BY <1>3, <1>4, <2>1 DEF HasSubject
  <2>2. CASE SubjectOf[succ] # SubjectOf[e]
    <3>1. SubjectOf[e] < SubjectOf[succ]
      BY <1>4, <1>6, <2>2
    <3>2. InGapBefore(succ, SubjectOf[e])'
      BY <1>3, <1>4, <3>1 DEF InGapBefore
    <3>3. QED
      BY <1>4, <1>7, <2>2, <3>2 DEF RemovalScheduled
  <2>3. QED
    BY <2>1, <2>2
<1>9. ASSUME NEW s \in Nat, e \in ToSet(clean_up_queue), InGapBefore(e, s)
      PROVE  RemovalScheduled(s)'
  <2>1. s < SubjectOf[succ]
    BY <1>4, <1>6, <1>9 DEF InGapBefore
  <2>2. \A x \in Active \ {e} : SubjectOf[x] < s \/ SubjectOf[x] >= SubjectOf[succ]
    BY <1>4, <1>6, <1>9 DEF InGapBefore
  <2>3. InGapBefore(succ, s)'
    BY <1>3, <2>1, <2>2 DEF InGapBefore
  <2>4. QED
    BY <1>7, <1>9, <2>3 DEF RemovalScheduled
<1>10. QED
  BY <1>1, <1>2, <1>3, <1>7, <1>8, <1>9, LeaveKeepsFilter

LEMMA UnregisterKeepsFilter ==
    ASSUME IInv, FilterInv, NEW e \in Entries, Unregister(e)
    PROVE  FilterInv'
<1>1. CASE UnregisterInactive(e)
  <2>1. UNCHANGED << active_entry_tree, clean_up_queue, clean_up_last, update, filter >>
    BY <1>1 DEF UnregisterInactive, driverVars
  <2>2. QED
    BY <2>1, FilterUntouched DEF Active
<1>2. QED
  BY <1>1, UnregisterTailKeepsFilter, UnregisterLastHeadKeepsFilter,
     UnregisterInnerHeadKeepsFilter DEF Unregister

\* A fetched clean-up covers the whole gap in front of its head.
LEMMA PopCleanUpQueueKeepsFilter ==
    ASSUME IInv, FilterInv, PopCleanUpQueue, driver = "polling", UNCHANGED filter
    PROVE  FilterInv'
<1> USE DEF entryVars
<1>1. TypeOK /\ TreeInOrder /\ HeadIsFirst /\ LinksMatchFlags /\ CleanUpGapsNonEmpty
  BY DEF IInv
<1>2. update.kind = "None"
  BY DEF IInv, UpdateInHand
<1>3. PICK entry, k :
          /\ entry = Head(clean_up_queue)
          /\ k = IndexOf(active_entry_tree, entry)
          /\ clean_up_queue # << >>
          /\ Hold("RemoveSubjectRange", FirstCleanUp(k), LastCleanUp(entry))
          /\ clean_up_queue' = Tail(clean_up_queue)
          /\ UNCHANGED << entryVars, clean_up_last >>
  BY DEF PopCleanUpQueue
<1>4. Active' = Active
  BY <1>3 DEF Active
<1>5. /\ entry \in ToSet(clean_up_queue)
      /\ ToSet(clean_up_queue') = ToSet(clean_up_queue) \ {entry}
  BY <1>1, <1>3, TailElements DEF TypeOK, LinksMatchFlags
<1>6. /\ Len(active_entry_tree) \in Nat
      /\ DOMAIN active_entry_tree = 1 .. Len(active_entry_tree)
      /\ \A x \in Active : \E i \in 1 .. Len(active_entry_tree) : active_entry_tree[i] = x
      /\ \A i \in 1 .. Len(active_entry_tree) :
             active_entry_tree[i] \in Active /\ SubjectOf[active_entry_tree[i]] \in Nat
      /\ k \in 1 .. Len(active_entry_tree)
      /\ active_entry_tree[k] = entry
      /\ entry \in Active
  BY <1>1, <1>3, <1>5, TreeElements, IndexOfActive DEF LinksMatchFlags, HeadIsFirst
<1>7. /\ SubjectOf[entry] \in Nat
      /\ FirstCleanUp(k) < SubjectOf[entry]
  BY <1>1, <1>5, <1>6 DEF CleanUpGapsNonEmpty
<1>8. /\ FirstCleanUp(k) \in Nat
      /\ \A s \in Nat :
             FirstCleanUp(k) <= s <=>
                 \A i \in 1 .. Len(active_entry_tree) :
                     i < k => SubjectOf[active_entry_tree[i]] < s
  BY <1>1, <1>6, FirstCleanUpBound
<1>9. /\ update' = [kind |-> "RemoveSubjectRange", first |-> FirstCleanUp(k),
                    last |-> SubjectOf[entry] - 1]
      /\ update'.kind = "RemoveSubjectRange"
      /\ update'.first = FirstCleanUp(k)
      /\ update'.last = SubjectOf[entry] - 1
  BY <1>3 DEF Hold, LastCleanUp
<1>10. FilterCoversActive'
  <2>1. \A x \in Active : SubjectOf[x] \in filter
    BY <1>2 DEF FilterInv, FilterCoversActive
  <2>2. ASSUME NEW x \in Active
        PROVE  SubjectOf[x] \notin FirstCleanUp(k) .. SubjectOf[entry] - 1
    <3>1. PICK i \in 1 .. Len(active_entry_tree) : active_entry_tree[i] = x
      BY <1>6
    <3>2. CASE i < k
      BY <1>6, <1>7, <1>8, <3>1, <3>2
    <3>3. CASE i >= k
      <4>1. SubjectOf[entry] <= SubjectOf[x]
        BY <1>1, <1>6, <3>1, <3>3 DEF TreeInOrder
      <4>2. QED
        BY <1>6, <1>7, <3>1, <4>1
    <3>4. QED
      BY <1>6, <3>2, <3>3
  <2>3. RemovalSparesActive'
    BY <1>4, <1>7, <1>8, <1>9, <2>2 DEF RemovalSparesActive
  <2>4. AddIsNew'
    BY <1>9 DEF AddIsNew
  <2>5. QED
    BY <1>4, <2>1, <2>3, <2>4 DEF FilterCoversActive
<1>11. ASSUME NEW s \in Slots'
       PROVE  HasSubject(Active, s)' \/ RemovalScheduled(s)'
  <2>1. s \in Slots
    BY <1>9 DEF Slots
  <2>2. s \in Nat
    BY <1>1, <2>1, SubjectsAreNumbers
  <2>3. CASE HasSubject(Active, s)
    BY <1>4, <2>3 DEF HasSubject
  <2>4. CASE InGapBefore(entry, s)
    <3>1. \A i \in 1 .. Len(active_entry_tree) :
              i < k => SubjectOf[active_entry_tree[i]] < SubjectOf[entry]
      BY <1>7, <1>8
    <3>2. \A i \in 1 .. Len(active_entry_tree) :
              i < k => SubjectOf[active_entry_tree[i]] < s
      BY <1>6, <1>7, <2>4, <3>1 DEF InGapBefore
    <3>3. s \in FirstCleanUp(k) .. SubjectOf[entry] - 1
      BY <1>7, <1>8, <2>2, <2>4, <3>2 DEF InGapBefore
    <3>4. QED
      BY <1>9, <3>3 DEF RemovalScheduled
  <2>5. CASE \E h \in ToSet(clean_up_queue) \ {entry} : InGapBefore(h, s)
    BY <1>4, <1>5, <2>5 DEF RemovalScheduled, InGapBefore
  <2>6. CASE clean_up_last /\ InLastGap(s)
    BY <1>3, <1>4, <2>6 DEF RemovalScheduled, InLastGap
  <2>7. QED
    BY <1>2, <2>1, <2>3, <2>4, <2>5, <2>6
       DEF FilterInv, StaleSlotIsScheduled, RemovalScheduled
<1>12. QED
  BY <1>10, <1>11 DEF FilterInv, StaleSlotIsScheduled

\* And the one behind the last entry.
LEMMA PopCleanUpLastKeepsFilter ==
    ASSUME IInv, FilterInv, PopCleanUpLast, driver = "polling", UNCHANGED filter
    PROVE  FilterInv'
<1> USE DEF entryVars
<1>1. TypeOK /\ TreeInOrder /\ LinksMatchFlags /\ CleanUpGapsNonEmpty
  BY DEF IInv
<1>2. update.kind = "None"
  BY DEF IInv, UpdateInHand
<1>3. PICK first :
          /\ first = FirstCleanUp(Len(active_entry_tree) + 1)
          /\ clean_up_queue = << >>
          /\ clean_up_last
          /\ Hold("RemoveSubjectRange", first, MaxSubject)
          /\ UNCHANGED << entryVars, clean_up_queue >>
  BY DEF PopCleanUpLast
<1>4. Active' = Active
  BY <1>3 DEF Active
<1>5. /\ Len(active_entry_tree) \in Nat
      /\ \A x \in Active : \E i \in 1 .. Len(active_entry_tree) : active_entry_tree[i] = x
      /\ \A i \in 1 .. Len(active_entry_tree) :
             active_entry_tree[i] \in Active /\ SubjectOf[active_entry_tree[i]] \in Nat
  BY <1>1, TreeElements
<1>6. /\ first \in Nat
      /\ \A s \in Nat :
             first <= s <=>
                 \A i \in 1 .. Len(active_entry_tree) :
                     i < Len(active_entry_tree) + 1 => SubjectOf[active_entry_tree[i]] < s
  <2>1. Len(active_entry_tree) + 1 \in 1 .. Len(active_entry_tree) + 1
    BY <1>5
  <2>2. QED
    BY <1>1, <1>3, <2>1, FirstCleanUpBound
<1>7. \A s \in Nat : first <= s <=> \A x \in Active : SubjectOf[x] < s
  <2>1. \A i \in 1 .. Len(active_entry_tree) : i < Len(active_entry_tree) + 1
    BY <1>5
  <2>2. QED
    BY <1>5, <1>6, <2>1
<1>8. first <= MaxSubject
  BY <1>1, <1>3 DEF CleanUpGapsNonEmpty
<1>9. /\ update' = [kind |-> "RemoveSubjectRange", first |-> first, last |-> MaxSubject]
      /\ update'.kind = "RemoveSubjectRange"
      /\ update'.first = first
      /\ update'.last = MaxSubject
  BY <1>3 DEF Hold
<1>10. FilterCoversActive'
  <2>1. \A x \in Active : SubjectOf[x] \in filter
    BY <1>2 DEF FilterInv, FilterCoversActive
  <2>2. \A x \in Active : SubjectOf[x] \notin first .. MaxSubject
    BY <1>5, <1>6, <1>7
  <2>3. RemovalSparesActive'
    BY <1>4, <1>8, <1>9, <2>2 DEF RemovalSparesActive
  <2>4. AddIsNew'
    BY <1>9 DEF AddIsNew
  <2>5. QED
    BY <1>4, <2>1, <2>3, <2>4 DEF FilterCoversActive
<1>11. ASSUME NEW s \in Slots'
       PROVE  HasSubject(Active, s)' \/ RemovalScheduled(s)'
  <2>1. s \in Slots
    BY <1>9 DEF Slots
  <2>2. s \in Nat /\ s <= MaxSubject
    BY <1>1, <2>1, SubjectsAreNumbers
  <2>3. CASE HasSubject(Active, s)
    BY <1>4, <2>3 DEF HasSubject
  <2>4. CASE InLastGap(s)
    <3>1. s \in first .. MaxSubject
      BY <1>6, <1>7, <2>2, <2>4, ConstantsAssumption DEF InLastGap
    <3>2. QED
      BY <1>9, <3>1 DEF RemovalScheduled
  <2>5. ToSet(clean_up_queue) = {}
    BY <1>3 DEF ToSet
  <2>6. QED
    BY <1>2, <2>1, <2>3, <2>4, <2>5 DEF FilterInv, StaleSlotIsScheduled, RemovalScheduled
<1>12. QED
  BY <1>10, <1>11 DEF FilterInv, StaleSlotIsScheduled

\* When an entry is activated no removal is scheduled: a subject that is new to the
\* tree has no slot.
LEMMA PopRegistrationQueueKeepsFilter ==
    ASSUME IInv, FilterInv, PopRegistrationQueue, driver = "polling", UNCHANGED filter
    PROVE  FilterInv'
<1>1. TypeOK /\ TreeInOrder /\ LinksMatchFlags
  BY DEF IInv
<1>2. update.kind = "None"
  BY DEF IInv, UpdateInHand
<1>3. PICK e :
          /\ e = Head(activation_queue)
          /\ activation_queue # << >>
          /\ clean_up_queue = << >> /\ ~ clean_up_last
          /\ UNCHANGED << clean_up_queue, clean_up_last >>
          /\ active_entry_tree' = Insert(e)
          /\ \/ /\ ~ HasSubject(Active, SubjectOf[e])
                /\ Hold("AddSubject", SubjectOf[e], SubjectOf[e])
             \/ /\ HasSubject(Active, SubjectOf[e])
                /\ UNCHANGED update
  BY DEF PopRegistrationQueue, Activate, BecomesHead
<1>4. e \in Entries /\ e \notin Active
  <2>1. activation_queue \in Seq(Entries) /\ IsInjective(activation_queue)
    BY <1>1 DEF TypeOK, LinksMatchFlags
  <2>2. e \in ToSet(activation_queue)
    BY <1>3, <2>1, TailElements
  <2>3. QED
    BY <1>1, <2>2 DEF TypeOK, LinksMatchFlags
<1>5. Active' = Active \cup {e}
  BY <1>1, <1>3, <1>4, InsertActive DEF Active
<1>6. CASE HasSubject(Active, SubjectOf[e])
  BY <1>1, <1>3, <1>4, <1>5, <1>6, JoinKeepsFilter
<1>7. CASE ~ HasSubject(Active, SubjectOf[e])
  <2>1. /\ update' = [kind |-> "AddSubject", first |-> SubjectOf[e], last |-> SubjectOf[e]]
        /\ update'.kind = "AddSubject"
        /\ update'.first = SubjectOf[e]
    BY <1>3, <1>7 DEF Hold
  <2>2. \A s \in filter : HasSubject(Active, s)
    <3>1. ToSet(clean_up_queue) = {}
      BY <1>3 DEF ToSet
    <3>2. \A s \in Slots : ~ RemovalScheduled(s)
      BY <1>2, <1>3, <3>1 DEF RemovalScheduled
    <3>3. QED
      BY <3>2 DEF FilterInv, StaleSlotIsScheduled, Slots
  <2>3. FilterCoversActive'
    <3>1. \A x \in Active : SubjectOf[x] \in filter
      BY <1>2 DEF FilterInv, FilterCoversActive
    <3>2. RemovalSparesActive' /\ AddIsNew'
      BY <1>7, <2>1, <2>2 DEF RemovalSparesActive, AddIsNew
    <3>3. QED
      BY <1>5, <2>1, <3>1, <3>2 DEF FilterCoversActive
  <2>4. \A s \in Slots' : HasSubject(Active', s)
    BY <1>5, <2>1, <2>2 DEF Slots, HasSubject
  <2>5. StaleSlotIsScheduled'
    BY <2>4 DEF StaleSlotIsScheduled, HasSubject
  <2>6. QED
    BY <2>3, <2>5 DEF FilterInv
<1>8. QED
  BY <1>6, <1>7

LEMMA ApplyUpdateKeepsFilter ==
    ASSUME IInv, FilterInv, ApplyUpdate
    PROVE  FilterInv'
<1> USE DEF entryVars, queueVars
<1>1. /\ Active' = Active
      /\ UNCHANGED << clean_up_queue, clean_up_last >>
  BY DEF ApplyUpdate, Active
<1>2. \A s : HasSubject(Active, s) => HasSubject(Active, s)'
  BY <1>1 DEF HasSubject
<1>3. \A s, h : InGapBefore(h, s) => InGapBefore(h, s)'
  BY <1>1 DEF InGapBefore
<1>4. \A s : InLastGap(s) => InLastGap(s)'
  BY <1>1 DEF InLastGap
<1>5. CASE update.kind = "AddSubject" /\ filter' = filter \cup {update.first} /\ update' = NoUpdate
  <2>1. update'.kind = "None"
    BY <1>5 DEF NoUpdate
  <2>2. FilterCoversActive'
    BY <1>1, <1>5, <2>1 DEF FilterInv, FilterCoversActive, RemovalSparesActive, AddIsNew
  <2>3. \A s \in Slots' : s \in Slots
    BY <1>5, <2>1 DEF Slots
  <2>4. StaleSlotIsScheduled'
    BY <1>1, <1>2, <1>3, <1>4, <1>5, <2>1, <2>3
       DEF FilterInv, StaleSlotIsScheduled, RemovalScheduled
  <2>5. QED
    BY <2>2, <2>4 DEF FilterInv
<1>6. CASE update.kind = "RemoveSubjectRange" /\ filter' = filter \ (update.first .. update.last)
           /\ update' = NoUpdate
  <2>1. update'.kind = "None"
    BY <1>6 DEF NoUpdate
  <2>2. FilterCoversActive'
    BY <1>1, <1>6, <2>1 DEF FilterInv, FilterCoversActive, RemovalSparesActive, AddIsNew
  <2>3. \A s \in Slots' : s \in Slots /\ s \notin update.first .. update.last
    BY <1>6, <2>1 DEF Slots
  <2>4. StaleSlotIsScheduled'
    BY <1>1, <1>2, <1>3, <1>4, <1>6, <2>1, <2>3
       DEF FilterInv, StaleSlotIsScheduled, RemovalScheduled
  <2>5. QED
    BY <2>2, <2>4 DEF FilterInv
<1>7. CASE UNCHANGED << filter, update >>
  BY <1>1, <1>7, FilterUntouched
<1>8. QED
  BY <1>5, <1>6, <1>7 DEF ApplyUpdate

LEMMA NextFilterInv == IInv /\ FilterInv /\ [Next]_vars => FilterInv'
<1> SUFFICES ASSUME IInv, FilterInv, [Next]_vars PROVE FilterInv'
  OBVIOUS
<1> USE DEF entryVars, queueVars, driverVars
<1>1. ASSUME NEW e \in Entries, Register(e) PROVE FilterInv'
  BY <1>1, RegisterKeepsFilter
<1>2. ASSUME NEW e \in Entries, Unregister(e) PROVE FilterInv'
  BY <1>2, UnregisterKeepsFilter
<1>3. CASE PollPopFilterUpdate
  <2>1. driver = "polling" /\ UNCHANGED filter
    BY <1>3 DEF PollPopFilterUpdate
  <2>2. CASE Suspend
    BY <2>1, <2>2, FilterUntouched DEF Suspend, Active
  <2>3. QED
    BY <1>3, <2>1, <2>2, PopCleanUpQueueKeepsFilter, PopCleanUpLastKeepsFilter,
       PopRegistrationQueueKeepsFilter DEF PollPopFilterUpdate
<1>4. CASE ApplyUpdate
  BY <1>4, ApplyUpdateKeepsFilter
<1>5. CASE UNCHANGED << active_entry_tree, clean_up_queue, clean_up_last, update, filter >>
  BY <1>5, FilterUntouched DEF Active
<1>6. ASSUME NEW s \in Subjects, HubPushStart(s)
      PROVE  UNCHANGED << active_entry_tree, clean_up_queue, clean_up_last, update, filter >>
  BY <1>6 DEF HubPushStart
<1>7. HubPushNext \/ SpuriousPoll \/ UNCHANGED vars =>
          UNCHANGED << active_entry_tree, clean_up_queue, clean_up_last, update, filter >>
  BY DEF HubPushNext, SpuriousPoll, vars
<1>8. QED
  BY <1>1, <1>2, <1>3, <1>4, <1>5, <1>6, <1>7 DEF Next, FilterTask

-----------------------------------------------------------------------------
(* The push.                                                               *)

\* Before is a strict order of the active entries.
LEMMA BeforeIsStrict ==
    ASSUME TypeOK, TreeInOrder, NEW a, NEW b, Before(a, b)
    PROVE  /\ a \in Active /\ b \in Active /\ a # b
           /\ \A c : Before(b, c) => Before(a, c)
<1>1. /\ DOMAIN active_entry_tree = 1 .. Len(active_entry_tree)
      /\ Len(active_entry_tree) \in Nat
      /\ \A i \in 1 .. Len(active_entry_tree) : active_entry_tree[i] \in Active
      /\ \A i, j \in 1 .. Len(active_entry_tree) :
             active_entry_tree[i] = active_entry_tree[j] => i = j
  BY TreeElements DEF TreeInOrder, IsInjective
<1>2. PICK i, j \in 1 .. Len(active_entry_tree) :
          i < j /\ active_entry_tree[i] = a /\ active_entry_tree[j] = b
  BY <1>1 DEF Before
<1>3. a \in Active /\ b \in Active /\ a # b
  BY <1>1, <1>2
<1>4. ASSUME NEW c, Before(b, c)
      PROVE  Before(a, c)
  <2>1. PICK l, m \in 1 .. Len(active_entry_tree) :
            l < m /\ active_entry_tree[l] = b /\ active_entry_tree[m] = c
    BY <1>1, <1>4 DEF Before
  <2>2. l = j
    BY <1>1, <1>2, <2>1
  <2>3. i < m
    BY <1>1, <1>2, <2>1, <2>2
  <2>4. QED
    BY <1>1, <1>2, <2>1, <2>3 DEF Before
<1>5. QED
  BY <1>3, <1>4

\* Of the entries of a subject behind e the next tail is the first.
LEMMA NextTailIsNext ==
    ASSUME TypeOK, TreeInOrder, HeadIsFirst, NEW e \in Active
    PROVE  /\ NextTail(e) # NoEntry => Before(e, NextTail(e))
           /\ \A x : Before(e, x) /\ SubjectOf[x] = SubjectOf[e] =>
                  /\ NextTail(e) # NoEntry
                  /\ x = NextTail(e) \/ Before(NextTail(e), x)
<1>1. PICK k : k = IndexOf(active_entry_tree, e)
  OBVIOUS
<1>2. /\ DOMAIN active_entry_tree = 1 .. Len(active_entry_tree)
      /\ Len(active_entry_tree) \in Nat
      /\ k \in 1 .. Len(active_entry_tree) /\ active_entry_tree[k] = e
      /\ \A i \in 1 .. Len(active_entry_tree) : active_entry_tree[i] = e => i = k
  BY <1>1, TreeElements, IndexOfActive
<1>3. /\ NextTail(e) # NoEntry =>
             /\ k + 1 \in 1 .. Len(active_entry_tree)
             /\ NextTail(e) = active_entry_tree[k + 1]
      /\ NextTail(e) = NoEntry =>
             \A i \in 1 .. Len(active_entry_tree) :
                 i > k => SubjectOf[active_entry_tree[i]] # SubjectOf[e]
  BY <1>1, NextTailProperties
<1>4. NextTail(e) # NoEntry => Before(e, NextTail(e))
  <2>1. k < k + 1
    BY <1>2
  <2>2. QED
    BY <1>2, <1>3, <2>1 DEF Before
<1>5. ASSUME NEW x, Before(e, x), SubjectOf[x] = SubjectOf[e]
      PROVE  NextTail(e) # NoEntry /\ (x = NextTail(e) \/ Before(NextTail(e), x))
  <2>1. PICK i \in 1 .. Len(active_entry_tree) : k < i /\ active_entry_tree[i] = x
    BY <1>2, <1>5 DEF Before
  <2>2. NextTail(e) # NoEntry
    BY <1>2, <1>3, <1>5, <2>1
  <2>3. i = k + 1 \/ k + 1 < i
    BY <1>2, <2>1
  <2>4. QED
    BY <1>2, <1>3, <2>1, <2>2, <2>3 DEF Before
<1>6. QED
  BY <1>4, <1>5

\* The order of the entries that stay is not changed by a removal.
LEMMA UnlinkKeepsOrder ==
    ASSUME IInv, NEW e \in Active, UnlinkActive(e), UNCHANGED frame_subject,
           NEW a, NEW b, a # e, b # e, Before(a, b)
    PROVE  Before(a, b)'
<1>1. PICK k : k = IndexOf(active_entry_tree, e)
  OBVIOUS
<1>2. /\ DOMAIN active_entry_tree = 1 .. Len(active_entry_tree)
      /\ Len(active_entry_tree) \in Nat
  BY TreeElements DEF IInv
<1>3. /\ k \in 1 .. Len(active_entry_tree)
      /\ active_entry_tree[k] = e
      /\ DOMAIN active_entry_tree' = 1 .. Len(active_entry_tree) - 1
      /\ \A i \in 1 .. Len(active_entry_tree) - 1 :
             active_entry_tree'[i] = IF i < k THEN active_entry_tree[i]
                                              ELSE active_entry_tree[i + 1]
  BY <1>1, UnlinkActiveStep
<1>4. PICK i, j \in 1 .. Len(active_entry_tree) :
          i < j /\ active_entry_tree[i] = a /\ active_entry_tree[j] = b
  BY <1>2 DEF Before
<1>5. i # k /\ j # k
  BY <1>3, <1>4
<1> DEFINE to(m) == IF m < k THEN m ELSE m - 1
<1>6. ASSUME NEW m \in 1 .. Len(active_entry_tree), m # k
      PROVE  /\ to(m) \in 1 .. Len(active_entry_tree) - 1
             /\ active_entry_tree'[to(m)] = active_entry_tree[m]
  <2>1. CASE m < k
    BY <1>2, <1>3, <2>1
  <2>2. CASE m > k
    <3>1. m - 1 \in 1 .. Len(active_entry_tree) - 1 /\ ~ (m - 1 < k) /\ (m - 1) + 1 = m
      BY <1>2, <1>3, <2>2
    <3>2. to(m) = m - 1
      BY <1>3, <2>2
    <3>3. QED
      BY <1>3, <3>1, <3>2
  <2>3. QED
    BY <1>3, <1>6, <2>1, <2>2
<1>7. to(i) < to(j)
  BY <1>2, <1>3, <1>4, <1>5
<1> HIDE DEF to
<1>8. /\ to(i) \in DOMAIN active_entry_tree' /\ active_entry_tree'[to(i)] = a
      /\ to(j) \in DOMAIN active_entry_tree' /\ active_entry_tree'[to(j)] = b
  BY <1>3, <1>4, <1>5, <1>6
<1>9. QED
  BY <1>7, <1>8 DEF Before

\* Nor by an insertion.
LEMMA InsertKeepsOrder ==
    ASSUME IInv, NEW e \in Entries, e \notin Active, active_entry_tree' = Insert(e),
           NEW a, NEW b, Before(a, b)
    PROVE  Before(a, b)'
<1>1. PICK k : k = InsertPos(SubjectOf[e])
  OBVIOUS
<1>2. /\ DOMAIN active_entry_tree = 1 .. Len(active_entry_tree)
      /\ Len(active_entry_tree) \in Nat
  BY TreeElements DEF IInv
<1>3. /\ k \in 1 .. Len(active_entry_tree) + 1
      /\ DOMAIN active_entry_tree' = 1 .. Len(active_entry_tree) + 1
      /\ \A i \in 1 .. Len(active_entry_tree) + 1 :
             active_entry_tree'[i] = IF i < k THEN active_entry_tree[i]
                                     ELSE IF i = k THEN e
                                     ELSE active_entry_tree[i - 1]
  BY <1>1, InsertActive DEF IInv
<1>4. PICK i, j \in 1 .. Len(active_entry_tree) :
          i < j /\ active_entry_tree[i] = a /\ active_entry_tree[j] = b
  BY <1>2 DEF Before
<1> DEFINE to(m) == IF m < k THEN m ELSE m + 1
<1>5. ASSUME NEW m \in 1 .. Len(active_entry_tree)
      PROVE  /\ to(m) \in 1 .. Len(active_entry_tree) + 1
             /\ active_entry_tree'[to(m)] = active_entry_tree[m]
  <2>1. CASE m < k
    BY <1>2, <1>3, <2>1
  <2>2. CASE m >= k
    <3>1. /\ m + 1 \in 1 .. Len(active_entry_tree) + 1
          /\ ~ (m + 1 < k) /\ m + 1 # k /\ (m + 1) - 1 = m
      BY <1>2, <1>3, <2>2
    <3>2. to(m) = m + 1
      BY <1>3, <2>2
    <3>3. QED
      BY <1>3, <3>1, <3>2
  <2>3. QED
    BY <1>3, <2>1, <2>2
<1>6. to(i) < to(j)
  BY <1>2, <1>3, <1>4
<1> HIDE DEF to
<1>7. /\ to(i) \in DOMAIN active_entry_tree' /\ active_entry_tree'[to(i)] = a
      /\ to(j) \in DOMAIN active_entry_tree' /\ active_entry_tree'[to(j)] = b
  BY <1>3, <1>4, <1>5
<1>8. QED
  BY <1>6, <1>7 DEF Before

\* An endpoint that joins or is activated while the frame is pushed.
LEMMA InsertKeepsPush ==
    ASSUME IInv, PushInOrder, NEW e \in Entries, e \notin Active,
           active_entry_tree' = Insert(e), UNCHANGED pushVars
    PROVE  PushInOrder'
<1>1. Active' = Active \cup {e}
  BY InsertActive DEF IInv, Active
<1>2. \A a, b : Before(a, b) => Before(a, b)'
  BY InsertKeepsOrder
<1>3. QED
  BY <1>1, <1>2 DEF PushInOrder, pushVars

\* One that leaves: the frame goes on behind it.
LEMMA UnlinkKeepsPush ==
    ASSUME IInv, PushInOrder, NEW e \in Active, UnlinkActive(e), UNCHANGED frame_subject
    PROVE  PushInOrder'
<1>1. /\ TypeOK /\ TreeInOrder /\ HeadIsFirst /\ PushPtrActive
  BY DEF IInv
<1>2. Active' = Active \ {e}
  BY UnlinkActiveStep
<1>3. /\ next_push_ptr' = IF next_push_ptr = e THEN NextTail(e) ELSE next_push_ptr
      /\ delivered' = delivered \ {e}
      /\ owed' = owed \ {e}
  BY DEF UnlinkActive, PushPtrWithout
<1>4. \A a, b : a # e /\ b # e /\ Before(a, b) => Before(a, b)'
  BY UnlinkKeepsOrder
<1>5. delivered' \cup owed' \subseteq {x \in Active' : SubjectOf[x] = frame_subject'}
  BY <1>2, <1>3 DEF PushInOrder
<1>6. NextTail(e) # NoEntry => Before(e, NextTail(e)) /\ NextTail(e) # e
  BY <1>1, NextTailIsNext, BeforeIsStrict
<1>7. ASSUME NEW x \in delivered', next_push_ptr' # NoEntry
      PROVE  Before(x, next_push_ptr)'
  <2>1. x \in delivered /\ x # e
    BY <1>3
  <2>2. CASE next_push_ptr = e
    <3>1. Before(x, e)
      BY <1>1, <2>1, <2>2, ConstantsAssumption, TreeElements DEF PushInOrder
    <3>2. Before(x, NextTail(e)) /\ NextTail(e) # e
      BY <1>1, <1>3, <1>6, <1>7, <2>2, <3>1, BeforeIsStrict
    <3>3. QED
      BY <1>3, <1>4, <2>1, <2>2, <3>2 DEF Before
  <2>3. CASE next_push_ptr # e
    BY <1>3, <1>4, <1>7, <2>1, <2>3 DEF PushInOrder, Before
  <2>4. QED
    BY <2>2, <2>3
<1>8. ASSUME NEW x \in owed' \ delivered'
      PROVE  next_push_ptr' # NoEntry /\ (x = next_push_ptr' \/ Before(next_push_ptr, x)')
  <2>1. x \in owed \ delivered /\ x # e
    BY <1>3
  <2>2. next_push_ptr # NoEntry /\ (x = next_push_ptr \/ Before(next_push_ptr, x))
    BY <2>1 DEF PushInOrder
  <2>3. CASE next_push_ptr = e
    <3>1. SubjectOf[x] = SubjectOf[e]
      BY <1>1, <2>1, <2>2, <2>3 DEF PushInOrder, PushPtrActive
    <3>2. NextTail(e) # NoEntry /\ (x = NextTail(e) \/ Before(NextTail(e), x))
      BY <1>1, <2>1, <2>2, <2>3, <3>1, NextTailIsNext
    <3>3. QED
      BY <1>3, <1>4, <1>6, <2>1, <2>3, <3>2 DEF Before
  <2>4. CASE next_push_ptr # e
    BY <1>3, <1>4, <2>1, <2>2, <2>4 DEF Before
  <2>5. QED
    BY <2>3, <2>4
<1>9. QED
  BY <1>5, <1>7, <1>8 DEF PushInOrder

LEMMA HubPushStartKeepsPush ==
    ASSUME IInv, NEW s \in Subjects, HubPushStart(s)
    PROVE  PushInOrder'
<1>1. PICK k : k = Min({i \in DOMAIN active_entry_tree :
                            SubjectOf[active_entry_tree[i]] >= s})
  OBVIOUS
<1>2. /\ SubscribersOf(s) # {}
      /\ next_push_ptr' = active_entry_tree[k]
      /\ frame_subject' = s
      /\ delivered' = {}
      /\ owed' = SubscribersOf(s)
      /\ active_entry_tree' = active_entry_tree
      /\ Active' = Active
  BY <1>1 DEF HubPushStart, Active, entryVars
<1>3. s \in Nat
  BY ConstantsAssumption DEF Subjects
<1>4. /\ k \in 1 .. Len(active_entry_tree)
      /\ \A i \in 1 .. Len(active_entry_tree) : SubjectOf[active_entry_tree[i]] = s => k <= i
  BY <1>1, <1>2, <1>3, FirstSubscriber DEF IInv
<1>5. /\ DOMAIN active_entry_tree = 1 .. Len(active_entry_tree)
      /\ Len(active_entry_tree) \in Nat
      /\ active_entry_tree[k] \in Entries
      /\ \A x \in Active : \E i \in 1 .. Len(active_entry_tree) : active_entry_tree[i] = x
  BY <1>4, TreeElements DEF IInv
<1>6. ASSUME NEW x \in SubscribersOf(s)
      PROVE  x = active_entry_tree[k] \/ Before(active_entry_tree[k], x)
  <2>1. PICK i \in 1 .. Len(active_entry_tree) : active_entry_tree[i] = x
    BY <1>5 DEF SubscribersOf
  <2>2. i = k \/ k < i
    BY <1>4, <2>1 DEF SubscribersOf
  <2>3. QED
    BY <1>4, <1>5, <2>1, <2>2 DEF Before
<1>7. next_push_ptr' # NoEntry
  BY <1>2, <1>5, ConstantsAssumption
<1>8. QED
  BY <1>2, <1>6, <1>7 DEF PushInOrder, SubscribersOf, Before

LEMMA HubPushNextKeepsPush ==
    ASSUME IInv, PushInOrder, HubPushNext
    PROVE  PushInOrder'
<1>1. TypeOK /\ TreeInOrder /\ HeadIsFirst /\ PushPtrActive
  BY DEF IInv
<1>2. /\ active_entry_tree' = active_entry_tree
      /\ Active' = Active
      /\ next_push_ptr' = IF next_push_ptr = NoEntry THEN NoEntry
                                                     ELSE NextTail(next_push_ptr)
  BY DEF HubPushNext, Active, entryVars
<1>3. CASE next_push_ptr' = NoEntry
  <2>1. delivered' = {} /\ owed' = {}
    BY <1>3 DEF HubPushNext
  <2>2. QED
    BY <2>1 DEF PushInOrder
<1>4. CASE next_push_ptr' # NoEntry
  <2>1. /\ delivered' = delivered \cup {next_push_ptr}
        /\ UNCHANGED << frame_subject, owed >>
        /\ next_push_ptr # NoEntry
        /\ next_push_ptr' = NextTail(next_push_ptr)
    BY <1>2, <1>4 DEF HubPushNext, Delivery
  <2>2. next_push_ptr \in Active /\ SubjectOf[next_push_ptr] = frame_subject
    BY <1>1, <2>1 DEF PushPtrActive
  <2>3. delivered' \cup owed' \subseteq {x \in Active' : SubjectOf[x] = frame_subject'}
    BY <1>2, <2>1, <2>2 DEF PushInOrder
  <2>4. Before(next_push_ptr, next_push_ptr')
    BY <1>1, <1>4, <2>1, <2>2, NextTailIsNext
  <2>5. ASSUME NEW x \in delivered'
        PROVE  Before(x, next_push_ptr')
    <3>1. CASE x = next_push_ptr
      BY <2>4, <3>1
    <3>2. CASE x \in delivered
      <4>1. Before(x, next_push_ptr)
        BY <2>1, <3>2 DEF PushInOrder
      <4>2. QED
        BY <1>1, <2>4, <4>1, BeforeIsStrict
    <3>3. QED
      BY <2>1, <3>1, <3>2
  <2>6. ASSUME NEW x \in owed' \ delivered'
        PROVE  x = next_push_ptr' \/ Before(next_push_ptr', x)
    <3>1. x \in owed \ delivered /\ x # next_push_ptr
      BY <2>1
    <3>2. Before(next_push_ptr, x) /\ SubjectOf[x] = SubjectOf[next_push_ptr]
      BY <2>2, <3>1 DEF PushInOrder
    <3>3. QED
      BY <1>1, <2>1, <2>2, <3>2, NextTailIsNext
  <2>7. QED
    BY <1>2, <1>4, <2>3, <2>5, <2>6 DEF PushInOrder, Before
<1>5. QED
  BY <1>3, <1>4

LEMMA NextPushInOrder == IInv /\ PushInOrder /\ [Next]_vars => PushInOrder'
<1> SUFFICES ASSUME IInv, PushInOrder, [Next]_vars PROVE PushInOrder'
  OBVIOUS
<1> USE DEF pushVars
<1>1. CASE UNCHANGED << active_entry_tree, pushVars >>
  BY <1>1 DEF PushInOrder, Before, Active
<1>2. ASSUME NEW e \in Entries, Register(e) PROVE PushInOrder'
  <2>1. e \notin Active /\ UNCHANGED pushVars
    BY <1>2 DEF Register, Registered
  <2>2. active_entry_tree' = Insert(e) \/ UNCHANGED active_entry_tree
    BY <1>2 DEF Register, RegisterActiveSubject, RegisterEnqueuedSubject,
                RegisterNewSubject, Enqueue
  <2>3. QED
    BY <1>1, <2>1, <2>2, InsertKeepsPush
<1>3. ASSUME NEW e \in Entries, Unregister(e) PROVE PushInOrder'
  <2>1. CASE UnregisterInactive(e)
    BY <1>1, <2>1 DEF UnregisterInactive
  <2>2. CASE UnregisterActiveHead(e) \/ UnregisterActiveTail(e)
    <3>1. e \in Active /\ UnlinkActive(e) /\ UNCHANGED frame_subject
      BY <2>2 DEF UnregisterActiveHead, UnregisterActiveTail, IInv, LinksMatchFlags
    <3>2. QED
      BY <3>1, UnlinkKeepsPush
  <2>3. QED
    BY <1>3, <2>1, <2>2 DEF Unregister
<1>4. ASSUME NEW s \in Subjects, HubPushStart(s) PROVE PushInOrder'
  BY <1>4, HubPushStartKeepsPush
<1>5. CASE HubPushNext
  BY <1>5, HubPushNextKeepsPush
<1>6. CASE PollPopFilterUpdate
  <2>1. CASE PopRegistrationQueue
    <3>1. PICK e : /\ e = Head(activation_queue)
                   /\ activation_queue # << >>
                   /\ active_entry_tree' = Insert(e)
      BY <2>1 DEF PopRegistrationQueue, Activate
    <3>2. activation_queue \in Seq(Entries) /\ IsInjective(activation_queue)
      BY DEF IInv, TypeOK, LinksMatchFlags
    <3>3. e \in ToSet(activation_queue)
      BY <3>1, <3>2, TailElements
    <3>4. e \in Entries /\ e \notin Active
      BY <3>3 DEF IInv, TypeOK, LinksMatchFlags
    <3>5. QED
      BY <1>6, <3>1, <3>4, InsertKeepsPush DEF PollPopFilterUpdate
  <2>2. CASE PopCleanUpQueue \/ PopCleanUpLast \/ Suspend
    BY <1>1, <1>6, <2>2
       DEF PollPopFilterUpdate, PopCleanUpQueue, PopCleanUpLast, Suspend, entryVars
  <2>3. QED
    BY <1>6, <2>1, <2>2 DEF PollPopFilterUpdate
<1>7. CASE ApplyUpdate \/ SpuriousPoll \/ UNCHANGED vars
  BY <1>1, <1>7 DEF ApplyUpdate, SpuriousPoll, vars, entryVars
<1>8. QED
  BY <1>2, <1>3, <1>4, <1>5, <1>6, <1>7 DEF Next, FilterTask

\* The end of a push, and each of its steps.
LEMMA PushStepDelivers ==
    ASSUME IInv, PushInOrder, HubPushNext
    PROVE  /\ \A e \in Delivery : e \in Active /\ SubjectOf[e] = frame_subject
           /\ next_push_ptr \notin delivered
           /\ frame_subject' = NoSubject => owed \subseteq Delivery
<1>1. /\ TypeOK /\ TreeInOrder /\ HeadIsFirst /\ PushPtrActive
  BY DEF IInv
<1>2. \A e \in Delivery : e \in Active /\ SubjectOf[e] = frame_subject
  BY <1>1 DEF Delivery, PushInOrder, PushPtrActive
<1>3. next_push_ptr \notin delivered
  <2>1. CASE next_push_ptr = NoEntry
    BY <1>1, <2>1, ConstantsAssumption DEF TypeOK
  <2>2. CASE next_push_ptr # NoEntry
    BY <1>1, <2>2, BeforeIsStrict DEF PushInOrder
  <2>3. QED
    BY <2>1, <2>2
<1>4. ASSUME frame_subject' = NoSubject, NEW e \in owed
      PROVE  e \in Delivery
  <2>1. CASE e \in delivered
    BY <2>1 DEF Delivery
  <2>2. CASE e \notin delivered
    <3>1. next_push_ptr # NoEntry /\ (e = next_push_ptr \/ Before(next_push_ptr, e))
      BY <2>2, <1>4 DEF PushInOrder
    <3>2. NextTail(next_push_ptr) = NoEntry
      BY <1>4, <3>1 DEF HubPushNext
    <3>3. /\ next_push_ptr \in Active
          /\ SubjectOf[next_push_ptr] = frame_subject
          /\ SubjectOf[e] = frame_subject
      BY <1>1, <1>4, <3>1 DEF PushPtrActive, PushInOrder
    <3>4. ~ Before(next_push_ptr, e)
      BY <1>1, <3>2, <3>3, NextTailIsNext
    <3>5. QED
      BY <3>1, <3>4 DEF Delivery
  <2>3. QED
    BY <2>1, <2>2
<1>5. QED
  BY <1>2, <1>3, <1>4

\* Only the last step of a push ends it.
LEMMA OnlyPushNextEnds ==
    ASSUME Next, frame_subject # NoSubject, frame_subject' = NoSubject
    PROVE  HubPushNext
<1> USE DEF pushVars
<1>1. \A e \in Entries : Register(e) => UNCHANGED frame_subject
  BY DEF Register
<1>2. \A e \in Entries : Unregister(e) => UNCHANGED frame_subject
  BY DEF Unregister, UnregisterActiveHead, UnregisterActiveTail, UnregisterInactive
<1>3. FilterTask \/ SpuriousPoll => UNCHANGED frame_subject
  BY DEF FilterTask, PollPopFilterUpdate, ApplyUpdate, SpuriousPoll
<1>4. \A s \in Subjects : ~ HubPushStart(s)
  BY DEF HubPushStart
<1>5. QED
  BY <1>1, <1>2, <1>3, <1>4 DEF Next

-----------------------------------------------------------------------------
(* The theorems.                                                           *)

\* The inductive invariant holds of every reachable state of the registry.
THEOREM InductiveInvariant == Spec => []IInv
<1>1. Init => IInv
  BY InitIInv
<1>2. IInv /\ [Next]_vars => IInv'
  BY NextIInv
<1>3. QED
  BY <1>1, <1>2, PTL DEF Spec

\* Type correctness. The filter updates are part of it: every range that
\* hub_poll_pop_filter_update returns is one of subject identifiers, so the
\* subtraction and the additions that make its ends do not leave their type.
THEOREM TypeCorrect == Spec => []TypeOK
<1>1. IInv => TypeOK
  BY DEF IInv
<1>2. QED
  BY <1>1, InductiveInvariant, PTL

\* The tree of active entries stays sorted by subject and free of duplicates,
\* and the is_head flags mark the first entry of each subject and no other:
\* the assertion of hub_push_start and the end of hub_push_next rely on it.
THEOREM HeadsDelimitSubjects == Spec => [](TreeInOrder /\ HeadIsFirst)
<1>1. IInv => TreeInOrder /\ HeadIsFirst
  BY DEF IInv
<1>2. QED
  BY <1>1, InductiveInvariant, PTL

\* The flags that reg_unregister reads before it makes an unsafe cursor tell the
\* truth about the tree and the list the entry is linked in.
THEOREM CursorsAreSafe == Spec => []LinksMatchFlags
<1>1. IInv => LinksMatchFlags
  BY DEF IInv
<1>2. QED
  BY <1>1, InductiveInvariant, PTL

\* Every clean-up that is pending has a subject to clean: the unwraps and the
\* range assertion of the clean-up paths never fail.
THEOREM CleanUpsAreRanges == Spec => []CleanUpGapsNonEmpty
<1>1. IInv => CleanUpGapsNonEmpty
  BY DEF IInv
<1>2. QED
  BY <1>1, InductiveInvariant, PTL

\* The filter and its invariant, which needs that a stale slot is never forgotten:
\* a subject is added when none of its removals is on its way.
THEOREM FilterInvariant == Spec => []FilterInv
<1>1. Init => FilterInv
  BY DEF Init, FilterInv, FilterCoversActive, RemovalSparesActive, AddIsNew,
         StaleSlotIsScheduled, Slots, NoUpdate, Active, ToSet
<1>2. IInv /\ FilterInv /\ [Next]_vars => FilterInv'
  BY NextFilterInv
<1>3. QED
  BY <1>1, <1>2, InductiveInvariant, PTL DEF Spec

\* Every active subscriber's subject passes the driver's acceptance filter, or its
\* AddSubject is in the filter task's hands; a removal range that was computed from
\* the tree in hub_poll_pop_filter_update still spares every active subject when it
\* is applied, and no subject is given a second slot.
THEOREM FilterCoversSubscribers == Spec => []FilterCoversActive
<1>1. FilterInv => FilterCoversActive
  BY DEF FilterInv
<1>2. QED
  BY <1>1, FilterInvariant, PTL

\* A slot nobody subscribes to is not forgotten: in every state its removal is in
\* the filter task's hands, or the gap it lies in is queued to be cleaned up,
\* whichever endpoints were dropped and created since.
THEOREM StaleSlotsAreScheduled == Spec => []StaleSlotIsScheduled
<1>1. FilterInv => StaleSlotIsScheduled
  BY DEF FilterInv
<1>2. QED
  BY <1>1, FilterInvariant, PTL

\* A frame goes into the buffer of a subscriber at most once, and an endpoint that
\* has been one since the push began has had it when the push ends, although
\* hub_push_next releases the registry between two buffers and endpoints come and go.
THEOREM DeliversOnce == Spec => DeliversExactlyOnce
<1>1. Init => PushInOrder
  BY DEF Init, PushInOrder
<1>2. IInv /\ PushInOrder /\ [Next]_vars => PushInOrder'
  BY NextPushInOrder
<1>3. IInv /\ PushInOrder /\ [Next]_vars =>
          [/\ HubPushNext =>
                  /\ \A e \in Delivery : e \in Active /\ SubjectOf[e] = frame_subject
                  /\ next_push_ptr \notin delivered
           /\ frame_subject # NoSubject /\ frame_subject' = NoSubject =>
                  owed \subseteq Delivery]_vars
  <2>1. SUFFICES ASSUME IInv, PushInOrder, Next
                 PROVE  /\ HubPushNext =>
                               /\ \A e \in Delivery : e \in Active /\ SubjectOf[e] = frame_subject
                               /\ next_push_ptr \notin delivered
                        /\ frame_subject # NoSubject /\ frame_subject' = NoSubject =>
                               owed \subseteq Delivery
    OBVIOUS
  <2>2. QED
    BY <2>1, PushStepDelivers, OnlyPushNextEnds
<1>4. QED
  BY <1>1, <1>2, <1>3, InductiveInvariant, PTL DEF Spec, DeliversExactlyOnce
=============================================================================
