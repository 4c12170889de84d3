---------------------------- MODULE SequenceLemmas ----------------------------
(***************************************************************************)
(* Facts about the sequence operators the modules are built from: lists    *)
(* and trees of distinct entries kept as sequences, from which an entry is *)
(* removed and into which one is inserted.                                 *)
(***************************************************************************)
EXTENDS Integers, SequencesExt, SequenceTheorems,
        WellFoundedInduction, TLAPS

\* A nonempty set of naturals has a least element, which Min returns.
LEMMA MinIsLeast ==
    ASSUME NEW T, T \subseteq Nat, T # {}
    PROVE  Min(T) \in T /\ \A y \in T : Min(T) <= y
<1> DEFINE LT == {ss \in Nat \X Nat : ss[1] < ss[2]}
<1>1. IsWellFoundedOn(LT, Nat)
  BY NatLessThanWellFounded DEF OpToRel
<1> HIDE DEF LT
<1>2. PICK x \in T : \A y \in T : ~ (<< y, x >> \in LT)
  BY <1>1, WFMin
<1>3. ASSUME NEW y \in T
      PROVE  x <= y
  <2>1. x \in Nat /\ y \in Nat /\ ~ (<< y, x >> \in LT)
    BY <1>2
  <2>2. QED
    BY <2>1 DEF LT
<1>4. QED
  BY <1>3 DEF Min

\* The elements of a sequence: those at its positions.
LEMMA ToSetElements ==
    ASSUME NEW S, NEW seq \in Seq(S)
    PROVE  /\ ToSet(seq) \subseteq S
           /\ DOMAIN seq = 1 .. Len(seq)
           /\ Len(seq) \in Nat
           /\ \A i \in 1 .. Len(seq) : seq[i] \in ToSet(seq) /\ seq[i] \in S
           /\ \A e \in ToSet(seq) : \E i \in 1 .. Len(seq) : seq[i] = e
BY LenProperties, ElementOfSeq DEF ToSet

\* RemoveAt drops one position and moves the later ones down.
LEMMA RemoveAtProperties ==
    ASSUME NEW S, NEW seq \in Seq(S), NEW k \in 1 .. Len(seq)
    PROVE  /\ RemoveAt(seq, k) \in Seq(S)
           /\ Len(RemoveAt(seq, k)) = Len(seq) - 1
           /\ \A i \in 1 .. Len(seq) - 1 :
                  RemoveAt(seq, k)[i] = IF i < k THEN seq[i] ELSE seq[i + 1]
<1> DEFINE before == SubSeq(seq, 1, k - 1)
           after == SubSeq(seq, k + 1, Len(seq))
<1>1. Len(seq) \in Nat /\ \A i \in 1 .. Len(seq) : seq[i] \in S
  BY LenProperties, ElementOfSeq
<1>2. /\ before \in Seq(S)
      /\ Len(before) = k - 1
      /\ \A i \in 1 .. k - 1 : before[i] = seq[i]
  <2>1. \A i \in 1 .. k - 1 : seq[i] \in S
    BY <1>1
  <2>2. QED
    BY <1>1, <2>1, SubSeqProperties
<1>3. /\ after \in Seq(S)
      /\ Len(after) = Len(seq) - k
      /\ \A i \in 1 .. Len(seq) - k : after[i] = seq[k + i]
  <2>1. \A i \in k + 1 .. Len(seq) : seq[i] \in S
    BY <1>1
  <2>2. /\ SubSeq(seq, k + 1, Len(seq)) \in Seq(S)
        /\ Len(SubSeq(seq, k + 1, Len(seq))) =
               IF k + 1 <= Len(seq) THEN Len(seq) - (k + 1) + 1 ELSE 0
        /\ \A i \in 1 .. Len(seq) - (k + 1) + 1 :
               SubSeq(seq, k + 1, Len(seq))[i] = seq[(k + 1) + i - 1]
    <3>1. k + 1 \in Int /\ Len(seq) \in Int
      BY <1>1
    <3>2. QED
      BY <2>1, <3>1, SubSeqProperties
  <2>3. QED
    BY <1>1, <2>2
<1> HIDE DEF before, after
<1>4. RemoveAt(seq, k) = before \o after
  BY DEF RemoveAt, before, after
<1>5. /\ before \o after \in Seq(S)
      /\ Len(before \o after) = Len(before) + Len(after)
      /\ \A i \in 1 .. Len(before) + Len(after) :
             (before \o after)[i] =
                 IF i <= Len(before) THEN before[i] ELSE after[i - Len(before)]
  BY <1>2, <1>3, ConcatProperties
<1>6. Len(RemoveAt(seq, k)) = Len(seq) - 1
  BY <1>1, <1>2, <1>3, <1>4, <1>5
<1>7. ASSUME NEW i \in 1 .. Len(seq) - 1
      PROVE  RemoveAt(seq, k)[i] = IF i < k THEN seq[i] ELSE seq[i + 1]
  <2>1. CASE i < k
    BY <1>1, <1>2, <1>3, <1>4, <1>5, <2>1
  <2>2. CASE i >= k
    <3>1. i - (k - 1) \in 1 .. Len(seq) - k
      BY <1>1, <2>2
    <3>2. after[i - (k - 1)] = seq[k + (i - (k - 1))]
      BY <1>3, <3>1
    <3>3. k + (i - (k - 1)) = i + 1
      BY <1>1
    <3>4. (before \o after)[i] = after[i - (k - 1)]
      BY <1>1, <1>2, <1>3, <1>5, <2>2
    <3>5. QED
      BY <1>4, <2>2, <3>2, <3>3, <3>4
  <2>3. QED
    BY <1>1, <2>1, <2>2
<1>8. QED
  BY <1>4, <1>5, <1>6, <1>7

\* InsertAt puts an element at one position and moves the later ones up.
LEMMA InsertAtProperties ==
    ASSUME NEW S, NEW seq \in Seq(S), NEW k \in 1 .. Len(seq) + 1, NEW e \in S
    PROVE  /\ InsertAt(seq, k, e) \in Seq(S)
           /\ Len(InsertAt(seq, k, e)) = Len(seq) + 1
           /\ \A i \in 1 .. Len(seq) + 1 :
                  InsertAt(seq, k, e)[i] = IF i < k THEN seq[i]
                                           ELSE IF i = k THEN e
                                           ELSE seq[i - 1]
<1> DEFINE before == SubSeq(seq, 1, k - 1)
           after == SubSeq(seq, k, Len(seq))
<1>1. Len(seq) \in Nat /\ \A i \in 1 .. Len(seq) : seq[i] \in S
  BY LenProperties, ElementOfSeq
<1>2. /\ before \in Seq(S)
      /\ Len(before) = k - 1
      /\ \A i \in 1 .. k - 1 : before[i] = seq[i]
  <2>1. \A i \in 1 .. k - 1 : seq[i] \in S
    BY <1>1
  <2>2. QED
    BY <1>1, <2>1, SubSeqProperties
<1>3. /\ after \in Seq(S)
      /\ Len(after) = Len(seq) - k + 1
      /\ \A i \in 1 .. Len(seq) - k + 1 : after[i] = seq[k + i - 1]
  <2>1. \A i \in k .. Len(seq) : seq[i] \in S
    BY <1>1
  <2>2. QED
    BY <1>1, <2>1, SubSeqProperties
<1> HIDE DEF before, after
<1> DEFINE left == before \o << e >>
<1>4. /\ left \in Seq(S)
      /\ Len(left) = k
      /\ \A i \in 1 .. k : left[i] = IF i < k THEN seq[i] ELSE e
  <2>1. << e >> \in Seq(S) /\ Len(<< e >>) = 1 /\ << e >>[1] = e
    OBVIOUS
  <2>2. /\ left \in Seq(S)
        /\ Len(left) = Len(before) + 1
        /\ \A i \in 1 .. Len(before) + 1 :
               left[i] = IF i <= Len(before) THEN before[i]
                                             ELSE << e >>[i - Len(before)]
    BY <1>2, <2>1, ConcatProperties
  <2> HIDE DEF left
  <2>3. QED
    BY <1>1, <1>2, <2>1, <2>2
<1> HIDE DEF left
<1>5. InsertAt(seq, k, e) = left \o after
  BY DEF InsertAt, left, before, after
<1>6. /\ left \o after \in Seq(S)
      /\ Len(left \o after) = Len(left) + Len(after)
      /\ \A i \in 1 .. Len(left) + Len(after) :
             (left \o after)[i] =
                 IF i <= Len(left) THEN left[i] ELSE after[i - Len(left)]
  BY <1>3, <1>4, ConcatProperties
<1>7. Len(InsertAt(seq, k, e)) = Len(seq) + 1
  BY <1>1, <1>3, <1>4, <1>5, <1>6
<1>8. ASSUME NEW i \in 1 .. Len(seq) + 1
      PROVE  InsertAt(seq, k, e)[i] = IF i < k THEN seq[i]
                                      ELSE IF i = k THEN e
                                      ELSE seq[i - 1]
  <2>1. CASE i <= k
    BY <1>1, <1>3, <1>4, <1>5, <1>6, <2>1
  <2>2. CASE i > k
    <3>1. i - k \in 1 .. Len(seq) - k + 1
      BY <1>1, <2>2
    <3>2. after[i - k] = seq[k + (i - k) - 1]
      BY <1>3, <3>1
    <3>3. k + (i - k) - 1 = i - 1
      BY <1>1
    <3>4. (left \o after)[i] = after[i - k]
      BY <1>1, <1>3, <1>4, <1>6, <2>2
    <3>5. QED
      BY <1>5, <2>2, <3>2, <3>3, <3>4
  <2>3. QED
    BY <1>1, <2>1, <2>2
<1>9. QED
  BY <1>5, <1>6, <1>7, <1>8

\* Append adds an element, and keeps the elements distinct if it is a new one.
LEMMA AppendElements ==
    ASSUME NEW S, NEW seq \in Seq(S), NEW e \in S
    PROVE  /\ ToSet(Append(seq, e)) = ToSet(seq) \cup {e}
           /\ IsInjective(seq) /\ e \notin ToSet(seq) =>
                  IsInjective(Append(seq, e))
<1>1. /\ Append(seq, e) \in Seq(S)
      /\ Len(Append(seq, e)) = Len(seq) + 1
      /\ \A i \in 1 .. Len(seq) : Append(seq, e)[i] = seq[i]
      /\ Append(seq, e)[Len(seq) + 1] = e
  BY AppendProperties
<1>2. /\ Len(seq) \in Nat
      /\ DOMAIN seq = 1 .. Len(seq)
      /\ DOMAIN Append(seq, e) = 1 .. Len(seq) + 1
  BY <1>1, LenProperties
<1> DEFINE longer == Append(seq, e)
<1> HIDE DEF longer
<1>3. ToSet(longer) = ToSet(seq) \cup {e}
  BY <1>1, <1>2 DEF ToSet, longer
<1>4. IsInjective(seq) /\ e \notin ToSet(seq) => IsInjective(longer)
  BY <1>1, <1>2 DEF ToSet, IsInjective, longer
<1>5. QED
  BY <1>3, <1>4 DEF longer

\* Tail drops the first of a list of distinct elements.
LEMMA TailElements ==
    ASSUME NEW S, NEW seq \in Seq(S), seq # << >>, IsInjective(seq)
    PROVE  /\ Tail(seq) \in Seq(S)
           /\ Head(seq) \in ToSet(seq)
           /\ ToSet(Tail(seq)) = ToSet(seq) \ {Head(seq)}
           /\ IsInjective(Tail(seq))
<1>1. /\ Tail(seq) \in Seq(S)
      /\ Len(Tail(seq)) = Len(seq) - 1
      /\ \A i \in 1 .. Len(Tail(seq)) : Tail(seq)[i] = seq[i + 1]
  BY HeadTailProperties
<1>2. /\ Len(seq) \in Nat \ {0}
      /\ DOMAIN seq = 1 .. Len(seq)
      /\ DOMAIN Tail(seq) = 1 .. Len(seq) - 1
      /\ Head(seq) = seq[1]
  BY <1>1, LenProperties, EmptySeq
<1> DEFINE rest == Tail(seq)
           first == Head(seq)
<1> HIDE DEF rest, first
<1>3. first \in ToSet(seq)
  BY <1>2 DEF ToSet, first
<1>4. ToSet(rest) = ToSet(seq) \ {first}
  <2>1. \A x \in ToSet(rest) : x \in ToSet(seq) /\ x # first
    BY <1>1, <1>2 DEF ToSet, IsInjective, rest, first
  <2>2. ASSUME NEW x \in ToSet(seq), x # first
        PROVE  x \in ToSet(rest)
    <3>1. PICK i \in 1 .. Len(seq) : seq[i] = x
      BY <1>2 DEF ToSet
    <3>2. i # 1
      BY <1>2, <2>2, <3>1 DEF first
    <3>3. i - 1 \in 1 .. Len(seq) - 1 /\ rest[i - 1] = x
      BY <1>1, <1>2, <3>1, <3>2 DEF rest
    <3>4. QED
      BY <1>2, <3>3 DEF ToSet, rest
  <2>3. QED
    BY <2>1, <2>2
<1>5. IsInjective(rest)
  BY <1>1, <1>2 DEF IsInjective, rest
<1>6. QED
  BY <1>1, <1>3, <1>4, <1>5 DEF rest, first

\* RemoveAt drops the element at its position from a list of distinct ones.
LEMMA RemoveAtElements ==
    ASSUME NEW S, NEW seq \in Seq(S), IsInjective(seq), NEW k \in 1 .. Len(seq)
    PROVE  /\ ToSet(RemoveAt(seq, k)) = ToSet(seq) \ {seq[k]}
           /\ IsInjective(RemoveAt(seq, k))
<1> DEFINE rest == RemoveAt(seq, k)
<1>1. /\ rest \in Seq(S)
      /\ Len(rest) = Len(seq) - 1
      /\ \A i \in 1 .. Len(seq) - 1 :
             rest[i] = IF i < k THEN seq[i] ELSE seq[i + 1]
  BY RemoveAtProperties
<1> HIDE DEF rest
<1>2. /\ Len(seq) \in Nat
      /\ DOMAIN seq = 1 .. Len(seq)
      /\ DOMAIN rest = 1 .. Len(seq) - 1
      /\ \A a, b \in 1 .. Len(seq) : seq[a] = seq[b] => a = b
  BY <1>1, LenProperties DEF IsInjective
<1>3. \A x \in ToSet(rest) : x \in ToSet(seq) /\ x # seq[k]
  <2>1. ASSUME NEW i \in 1 .. Len(seq) - 1
        PROVE  rest[i] \in ToSet(seq) /\ rest[i] # seq[k]
    <3>1. PICK a \in 1 .. Len(seq) : a # k /\ rest[i] = seq[a]
      <4>1. CASE i < k
        BY <1>1, <1>2, <4>1
      <4>2. CASE i >= k
        <5>1. i + 1 \in 1 .. Len(seq) /\ i + 1 # k /\ rest[i] = seq[i + 1]
          BY <1>1, <1>2, <4>2
        <5>2. QED
          BY <5>1
      <4>3. QED
        BY <1>2, <4>1, <4>2
    <3>2. QED
      BY <1>2, <3>1 DEF ToSet
  <2>2. QED
    BY <1>2, <2>1 DEF ToSet
<1>4. ASSUME NEW x \in ToSet(seq), x # seq[k]
      PROVE  x \in ToSet(rest)
  <2>1. PICK i \in 1 .. Len(seq) : seq[i] = x
    BY <1>2 DEF ToSet
  <2>2. CASE i < k
    BY <1>1, <1>2, <2>1, <2>2 DEF ToSet
  <2>3. CASE i > k
    <3>1. i - 1 \in 1 .. Len(seq) - 1 /\ rest[i - 1] = x
      BY <1>1, <1>2, <2>1, <2>3
    <3>2. QED
      BY <1>2, <3>1 DEF ToSet
  <2>4. QED
    BY <1>2, <1>4, <2>1, <2>2, <2>3
<1> DEFINE pos(i) == IF i < k THEN i ELSE i + 1
<1>5. /\ \A i \in 1 .. Len(seq) - 1 :
             pos(i) \in 1 .. Len(seq) /\ rest[i] = seq[pos(i)]
      /\ \A i, j \in 1 .. Len(seq) - 1 : pos(i) = pos(j) => i = j
  <2>1. ASSUME NEW i \in 1 .. Len(seq) - 1
        PROVE  pos(i) \in 1 .. Len(seq) /\ rest[i] = seq[pos(i)]
    <3>1. CASE i < k
      BY <1>1, <1>2, <3>1
    <3>2. CASE i >= k
      BY <1>1, <1>2, <3>2
    <3>3. QED
      BY <1>2, <3>1, <3>2
  <2>2. ASSUME NEW i \in 1 .. Len(seq) - 1, NEW j \in 1 .. Len(seq) - 1,
               pos(i) = pos(j)
        PROVE  i = j
    BY <1>2, <2>2
  <2>3. QED
    BY <2>1, <2>2
<1> HIDE DEF pos
<1>6. IsInjective(rest)
  BY <1>2, <1>5 DEF IsInjective
<1>7. QED
  BY <1>3, <1>4, <1>6 DEF rest

\* A new first element.
LEMMA PrependElements ==
    ASSUME NEW S, NEW seq \in Seq(S), NEW e \in S, e \notin ToSet(seq), IsInjective(seq)
    PROVE  /\ << e >> \o seq \in Seq(S)
           /\ ToSet(<< e >> \o seq) = ToSet(seq) \cup {e}
           /\ IsInjective(<< e >> \o seq)
           /\ Len(<< e >> \o seq) = Len(seq) + 1
           /\ \A i \in 1 .. Len(seq) + 1 :
                  (<< e >> \o seq)[i] = IF i = 1 THEN e ELSE seq[i - 1]
<1> DEFINE more == << e >> \o seq
<1>1. << e >> \in Seq(S) /\ Len(<< e >>) = 1 /\ << e >>[1] = e
  OBVIOUS
<1>2. /\ Len(seq) \in Nat
      /\ DOMAIN seq = 1 .. Len(seq)
  BY LenProperties
<1>3. /\ more \in Seq(S)
      /\ Len(more) = 1 + Len(seq)
      /\ \A i \in 1 .. 1 + Len(seq) :
             more[i] = IF i <= 1 THEN << e >>[i] ELSE seq[i - 1]
  BY <1>1, ConcatProperties
<1> HIDE DEF more
<1>4. /\ Len(more) = Len(seq) + 1
      /\ DOMAIN more = 1 .. Len(seq) + 1
  BY <1>2, <1>3, LenProperties
<1>5. \A i \in 1 .. Len(seq) + 1 : more[i] = IF i = 1 THEN e ELSE seq[i - 1]
  BY <1>1, <1>2, <1>3
<1>6. ToSet(more) = ToSet(seq) \cup {e}
  <2>1. \A x \in ToSet(more) : x \in ToSet(seq) \cup {e}
    <3>1. ASSUME NEW i \in 1 .. Len(seq) + 1
          PROVE  more[i] \in ToSet(seq) \cup {e}
      <4>1. CASE i = 1
        BY <1>5, <4>1
      <4>2. CASE i # 1
        <5>1. i - 1 \in DOMAIN seq /\ more[i] = seq[i - 1]
          BY <1>2, <1>5, <4>2
        <5>2. QED
          BY <5>1 DEF ToSet
      <4>3. QED
        BY <4>1, <4>2
    <3>2. QED
      BY <1>4, <3>1 DEF ToSet
  <2>2. \A i \in 1 .. Len(seq) : i + 1 \in DOMAIN more /\ more[i + 1] = seq[i]
    <3>1. ASSUME NEW i \in 1 .. Len(seq)
          PROVE  i + 1 \in DOMAIN more /\ more[i + 1] = seq[i]
      <4>1. i + 1 \in 1 .. Len(seq) + 1 /\ i + 1 # 1 /\ (i + 1) - 1 = i
        BY <1>2
      <4>2. QED
        BY <1>4, <1>5, <4>1
    <3>2. QED
      BY <3>1
  <2>3. 1 \in DOMAIN more /\ more[1] = e
    BY <1>2, <1>4, <1>5
  <2>4. \A x \in ToSet(seq) : x \in ToSet(more)
    BY <1>2, <2>2 DEF ToSet
  <2>5. QED
    BY <2>1, <2>3, <2>4 DEF ToSet
<1>7. IsInjective(more)
  <2>1. ASSUME NEW i \in 1 .. Len(seq) + 1, NEW j \in 1 .. Len(seq) + 1, more[i] = more[j],
               i # 1
        PROVE  i = j
    <3>1. i - 1 \in DOMAIN seq /\ more[i] = seq[i - 1] /\ more[i] \in ToSet(seq)
      <4>1. i - 1 \in DOMAIN seq /\ more[i] = seq[i - 1]
        BY <1>2, <1>5, <2>1
      <4>2. QED
        BY <4>1 DEF ToSet
    <3>2. j # 1
      BY <1>5, <2>1, <3>1
    <3>3. j - 1 \in DOMAIN seq /\ more[j] = seq[j - 1]
      BY <1>2, <1>5, <3>2
    <3>4. i - 1 = j - 1
      BY <2>1, <3>1, <3>3 DEF IsInjective
    <3>5. QED
      BY <1>2, <3>4
  <2>2. \A i, j \in 1 .. Len(seq) + 1 : more[i] = more[j] => i = j
    <3>1. ASSUME NEW i \in 1 .. Len(seq) + 1, NEW j \in 1 .. Len(seq) + 1, more[i] = more[j]
          PROVE  i = j
      BY <2>1, <3>1
    <3>2. QED
      BY <3>1
  <2>3. QED
    BY <1>4, <2>2 DEF IsInjective
<1>8. QED
  BY <1>3, <1>4, <1>5, <1>6, <1>7 DEF more


\* Front drops the last of a list of distinct elements.
LEMMA FrontElements ==
    ASSUME NEW S, NEW seq \in Seq(S), seq # << >>, IsInjective(seq)
    PROVE  /\ Front(seq) \in Seq(S)
           /\ Last(seq) \in ToSet(seq) /\ Last(seq) \in S
           /\ ToSet(Front(seq)) = ToSet(seq) \ {Last(seq)}
           /\ IsInjective(Front(seq))
<1>1. /\ Len(seq) \in Nat \ {0}
      /\ DOMAIN seq = 1 .. Len(seq)
      /\ \A i \in 1 .. Len(seq) : seq[i] \in S
  BY LenProperties, EmptySeq, ElementOfSeq
<1>2. Last(seq) = seq[Len(seq)] /\ Len(seq) \in 1 .. Len(seq)
  BY <1>1 DEF Last
<1>3. PICK rest : rest = Front(seq)
  OBVIOUS
<1>4. /\ rest \in Seq(S)
      /\ Len(rest) = Len(seq) - 1
      /\ \A i \in 1 .. Len(seq) - 1 : rest[i] = seq[i]
  <2>1. \A i \in 1 .. Len(seq) - 1 : seq[i] \in S
    BY <1>1
  <2>2. rest = SubSeq(seq, 1, Len(seq) - 1) /\ Len(seq) - 1 \in Int /\ 1 \in Int
    BY <1>1, <1>3 DEF Front
  <2>3. /\ rest \in Seq(S)
        /\ Len(rest) = IF 1 <= Len(seq) - 1 THEN (Len(seq) - 1) - 1 + 1 ELSE 0
        /\ \A i \in 1 .. (Len(seq) - 1) - 1 + 1 : rest[i] = seq[1 + i - 1]
    BY <2>1, <2>2, SubSeqProperties
  <2>4. Len(rest) = Len(seq) - 1
    <3>1. PICK n \in Nat \ {0} : n = Len(seq)
      BY <1>1
    <3>2. (IF 1 <= n - 1 THEN (n - 1) - 1 + 1 ELSE 0) = n - 1
      OBVIOUS
    <3>3. QED
      BY <2>3, <3>1, <3>2
  <2>5. \A i \in 1 .. Len(seq) - 1 : rest[i] = seq[i]
    <3>1. SUFFICES ASSUME NEW i \in 1 .. Len(seq) - 1
                   PROVE  rest[i] = seq[i]
      OBVIOUS
    <3>2. i \in 1 .. (Len(seq) - 1) - 1 + 1 /\ 1 + i - 1 = i
      BY <1>1
    <3>3. QED
      BY <2>3, <3>2
  <2>6. QED
    BY <2>3, <2>4, <2>5
<1>5. DOMAIN rest = 1 .. Len(seq) - 1
  BY <1>4, LenProperties
<1>6. ToSet(rest) = ToSet(seq) \ {Last(seq)}
  <2>1. \A x \in ToSet(rest) : x \in ToSet(seq) /\ x # Last(seq)
    <3>1. SUFFICES ASSUME NEW i \in 1 .. Len(seq) - 1
                   PROVE  rest[i] \in ToSet(seq) /\ rest[i] # Last(seq)
      BY <1>5 DEF ToSet
    <3>2. PICK n \in Nat \ {0} : n = Len(seq)
      BY <1>1
    <3>3. i \in 1 .. n /\ i # n /\ rest[i] = seq[i]
      BY <1>4, <3>2
    <3>4. QED
      BY <1>1, <1>2, <3>2, <3>3 DEF ToSet, IsInjective
  <2>2. ASSUME NEW x \in ToSet(seq), x # Last(seq)
        PROVE  x \in ToSet(rest)
    <3>1. PICK i \in 1 .. Len(seq) : seq[i] = x
      BY <1>1 DEF ToSet
    <3>2. i \in 1 .. Len(seq) - 1
      BY <1>1, <1>2, <2>2, <3>1
    <3>3. QED
      BY <1>4, <1>5, <3>1, <3>2 DEF ToSet
  <2>3. QED
    BY <2>1, <2>2
<1>7. IsInjective(rest)
  <2>1. SUFFICES ASSUME NEW i \in 1 .. Len(seq) - 1, NEW j \in 1 .. Len(seq) - 1,
                        rest[i] = rest[j]
                 PROVE  i = j
    BY <1>5 DEF IsInjective
  <2>2. /\ i \in 1 .. Len(seq) /\ j \in 1 .. Len(seq)
        /\ seq[i] = seq[j]
    BY <1>1, <1>4, <2>1
  <2>3. QED
    BY <1>1, <2>2 DEF IsInjective
<1>8. Last(seq) \in ToSet(seq) /\ Last(seq) \in S
  BY <1>1, <1>2 DEF ToSet
<1>9. QED
  BY <1>3, <1>4, <1>6, <1>7, <1>8

===============================================================================
