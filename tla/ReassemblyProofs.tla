--------------------------- MODULE ReassemblyProofs ---------------------------
(***************************************************************************)
(* Proofs about reassembly: about one Gather on its own, in GatherSession, *)
(* and about the receive buffer of the newest message, Watch, which has a  *)
(* Gather for each of its sessions. Both rest on the facts about           *)
(* push_frame in SessionLemmas.                                            *)
(*                                                                         *)
(* The first part shows that a session reassembles in place without a loss *)
(* and implements the documented rules but for malformed repetitions, for  *)
(* any transfer identifiers, payloads and CRCs; nothing in it depends on   *)
(* the constants of Watch, nor does anything of the second on those of     *)
(* GatherSession.                                                          *)
(***************************************************************************)
EXTENDS GatherSession, Watch, SessionLemmas

\* The number of frames that AccumulatedFirst tells from the other two states, each
\* of which has brought a payload.
LengthMatchesState ==
    /\ gather.state = "AccumulatedFirst" => Len(gather.acc) = 1
    /\ gather.state \in {"AccumulatedOdd", "AccumulatedEven"} => Len(gather.acc) >= 2

\* The invariant of a session, which is inductive.
SessionInv ==
    /\ IsReception(gather, buffer, TransferIds, PartSet)
    /\ LengthMatchesState
    /\ clock \in Nat
    /\ produced # None => produced.parts = buffer

-----------------------------------------------------------------------------
(* The buffer.                                                             *)

\* What a frame can be.
LEMMA SessionFrameFields ==
    ASSUME NEW f \in SessionFrames
    PROVE  /\ f.data \in BOOLEAN /\ f.sot \in BOOLEAN /\ f.eot \in BOOLEAN
           /\ f.toggle \in BOOLEAN /\ f.malformed \in BOOLEAN
           /\ f.transfer_id \in TransferIds /\ f.part \in PartSet
           /\ f.data /\ f.malformed => ~ f.eot
           /\ f.data /\ ~ f.eot /\ ~ f.malformed => f.part # NoPart
BY SessionAssumption DEF SessionFrames

\* A frame that is accumulated brings one part.
LEMMA PartsOfOne ==
    ASSUME NEW f, f.part \in PartSet, f.part # NoPart
    PROVE  Parts(f) \in Seq(PartSet) /\ Len(Parts(f)) = 1
BY DEF Parts

\* How many parts there are at least.
LEMMA AccumulatedLength ==
    ASSUME SessionInv
    PROVE  /\ Len(gather.acc) \in Nat
           /\ gather.state \in Accumulating => Len(gather.acc) >= 1
           /\ gather.state \in {"AccumulatedOdd", "AccumulatedEven"} => Len(gather.acc) # 1
<1>1. Len(gather.acc) \in Nat
  <2>1. gather.acc \in Seq(PartSet)
    BY DEF SessionInv, IsReception, Gathers
  <2>2. QED
    BY <2>1, LenProperties
<1>2. /\ gather.state = "AccumulatedFirst" => Len(gather.acc) = 1
      /\ gather.state \in {"AccumulatedOdd", "AccumulatedEven"} => Len(gather.acc) >= 2
  BY DEF SessionInv, LengthMatchesState
<1>3. ASSUME NEW n \in Nat, n = Len(gather.acc)
      PROVE  /\ gather.state \in Accumulating => n >= 1
             /\ gather.state \in {"AccumulatedOdd", "AccumulatedEven"} => n # 1
  <2>1. CASE gather.state = "AccumulatedFirst"
    <3>1. n = 1
      BY <1>2, <1>3, <2>1
    <3>2. n >= 1
      BY <3>1
    <3>3. gather.state \notin {"AccumulatedOdd", "AccumulatedEven"}
      BY <2>1
    <3>4. QED
      BY <3>2, <3>3
  <2>2. CASE gather.state \in {"AccumulatedOdd", "AccumulatedEven"}
    <3>1. n >= 2
      BY <1>2, <1>3, <2>2
    <3>2. QED
      BY <2>2, <3>1
  <2>3. QED
    BY <2>1, <2>2 DEF Accumulating
<1>4. QED
  BY <1>1, <1>3

\* A step keeps the count of the parts: the first frame that is accumulated brings
\* one, and every next frame one more.
LEMMA ReceiveKeepsLength ==
    ASSUME SessionInv, NEW f \in SessionFrames, NEW timestamp \in Nat, Receive(f, timestamp)
    PROVE  LengthMatchesState'
<1> DEFINE o == PushFrame(gather, buffer, f, timestamp)
<1>1. /\ gather \in Gathers(TransferIds, PartSet)
      /\ gather.acc \in Seq(PartSet)
      /\ LengthMatchesState
  BY DEF SessionInv, IsReception, Gathers
<1>2. gather' = o.gather
  BY DEF Receive
<1> HIDE DEF o
<1>3. CASE gather' = gather
  BY <1>1, <1>3 DEF LengthMatchesState
<1>4. CASE gather' = StopAssembly(gather)
  <2>1. gather'.state \in {"Idle", "IdleLastTransfer"}
    BY <1>1, <1>4 DEF StopAssembly, Gathers
  <2>2. QED
    BY <2>1 DEF LengthMatchesState
<1>5. CASE gather'.state = "Assembled"
  BY <1>5 DEF LengthMatchesState
<1>6. CASE f.part # NoPart /\ gather'.state = "AccumulatedFirst" /\ gather'.acc = Parts(f)
  BY <1>6, PartsOfOne, SessionFrameFields DEF LengthMatchesState
<1>7. CASE /\ f.part # NoPart
           /\ gather.state \in Accumulating
           /\ gather'.state \in {"AccumulatedOdd", "AccumulatedEven"}
           /\ gather'.acc = gather.acc \o Parts(f)
  <2>1. Parts(f) \in Seq(PartSet) /\ Len(Parts(f)) = 1
    BY <1>7, PartsOfOne, SessionFrameFields
  <2>2. gather.acc \in Seq(PartSet)
    BY <1>1
  <2>3. Len(gather.acc \o Parts(f)) = Len(gather.acc) + Len(Parts(f))
    BY <2>1, <2>2, ConcatProperties
  <2>4. Len(gather.acc) \in Nat /\ Len(gather.acc) >= 1
    BY <1>7, AccumulatedLength
  <2>5. Len(gather'.acc) >= 2
    BY <1>7, <2>1, <2>3, <2>4
  <2>6. QED
    BY <1>7, <2>5 DEF LengthMatchesState
<1>8. CASE Skips(gather, f, timestamp)
  BY <1>2, <1>3, <1>8 DEF o, PushFrame, Outcome
<1>9. CASE ~ Skips(gather, f, timestamp) /\ Starts(f)
  <2>1. f.data
    BY <1>9 DEF Skips
  <2>2. CASE f.eot
    <3>1. o = SingleFrameAssembly(f, timestamp)
      BY <1>9, <2>2 DEF o, PushFrame
    <3>2. QED
      BY <1>2, <1>5, <3>1 DEF SingleFrameAssembly, Outcome
  <2>3. CASE ~ f.eot
    <3>1. o = AccumulateFirst(gather, buffer, f, timestamp)
      BY <1>9, <2>3 DEF o, PushFrame
    <3>2. CASE f.malformed
      BY <1>2, <1>4, <3>1, <3>2 DEF AccumulateFirst, Outcome
    <3>3. CASE ~ f.malformed
      BY <1>2, <1>6, <2>1, <2>3, <3>1, <3>3, SessionFrameFields DEF AccumulateFirst, Outcome
    <3>4. QED
      BY <3>2, <3>3
  <2>4. QED
    BY <2>2, <2>3
<1>10. CASE ~ Skips(gather, f, timestamp) /\ ~ Starts(f) /\ Continues(gather, f, timestamp)
  <2>1. f.data /\ gather.state \in Accumulating
    BY <1>10 DEF Skips, Continues
  <2>2. CASE f.eot
    <3>1. o = FinishAssembly(gather, buffer, f)
      BY <1>10, <2>2 DEF o, PushFrame
    <3>2. \/ o.gather = StopAssembly(gather)
          \/ o.gather = [gather EXCEPT !.state = "Assembled", !.acc = << >>]
      BY <3>1 DEF FinishAssembly, Outcome
    <3>3. QED
      BY <1>1, <1>2, <1>4, <1>5, <3>2 DEF Gathers
  <2>3. CASE ~ f.eot
    <3>1. o = AccumulateNext(gather, buffer, f)
      BY <1>10, <2>3 DEF o, PushFrame
    <3>2. CASE f.malformed
      BY <1>2, <1>4, <3>1, <3>2 DEF AccumulateNext, Outcome
    <3>3. CASE ~ f.malformed
      <4>1. gather' = [gather EXCEPT !.state = IF f.toggle THEN "AccumulatedEven"
                                                          ELSE "AccumulatedOdd",
                                     !.acc = gather.acc \o Parts(f)]
        BY <1>2, <3>1, <3>3 DEF AccumulateNext, Outcome
      <4>2. /\ gather'.state \in {"AccumulatedOdd", "AccumulatedEven"}
            /\ gather'.acc = gather.acc \o Parts(f)
        BY <1>1, <4>1 DEF Gathers
      <4>3. QED
        BY <1>7, <2>1, <2>3, <3>3, <4>2, SessionFrameFields
    <3>4. QED
      BY <3>2, <3>3
  <2>4. QED
    BY <2>2, <2>3
<1>11. CASE ~ Skips(gather, f, timestamp) /\ ~ Starts(f) /\ ~ Continues(gather, f, timestamp)
  BY <1>2, <1>4, <1>11 DEF o, PushFrame, Outcome
<1>12. QED
  BY <1>8, <1>9, <1>10, <1>11

LEMMA SessionNextKeepsInv == SessionInv /\ [SessionNext]_sessionVars => SessionInv'
<1> SUFFICES ASSUME SessionInv, [SessionNext]_sessionVars PROVE SessionInv'
  OBVIOUS
<1>1. ASSUME NEW f \in SessionFrames, NEW timestamp \in clock .. LastTime, Receive(f, timestamp)
      PROVE  SessionInv'
  <2>1. timestamp \in Nat
    BY SessionAssumption DEF SessionInv
  <2>2. PICK o : /\ o = PushFrame(gather, buffer, f, timestamp)
                 /\ gather' = o.gather /\ buffer' = o.buffer /\ produced' = o.transfer
                 /\ clock' = timestamp
    BY <1>1 DEF Receive
  <2>3. f.part \in PartSet /\ f.transfer_id \in TransferIds
    BY SessionFrameFields
  <2>4. /\ IsReception(o.gather, o.buffer, TransferIds, PartSet)
        /\ o.transfer # None => o.transfer.parts = o.buffer
    BY <2>1, <2>2, <2>3, SessionAssumption, PushFrameReception DEF SessionInv
  <2>5. IsReception(gather, buffer, TransferIds, PartSet)'
    BY <2>2, <2>4 DEF IsReception, FieldsMatchState, InBuffer
  <2>6. QED
    BY <1>1, <2>1, <2>2, <2>4, <2>5, ReceiveKeepsLength DEF SessionInv
<1>2. CASE UNCHANGED sessionVars
  BY <1>2 DEF SessionInv, IsReception, FieldsMatchState, InBuffer, LengthMatchesState,
             sessionVars
<1>3. QED
  BY <1>1, <1>2 DEF SessionNext

LEMMA SessionInitHolds == SessionInit => SessionInv
<1> SUFFICES ASSUME SessionInit PROVE SessionInv
  OBVIOUS
<1>1. << >> \in Seq(PartSet)
  OBVIOUS
<1>2. IsReception(gather, buffer, TransferIds, PartSet)
  BY <1>1, DefaultIsReception DEF SessionInit
<1>3. QED
  BY <1>2 DEF SessionInit, SessionInv, LengthMatchesState, Default

-----------------------------------------------------------------------------
(* The rules.                                                              *)

\* The rules see the same status of a TransferId as long as it is not the last one.
LEMMA RulesBecome ==
    ASSUME NEW f \in SessionFrames, gather'.transfer_id \in {None, f.transfer_id}
    PROVE  Rules!Becomes(f, StatusOf(f.transfer_id)')
<1>1. f.transfer_id \in TransferIds
  BY SessionFrameFields
<1>2. ASSUME NEW id \in TransferIds, id # f.transfer_id
      PROVE  StatusOf(id)' = Rules!Nothing
  BY <1>2, SessionAssumption DEF StatusOf, Rules!Nothing
<1>3. QED
  BY <1>1, <1>2 DEF Rules!Becomes

\* Once the assembly is stopped, no TransferId has anything.
LEMMA StoppedIsNothing ==
    ASSUME NEW f \in SessionFrames, gather'.transfer_id = None
    PROVE  Rules!Becomes(f, Rules!Nothing)
<1>1. f.transfer_id # None
  BY SessionFrameFields, SessionAssumption
<1>2. StatusOf(f.transfer_id)' = Rules!Nothing
  BY <1>1 DEF StatusOf, Rules!Nothing
<1>3. QED
  BY <1>2, RulesBecome

\* The status that counts for a frame is the one of the fields, if the frame has
\* their identifier and comes in time.
LEMMA CurrentStatus ==
    ASSUME SessionInv, NEW f \in SessionFrames, NEW timestamp \in Nat, clock' = timestamp
    PROVE  /\ ~ TidMatch(gather, f, timestamp) => Rules!Current(f) = Rules!Nothing
           /\ TidMatch(gather, f, timestamp) =>
                  /\ gather.transfer_id = f.transfer_id
                  /\ Rules!Current(f) = StatusOf(f.transfer_id)
                  /\ gather.state = "Assembled" =>
                         Rules!Current(f) = Rules!Assembled(gather.sof_timestamp)
                  /\ gather.state # "Assembled" =>
                         /\ gather.state \in Accumulating
                         /\ Rules!Current(f) =
                                Rules!Running(gather.sof_timestamp,
                                              gather.state # "AccumulatedOdd", gather.acc)
<1>1. /\ gather \in Gathers(TransferIds, PartSet)
      /\ FieldsMatchState(gather)
  BY DEF SessionInv, IsReception
<1>2. f.transfer_id \in TransferIds /\ f.transfer_id # None
  BY SessionFrameFields, SessionAssumption
<1>3. [id \in TransferIds |-> StatusOf(id)][f.transfer_id] = StatusOf(f.transfer_id)
  BY <1>2
<1>4. CASE gather.transfer_id # f.transfer_id
  <2>1. ~ TidMatch(gather, f, timestamp)
    BY <1>4 DEF TidMatch
  <2>2. StatusOf(f.transfer_id) = Rules!Nothing
    BY <1>4 DEF StatusOf, Rules!Nothing
  <2>3. QED
    BY <1>3, <2>1, <2>2 DEF Rules!Current, Rules!Nothing
<1>5. CASE gather.transfer_id = f.transfer_id
  <2>1. /\ gather.state \in Accumulating \cup {"Assembled"}
        /\ gather.sof_timestamp \in Nat
    BY <1>1, <1>2, <1>5 DEF Gathers, FieldsMatchState
  <2>2. TidMatch(gather, f, timestamp) <=> timestamp <= gather.sof_timestamp + Timeout
    BY <1>5, <2>1 DEF TidMatch
  <2>3. /\ StatusOf(f.transfer_id).is # "Nothing"
        /\ StatusOf(f.transfer_id).started = gather.sof_timestamp
        /\ gather.state = "Assembled" =>
               StatusOf(f.transfer_id) = Rules!Assembled(gather.sof_timestamp)
        /\ gather.state # "Assembled" =>
               StatusOf(f.transfer_id) =
                   Rules!Running(gather.sof_timestamp,
                                 gather.state # "AccumulatedOdd", gather.acc)
    BY <1>5 DEF StatusOf, Rules!Assembled, Rules!Running
  <2>4. Rules!Current(f) = IF timestamp > gather.sof_timestamp + Timeout
                           THEN Rules!Nothing ELSE StatusOf(f.transfer_id)
    BY <1>3, <2>3 DEF Rules!Current
  <2>5. timestamp > gather.sof_timestamp + Timeout <=>
            ~ (timestamp <= gather.sof_timestamp + Timeout)
    BY <2>1, SessionAssumption
  <2>6. QED
    BY <1>5, <2>1, <2>2, <2>3, <2>4, <2>5
<1>6. QED
  BY <1>4, <1>5

\* What a frame with data leaves in the state machine, if it is not skipped.
LEMMA Outcomes ==
    ASSUME SessionInv, NEW f \in SessionFrames, NEW timestamp \in Nat, Receive(f, timestamp),
           ~ Skips(gather, f, timestamp)
    PROVE  /\ f.data /\ clock' = timestamp
           /\ Starts(f) /\ f.eot =>
                  /\ gather' = [state |-> "Assembled", sof_timestamp |-> timestamp,
                                transfer_id |-> f.transfer_id, acc |-> << >>]
                  /\ produced' = Transfer(f.transfer_id, f, timestamp, Parts(f))
           /\ Starts(f) /\ ~ f.eot /\ ~ f.malformed =>
                  /\ gather' = [state |-> "AccumulatedFirst", sof_timestamp |-> timestamp,
                                transfer_id |-> f.transfer_id, acc |-> Parts(f)]
                  /\ produced' = None
           /\ Starts(f) /\ ~ f.eot /\ f.malformed =>
                  gather'.transfer_id = None /\ produced' = None
           /\ ~ Starts(f) /\ ~ Continues(gather, f, timestamp) =>
                  gather'.transfer_id = None /\ produced' = None
           /\ ~ Starts(f) /\ Continues(gather, f, timestamp) /\ f.eot =>
                  IF f.part # NoPart /\ CrcMatches(gather.acc \o Parts(f))
                  THEN /\ gather' = [gather EXCEPT !.state = "Assembled", !.acc = << >>]
                       /\ produced' = Transfer(gather.transfer_id, f, gather.sof_timestamp,
                                               gather.acc \o Parts(f))
                  ELSE gather'.transfer_id = None /\ produced' = None
           /\ ~ Starts(f) /\ Continues(gather, f, timestamp) /\ ~ f.eot =>
                  IF f.malformed
                  THEN gather'.transfer_id = None /\ produced' = None
                  ELSE /\ gather' = [gather EXCEPT
                              !.state = IF f.toggle THEN "AccumulatedEven"
                                                    ELSE "AccumulatedOdd",
                              !.acc = gather.acc \o Parts(f)]
                       /\ produced' = None
<1>1. gather \in Gathers(TransferIds, PartSet)
  BY DEF SessionInv, IsReception
<1>2. StopAssembly(gather).transfer_id = None
  BY <1>1 DEF StopAssembly, Gathers
<1>3. PICK o : /\ o = PushFrame(gather, buffer, f, timestamp)
               /\ gather' = o.gather /\ produced' = o.transfer
  BY DEF Receive
<1>4. f.data /\ clock' = timestamp
  BY DEF Skips, Receive
<1>5. CASE Starts(f) /\ f.eot
  <2>1. o = SingleFrameAssembly(f, timestamp)
    BY <1>3, <1>5 DEF PushFrame
  <2>2. QED
    BY <1>3, <1>4, <1>5, <2>1 DEF SingleFrameAssembly, Outcome
<1>6. CASE Starts(f) /\ ~ f.eot
  <2>1. o = AccumulateFirst(gather, buffer, f, timestamp)
    BY <1>3, <1>6 DEF PushFrame
  <2>2. QED
    BY <1>2, <1>3, <1>4, <1>6, <2>1 DEF AccumulateFirst, Outcome
<1>7. CASE ~ Starts(f) /\ ~ Continues(gather, f, timestamp)
  BY <1>2, <1>3, <1>4, <1>7 DEF PushFrame, Outcome
<1>8. CASE ~ Starts(f) /\ Continues(gather, f, timestamp) /\ f.eot
  <2>1. o = FinishAssembly(gather, buffer, f)
    BY <1>3, <1>8 DEF PushFrame
  <2>2. QED
    BY <1>2, <1>3, <1>4, <1>8, <2>1 DEF FinishAssembly, Outcome
<1>9. CASE ~ Starts(f) /\ Continues(gather, f, timestamp) /\ ~ f.eot
  <2>1. o = AccumulateNext(gather, buffer, f)
    BY <1>3, <1>9 DEF PushFrame
  <2>2. QED
    BY <1>2, <1>3, <1>4, <1>9, <2>1 DEF AccumulateNext, Outcome
<1>10. QED
  BY <1>5, <1>6, <1>7, <1>8, <1>9

\* The frames that are skipped: rule 1, rules 5 and 6, rule 9, and what rule 4 speaks
\* of although rule 9 would ignore it.
LEMMA SkipsImplementRules ==
    ASSUME SessionInv, NEW f \in SessionFrames, NEW timestamp \in Nat, Receive(f, timestamp),
           Skips(gather, f, timestamp)
    PROVE  IF Rules!IsMalformedRepeat(f) THEN Rules!Leaves(f, Rules!Current(f))
           ELSE Rules!Rule(f)
<1>1. gather' = gather /\ produced' = None /\ clock' = timestamp
  BY DEF Receive, PushFrame, Outcome
<1>2. CASE ~ f.data
  <2>1. \A id \in TransferIds : StatusOf(id)' = StatusOf(id)
    BY <1>1 DEF StatusOf
  <2>2. QED
    BY <1>1, <1>2, <2>1 DEF Rules!NoData, Rules!Rule, Rules!IsMalformedRepeat
<1>3. CASE f.data /\ TidMatch(gather, f, timestamp)
  <2>1. /\ gather.transfer_id = f.transfer_id
        /\ Rules!Current(f) = StatusOf(f.transfer_id)
    BY <1>1, <1>3, CurrentStatus
  <2>2. StatusOf(f.transfer_id)' = StatusOf(f.transfer_id)
    BY <1>1 DEF StatusOf
  <2>3. Rules!Becomes(f, Rules!Current(f))
    BY <1>1, <2>1, <2>2, RulesBecome
  <2>4. CASE gather.state = "Assembled"
    <3>1. Rules!Current(f).is = "Assembled"
      BY <1>1, <1>3, <2>4, CurrentStatus DEF Rules!Assembled
    <3>2. Rules!Again(f) /\ ~ Rules!IsMalformedRepeat(f)
      BY <1>1, <1>3, <2>3, <3>1 DEF Rules!Again, Rules!Leaves, Rules!IsMalformedRepeat
    <3>3. QED
      BY <3>2 DEF Rules!Rule
  <2>5. CASE gather.state # "Assembled"
    <3>1. /\ gather.state \in {"AccumulatedOdd", "AccumulatedEven"}
          /\ ~ f.sot /\ ~ f.eot /\ ~ NewToggle(gather, f)
      BY <1>3, <2>5 DEF Skips, IsDuplicate
    <3>2. Rules!Current(f) = Rules!Running(gather.sof_timestamp,
                                           gather.state # "AccumulatedOdd", gather.acc)
      BY <1>1, <1>3, <2>5, CurrentStatus
    <3>3. f.toggle = (gather.state # "AccumulatedOdd")
      BY <3>1, SessionFrameFields DEF NewToggle
    <3>4. Len(gather.acc) # 1
      BY <3>1, AccumulatedLength
    <3>5. /\ Rules!Current(f).is = "Running"
          /\ f.toggle = Rules!Current(f).toggle
          /\ Len(Rules!Current(f).parts) # 1
      BY <3>2, <3>3, <3>4 DEF Rules!Running
    <3>6. CASE f.malformed
      <4>1. Rules!IsMalformedRepeat(f)
        BY <1>3, <3>1, <3>5, <3>6 DEF Rules!IsMalformedRepeat
      <4>2. QED
        BY <1>1, <2>3, <4>1 DEF Rules!Leaves
    <3>7. CASE ~ f.malformed
      <4>1. ~ Rules!IsMalformedRepeat(f)
        BY <3>7 DEF Rules!IsMalformedRepeat
      <4>2. Rules!Follow(f)
        BY <1>1, <1>3, <2>3, <3>1, <3>5, <3>7 DEF Rules!Follow, Rules!Leaves
      <4>3. QED
        BY <4>1, <4>2 DEF Rules!Rule
    <3>8. QED
      BY <3>6, <3>7
  <2>6. QED
    BY <2>4, <2>5
<1>4. QED
  BY <1>2, <1>3 DEF Skips, IsDuplicate

\* The first frames: rules 3 to 6.
LEMMA StartsImplementRules ==
    ASSUME SessionInv, NEW f \in SessionFrames, NEW timestamp \in Nat, Receive(f, timestamp),
           ~ Skips(gather, f, timestamp), f.sot
    PROVE  Rules!Start(f)
<1>1. f.data /\ clock' = timestamp
  BY Outcomes
<1>2. Rules!Current(f).is # "Assembled"
  <2>1. ~ TidMatch(gather, f, timestamp) \/ gather.state # "Assembled"
    BY DEF Skips, IsDuplicate
  <2>2. QED
    BY <1>1, <2>1, CurrentStatus DEF Rules!Nothing, Rules!Running
<1>3. ~ Continues(gather, f, timestamp)
  BY DEF Continues
<1>4. CASE ~ f.toggle \/ f.malformed
  <2>1. gather'.transfer_id = None /\ produced' = None
    BY <1>1, <1>3, <1>4, Outcomes, SessionFrameFields DEF Starts
  <2>2. QED
    BY <1>1, <1>2, <1>4, <2>1, StoppedIsNothing DEF Rules!Start, Rules!Leaves
<1>5. CASE f.toggle /\ ~ f.malformed /\ f.eot
  <2>1. /\ gather' = [state |-> "Assembled", sof_timestamp |-> timestamp,
                      transfer_id |-> f.transfer_id, acc |-> << >>]
        /\ produced' = Transfer(f.transfer_id, f, timestamp, Parts(f))
    BY <1>5, Outcomes DEF Starts
  <2>2. StatusOf(f.transfer_id)' = Rules!Assembled(timestamp)
    BY <2>1 DEF StatusOf, Rules!Assembled
  <2>3. Rules!Becomes(f, Rules!Assembled(timestamp))
    BY <2>1, <2>2, RulesBecome
  <2>4. QED
    BY <1>1, <1>2, <1>5, <2>1, <2>3
       DEF Rules!Start, Rules!Completes, Transfer, Rules!Parts, Parts
<1>6. CASE f.toggle /\ ~ f.malformed /\ ~ f.eot
  <2>1. /\ gather' = [state |-> "AccumulatedFirst", sof_timestamp |-> timestamp,
                      transfer_id |-> f.transfer_id, acc |-> Parts(f)]
        /\ produced' = None
    BY <1>6, Outcomes DEF Starts
  <2>2. StatusOf(f.transfer_id)' = Rules!Running(timestamp, TRUE, Parts(f))
    BY <2>1 DEF StatusOf, Rules!Running
  <2>3. Rules!Becomes(f, Rules!Running(timestamp, TRUE, Parts(f)))
    BY <2>1, <2>2, RulesBecome
  <2>4. QED
    BY <1>1, <1>2, <1>6, <2>1, <2>3 DEF Rules!Start, Rules!Leaves, Rules!Parts, Parts
<1>7. QED
  BY <1>4, <1>5, <1>6, SessionFrameFields

\* The frames that follow: rules 4 and 8 to 11.
LEMMA ContinuesImplementRules ==
    ASSUME SessionInv, NEW f \in SessionFrames, NEW timestamp \in Nat, Receive(f, timestamp),
           ~ Skips(gather, f, timestamp), ~ f.sot
    PROVE  ~ Rules!IsMalformedRepeat(f) /\ (Rules!Follow(f) \/ Rules!Orphan(f))
<1>1. f.data /\ clock' = timestamp /\ ~ Starts(f)
  BY Outcomes DEF Starts
<1>2. gather \in Gathers(TransferIds, PartSet)
  BY DEF SessionInv, IsReception
<1>3. CASE ~ TidMatch(gather, f, timestamp)
  <2>1. ~ Continues(gather, f, timestamp)
    BY <1>3 DEF Continues
  <2>2. gather'.transfer_id = None /\ produced' = None
    BY <1>1, <2>1, Outcomes
  <2>3. Rules!Current(f) = Rules!Nothing
    BY <1>1, <1>3, CurrentStatus
  <2>4. QED
    BY <1>1, <2>2, <2>3, StoppedIsNothing
       DEF Rules!Orphan, Rules!Leaves, Rules!Nothing, Rules!IsMalformedRepeat
<1>4. CASE TidMatch(gather, f, timestamp)
  <2>1. gather.state # "Assembled"
    BY <1>4 DEF Skips, IsDuplicate
  <2>2. /\ gather.transfer_id = f.transfer_id
        /\ gather.state \in Accumulating
        /\ Rules!Current(f) = Rules!Running(gather.sof_timestamp,
                                            gather.state # "AccumulatedOdd", gather.acc)
    BY <1>1, <1>4, <2>1, CurrentStatus
  <2>3. /\ Rules!Current(f).is = "Running"
        /\ Rules!Current(f).started = gather.sof_timestamp
        /\ Rules!Current(f).toggle = (gather.state # "AccumulatedOdd")
        /\ Rules!Current(f).parts = gather.acc
    BY <2>2 DEF Rules!Running
  <2>4. NewToggle(gather, f) <=> f.toggle # (gather.state # "AccumulatedOdd")
    BY SessionFrameFields DEF NewToggle
  <2>5. Continues(gather, f, timestamp) <=> NewToggle(gather, f)
    BY <1>4, <2>2 DEF Continues
  <2>6. Rules!Parts(f) = Parts(f)
    BY DEF Rules!Parts, Parts
  <2>7. CASE ~ NewToggle(gather, f)
    <3>1. gather'.transfer_id = None /\ produced' = None
      BY <1>1, <2>5, <2>7, Outcomes
    <3>2. f.eot \/ Len(gather.acc) = 1
      BY <1>1, <1>4, <2>2, <2>7 DEF Skips, Accumulating, SessionInv, LengthMatchesState
    <3>3. Rules!Leaves(f, Rules!Nothing)
      BY <3>1, StoppedIsNothing DEF Rules!Leaves
    <3>4. ~ Rules!IsMalformedRepeat(f)
      BY <2>3, <3>2 DEF Rules!IsMalformedRepeat
    <3>5. Rules!Follow(f)
      BY <1>1, <2>3, <2>4, <2>7, <3>2, <3>3 DEF Rules!Follow
    <3>6. QED
      BY <3>4, <3>5
  <2>8. NewToggle(gather, f) => ~ Rules!IsMalformedRepeat(f)
    BY <2>3, <2>4 DEF Rules!IsMalformedRepeat
  <2>9. CASE NewToggle(gather, f) /\ f.malformed
    <3>1. gather'.transfer_id = None /\ produced' = None
      BY <1>1, <2>5, <2>9, Outcomes, SessionFrameFields
    <3>2. Rules!Leaves(f, Rules!Nothing)
      BY <3>1, StoppedIsNothing DEF Rules!Leaves
    <3>3. QED
      BY <1>1, <2>3, <2>4, <2>8, <2>9, <3>2 DEF Rules!Follow
  <2>10. CASE NewToggle(gather, f) /\ ~ f.malformed /\ ~ f.eot
    <3>1. /\ gather' = [gather EXCEPT !.state = IF f.toggle THEN "AccumulatedEven"
                                                            ELSE "AccumulatedOdd",
                                      !.acc = gather.acc \o Parts(f)]
          /\ produced' = None
      BY <1>1, <2>5, <2>10, Outcomes
    <3>2. StatusOf(f.transfer_id)' =
              Rules!Running(gather.sof_timestamp, f.toggle, gather.acc \o Parts(f))
      <4>1. /\ gather'.transfer_id = f.transfer_id
            /\ gather'.sof_timestamp = gather.sof_timestamp
            /\ gather'.acc = gather.acc \o Parts(f)
            /\ gather'.state = IF f.toggle THEN "AccumulatedEven" ELSE "AccumulatedOdd"
        BY <1>2, <2>2, <3>1 DEF Gathers
      <4>2. (gather'.state # "AccumulatedOdd") = f.toggle /\ gather'.state # "Assembled"
        BY <4>1, SessionFrameFields
      <4>3. QED
        BY <4>1, <4>2 DEF StatusOf, Rules!Running
    <3>3. gather'.transfer_id = f.transfer_id
      BY <1>2, <2>2, <3>1 DEF Gathers
    <3>4. Rules!Leaves(f, Rules!Running(gather.sof_timestamp, f.toggle,
                                        gather.acc \o Parts(f)))
      BY <3>1, <3>2, <3>3, RulesBecome DEF Rules!Leaves
    <3>5. QED
      BY <1>1, <2>3, <2>4, <2>6, <2>8, <2>10, <3>4 DEF Rules!Follow
  <2>11. CASE /\ NewToggle(gather, f) /\ ~ f.malformed /\ f.eot
              /\ f.part # NoPart /\ CrcMatches(gather.acc \o Parts(f))
    <3>1. /\ gather' = [gather EXCEPT !.state = "Assembled", !.acc = << >>]
          /\ produced' = Transfer(gather.transfer_id, f, gather.sof_timestamp,
                                  gather.acc \o Parts(f))
      BY <1>1, <2>5, <2>11, Outcomes
    <3>2. /\ gather'.transfer_id = f.transfer_id
          /\ StatusOf(f.transfer_id)' = Rules!Assembled(gather.sof_timestamp)
      BY <1>2, <2>2, <3>1 DEF Gathers, StatusOf, Rules!Assembled
    <3>3. Rules!Completes(f, gather.sof_timestamp, gather.acc \o Parts(f))
      BY <2>2, <3>1, <3>2, RulesBecome DEF Rules!Completes, Transfer
    <3>4. QED
      BY <1>1, <2>3, <2>4, <2>6, <2>8, <2>11, <3>3 DEF Rules!Follow
  <2>12. CASE /\ NewToggle(gather, f) /\ ~ f.malformed /\ f.eot
              /\ ~ (f.part # NoPart /\ CrcMatches(gather.acc \o Parts(f)))
    <3>1. gather'.transfer_id = None /\ produced' = None
      BY <1>1, <2>5, <2>12, Outcomes
    <3>2. Rules!Leaves(f, Rules!Nothing)
      BY <3>1, StoppedIsNothing DEF Rules!Leaves
    <3>3. QED
      BY <1>1, <2>3, <2>4, <2>6, <2>8, <2>12, <3>2 DEF Rules!Follow
  <2>13. QED
    BY <2>7, <2>9, <2>10, <2>11, <2>12
<1>5. QED
  BY <1>3, <1>4

\* Every frame does what one of the rules says, or is ignored although it is malformed.
LEMMA NextImplementsRules ==
    ASSUME SessionInv, [SessionNext]_sessionVars
    PROVE  [Rules!NextButRepeats]_
               << [id \in TransferIds |-> StatusOf(id)], received, produced, clock >>
<1>1. ASSUME NEW f \in SessionFrames, NEW timestamp \in clock .. LastTime, Receive(f, timestamp)
      PROVE  Rules!NextButRepeats
  <2>1. timestamp \in Nat
    BY SessionAssumption DEF SessionInv
  <2>2. IF Rules!IsMalformedRepeat(f) THEN Rules!Leaves(f, Rules!Current(f))
        ELSE Rules!Rule(f)
    <3>1. CASE Skips(gather, f, timestamp)
      BY <1>1, <2>1, <3>1, SkipsImplementRules
    <3>2. CASE ~ Skips(gather, f, timestamp) /\ f.sot
      BY <1>1, <2>1, <3>2, StartsImplementRules DEF Rules!Rule, Rules!IsMalformedRepeat
    <3>3. CASE ~ Skips(gather, f, timestamp) /\ ~ f.sot
      BY <1>1, <2>1, <3>3, ContinuesImplementRules DEF Rules!Rule
    <3>4. QED
      BY <3>1, <3>2, <3>3
  <2>3. received' = f
    BY <1>1 DEF Receive
  <2>4. QED
    BY <2>2, <2>3 DEF Rules!NextButRepeats
<1>2. CASE UNCHANGED sessionVars
  <2>1. \A id \in TransferIds : StatusOf(id)' = StatusOf(id)
    BY <1>2 DEF sessionVars, StatusOf
  <2>2. QED
    BY <1>2, <2>1 DEF sessionVars
<1>3. QED
  BY <1>1, <1>2 DEF SessionNext

LEMMA InitImplementsRules == SessionInit => Rules!Init
BY SessionAssumption DEF SessionInit, Default, Rules!Init, Rules!Nothing, StatusOf

-----------------------------------------------------------------------------
(* What a session promises.                                                *)

\* The state of a Gather and its buffer stay consistent, whatever frames arrive.
THEOREM SessionInvariant == SessionSpec => []SessionInv
<1>1. QED
  BY SessionInitHolds, SessionNextKeepsInv, PTL DEF SessionSpec

\* The parts accumulated are always what the session's buffer begins with, and a
\* transfer that push_frame returns is the content of the buffer: reassembly in
\* place loses and mixes up nothing.
THEOREM ReassemblesInPlace == SessionSpec => []BufferIsTransfer
<1>1. SessionInv => BufferIsTransfer
  BY DEF SessionInv, IsReception, FieldsMatchState, InBuffer, BufferIsTransfer
<1>2. QED
  BY <1>1, SessionInvariant, PTL

\* The state machine, which has the fields of one TransferId, does with every frame
\* what the documented rules say of timers, reassemblies and statuses that are
\* tracked for every TransferId: the refinement, for any frames and any CRC. Only the
\* malformed frames that push_frame takes for repetitions before it looks at their
\* length are ignored where rule 4 would stop the reassembly.
THEOREM RulesAreImplementedButRepeats == SessionSpec => ImplementsRulesButRepeats
<1>1. SessionInit => Rules!Init
  BY InitImplementsRules
<1>2. SessionInv /\ [SessionNext]_sessionVars =>
          [Rules!NextButRepeats]_
              << [id \in TransferIds |-> StatusOf(id)], received, produced, clock >>
  BY NextImplementsRules
<1>3. QED
  BY <1>1, <1>2, SessionInvariant, PTL
     DEF SessionSpec, ImplementsRulesButRepeats, Rules!SpecButRepeats, Rules!ruleVars

-----------------------------------------------------------------------------
(***************************************************************************)
(* The receive buffer of the newest message.                               *)
(***************************************************************************)

\* The values the variables take.
TypeOK ==
    /\ buffers \in [Buffers -> Seq(Payloads)]
    /\ transfer \in Entries \cup {None}
    /\ waiting \subseteq Priorities
    /\ panicked \in BOOLEAN
    /\ now \in Nat
    /\ newest \in Nat \cup {-1}

\* The sessions, the slot and the reader share the buffers out among them.
OwnershipInv ==
    /\ IsSound(table, BuffersOf(table), buffers, Sources, Ids, Payloads)
    /\ BuffersOf(table) \cup {transfer_buffer_idx, readout_buffer_idx} = Buffers
    /\ transfer_buffer_idx # readout_buffer_idx
    /\ BuffersOf(table) \cap {transfer_buffer_idx, readout_buffer_idx} = {}

\* The slot's buffer and the reader's have what was assembled.
ContentInv ==
    /\ transfer # None => buffers[transfer_buffer_idx] = transfer.parts
    /\ buffers[readout_buffer_idx] = read.parts

\* The instant that rules what is accepted is that of the newest transfer.
TimeInv ==
    /\ transfer_min_timestamp = IF newest = -1 THEN 0 ELSE newest
    /\ NewestWins

Inv == TypeOK /\ OwnershipInv /\ ContentInv /\ TimeInv /\ NoLostWakeup

-----------------------------------------------------------------------------
(* What the operators of the module return.                                 *)

\* The later one of two instants.
LEMMA LaterOfTwo ==
    ASSUME NEW a \in Int, NEW b \in Int
    PROVE  Max({a, b}) = IF a <= b THEN b ELSE a
<1> DEFINE later == IF a <= b THEN b ELSE a
<1>1. later \in {a, b} /\ \A y \in {a, b} : later >= y
  OBVIOUS
<1>2. /\ Max({a, b}) \in {a, b}
      /\ \A y \in {a, b} : Max({a, b}) >= y
  BY <1>1 DEF Max
<1>3. QED
  BY <1>1, <1>2

\* A frame has its fields in the sets the buffer is made for.
LEMMA FrameFields ==
    ASSUME NEW f \in Frames
    PROVE  /\ f.priority \in Priorities
           /\ f.transfer_id \in Ids /\ f.part \in Payloads
           /\ Parts(f) \in Seq(Payloads)
           /\ f.source # Anonymous => f.source \in Sources
<1>1. f.part \in Payloads
  BY DEF Payloads
<1>2. Parts(f) \in Seq(Payloads)
  BY <1>1 DEF Parts
<1>3. QED
  BY <1>1, <1>2, WatchAssumption DEF Ids

\* The sessions depend on the content of their own buffers only.
LEMMA SameSessions ==
    ASSUME NEW Srcs, NEW I, NEW P, NEW t, NEW indexes, NEW bufs,
           IsSound(t, indexes, bufs, Srcs, I, P),
           NEW more, \A i \in BuffersOf(t) : more[i] = bufs[i]
    PROVE  IsSound(t, indexes, more, Srcs, I, P)
<1>1. \A s \in Tracked(t) : t.sessions[s].buffer_idx \in BuffersOf(t)
  BY DEF BuffersOf
<1>2. QED
  BY <1>1 DEF IsSound, IsSessions

-----------------------------------------------------------------------------
(* The steps.                                                               *)

LEMMA InitHolds == Init => Inv
<1> SUFFICES ASSUME Init
             PROVE  Inv
  OBVIOUS
<1>1. SN \in Nat
  BY SessionsAssumption
<1>2. << >> \in Seq(Payloads)
  BY EmptySeq
<1>3. TypeOK
  BY <1>2 DEF Init, TypeOK
<1>4. /\ table.sessions = [s \in Sources |-> None]
      /\ table.order = << >> /\ table.base = 0
      /\ table \in [sessions : [Sources -> SessionSet(Ids, Payloads) \cup {None}],
                    order : Seq(Sources), base : 0 .. SN]
  BY <1>1 DEF Init
<1>5. Tracked(table) = {}
  BY <1>4 DEF Tracked
<1>6. ToSet(table.order) = {} /\ IsInjective(table.order)
  BY <1>4 DEF ToSet, IsInjective
<1>7. IsSessions(table, buffers, Sources, Ids, Payloads)
  BY <1>4, <1>5, <1>6 DEF IsSessions
<1>8. IsCounted(table)
  BY <1>4, <1>5, FS_EmptySet DEF IsCounted
<1>9. BuffersOf(table) = 0 .. SN - 1
  BY <1>4, <1>5 DEF BuffersOf
<1>10. OwnershipInv
  <2>1. transfer_buffer_idx = SN /\ readout_buffer_idx = SN + 1
    BY DEF Init
  <2>2. (0 .. SN - 1) \cup {SN, SN + 1} = 0 .. SN + 1
    BY <1>1
  <2>3. (0 .. SN - 1) \cap {SN, SN + 1} = {} /\ SN # SN + 1
    BY <1>1
  <2>4. QED
    BY <1>7, <1>8, <1>9, <2>1, <2>2, <2>3 DEF OwnershipInv, IsSound, Buffers
<1>11. ContentInv
  <2>1. SN + 1 \in Buffers
    BY <1>1 DEF Buffers
  <2>2. QED
    BY <2>1 DEF Init, ContentInv, Entry
<1>12. TimeInv
  BY DEF Init, TimeInv, NewestWins, Entry
<1>13. NoLostWakeup
  BY DEF Init, NoLostWakeup
<1>14. QED
  BY <1>3, <1>10, <1>11, <1>12, <1>13 DEF Inv

\* A transfer in the slot wakes the task if it sleeps for its priority.
LEMMA WakeIsEnough ==
    ASSUME NEW entry \in Entries, waiting \subseteq Priorities, Accept(entry)
    PROVE  /\ waiting' \subseteq Priorities
           /\ (NoLostWakeup)'
<1>1. /\ transfer' = entry /\ entry # None
      /\ waiting' = IF entry.priority \in waiting THEN {} ELSE waiting
  BY WatchAssumption DEF Accept, Wake
<1>2. \A p \in (Readiness)' : p = entry.priority
  BY <1>1 DEF Readiness
<1>3. QED
  BY <1>1, <1>2 DEF NoLostWakeup

\* A frame that no session is there for.
LEMMA PushUntrackedKeepsInv ==
    ASSUME Inv, NEW f \in Frames, NEW timestamp \in Nat, PushUntracked(f, timestamp),
           now' = timestamp, UNCHANGED << readout_buffer_idx, read >>
    PROVE  Inv'
<1>1. /\ panicked' = Panics(table, f)
      /\ UNCHANGED << table, transfer, transfer_min_timestamp, transfer_buffer_idx,
                      buffers, waiting, newest, readout_buffer_idx, read >>
  BY DEF PushUntracked, slotVars
<1>2. Panics(table, f) \in BOOLEAN
  BY DEF Panics, StartsSession
<1>3. TypeOK'
  BY <1>1, <1>2 DEF Inv, TypeOK
<1>4. OwnershipInv'
  BY <1>1 DEF Inv, OwnershipInv
<1>5. ContentInv'
  BY <1>1 DEF Inv, ContentInv
<1>6. TimeInv'
  BY <1>1 DEF Inv, TimeInv, NewestWins
<1>7. (NoLostWakeup)'
  BY <1>1 DEF Inv, NoLostWakeup, Readiness
<1>8. QED
  BY <1>3, <1>4, <1>5, <1>6, <1>7 DEF Inv

\* A transfer without a node is written to the slot's buffer.
LEMMA PushAnonymousFrameKeepsInv ==
    ASSUME Inv, NEW f \in Frames, NEW timestamp \in Nat,
           PushAnonymousFrame(f, timestamp),
           now' = timestamp, UNCHANGED << readout_buffer_idx, read >>
    PROVE  Inv'
<1> DEFINE entry == Entry(f.priority, timestamp, Parts(f))
<1>1. /\ Accepts(timestamp) /\ Accept(entry)
      /\ buffers' = [buffers EXCEPT ![transfer_buffer_idx] = Parts(f)]
      /\ newest' = timestamp
      /\ UNCHANGED << table, transfer_buffer_idx, panicked, readout_buffer_idx, read >>
  BY DEF PushAnonymousFrame
<1>2. f.priority \in Priorities /\ Parts(f) \in Seq(Payloads)
  BY FrameFields
<1>3. /\ entry \in Entries /\ entry # None
      /\ entry.timestamp = timestamp /\ entry.parts = Parts(f)
  BY <1>2, WatchAssumption DEF Entry, Entries
<1> HIDE DEF entry
<1>4. transfer' = entry /\ transfer_min_timestamp' = timestamp
  BY <1>1, <1>3 DEF Accept
<1>5. waiting' \subseteq Priorities /\ (NoLostWakeup)'
  BY <1>1, <1>3, WakeIsEnough DEF Inv, TypeOK
<1>6. /\ transfer_buffer_idx \in Buffers /\ readout_buffer_idx \in Buffers
      /\ transfer_buffer_idx # readout_buffer_idx
      /\ transfer_buffer_idx \notin BuffersOf(table)
      /\ BuffersOf(table) \subseteq Buffers
      /\ buffers \in [Buffers -> Seq(Payloads)]
  BY DEF Inv, OwnershipInv, TypeOK
<1>7. /\ buffers' \in [Buffers -> Seq(Payloads)]
      /\ buffers'[transfer_buffer_idx] = Parts(f)
      /\ \A i \in Buffers : i # transfer_buffer_idx => buffers'[i] = buffers[i]
  BY <1>1, <1>2, <1>6
<1>8. TypeOK'
  BY <1>1, <1>3, <1>4, <1>5, <1>7 DEF Inv, TypeOK
<1>9. OwnershipInv'
  <2>1. \A i \in BuffersOf(table) : buffers'[i] = buffers[i]
    BY <1>6, <1>7
  <2>2. IsSound(table, BuffersOf(table), buffers, Sources, Ids, Payloads)
    BY DEF Inv, OwnershipInv
  <2>3. IsSound(table, BuffersOf(table), buffers', Sources, Ids, Payloads)
    BY <2>1, <2>2, SameSessions
  <2>4. QED
    BY <1>1, <2>3 DEF Inv, OwnershipInv
<1>10. ContentInv'
  BY <1>1, <1>3, <1>4, <1>6, <1>7 DEF Inv, ContentInv
<1>11. TimeInv'
  BY <1>1, <1>3, <1>4 DEF TimeInv, NewestWins
<1>12. QED
  BY <1>5, <1>8, <1>9, <1>10, <1>11 DEF Inv


\* What a frame does to the session it belongs to and to the slot.
LEMMA PushTrackedKeepsInv ==
    ASSUME Inv, NEW f \in Frames, f.source # Anonymous,
           NEW timestamp \in Nat, PushTracked(f, timestamp),
           now' = timestamp, UNCHANGED << readout_buffer_idx, read >>
    PROVE  Inv'
<1>1. PICK t : t = TableFor(table, f, timestamp)
  OBVIOUS
<1>2. PICK s : s = f.source
  OBVIOUS
<1>3. PICK idx : idx = t.sessions[s].buffer_idx
  OBVIOUS
<1>4. PICK o : o = PushFrame(t.sessions[s].gather, buffers[idx], f, timestamp)
  OBVIOUS
<1> DEFINE accepted == o.transfer # None /\ Accepts(o.transfer.timestamp)
<1>5. (IF o.transfer = None THEN FALSE ELSE Accepts(o.transfer.timestamp)) <=> accepted
  OBVIOUS
<1>6. /\ t.sessions[s] # None
      /\ buffers' = [buffers EXCEPT ![idx] = o.buffer]
      /\ newest' = IF o.transfer = None THEN newest
                                        ELSE Max({newest, o.transfer.timestamp})
      /\ UNCHANGED panicked
  BY <1>1, <1>2, <1>3, <1>4, Zenon DEF PushTracked
<1>7. PICK order : order = Touch(t.order, s, o.gather, timestamp)
  OBVIOUS
<1>8. \/ /\ ~ accepted
         /\ table' = Left(t, s, o.gather, idx, order)
         /\ UNCHANGED << slotVars, waiting >>
      \/ /\ accepted
         /\ table' = Left(t, s, o.gather, transfer_buffer_idx, order)
         /\ transfer_buffer_idx' = idx
         /\ Accept(Entry(f.priority, o.transfer.timestamp, o.transfer.parts))
  BY <1>1, <1>2, <1>3, <1>4, <1>5, <1>7 DEF PushTracked, Exchanged, Left
<1>9. /\ f.priority \in Priorities /\ s \in Sources
      /\ f.transfer_id \in Ids /\ f.part \in Payloads
      /\ None \notin Nat /\ None \notin Ids
      /\ None \notin SessionSet(Ids, Payloads) /\ None \notin Entries
  BY <1>2, FrameFields, WatchAssumption
<1>10. /\ buffers \in [Buffers -> Seq(Payloads)]
       /\ IsSound(table, BuffersOf(table), buffers, Sources, Ids, Payloads)
       /\ BuffersOf(table) \cup {transfer_buffer_idx, readout_buffer_idx} = Buffers
       /\ transfer_buffer_idx # readout_buffer_idx
       /\ BuffersOf(table) \cap {transfer_buffer_idx, readout_buffer_idx} = {}
       /\ Buffers \subseteq Nat
  BY SessionsAssumption DEF Inv, TypeOK, OwnershipInv, Buffers
<1>11. IsSound(t, BuffersOf(table), buffers, Sources, Ids, Payloads)
  <2>1. IsSessions(table, buffers, Sources, Ids, Payloads) /\ IsCounted(table)
    BY <1>10 DEF IsSound
  <2>2. \A i \in BuffersOf(table) : i \in Nat /\ buffers[i] \in Seq(Payloads)
    BY <1>10
  <2>3. IsSound(TableFor(table, f, timestamp), BuffersOf(table), buffers,
                Sources, Ids, Payloads)
    BY <1>2, <1>9, <2>1, <2>2, TableForSessions
  <2>4. QED
    BY <1>1, <2>3
<1>12. /\ IsSessions(t, buffers, Sources, Ids, Payloads) /\ IsCounted(t)
       /\ BuffersOf(t) = BuffersOf(table)
       /\ s \in Tracked(t)
  BY <1>6, <1>9, <1>11 DEF IsSound, IsSessions, Tracked
<1>13. /\ IsReception(t.sessions[s].gather, buffers[idx], Ids, Payloads)
       /\ idx \in BuffersOf(t)
  BY <1>3, <1>12 DEF IsSessions, BuffersOf
<1>14. /\ IsReception(o.gather, o.buffer, Ids, Payloads)
       /\ o.transfer # None =>
              /\ o.transfer.parts = o.buffer
              /\ o.gather.acc = << >>
              /\ o.transfer.timestamp \in Nat
  BY <1>4, <1>9, <1>13, PushFrameReception
<1>15. /\ o.buffer \in Seq(Payloads)
       /\ buffers' \in [Buffers -> Seq(Payloads)]
       /\ buffers'[idx] = o.buffer
       /\ \A i \in Buffers : i # idx => buffers'[i] = buffers[i]
  <2>1. o.buffer \in Seq(Payloads)
    BY <1>14 DEF IsReception
  <2>2. idx \in Buffers
    BY <1>10, <1>12, <1>13
  <2>3. QED
    BY <1>6, <1>10, <2>1, <2>2
<1>16. /\ idx # transfer_buffer_idx /\ idx # readout_buffer_idx
       /\ transfer_buffer_idx \in Nat /\ idx \in Nat
       /\ transfer_buffer_idx \notin BuffersOf(t)
       /\ \A i \in BuffersOf(t) \ {idx} : buffers'[i] = buffers[i]
  BY <1>10, <1>12, <1>13, <1>15
<1>17. panicked' \in BOOLEAN
  BY <1>6 DEF Inv, TypeOK
<1>18. CASE ~ accepted
  <2>1. /\ table' = Left(t, s, o.gather, idx, order)
        /\ UNCHANGED << transfer, transfer_min_timestamp, transfer_buffer_idx, waiting >>
    BY <1>8, <1>18 DEF slotVars
  <2>2. IsReception(o.gather, buffers'[idx], Ids, Payloads)
    BY <1>14, <1>15
  <2>3. IsSound(Left(t, s, o.gather, idx, order), (BuffersOf(t) \ {idx}) \cup {idx},
                buffers', Sources, Ids, Payloads)
    BY <1>3, <1>7, <1>9, <1>12, <1>16, <2>2, LeftSessions
  <2>4. (BuffersOf(t) \ {idx}) \cup {idx} = BuffersOf(table)
    BY <1>12, <1>13
  <2>5. /\ IsSound(table', BuffersOf(table), buffers', Sources, Ids, Payloads)
        /\ BuffersOf(table') = BuffersOf(table)
    BY <2>1, <2>3, <2>4 DEF IsSound
  <2>6. newest' = newest
    <3>1. CASE o.transfer = None
      BY <1>6, <3>1
    <3>2. CASE o.transfer # None
      <4>1. /\ ~ (transfer_min_timestamp <= o.transfer.timestamp)
            /\ transfer_min_timestamp = IF newest = -1 THEN 0 ELSE newest
            /\ newest \in Nat \cup {-1}
            /\ o.transfer.timestamp \in Nat
        BY <1>5, <1>14, <1>18, <3>2 DEF Accepts, Inv, TimeInv, TypeOK
      <4>2. ~ (newest <= o.transfer.timestamp) /\ newest \in Int
        BY <4>1
      <4>3. Max({newest, o.transfer.timestamp}) = newest
        BY <4>1, <4>2, LaterOfTwo
      <4>4. QED
        BY <1>6, <3>2, <4>3
    <3>3. QED
      BY <3>1, <3>2
  <2>7. TypeOK'
    BY <1>15, <1>17, <2>1, <2>6 DEF Inv, TypeOK
  <2>8. OwnershipInv'
    BY <1>10, <2>1, <2>5 DEF OwnershipInv
  <2>9. ContentInv'
    BY <1>10, <1>15, <1>16, <2>1 DEF Inv, ContentInv
  <2>10. TimeInv'
    BY <2>1, <2>6 DEF Inv, TimeInv, NewestWins
  <2>11. (NoLostWakeup)'
    BY <2>1 DEF Inv, NoLostWakeup, Readiness
  <2>12. QED
    BY <2>7, <2>8, <2>9, <2>10, <2>11 DEF Inv
<1>19. CASE accepted
  <2>1. PICK entry : entry = Entry(f.priority, o.transfer.timestamp, o.transfer.parts)
    OBVIOUS
  <2>2. /\ table' = Left(t, s, o.gather, transfer_buffer_idx, order)
        /\ transfer_buffer_idx' = idx
        /\ Accept(entry)
    BY <1>8, <1>19, <2>1
  <2>3. /\ o.transfer # None
        /\ transfer_min_timestamp <= o.transfer.timestamp
    BY <1>5, <1>19 DEF Accepts
  <2>4. /\ o.transfer.parts = o.buffer /\ o.gather.acc = << >>
        /\ o.transfer.timestamp \in Nat
    BY <1>14, <2>3
  <2>5. /\ entry \in Entries /\ entry # None
        /\ entry.timestamp = o.transfer.timestamp /\ entry.parts = o.buffer
    BY <1>9, <1>15, <2>1, <2>4 DEF Entry, Entries
  <2>6. transfer' = entry /\ transfer_min_timestamp' = o.transfer.timestamp
    BY <2>2, <2>5 DEF Accept
  <2>7. waiting' \subseteq Priorities /\ (NoLostWakeup)'
    BY <2>2, <2>5, WakeIsEnough DEF Inv, TypeOK
  <2>8. IsReception(o.gather, buffers'[transfer_buffer_idx], Ids, Payloads)
    <3>1. buffers'[transfer_buffer_idx] \in Seq(Payloads)
      BY <1>10, <1>15
    <3>2. InBuffer(o.gather, buffers'[transfer_buffer_idx])
      BY <2>4, <3>1, InBufferIfEmptyOrAll
    <3>3. QED
      BY <1>14, <3>1, <3>2 DEF IsReception
  <2>9. IsSound(Left(t, s, o.gather, transfer_buffer_idx, order),
                (BuffersOf(t) \ {idx}) \cup {transfer_buffer_idx},
                buffers', Sources, Ids, Payloads)
    BY <1>3, <1>7, <1>9, <1>12, <1>16, <2>8, LeftSessions
  <2>10. /\ IsSound(table', BuffersOf(table'), buffers', Sources, Ids, Payloads)
         /\ BuffersOf(table') = (BuffersOf(table) \ {idx}) \cup {transfer_buffer_idx}
    BY <1>12, <2>2, <2>9 DEF IsSound
  <2>11. newest' = o.transfer.timestamp
    <3>1. /\ newest \in Int /\ newest <= o.transfer.timestamp
          /\ o.transfer.timestamp \in Int
      BY <2>3, <2>4 DEF Inv, TimeInv, TypeOK
    <3>2. Max({newest, o.transfer.timestamp}) = o.transfer.timestamp
      BY <3>1, LaterOfTwo
    <3>3. QED
      BY <1>6, <2>3, <3>2
  <2>12. TypeOK'
    BY <1>15, <1>17, <2>4, <2>5, <2>6, <2>7, <2>11 DEF Inv, TypeOK
  <2>13. OwnershipInv'
    BY <1>10, <1>12, <1>13, <1>16, <2>2, <2>10 DEF OwnershipInv
  <2>14. ContentInv'
    BY <1>10, <1>15, <1>16, <2>2, <2>5, <2>6 DEF Inv, ContentInv
  <2>15. TimeInv'
    BY <2>4, <2>5, <2>6, <2>11 DEF TimeInv, NewestWins
  <2>16. QED
    BY <2>7, <2>12, <2>13, <2>14, <2>15 DEF Inv
<1>20. QED
  BY <1>18, <1>19


LEMMA PushKeepsInv ==
    ASSUME Inv, NEW f \in Frames, NEW timestamp \in Nat, Push(f, timestamp)
    PROVE  Inv'
<1>1. /\ PushRegularFrame(f, timestamp) \/ PushAnonymousFrame(f, timestamp)
      /\ now' = timestamp
      /\ UNCHANGED << readout_buffer_idx, read >>
  BY DEF Push
<1>2. CASE f.source # Anonymous /\ PushTracked(f, timestamp)
  BY <1>1, <1>2, PushTrackedKeepsInv
<1>3. CASE PushUntracked(f, timestamp)
  BY <1>1, <1>3, PushUntrackedKeepsInv
<1>4. CASE PushAnonymousFrame(f, timestamp)
  BY <1>1, <1>4, PushAnonymousFrameKeepsInv
<1>5. QED
  BY <1>1, <1>2, <1>3, <1>4 DEF PushRegularFrame

LEMMA PollPopReadinessKeepsInv ==
    ASSUME Inv, NEW mask \in Masks, PollPopReadiness(mask)
    PROVE  Inv'
<1>1. /\ Readiness \cap mask = {}
      /\ waiting' = mask
      /\ UNCHANGED << table, transfer, transfer_min_timestamp, transfer_buffer_idx,
                      readout_buffer_idx, buffers, panicked, now, newest, read >>
  BY DEF PollPopReadiness, slotVars
<1>2. mask \subseteq Priorities
  BY WatchAssumption
<1>3. TypeOK'
  BY <1>1, <1>2 DEF Inv, TypeOK
<1>4. OwnershipInv'
  BY <1>1 DEF Inv, OwnershipInv
<1>5. ContentInv'
  BY <1>1 DEF Inv, ContentInv
<1>6. TimeInv'
  BY <1>1 DEF Inv, TimeInv, NewestWins
<1>7. (NoLostWakeup)'
  BY <1>1 DEF NoLostWakeup, Readiness
<1>8. QED
  BY <1>3, <1>4, <1>5, <1>6, <1>7 DEF Inv

\* The slot and the reader exchange their buffers.
LEMMA TryPopKeepsInv ==
    ASSUME Inv, NEW mask \in Masks, TryPop(mask)
    PROVE  Inv'
<1>1. /\ transfer # None
      /\ transfer' = None
      /\ transfer_buffer_idx' = readout_buffer_idx
      /\ readout_buffer_idx' = transfer_buffer_idx
      /\ read' = transfer
      /\ UNCHANGED << table, transfer_min_timestamp, buffers, waiting, panicked, now,
                      newest >>
  BY DEF TryPop, Readiness
<1>2. TypeOK'
  BY <1>1 DEF Inv, TypeOK
<1>3. OwnershipInv'
  BY <1>1 DEF Inv, OwnershipInv
<1>4. ContentInv'
  BY <1>1 DEF Inv, ContentInv
<1>5. TimeInv'
  BY <1>1 DEF Inv, TimeInv, NewestWins
<1>6. (NoLostWakeup)'
  BY <1>1 DEF NoLostWakeup, Readiness
<1>7. QED
  BY <1>2, <1>3, <1>4, <1>5, <1>6 DEF Inv

\* A future that is dropped, and steps of others, leave all but the task's sleep alone.
LEMMA SpuriousPollKeepsInv ==
    ASSUME Inv, waiting' \in {{}, waiting},
           UNCHANGED << table, slotVars, readout_buffer_idx, buffers, panicked, now,
                        newest, read >>
    PROVE  Inv'
<1>1. UNCHANGED << table, transfer, transfer_min_timestamp, transfer_buffer_idx,
                   readout_buffer_idx, buffers, panicked, now, newest, read >>
  BY DEF slotVars
<1>2. TypeOK'
  BY <1>1 DEF Inv, TypeOK
<1>3. OwnershipInv'
  BY <1>1 DEF Inv, OwnershipInv
<1>4. ContentInv'
  BY <1>1 DEF Inv, ContentInv
<1>5. TimeInv'
  BY <1>1 DEF Inv, TimeInv, NewestWins
<1>6. (NoLostWakeup)'
  BY <1>1 DEF Inv, NoLostWakeup, Readiness
<1>7. QED
  BY <1>2, <1>3, <1>4, <1>5, <1>6 DEF Inv

LEMMA NextKeepsInv == Inv /\ [Next]_vars => Inv'
<1> SUFFICES ASSUME Inv, [Next]_vars
             PROVE  Inv'
  OBVIOUS
<1>1. ASSUME NEW f \in Frames, NEW timestamp \in now .. MaxTime, Push(f, timestamp)
      PROVE  Inv'
  <2>1. timestamp \in Nat
    BY WatchAssumption DEF Inv, TypeOK
  <2>2. QED
    BY <1>1, <2>1, PushKeepsInv
<1>2. ASSUME NEW mask \in Masks, PollPopReadiness(mask) \/ TryPop(mask)
      PROVE  Inv'
  BY <1>2, PollPopReadinessKeepsInv, TryPopKeepsInv
<1>3. CASE SpuriousPoll
  BY <1>3, SpuriousPollKeepsInv DEF SpuriousPoll
<1>4. CASE UNCHANGED vars
  BY <1>4, SpuriousPollKeepsInv DEF vars
<1>5. QED
  BY <1>1, <1>2, <1>3, <1>4 DEF Next

-----------------------------------------------------------------------------
(* What the buffer promises.                                                *)

\* Watch: the values its variables take, who owns which buffer and what it has, and what
\* the slot accepts, are the same in every state (rx_msg/watch.rs).
THEOREM InductiveInvariant == Spec => []Inv
<1>1. QED
  BY InitHolds, NextKeepsInv, PTL DEF Spec

\* A buffer of one owner among the sessions, the slot and the reader.
LEMMA OneOwner == Inv => BuffersPartition
<1> SUFFICES ASSUME Inv, NEW i \in Buffers
             PROVE  Cardinality(Owners(i)) = 1
  BY DEF BuffersPartition
<1>1. /\ IsSessions(table, buffers, Sources, Ids, Payloads)
      /\ i \in BuffersOf(table) \cup {transfer_buffer_idx, readout_buffer_idx}
      /\ transfer_buffer_idx # readout_buffer_idx
      /\ BuffersOf(table) \cap {transfer_buffer_idx, readout_buffer_idx} = {}
  BY DEF Inv, OwnershipInv, IsSound
<1>2. \A s \in Tracked(table) :
          /\ table.sessions[s].buffer_idx \in BuffersOf(table)
          /\ table.sessions[s].buffer_idx \notin table.base .. SN - 1
  BY <1>1 DEF IsSessions, BuffersOf
<1>3. table.base .. SN - 1 \subseteq BuffersOf(table)
  BY DEF BuffersOf
<1>4. ASSUME NEW x, Owners(i) = {x}
      PROVE  Cardinality(Owners(i)) = 1
  BY <1>4, FS_Singleton
<1>5. CASE i = transfer_buffer_idx
  <2>1. Owners(i) = {<< "transfer", i >>}
    BY <1>1, <1>2, <1>3, <1>5 DEF Owners, SessionOwners
  <2>2. QED
    BY <1>4, <2>1
<1>6. CASE i = readout_buffer_idx
  <2>1. Owners(i) = {<< "readout", i >>}
    BY <1>1, <1>2, <1>3, <1>6 DEF Owners, SessionOwners
  <2>2. QED
    BY <1>4, <2>1
<1>7. CASE i \in table.base .. SN - 1
  <2>1. Owners(i) = {<< "unused", i >>}
    BY <1>1, <1>2, <1>3, <1>7 DEF Owners, SessionOwners
  <2>2. QED
    BY <1>4, <2>1
<1>8. ASSUME NEW s \in Tracked(table), i = table.sessions[s].buffer_idx
      PROVE  Cardinality(Owners(i)) = 1
  <2>1. \A r \in Tracked(table) : table.sessions[r].buffer_idx = i => r = s
    BY <1>1, <1>8 DEF IsSessions
  <2>2. Owners(i) = {<< "session", s >>}
    BY <1>1, <1>2, <1>8, <2>1 DEF Owners, SessionOwners
  <2>3. QED
    BY <1>4, <2>2
<1>9. QED
  BY <1>1, <1>5, <1>6, <1>7, <1>8 DEF BuffersOf

\* Every buffer has one owner, and the slot's and the reader's keep what was assembled,
\* whatever frames come (watch.rs, push_frame and try_pop).
THEOREM NothingAliases == Spec => []ContentIntact
<1>1. ASSUME Inv
      PROVE  ContentIntact
  <2>1. IsTable(table, Buffers)
    <3>1. /\ IsSessions(table, buffers, Sources, Ids, Payloads) /\ IsCounted(table)
          /\ BuffersOf(table) \subseteq Buffers
      BY <1>1 DEF Inv, OwnershipInv, IsSound
    <3>2. \A s \in Tracked(table) : table.sessions[s].buffer_idx \in Buffers
      BY <3>1 DEF BuffersOf
    <3>3. QED
      BY <3>1, <3>2 DEF IsTable, IsSessions, IsCounted
  <2>2. QED
    BY <1>1, <2>1, OneOwner DEF ContentIntact, Inv, ContentInv
<1>2. QED
  BY <1>1, InductiveInvariant, PTL

\* The transfer that is read last or waits in the slot is the newest of all (watch.rs,
\* the comparison with transfer_min_timestamp).
THEOREM NewestIsKept == Spec => []NewestWins
<1>1. Inv => NewestWins
  BY DEF Inv, TimeInv
<1>2. QED
  BY <1>1, InductiveInvariant, PTL

\* The endpoint's task does not sleep while there is what it waits for (watch.rs,
\* poll_pop_readiness and the wake-up of push_frame).
THEOREM ReaderIsWoken == Spec => []NoLostWakeup
<1>1. Inv => NoLostWakeup
  BY DEF Inv
<1>2. QED
  BY <1>1, InductiveInvariant, PTL

=============================================================================
