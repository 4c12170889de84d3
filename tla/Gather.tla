-------------------------------- MODULE Gather --------------------------------
(***************************************************************************)
(* The transfer reception state machine of a session (buffer/gather.rs),   *)
(* as operators on its state: the state machines that own a Gather, and    *)
(* there is one for each session of each receive buffer, are built on      *)
(* PushFrame.                                                              *)
(*                                                                         *)
(* The payload of a frame is one part; a buffer holds a sequence of parts, *)
(* and CrcMatches tells of such a sequence whether its last bytes are the  *)
(* CRC of the others.                                                      *)
(***************************************************************************)
EXTENDS Integers, SequencesExt

CONSTANTS
    Timeout,    (* how long a frame may follow the first one of a transfer *)
    NoPart,     (* the payload of a frame that has a tail byte only        *)
    None,       (* an unset Option                                         *)
    CrcMatches(_)

Accumulating == {"AccumulatedFirst", "AccumulatedOdd", "AccumulatedEven"}

(***************************************************************************)
(* A frame is a record of                                                  *)
(*   data         it has at least the tail byte,                           *)
(*   transfer_id, sot, eot, toggle   the tail byte; toggle is TRUE if the  *)
(*                bit has the value of a start-of-transfer frame,          *)
(*   malformed    it is not the last of a transfer and not as long as an   *)
(*                MTU,                                                     *)
(*   part         its payload,                                             *)
(*   priority.                                                             *)
(* It is received at an instant, its timestamp.                            *)
(***************************************************************************)
Parts(f) == IF f.part = NoPart THEN << >> ELSE << f.part >>

\* The states of a Gather that is fed with such identifiers and payloads.
Gathers(Ids, Payloads) ==
    [state : Accumulating \cup {"Idle", "IdleLastTransfer", "Assembled"},
     sof_timestamp : Nat \cup {None},
     transfer_id : Ids \cup {None},
     acc : Seq(Payloads)]

Default == [state |-> "Idle", sof_timestamp |-> None, transfer_id |-> None,
            acc |-> << >>]

LastTransferTimestamp(g) == IF g.state = "Idle" THEN None ELSE g.sof_timestamp

TidMatch(g, f, timestamp) ==
    /\ g.state \in Accumulating \cup {"Assembled"}
    /\ f.transfer_id = g.transfer_id
    /\ timestamp <= g.sof_timestamp + Timeout

IsDuplicate(g, f, timestamp) == g.state = "Assembled" /\ TidMatch(g, f, timestamp)

\* The toggle bit differs from the one of the last frame accumulated.
NewToggle(g, f) == f.toggle = (g.state = "AccumulatedOdd")

\* Mutant: a repeated frame in the middle of a transfer stops its assembly.
MutantSkips(g, f, timestamp) == IsDuplicate(g, f, timestamp)

Skips(g, f, timestamp) ==
    \/ ~ f.data
    \/ IsDuplicate(g, f, timestamp)
    \/ /\ TidMatch(g, f, timestamp)
       /\ g.state \in {"AccumulatedOdd", "AccumulatedEven"}
       /\ ~ f.sot /\ ~ f.eot /\ ~ NewToggle(g, f)

Starts(f) == f.sot /\ f.toggle

Continues(g, f, timestamp) ==
    /\ ~ f.sot
    /\ g.state \in Accumulating
    /\ TidMatch(g, f, timestamp)
    /\ NewToggle(g, f)

-----------------------------------------------------------------------------
Transfer(id, f, timestamp, parts) ==
    [id |-> id, priority |-> f.priority, timestamp |-> timestamp, parts |-> parts]

StopAssembly(g) ==
    [g EXCEPT !.state = IF g.sof_timestamp = None THEN "Idle" ELSE "IdleLastTransfer",
              !.transfer_id = None,
              !.acc = << >>]

\* What a call of push_frame returns and leaves in the state and the buffer.
Outcome(g, buffer, transfer) ==
    [gather |-> g, buffer |-> buffer, transfer |-> transfer]

SingleFrameAssembly(f, timestamp) ==
    Outcome([state |-> "Assembled", sof_timestamp |-> timestamp,
             transfer_id |-> f.transfer_id, acc |-> << >>],
            Parts(f),
            Transfer(f.transfer_id, f, timestamp, Parts(f)))

\* A frame that others are to follow has the length of an MTU.
AccumulateFirst(g, buffer, f, timestamp) ==
    IF f.malformed
    THEN Outcome(StopAssembly(g), buffer, None)
    ELSE Outcome([state |-> "AccumulatedFirst", sof_timestamp |-> timestamp,
                  transfer_id |-> f.transfer_id, acc |-> Parts(f)],
                 Parts(f), None)

\* Mutant: the payload goes to the start of the buffer.
MutantWritten(g, buffer, f) ==
    Parts(f) \o SubSeq(buffer, Len(Parts(f)) + 1, Len(buffer))

\* The payload goes behind what the buffer has of the transfer so far.
Written(g, buffer, f) == SubSeq(buffer, 1, Len(g.acc)) \o Parts(f)

AccumulateNext(g, buffer, f) ==
    IF f.malformed
    THEN Outcome(StopAssembly(g), buffer, None)
    ELSE Outcome([g EXCEPT !.state = IF f.toggle THEN "AccumulatedEven"
                                                 ELSE "AccumulatedOdd",
                           !.acc = @ \o Parts(f)],
                 Written(g, buffer, f), None)

FinishAssembly(g, buffer, f) ==
    IF f.part = NoPart
    THEN Outcome(StopAssembly(g), buffer, None)
    ELSE IF CrcMatches(g.acc \o Parts(f))
    THEN Outcome([g EXCEPT !.state = "Assembled", !.acc = << >>],
                 Written(g, buffer, f),
                 Transfer(g.transfer_id, f, g.sof_timestamp, g.acc \o Parts(f)))
    ELSE Outcome(StopAssembly(g), Written(g, buffer, f), None)

\* push_frame: the arms of its match, in their order.
PushFrame(g, buffer, f, timestamp) ==
    IF Skips(g, f, timestamp) THEN Outcome(g, buffer, None)
    ELSE IF Starts(f)
    THEN IF f.eot THEN SingleFrameAssembly(f, timestamp)
                  ELSE AccumulateFirst(g, buffer, f, timestamp)
    ELSE IF Continues(g, f, timestamp)
    THEN IF f.eot THEN FinishAssembly(g, buffer, f)
                  ELSE AccumulateNext(g, buffer, f)
    ELSE Outcome(StopAssembly(g), buffer, None)

=============================================================================
