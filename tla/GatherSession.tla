----------------------------- MODULE GatherSession -----------------------------
(***************************************************************************)
(* One Gather fed with any frames at all: well formed or not, of any       *)
(* transfer, in any order, at times that do not decrease. But for one kind *)
(* of malformed frames it implements the rules of GatherRules, which track *)
(* every TransferId on its own.                                            *)
(***************************************************************************)
EXTENDS Gather

CONSTANTS
    TransferIds,
    PartSet,    (* the payloads of frames, NoPart among them               *)
    FramePriorities,
    LastTime,   (* BOUND: the last instant                                 *)
    MaxAcc      (* BOUND: no transfer is accumulated beyond so many parts  *)

ASSUME SessionAssumption ==
    /\ Timeout \in Nat
    /\ LastTime \in Nat
    /\ None \notin Nat
    /\ None \notin TransferIds
    /\ NoPart \in PartSet

\* Only a frame with others to follow can be malformed; if it is not, it has a
\* payload. Of a frame without data and of the payload of a malformed one nothing
\* is ever read.
SessionFrames ==
    {f \in [data : {TRUE}, transfer_id : TransferIds, sot : BOOLEAN,
            eot : BOOLEAN, toggle : BOOLEAN, malformed : BOOLEAN,
            part : PartSet, priority : FramePriorities] :
        /\ f.malformed => ~ f.eot /\ f.part = NoPart
        /\ ~ f.eot /\ ~ f.malformed => f.part # NoPart}
    \cup
    {f \in [data : {FALSE}, transfer_id : TransferIds, sot : {FALSE},
            eot : {FALSE}, toggle : {FALSE}, malformed : {TRUE},
            part : {NoPart}, priority : FramePriorities] : TRUE}

VARIABLES
    gather,     (* the state machine                                       *)
    buffer,     (* the payload buffer of its session                       *)
    received,   (* the last frame                                          *)
    produced,   (* what push_frame returned for it                         *)
    clock       (* its timestamp                                           *)

sessionVars == << gather, buffer, received, produced, clock >>

SessionInit ==
    /\ gather = Default
    /\ buffer = << >>
    /\ received = None
    /\ produced = None
    /\ clock = 0

Receive(f, timestamp) ==
    /\ Len(gather.acc) < MaxAcc  \* BOUND
    /\ LET o == PushFrame(gather, buffer, f, timestamp)
       IN  gather' = o.gather /\ buffer' = o.buffer /\ produced' = o.transfer
    /\ received' = f
    /\ clock' = timestamp

SessionNext ==
    \E f \in SessionFrames, timestamp \in clock .. LastTime : Receive(f, timestamp)

SessionSpec == SessionInit /\ [][SessionNext]_sessionVars

\* The buffer always begins with the parts accumulated, and a transfer that is
\* handed out is the content of the buffer: reassembly in place loses nothing.
BufferIsTransfer ==
    /\ gather.acc # << >> => gather.state \in Accumulating
    /\ Len(gather.acc) <= Len(buffer)
    /\ SubSeq(buffer, 1, Len(gather.acc)) = gather.acc
    /\ produced # None => produced.parts = buffer

\* One set of fields stands for the state of every TransferId.
StatusOf(id) ==
    IF gather.transfer_id # id THEN [is |-> "Nothing"]
    ELSE IF gather.state = "Assembled"
    THEN [is |-> "Assembled", started |-> gather.sof_timestamp]
    ELSE [is |-> "Running", started |-> gather.sof_timestamp,
          toggle |-> gather.state # "AccumulatedOdd", parts |-> gather.acc]

Rules == INSTANCE GatherRules WITH
    Frames <- SessionFrames, now <- clock,
    status <- [id \in TransferIds |-> StatusOf(id)]

\* The state machine, which remembers one TransferId, does what the documented
\* rules say of independent timers, reassemblies and statuses for all of them
\* (the comment of Gather, rules 1 to 12).
ImplementsRules == Rules!Spec

\* It does, but that push_frame looks at the toggle of a frame in the middle of a
\* transfer before its length: one that is malformed and repeats the toggle leaves the
\* reassembly as it is, which rule 4 would stop.
ImplementsRulesButRepeats == Rules!SpecButRepeats

=============================================================================
