----------------------------- MODULE GatherRules -----------------------------
(***************************************************************************)
(* What Gather promises (the rules 1 to 12 in its documentation): a timer, *)
(* a reassembly and an assembled status of its own for each TransferId.    *)
(*                                                                         *)
(* Spec is what the documentation says. SpecButRepeats departs from it for *)
(* the frames of IsMalformedRepeat, and for no others.                     *)
(***************************************************************************)
EXTENDS Integers, SequencesExt

CONSTANTS
    TransferIds,
    Frames,             (* the frames a session can receive                *)
    Timeout,
    NoPart, None,
    CrcMatches(_)       (* the parts are those of one transfer             *)

VARIABLES
    status,     (* of each TransferId: Nothing, Running or Assembled       *)
    received,   (* the last frame                                          *)
    produced,   (* the transfer it completed                               *)
    now         (* the timestamp of the last frame                         *)

Nothing == [is |-> "Nothing"]
Running(started, toggle, parts) ==
    [is |-> "Running", started |-> started, toggle |-> toggle, parts |-> parts]
Assembled(started) == [is |-> "Assembled", started |-> started]

Init ==
    /\ status = [id \in TransferIds |-> Nothing]
    /\ received = None
    /\ produced = None
    /\ now = 0

\* Rules 5 to 7: what is past its timeout does not count any more.
Current(f) ==
    LET s == status[f.transfer_id]
    IN  IF s.is # "Nothing" /\ now' > s.started + Timeout THEN Nothing ELSE s

Parts(f) == IF f.part = NoPart THEN << >> ELSE << f.part >>

\* Rules 2 and 12: the frame leaves its own TransferId with status s and the
\* others with nothing; a transfer has the priority of its last frame.
Becomes(f, s) ==
    status' = [id \in TransferIds |-> IF id = f.transfer_id THEN s ELSE Nothing]

Completes(f, started, parts) ==
    /\ Becomes(f, Assembled(started))
    /\ produced' = [id |-> f.transfer_id, priority |-> f.priority,
                    timestamp |-> started, parts |-> parts]

Leaves(f, s) == Becomes(f, s) /\ produced' = None

\* Rule 1.
NoData(f) == ~ f.data /\ produced' = None /\ UNCHANGED status

\* Rules 5 and 6: a transfer that has been assembled is not assembled again.
Again(f) == f.data /\ Current(f).is = "Assembled" /\ Leaves(f, Current(f))

\* Rules 3 to 6.
Start(f) ==
    /\ f.data /\ Current(f).is # "Assembled"
    /\ f.sot
    /\ IF ~ f.toggle \/ f.malformed THEN Leaves(f, Nothing)
       ELSE IF f.eot THEN Completes(f, now', Parts(f))
       ELSE Leaves(f, Running(now', TRUE, Parts(f)))

\* Rules 4 and 8 to 11, of the frames that follow: what rule 4 speaks of takes no part
\* in what the others say.
Follow(f) ==
    /\ f.data /\ Current(f).is = "Running"
    /\ ~ f.sot
    /\ LET s == Current(f)
           repeated == f.toggle = s.toggle
           next_to_sot == Len(s.parts) = 1
           parts == s.parts \o Parts(f)
       IN  IF f.malformed THEN Leaves(f, Nothing)
           ELSE IF repeated /\ ~ f.eot /\ ~ next_to_sot THEN Leaves(f, s)
           ELSE IF repeated THEN Leaves(f, Nothing)
           ELSE IF ~ f.eot THEN Leaves(f, Running(s.started, f.toggle, parts))
           ELSE IF f.part # NoPart /\ CrcMatches(parts) THEN Completes(f, s.started, parts)
           ELSE Leaves(f, Nothing)

\* A frame of a transfer whose first frame is lost.
Orphan(f) ==
    /\ f.data /\ Current(f).is = "Nothing"
    /\ ~ f.sot
    /\ Leaves(f, Nothing)

Rule(f) == NoData(f) \/ Again(f) \/ Start(f) \/ Follow(f) \/ Orphan(f)

Next == \E f \in Frames : received' = f /\ Rule(f)

ruleVars == << status, received, produced, now >>

Spec == Init /\ [][Next]_ruleVars

-----------------------------------------------------------------------------
\* A frame in the middle of a running reassembly whose toggle is that of the frame
\* before it, which rule 9 would ignore, and whose length is wrong, so that rule 4
\* stops the reassembly.
IsMalformedRepeat(f) ==
    LET s == Current(f)
    IN  /\ f.data /\ f.malformed /\ ~ f.sot /\ ~ f.eot
        /\ s.is = "Running"
        /\ f.toggle = s.toggle /\ Len(s.parts) # 1

\* Such a frame is ignored, all others are treated by the rules.
NextButRepeats ==
    \E f \in Frames :
        /\ received' = f
        /\ IF IsMalformedRepeat(f) THEN Leaves(f, Current(f)) ELSE Rule(f)

SpecButRepeats == Init /\ [][NextButRepeats]_ruleVars

=============================================================================
