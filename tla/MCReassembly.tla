----------------------------- MODULE MCReassembly -----------------------------
(***************************************************************************)
(* An instance of GatherSession and one of Watch for model checking. They  *)
(* share no variable: each is run for itself, while the other one stays    *)
(* where it begins.                                                        *)
(***************************************************************************)
EXTENDS GatherSession, Watch, TLC

CONSTANTS s1, s2

VARIABLE part   (* the one that is run                                     *)

\* A frame of Watch has its source for a payload.
Frame(source, id, sot, eot, toggle, priority) ==
    [data |-> TRUE, source |-> source, transfer_id |-> id, sot |-> sot, eot |-> eot,
     toggle |-> toggle, malformed |-> FALSE, part |-> source, priority |-> priority]

\* Transfers of one frame, and of two of the same identifier; transfers without
\* a node.
MCFrames ==
    {Frame(s, 0, TRUE, TRUE, TRUE, 1) : s \in Sources}
    \cup {Frame(s, 1, TRUE, FALSE, TRUE, 0) : s \in Sources}
    \cup {Frame(s, 1, FALSE, TRUE, FALSE, 0) : s \in Sources}
    \cup {Frame(Anonymous, 0, TRUE, TRUE, TRUE, p) : p \in Priorities}

MCMasks == {Priorities, {0}}

\* Transfers of two, three and four parts, among the sequences of two parts; of Watch,
\* any of two parts.
MCCrcMatches(parts) ==
    IF ToSet(parts) \cap Sources = {}
    THEN parts \in {<< 1, 2 >>, << 1, 2, 1 >>, << 1, 2, 1, 2 >>}
    ELSE Len(parts) = 2

Symm == Permutations(Sources)

MCInit == SessionInit /\ Init /\ part \in {"session", "watch"}

MCNext ==
    \/ part = "session" /\ SessionNext /\ UNCHANGED << part, vars >>
    \/ part = "watch" /\ Next /\ UNCHANGED << part, sessionVars >>

MCSpec == MCInit /\ [][MCNext]_<< part, sessionVars, vars >>
=============================================================================
