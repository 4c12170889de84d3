--------------------------- MODULE MCGatherSession ---------------------------
(* An instance of GatherSession for model checking.                        *)
EXTENDS GatherSession

\* Transfers of two, three and four parts, among the sequences of two parts.
MCCrcMatches(parts) == parts \in {<< 1, 2 >>, << 1, 2, 1 >>, << 1, 2, 1, 2 >>}
=============================================================================
