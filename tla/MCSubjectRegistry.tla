-------------------------- MODULE MCSubjectRegistry --------------------------
(* Instances of SubjectRegistry for model checking.                        *)
EXTENDS SubjectRegistry, TLC

CONSTANTS a1, a2, a3, b, c

\* Three endpoints of the middle subject, one of the first and of the last.
MCSubjectOf == (a1 :> 1) @@ (a2 :> 1) @@ (a3 :> 1) @@ (b :> 0) @@ (c :> 2)

\* The same with two endpoints of the middle subject.
MCSmallSubjectOf == (a1 :> 1) @@ (a2 :> 1) @@ (b :> 0) @@ (c :> 2)

\* Only frames of the middle subject arrive, since a push of another subject is due to
\* one endpoint at most.
MCNext == Next /\ frame_subject' \in {1, NoSubject}

MCSpec == Init /\ [][MCNext]_vars /\ WF_vars(FilterTask)

=============================================================================
