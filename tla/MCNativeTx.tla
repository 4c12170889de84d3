------------------------------ MODULE MCNativeTx ------------------------------
(***************************************************************************)
(* An instance of NativeTx for model checking. It begins in three states   *)
(* that Spec reaches by Tick and by frames without a source, while nothing *)
(* is queued: each leaves some of the frames and instants of the bounds.   *)
(***************************************************************************)
EXTENDS NativeTx

MCPriorities == 0 .. 2
MCMailboxes == 0 .. 2
MCTimestampOffsets == {None, 1}

\* Three frames that preempt each other, at two instants; two frames, over the three
\* instants in which the counter wraps; two frames with the clock of the system.
MCInit ==
    \/ Idle(MaxTime - 1, 1, MaxFrames - 3)
    \/ Idle(MaxTime - 2, 1, MaxFrames - 2)
    \/ Idle(MaxTime - 1, None, MaxFrames - 2)

MCSpec ==
    MCInit /\ [][Next]_vars
           /\ WF_vars(Task) /\ WF_vars(OnInterrupt) /\ WF_vars(TakeLoopBack)
           /\ WF_vars(Tick)
=============================================================================
