\* Any frames of two transfer identifiers for one session; two sources that compete for
\* a session of a receive buffer, transfers without a node, and a reader.
SPECIFICATION MCSpec
CHECK_DEADLOCK FALSE
CONSTANTS
    None = None
    NoPart = NoPart
    Anonymous = Anonymous
    s1 = s1
    s2 = s2
    TransferIds = {0, 1}
    PartSet = {1, 2, NoPart}
    FramePriorities = {0}
    LastTime = 2
    MaxAcc = 4
    Sources = {s1, s2}
    Frames <- MCFrames
    CrcMatches <- MCCrcMatches
    Priorities = {0, 1}
    Masks <- MCMasks
    Timeout = 1
    MaxTime = 3
    SN = 1
SYMMETRY Symm
INVARIANTS
    BufferIsTransfer
    ContentIntact
    NewestWins
    NoLostWakeup
PROPERTIES
    ImplementsRulesButRepeats
