\* Two sources that share a session slot, and two transfer slots.
SPECIFICATION Spec
CHECK_DEADLOCK FALSE
CONSTANTS
    None = None
    NoPart = NoPart
    Anonymous = Anonymous
    s1 = s1
    s2 = s2
    s3 = s3
    Sources = {s1, s2}
    Frames <- MCFrames
    CrcMatches <- MCCrcMatches
    Priorities = {0, 1}
    Masks <- MCMasks
    Timeout = 1
    MaxTime = 2
    SN = 1
    TN = 2
SYMMETRY Symm
INVARIANTS
    ContentIntact
    LosesLeastUrgent
    NoLostWakeup
