\* Three sources for two sessions, over a time of three timeouts.
SPECIFICATION Spec
CHECK_DEADLOCK FALSE
CONSTANTS
    None = None
    NoPart = NoPart
    Anonymous = Anonymous
    s1 = s1
    s2 = s2
    s3 = s3
    Sources = {s1, s2, s3}
    Frames <- MCSourceFrames
    CrcMatches <- MCCrcMatches
    Priorities = {0}
    Masks = {}
    Timeout = 1
    MaxTime = 3
    SN = 2
    TN = 1
SYMMETRY Symm
INVARIANTS
    OldestSessionFirst
    AtMostOncePerTimeout
