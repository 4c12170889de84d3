\* Two transfers in a row, of which the frames are preempted by an urgent one, lost,
\* repeated, and sent by others.
SPECIFICATION LinkSpec
CHECK_DEADLOCK FALSE
CONSTANTS
    None = None
    NoPart = NoPart
    Priorities = {0, 1}
    BoxCount = 2
    MaxTime = 2
    Timeout = 1
    StrangeBits = {6, 7, 8, 20, 22, 23, 24, 25, 26}
    MaxFaults = 1
    Cases <- MCCases
    Urgent <- MCUrgent
    Deadlines <- MCDeadlines
INVARIANTS
    EachFrameInOnePlace
    LateFramesWerePreempted
    DeliveredWasSent
    UndisturbedIsDelivered
    OnlyOwnFramesEnter
