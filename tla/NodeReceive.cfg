\* Requests and returned messages on their way into a node with one worker.
SPECIFICATION NodeSpec
CHECK_DEADLOCK FALSE
CONSTANTS
    None = None
    Priorities <- MCPriorities
    Lengths <- MCLengths
    TN = 1
    MaxRequests = 3
    Entries <- MCEntries
    SubjectOf <- MCSubjectOf
    Frames <- MCFrames
    LoopBackFrames <- MCLoopBackFrames
    FifoMax = 2
    MaxFrames = 3
INVARIANTS
    WorkerGoesOn
    LoopBackPushIsExact
    ReceiverIsWoken
