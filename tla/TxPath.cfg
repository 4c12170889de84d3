\* A signal and a blocking publisher, with messages of one frame and of two, and a
\* responder, with responses of two.
SPECIFICATION FairSpec
CHECK_DEADLOCK FALSE
CONSTANTS
    None = None
    signal = signal
    blocking = blocking
    rival = rival
    response = response
    Entries = {signal, blocking, rival, response}
    Kind <- MCKind
    PriorityOf <- MCPriorityOf
    SubjectOf <- MCSubjectOf
    Priorities = {0, 1}
    Lengths <- MCLengths
    Masks <- MCMasks
INVARIANTS
    BuffersPartition
    PositionIsCurrent
    NoInterleaving
    NoLostWakeup
    WriterIsWoken
PROPERTIES
    BegunGoesOn
    EvenService
