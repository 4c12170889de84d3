\* Frames of three priorities, which preempt each other, are sent, expire and come back,
\* with the time of a counter that wraps or with that of the system clock.
SPECIFICATION MCSpec
CHECK_DEADLOCK FALSE
CONSTANTS
    None = None
    Priorities <- MCPriorities
    Mailboxes <- MCMailboxes
    EventMax = 3
    CounterRange = 2
    TimestampOffsets <- MCTimestampOffsets
    MaxFrames = 3
    StartTime = 1
    MaxTime = 4
INVARIANTS
    PanicOnlyOnLateEvent
    SentOnce
    LostWakeupOnlyByCancellation
    LoopBackTellsTransmission
PROPERTIES
    FramesLeave
