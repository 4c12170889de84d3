\* The documented rules, a malformed frame that repeats the toggle among the frames.
SPECIFICATION SessionSpec
CHECK_DEADLOCK FALSE
CONSTANTS
    None = None
    NoPart = NoPart
    TransferIds = {0, 1}
    PartSet = {1, 2, NoPart}
    CrcMatches <- MCCrcMatches
    FramePriorities = {0}
    Timeout = 1
    LastTime = 2
    MaxAcc = 4
PROPERTIES
    ImplementsRules
