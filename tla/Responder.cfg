\* A worker with requests of two priorities.
SPECIFICATION Spec
CHECK_DEADLOCK FALSE
CONSTANTS
    None = None
    Priorities <- MCPriorities
    Lengths <- MCLengths
    TN = 2
    MaxRequests = 4
PROPERTIES
    QueuesAreIndependent
