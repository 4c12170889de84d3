\* The documented slot limit of the driver against the slot account.
SPECIFICATION Spec
CHECK_DEADLOCK FALSE
CONSTANTS
    a1 = a1
    a2 = a2
    a3 = a3
    b = b
    c = c
    Entries = {a1, a2, b, c}
    MaxSubject = 2
    SubjectOf <- MCSmallSubjectOf
    SlotCount = 2
    MaxFreeSlots = 3
    NoEntry = NoEntry
INVARIANTS
    NeverOversubscribed
