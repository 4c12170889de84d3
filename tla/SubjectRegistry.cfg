\* The subject registry: every order of five endpoints coming and going, of a
\* push and of a fair filter task, with two slots for three subjects.
SPECIFICATION MCSpec
CHECK_DEADLOCK FALSE
CONSTANTS
    a1 = a1
    a2 = a2
    a3 = a3
    b = b
    c = c
    Entries = {a1, a2, a3, b, c}
    MaxSubject = 2
    SubjectOf <- MCSubjectOf
    SlotCount = 2
    MaxFreeSlots = 3
    NoEntry = NoEntry
INVARIANTS
    TypeOK
    HeadIsFirst
    LinksMatchFlags
    FilterCoversActive
    CleanUpGapsNonEmpty
PROPERTIES
    DeliversExactlyOnce
    ActivationHappens
    StaleSlotIsFreed
