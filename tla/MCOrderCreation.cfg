SPECIFICATION FairSpec
CONSTANTS
    Requests = {r1, r2}
    Keys = {k1, k2}
    NoKey = NoKey
    NoOrder = NoOrder
    InitialFree = 0
    MaxFree = 1
    inventoryReservationAttempts = 3
INVARIANTS
    AcceptedIsBacked
    KeyHasOneFate
    StrandedNeedsARace
PROPERTIES
    ReplayDecides
    EveryRequestAnswered
    BookSpec
CHECK_DEADLOCK FALSE
