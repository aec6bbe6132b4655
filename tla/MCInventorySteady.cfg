SPECIFICATION FairSpec
CONSTANTS
    Orders = {"o1", "o2"}
    SKUs <- MCSKUs
    TrimSKU <- MCTrimSKU
    ParseOrder <- MCParseOrder
    NotAUUID = NotAUUID
    maxLineQuantity = 2
    maxLines = 3
    maxReportedViolations = 2
    Calls = {c1, c2, c3}
    NoCall = NoCall
    Stocked <- MCStocked
    InitialOnHand <- MCInitialOnHand
    MaxOnHand = 2
    Requests <- SteadyRequests
PROPERTIES
    RepeatAccepted
    LedgerSpec
    EveryCallAnswered
CHECK_DEADLOCK FALSE
