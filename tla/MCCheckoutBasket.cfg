SPECIFICATION Spec
CONSTANTS
    Orders = {"o1"}
    SKUs <- MCSKUs
    TrimSKU <- MCTrimSKU
    ParseOrder <- MCParseOrder
    NotAUUID = NotAUUID
    OrderID = "uuid"
    maxLineQuantity = 3
    maxLines = 2
    maxReportedViolations = 2
    Int32Max = 7
    Int64Max = 20
    Quantities = {0, 1, 3, 4, 17}
    MaxBasketLines = 3
    Prices <- MCPrices
    Stocked = {1, 2}
    Levels = {0, 1, 3}
    Emails = {"plain", "odd", "broken"}
    BindsEmail = {"plain", "odd"}
    ParsesEmail = {"plain"}
INVARIANT ValidatedIsNeverRefused
CHECK_DEADLOCK FALSE
