SPECIFICATION FairSpec
CONSTANTS
    Workers = {w1, w2}
    Events = {e1, e2}
    Nobody = Nobody
    Unreadable = {e2}
    Unmarshalable = {}
    MaxPublishAttempts = 2
    outboxCleanupBatchSize = 1
INVARIANTS
    TypeOK
    PublishedMeansRouted
    RetryBudget
PROPERTIES
    EventuallySettled
    RelaySpec
