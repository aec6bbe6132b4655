SPECIFICATION FairSpec
CONSTANTS
    o1 = o1
    o2 = o2
    m1 = m1
    m2 = m2
    m3 = m3
    Orders = {o1, o2}
    Keys = {k1, k2}
    NoKey = NoKey
    Messages = {m1, m2, m3}
    OrderOf <- MCOrderOf
    MaxSendAttempts = 2
INVARIANTS MailedMeansSold NoneForgotten
PROPERTY EveryBuyerHears
CHECK_DEADLOCK FALSE
