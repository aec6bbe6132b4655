SPECIFICATION FairSpec
CONSTANTS
    m1 = m1
    m2 = m2
    m3 = m3
    o1 = o1
    Workers = {w1}
    Messages = {m1, m3}
    NoMessage = NoMessage
    Orders = {o1}
    OrderOf <- MCOrderOf
    Malformed = {m3}
    Tokens = {t1, t2}
    NoToken = NoToken
    MaxSendAttempts = 2
PROPERTIES
    ReconnectsOnItsOwn
CHECK_DEADLOCK FALSE
