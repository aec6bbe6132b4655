SPECIFICATION Spec
CONSTANTS
    m1 = m1
    m2 = m2
    m3 = m3
    o1 = o1
    Workers = {w1, w2}
    Messages = {m1, m2}
    NoMessage = NoMessage
    Orders = {o1}
    OrderOf <- MCOrderOf
    Malformed = {}
    Tokens = {t1, t2, t3}
    NoToken = NoToken
    MaxSendAttempts = 3
SYMMETRY NotificationSymmetry
INVARIANTS
    TypeOK
    SendBudget
    NothingLost
    DuplicatesNeedTheWindow
PROPERTIES
    MailerSpec
CHECK_DEADLOCK FALSE
