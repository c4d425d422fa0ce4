SPECIFICATION LiveSpec
CONSTANTS
    a = a
    b = b
    u = u
    v = v
    Node = {a, b}
    User = {u, v}
    Situations <- MCSituations
    MayClose = TRUE
    MaxSends = 2
CHECK_DEADLOCK FALSE
INVARIANT SecureMessagesAccepted
PROPERTY BothVerified
