CONSTANTS
    a1 = a1 a2 = a2 b1 = b1 ra = ra rb = rb
    Request = {a1, a2, b1}
    Remote <- MCRemote
    remoteOf <- MCRemoteOf
    None = None
    MaxLiterals = 2
    LiteralBatchSize = 1
    MaxOutstanding = 2
SPECIFICATION Spec
INVARIANT ServedOrQueued
PROPERTY EveryRequestLeaves
CHECK_DEADLOCK FALSE
