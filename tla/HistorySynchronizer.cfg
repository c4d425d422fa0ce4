CONSTANTS
    N = 3
    prevOf <- MCPrevOf
    Stored = {}
    Remote = {e1}
    States = {{1}, {3}}
    MaxRequests = 2
    MaxRequestsPerRemote = 2
    MaxPendingOps = 1
    MinRequestedOps = 1
    MaxFailures = 1
    SlowProcessing = FALSE
SPECIFICATION Spec
INVARIANTS PendingHaveRequests BlockedWillBeTold
PROPERTIES ImplementsReplication Converges
CHECK_DEADLOCK FALSE
