SPECIFICATION LiveSpec
CONSTANTS
    a = a
    b = b
    c = c
    NoNode = NoNode
    Node = {a, b, c}
    Endpoint = {a, b, c}
    Conn = {1, 2}
    MinPeers = 1
    MaxPeers = 1
    PromptSource = TRUE
    Situations <- MCSituations
CHECK_DEADLOCK FALSE
INVARIANTS PeersBounded NoHalfPeers
PROPERTIES ConnectedStayConnected PeersSettle
