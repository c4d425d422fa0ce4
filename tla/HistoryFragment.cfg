CONSTANTS
    h1 = h1 h2 = h2 h3 = h3 h4 = h4 h5 = h5 h6 = h6 h7 = h7
    o1 = o1 o2 = o2 o3 = o3 o4 = o4 o5 = o5 o6 = o6
    Header <- MCHeader
    Op <- MCOp
    prevOf <- MCPrevOf
    opOf <- MCOpOf
SPECIFICATION FragmentSpec
INVARIANTS LookupIndexesExact FrontierExact
PROPERTY PruneEndsAtState
