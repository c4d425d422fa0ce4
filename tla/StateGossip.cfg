CONSTANTS
    n1 = n1
    n2 = n2
    Node = {n1, n2}
    Op = {1, 2}
    Situations <- MCSituations
    None = None
    MaxRepeats = 1
    OrderedReads = TRUE
SPECIFICATION Spec
 
PROPERTY Converges
CHECK_DEADLOCK FALSE
