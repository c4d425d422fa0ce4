CONSTANTS
    N = 5
    Histories <- MCHistories
    Initials <- MCInitials
    Filters <- MCFilters
    MaxOps <- MCMaxOps
    ResponseHistories <- MCResponseHistories
    Named <- MCNamed
    MaxDeltaSize = 3
    MaxBacktrackSize = 2
SPECIFICATION ResponseSpec
INVARIANTS ClosureExact ClosureServes ResponseAnswers
PROPERTY CallEnds
CHECK_DEADLOCK FALSE
