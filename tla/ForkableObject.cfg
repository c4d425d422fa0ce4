CONSTANTS
  a = a
  b = b
  Replicas = {a, b}
  Amounts <- MCAmounts
  Limits <- MCLimits
SPECIFICATION Spec
INVARIANTS EligibleExact ForkIsTheBest 
SYMMETRY Symmetry
CHECK_DEADLOCK FALSE
