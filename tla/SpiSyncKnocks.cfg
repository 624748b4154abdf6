SPECIFICATION Spec
CONSTANTS
  Capacity = 1
  MaxMsg = 2
  Knocks = TRUE
INVARIANTS IndInv
CHECK_DEADLOCK FALSE
