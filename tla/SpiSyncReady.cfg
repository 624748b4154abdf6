SPECIFICATION Spec
CONSTANTS
  Capacity = 2
  MaxMsg = 2
  Knocks = FALSE
PROPERTIES SendsToReadySlave
CHECK_DEADLOCK FALSE
