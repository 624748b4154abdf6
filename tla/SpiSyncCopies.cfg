SPECIFICATION Spec
CONSTANTS
  Capacity = 2
  MaxMsg = 2
  Knocks = TRUE
INVARIANTS CopiesReceivedMessage
CHECK_DEADLOCK FALSE
