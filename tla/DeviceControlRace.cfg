SPECIFICATION Spec
CONSTANTS
  MaxRequests = 1
  MaxPackets = 2
  Quick = FALSE
INVARIANTS NoPanic
