SPECIFICATION Spec
CONSTANTS
  PacketSizes = {2, 4}
  Lengths = {2, 3, 4, 5, 9}
  StatusLength = 8
  Patience = "idle"
  ExactFits = FALSE
  Swaps = TRUE
INVARIANTS AsksOnlyForMore
