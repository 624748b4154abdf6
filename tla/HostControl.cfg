SPECIFICATION FairSpec
CONSTANTS
  PacketSizes = {2, 4}
  Lengths = {2, 3, 4, 5, 9}
  StatusLength = 8
  Patience = "idle"
  ExactFits = FALSE
  Swaps = FALSE
INVARIANTS TypeOK AnswerIsWhole PidAgrees AddressAgrees NoPanic AsksOnlyForMore SetupSentFirst
PROPERTIES Answered
