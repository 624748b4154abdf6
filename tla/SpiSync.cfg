SPECIFICATION FairSpec
CONSTANTS
  Capacity = 2
  MaxMsg = 3
  Knocks = FALSE
INVARIANTS TypeOK AnswerIsCount SlaveNeverStarves CountAgreement InOrder GridlockNeedsBacklog
PROPERTIES ImplementsChannel Delivery
CHECK_DEADLOCK FALSE
