SPECIFICATION FairSpec
CONSTANTS
  MaxRequests = 3
  MaxPackets = 3
  Quick = TRUE
INVARIANTS TypeOK HostReadsAnswer AnswerHandledWhole PidAgrees NoPanic
PROPERTIES AddressFollowsHost Completed
