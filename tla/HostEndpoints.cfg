SPECIFICATION FairSpec
CONSTANTS
  Slots = 3
  BulkSize = 4
  InterruptSizes = {2, 8}
  Asks = {4, 6}
  OutPackets = {0, 2}
  Apart = TRUE
  Paced = TRUE
  ShortReports = FALSE
INVARIANTS TypeOK PidAgrees PacketFromOwner EndpointsKept AnsweredOnce NoPanic
PROPERTIES Answered
