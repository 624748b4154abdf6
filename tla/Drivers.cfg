SPECIFICATION FairSpec
CONSTANTS
  Kinds = {"storage", "mouse", "keyboard", "vendor"}
  MemUnits = 58
  MaxReads = 14
  MaxResets = 1
  DataLengths = {36, 64}
  MaxOut = 2
  MaxIn = 2
  MaxCommands = 3
  MaxReports = 3
  Rereads = FALSE
INVARIANTS TypeOK MemoryDisjoint JudgedByOwner NothingForbidden OneQuestion NoPanic
PROPERTIES ImplementsPipe CommandEnds MouseAsked
CHECK_DEADLOCK FALSE
