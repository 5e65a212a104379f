SPECIFICATION LogSpec
CONSTANTS
  LogsPerPage = 2
  MaxLog = 6
  MaxPrinted = 5
INVARIANTS
  EveryEntryNew
CHECK_DEADLOCK FALSE
