SPECIFICATION LogFairSpec
CONSTANTS
  LogsPerPage = 3
  MaxLog = 6
  MaxPrinted = 5
INVARIANTS
  LogTypeOK
  PrintsShortLog
  TickCatchesUp
PROPERTIES
  PrintsBusyLog
  ShortLogPrinted
CHECK_DEADLOCK FALSE
