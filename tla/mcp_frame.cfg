SPECIFICATION ReadingSpec
CONSTANTS
  NoProc = NoProc
  Procs = {1, 2}
  MaxStrikes = 3
  MaxAsked = 3
PROPERTY EveryCallReturns
CHECK_DEADLOCK FALSE
