SPECIFICATION FairSpec
CONSTANTS
  Callers = {bot, telegram}
  Nobody = nobody
  Serial = TRUE
  MaxLoops = 3
INVARIANTS StatusTellsMonitoring
PROPERTIES StopReturns
CHECK_DEADLOCK FALSE
