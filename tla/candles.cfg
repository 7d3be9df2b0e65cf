SPECIFICATION FlowSpec
CONSTANTS
  NumPairs = 2
  Histories <- MCHistories
  From = 0
  Ends <- MCEnds
  BatchSize = 3
  AnswerLimit = 3
  Ratios <- MCRatios
  Ticks <- MCTicks
  Warmup = 2
  NoItem = NoItem
INVARIANTS QueueLag BacktestSeesHistory
PROPERTIES QueueIsPriorityBag BacktestInOrder StrategyMovesForward NothingInFlight
CHECK_DEADLOCK FALSE
