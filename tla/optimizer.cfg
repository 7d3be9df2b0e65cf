SPECIFICATION OptSpec
CONSTANTS
  Parameters <- MCParameters
  MaxIterations = 3
  Parallelism = 2
  Scores <- MCScores
  RandomSearches <- MCRandom
  Maximize = TRUE
INVARIANTS SuccessIsComplete
PROPERTIES NothingLeftBehind
CHECK_DEADLOCK FALSE
