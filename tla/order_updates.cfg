SPECIFICATION UpdatesSpec
CONSTANTS
  tab = tab
  phone = phone
  Updates <- MCUpdates
  Stream <- MCStream
  Clients = {tab, phone}
  Leavers = {tab}
  NoClient = NoClient
  Scenarios <- MCScenarios
  FeedCap = 1
  BroadcastCap = 1
INVARIANTS ClientMissesNothing
PROPERTIES PublishersFinish CandlesReachBot
CHECK_DEADLOCK FALSE
