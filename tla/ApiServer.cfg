CONSTANTS
  c1 = c1
  c2 = c2
  c3 = c3
  Clients = {c1, c2, c3}
  ApiSlots = 2
  HistorySlots = 1
  HeadTimeout = 1
  WriteTimeout = 1
  HasHistory = TRUE
  MaxSignals = 1
  Requests <- RouteRequests
  Sessions = {"s1", "s2", "s3"}
  None = "none"
  Display = "s1"
  OwnChain <- UiOwnChain
  TmuxChains <- UiTmuxChains
  MaxListed = 2
SPECIFICATION MCSpec
INVARIANTS TerminateAnswersAreTrue SlotsAccountedFor
PROPERTIES LiveConnectionsEnd OperatorsChoiceKept
CHECK_DEADLOCK FALSE
