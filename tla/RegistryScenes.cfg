CONSTANTS
  NONE = NONE
  a = a
  b = b
  Addrs = {a, b}
  HistoryMs = 2
  ShortMs = 1
  LongMs = 2
  Procs = {1, 2, 3}
  MaxTracked = 2
  MaxDropped = 2
  DiscoveryIntervalMs = 1
  CleanupIntervalMs = 1
  GraceFloorMs = 1
  StaleFloorMs = 1
  TotalsInputs <- MCTotals
  CloseFlags = {TRUE, NONE}
  MaxNow = 3
SPECIFICATION MCSpec
INVARIANTS HistorySound PeerCoherent
PROPERTIES EstablishedActiveSurvives
