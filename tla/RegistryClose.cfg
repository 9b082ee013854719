CONSTANTS
  NONE = NONE
  Addrs = {}
  HistoryMs = 1
  ShortMs = 1
  LongMs = 2
  Procs = {1, 2, 3}
  MaxTracked = 2
  MaxDropped = 2
  DiscoveryIntervalMs = 1
  CleanupIntervalMs = 1
  GraceFloorMs = 1
  StaleFloorMs = 2
  TotalsInputs <- MCNoTotals
  CloseFlags = {TRUE, FALSE}
  MaxNow = 2
SPECIFICATION Spec
PROPERTIES EstablishedActiveSurvives
