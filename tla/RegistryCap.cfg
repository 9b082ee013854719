CONSTANTS
  NONE = NONE
  Addrs = {}
  HistoryMs = 1
  ShortMs = 1
  LongMs = 2
  Procs = {1, 2, 3}
  MaxTracked = 2
  MaxDropped = 1
  DiscoveryIntervalMs = 1
  CleanupIntervalMs = 1
  GraceFloorMs = 1
  StaleFloorMs = 2
  TotalsInputs <- MCNoTotals
  CloseFlags = {FALSE, NONE}
  MaxNow = 3
SPECIFICATION Spec
INVARIANTS TypeOK WithinCap OneRecordPerProcess
PROPERTIES ActiveEvictedLast ObservationsNeverRegress NoSilentLoss
