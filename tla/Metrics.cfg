SPECIFICATION MCSpec
CONSTANTS
  Clients = {"c1", "c2"}
  Slots = 1
  AcceptErrors = TRUE
  Requests <- OneOfEach
  Qualities = {0, 1, 2}
  MaxItems = 3
  Sids = {"s1", "s2"}
  PrometheusTier = "per_session"
  OtlpTier = "per_session"
  HistoryEnabled = TRUE
  MaxRendered = 1
  ReportedHealths = {"ok"}
  CollectorDoes = {"accepted"}
  MaxCount = 1
  MaxTime = 2
  MaxCycles = 3
INVARIANTS ExportsSound BestAcceptableServed
PROPERTIES TokenFileSound AlwaysServesAgain SeriesStayCumulative EveryConnectionEnds
CHECK_DEADLOCK FALSE
