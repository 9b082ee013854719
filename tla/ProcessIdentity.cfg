CONSTANTS
  p1 = p1
  p2 = p2
  Pids = {p1, p2}
  Tasks = {"scan", "verify", "terminate"}
  Exes = {"real", "stock", "stray", "other"}
  MaxDrift = 1
  MaxUptime = 4
  MaxStep = 1
SPECIFICATION MCSpec
INVARIANTS ScanExactWhereUndisturbed EventsAttributed StaleTargetNeverSignalled
CHECK_DEADLOCK FALSE
