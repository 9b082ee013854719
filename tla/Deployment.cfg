SPECIFICATION MCSpec
CONSTANTS
  Changeable = {"listen_addr", "otlp", "refresh_ms"}
  MaxGiven = 2
  ArgChoices <- RestartArgs
  MaxFaults = 2
  Logins = {"l1", "l2"}
  LoginXdg = {"unset", "", "/run/user/u"}
  ServiceXdg = {"/run/user/u"}
  MaxInstalls = 2
INVARIANTS ConfigurationSound  LoginsSound
PROPERTIES ServesAgain CustomisationsKept
CHECK_DEADLOCK FALSE
