SPECIFICATION Spec
CONSTANTS
  Logins = {"l1"}
  LoginXdg = {"unset"}
  ServiceXdg = {"/run/user/u"}
  MaxInstalls = 2
INVARIANT AlwaysAServer
CHECK_DEADLOCK FALSE
