------------------------------ MODULE Deployment ------------------------------
(***************************************************************************)
(* The installed daemon and the logins of its user, which share the        *)
(* runtime directory and no state.                                         *)
(***************************************************************************)
EXTENDS DaemonLifecycle

CONSTANTS Logins, LoginXdg, ServiceXdg, MaxInstalls   \* of Login

(* The service runs under the service manager of the user, which sets       *)
(* XDG_RUNTIME_DIR to /run/user/<uid>; a login has the same, an empty one   *)
(* or none.  FailOpenLogin by itself allows other directories.              *)
ASSUME DeploymentAssumption ==
  /\ ServiceXdg \subseteq {"/run/user/u"}
  /\ LoginXdg \subseteq {"unset", "", "/run/user/u"}

VARIABLES server, wrapper, installer, installs, login, xdg, runUser, quiet

loginVars == <<server, wrapper, installer, installs, login, xdg, runUser, quiet>>

Login == INSTANCE FailOpenLogin

-----------------------------------------------------------------------------
(* No login runs a half-copied server, each that the installer leaves alone  *)
(* gets a server, and an instrumented one connects to the daemon's socket    *)
(* (mosh-server-wrapper.sh, install_file_with_temporary).                    *)
LoginsSound == Login!NoTornServer /\ Login!FailsOpen /\ Login!SessionsReachTheDaemon
=============================================================================
