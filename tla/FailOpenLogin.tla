---------------------------- MODULE FailOpenLogin ----------------------------
(***************************************************************************)
(* Logins that run the installed mosh-server wrapper (scripts/             *)
(* mosh-server-wrapper.sh) while the installer (xtask) replaces the server *)
(* behind it, or dies half way; and the runtime directory that wrapper and *)
(* daemon each work out from their own environment.                        *)
(***************************************************************************)
EXTENDS Integers, FiniteSets

CONSTANTS Logins,        \* mosh connections
          LoginXdg,      \* XDG_RUNTIME_DIR of a login, "unset" if it is not set
          ServiceXdg,    \* XDG_RUNTIME_DIR of the daemon
          MaxInstalls    \* bound: runs of the installer

\* Values of XDG_RUNTIME_DIR; the last one is a root that ends in "runtime".
Xdgs == {"unset", "", "/run/user/u", "/srv/runtime"}

VARIABLES
  server,      \* mosh-server-real in the install prefix
  wrapper,     \* whether ~/.local/bin/mosh-server is the wrapper
  installer,   \* what the installer does next, "idle" when none runs
  installs,    \* bound: installs begun
  login,       \* per login: "away", "checking", "executing" or the outcome
  xdg,         \* per login, and "service" for the daemon
  runUser,     \* whether /run/user/<uid> exists
  quiet        \* ghost, per login: no installer step since it began

vars == <<server, wrapper, installer, installs, login, xdg, runUser, quiet>>

Init ==
  /\ server = [content |-> "none", exec |-> FALSE]
  /\ wrapper = FALSE /\ installer = "idle" /\ installs = 0
  /\ login = [l \in Logins |-> "away"]
  /\ xdg \in {x \in [Logins \cup {"service"} -> Xdgs] : x["service"] \in ServiceXdg /\ \A l \in Logins : x[l] \in LoginXdg}
  /\ runUser \in BOOLEAN
  /\ (xdg["service"] = "/run/user/u" => runUser)
  /\ quiet = [l \in Logins |-> FALSE]

-----------------------------------------------------------------------------
\* One step of the installer; every login under way has seen it.
Disturb == quiet' = [l \in Logins |-> FALSE]

BeginInstall ==
  /\ installer = "idle" /\ installs < MaxInstalls
  /\ installer' = "copy" /\ installs' = installs + 1
  /\ Disturb /\ UNCHANGED <<server, wrapper, login, xdg, runUser>>

\* Error: the binary is copied over the installed one.
CopyInPlace ==
  /\ installer = "copy"
  /\ server' = [server EXCEPT !.content = "torn"] /\ installer' = "persist"
  /\ Disturb /\ UNCHANGED <<wrapper, installs, login, xdg, runUser>>

\* install_file_with_temporary: the copy is a file of its own.
CopyToTemporary ==
  /\ installer = "copy"
  /\ installer' = "persist"
  /\ Disturb /\ UNCHANGED <<server, wrapper, installs, login, xdg, runUser>>

\* The rename brings the mode of the temporary file with it, 0600.
Persist ==
  /\ installer = "persist"
  /\ server' = [content |-> "whole", exec |-> FALSE] /\ installer' = "make_executable"
  /\ Disturb /\ UNCHANGED <<wrapper, installs, login, xdg, runUser>>

MakeExecutable ==
  /\ installer = "make_executable"
  /\ server' = [server EXCEPT !.exec = TRUE] /\ installer' = "wrapper"
  /\ Disturb /\ UNCHANGED <<wrapper, installs, login, xdg, runUser>>

\* install_wrapper: a text file has its mode before the rename.
InstallWrapper ==
  /\ installer = "wrapper"
  /\ wrapper' = TRUE /\ installer' = "idle"
  /\ Disturb /\ UNCHANGED <<server, installs, login, xdg, runUser>>

InstallerDies ==
  /\ installer # "idle"
  /\ installer' = "idle"
  /\ Disturb /\ UNCHANGED <<server, wrapper, installs, login, xdg, runUser>>

\* ssh runs mosh-server: the wrapper if it is in PATH, or the stock one.
Connect(l) ==
  /\ login[l] = "away"
  /\ login' = [login EXCEPT ![l] = IF wrapper THEN "checking" ELSE "stock"]
  /\ quiet' = [quiet EXCEPT ![l] = TRUE]
  /\ UNCHANGED <<server, wrapper, installer, installs, xdg, runUser>>

\* Error: nothing is looked at before the exec.
CheckNothing(l) ==
  /\ login[l] = "checking"
  /\ login' = [login EXCEPT ![l] = "executing"]
  /\ UNCHANGED <<server, wrapper, installer, installs, xdg, runUser, quiet>>
\* [[ -x "$REAL_SERVER" ]]
CheckExecutable(l) ==
  /\ login[l] = "checking"
  /\ login' = [login EXCEPT ![l] = IF server.exec THEN "executing" ELSE "stock"]
  /\ UNCHANGED <<server, wrapper, installer, installs, xdg, runUser, quiet>>

\* exec of bash ends a script whose exec fails (execfail is not set): the
\* branch after it is never reached.
Exec(l) ==
  /\ login[l] = "executing"
  /\ login' = [login EXCEPT ![l] =
       CASE ~server.exec -> "none"
         [] server.exec /\ server.content = "whole" -> "instrumented"
         [] server.exec /\ server.content # "whole" -> "crashed"]
  /\ UNCHANGED <<server, wrapper, installer, installs, xdg, runUser, quiet>>

Next ==
  \/ BeginInstall \/ CopyToTemporary \/ Persist \/ MakeExecutable \/ InstallWrapper \/ InstallerDies
  \/ \E l \in Logins : Connect(l) \/ CheckExecutable(l) \/ Exec(l)
Spec == Init /\ [][Next]_vars

-----------------------------------------------------------------------------
\* Error: without XDG_RUNTIME_DIR the wrapper goes straight to the home.
WrapperDirHome(x) ==
  IF x \notin {"unset", ""} THEN <<x, "moshwatch">> ELSE <<"~/.local/state/moshwatch/runtime">>
\* The wrapper: what is set and not empty, /run/user/<uid>, the home.
WrapperDir(x) ==
  CASE x \notin {"unset", ""} -> <<x, "moshwatch">>
    [] x \in {"unset", ""} /\ runUser -> <<"/run/user/u", "moshwatch">>
    [] x \in {"unset", ""} /\ ~runUser -> <<"~/.local/state/moshwatch/runtime">>

\* RuntimePaths::discover: what is set, even if empty; a root that ends in
\* "runtime" is taken for the fallback and used as it is.
DaemonDir(x) ==
  CASE x = "/srv/runtime" -> <<x>>
    [] x \in {"", "/run/user/u"} -> <<x, "moshwatch">>
    [] x = "unset" /\ runUser -> <<"/run/user/u", "moshwatch">>
    [] x = "unset" /\ ~runUser -> <<"~/.local/state/moshwatch/runtime">>

-----------------------------------------------------------------------------
\* A binary that is still being copied never runs, installer dead or alive.
NoTornServer == \A l \in Logins : login[l] # "crashed"

\* Whatever a dead installer left, a login it does not disturb gets a server.
FailsOpen == \A l \in Logins : login[l] = "none" => ~quiet[l]

\* Every login gets a server, the stock one if need be: "fail-open wrapper".
AlwaysAServer == \A l \in Logins : login[l] # "none"

\* An instrumented session connects to the socket the daemon listens on, even
\* if the login has another environment than the service.
SessionsReachTheDaemon ==
  \A l \in Logins : login[l] = "instrumented" => WrapperDir(xdg[l]) = DaemonDir(xdg["service"])
=============================================================================
