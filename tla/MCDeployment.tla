---------------------------- MODULE MCDeployment ----------------------------
(***************************************************************************)
(* Instances of the modules around the daemon's process for TLC: its       *)
(* configuration and lifecycle, and what the installer leaves for logins.  *)
(* The scenes share no state; a behaviour plays in one:                    *)
(*   listener  the settings of the metrics listener, in every layer        *)
(*   accepted  the other settings, two at a time, at their limits          *)
(*   restart   kills and failures at any point, under the service manager  *)
(*   prepend   the block at the start of a file, perhaps behind a link,    *)
(*             and users who cut it in half                                *)
(*   append    the block at the end of a longer file, of which users may   *)
(*             cut the beginning                                           *)
(*   login     logins while the installer runs and dies                    *)
(***************************************************************************)
EXTENDS Deployment

VARIABLES scene, cells, encoding, installed

blockVars == <<cells, encoding, installed>>
mcVars == <<scene, vars, blockVars, loginVars>>

NoArgs == [metrics_listen |-> NoListener, allow_public_metrics |-> FALSE, no_write_config |-> FALSE]
ListenArgs ==
  [metrics_listen : {NoListener, "", "127.0.0.1:9947", "0.0.0.0:9947"}, allow_public_metrics : BOOLEAN,
   no_write_config : {TRUE}]
NestedSettings == DOMAIN OtlpDefaults \cup DOMAIN Limits \cup DOMAIN ThresholdDefaults \cup {"persistence"}

Listener == INSTANCE DaemonLifecycle WITH
  Changeable <- {"listen_addr", "allow_non_loopback", "detail_tier", "flat_listen_addr", "flat_allow_non_loopback"},
  MaxGiven <- 3, ArgChoices <- ListenArgs, MaxFaults <- 0
Accepted == INSTANCE DaemonLifecycle WITH
  Changeable <- NestedSettings, MaxGiven <- 2, ArgChoices <- {NoArgs}, MaxFaults <- 0
RestartArgs == {NoArgs, [NoArgs EXCEPT !.no_write_config = TRUE]}

Prepend == INSTANCE ManagedBlock WITH
  Placement <- "prepend", UserLines <- {"", "alias", "export"},
  MarkersCut <- {"# >>> moshwatch path >>>", "# <<< moshwatch path <<<"},
  Encodings <- {"utf-8"}, MaxLines <- 4, MaxCutFrom <- 5, MaxCells <- 2
Append == INSTANCE ManagedBlock WITH
  Placement <- "append", UserLines <- {"", "alias", "export"},
  MarkersCut <- {"# >>> moshwatch path >>>"},
  Encodings <- {"utf-8"}, MaxLines <- 5, MaxCutFrom <- 5, MaxCells <- 1

-----------------------------------------------------------------------------
(* What does not play is 0, or idle where a property looks at it.            *)
NoDaemon ==
  /\ phase = "down"
  /\ file = 0 /\ args = 0 /\ status = 0 /\ config = 0
  /\ tasks = 0 /\ ended = 0 /\ sockets = 0 /\ faults = 0
NoBlock == cells = 0 /\ encoding = 0 /\ installed = 0
NoLogin ==
  /\ login = [l \in Logins |-> "away"]
  /\ server = 0 /\ wrapper = 0 /\ installer = 0 /\ installs = 0
  /\ xdg = 0 /\ runUser = 0 /\ quiet = 0

MCInit ==
  \/ scene = "listener" /\ Listener!Init /\ NoBlock /\ NoLogin
  \/ scene = "accepted" /\ Accepted!Init /\ NoBlock /\ NoLogin
  \/ scene = "restart" /\ Init /\ NoBlock /\ NoLogin
  \/ scene = "prepend" /\ Prepend!Init /\ NoDaemon /\ NoLogin
  \/ scene = "append" /\ Append!Init /\ NoDaemon /\ NoLogin
  \/ scene = "login" /\ Login!Init /\ NoDaemon /\ NoBlock

MCNext ==
  /\ \/ scene = "listener" /\ Listener!Next /\ UNCHANGED <<blockVars, loginVars>>
     \/ scene = "accepted" /\ Accepted!Next /\ UNCHANGED <<blockVars, loginVars>>
     \/ scene = "restart" /\ Next /\ UNCHANGED <<blockVars, loginVars>>
     \/ scene = "prepend" /\ Prepend!Next /\ UNCHANGED <<vars, loginVars>>
     \/ scene = "append" /\ Append!Next /\ UNCHANGED <<vars, loginVars>>
     \/ scene = "login" /\ Login!Next /\ UNCHANGED <<vars, blockVars>>
  /\ UNCHANGED scene

(* The fairness of DaemonLifecycle, in the scene it is for.                  *)
MCFairness ==
  /\ WF_vars(scene = "restart" /\ Restart)
  /\ WF_vars(scene = "restart" /\ Main)
  /\ WF_vars(scene = "restart" /\ BindApi)

MCSpec == MCInit /\ [][MCNext]_mcVars /\ MCFairness

-----------------------------------------------------------------------------
(* Properties: those of the modules, each in the scene made for it; the    *)
(* remaining two are ConfigurationSound and LoginsSound.                   *)

(* Killed at any point, the service ends up serving, refused or stopped, and *)
(* it never goes on without one of its tasks.                                *)
In(P) == scene = "restart" /\ P
ServesAgain ==
  /\ \/ <>[](scene = "restart" => Serving)
     \/ []<>In(CannotServe)
     \/ []<>In(StoppedByOperator)
     \/ <>[]In(NeverStarted)
  /\ In(ended # {}) ~> In(phase = "down")


(* An install keeps the user's lines, whichever markers the user has cut     *)
(* (of .profile, the first one), and the one link they are reached by.       *)
CustomisationsKept ==
  [][ /\ scene = "prepend" => Prepend!KeepsOwnLines /\ Prepend!LinksKept
      /\ scene = "append" => Append!KeepsOwnLines ]_mcVars
=============================================================================
