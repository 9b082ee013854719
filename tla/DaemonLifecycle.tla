--------------------------- MODULE DaemonLifecycle ---------------------------
(***************************************************************************)
(* One installed daemon from start to exit (moshwatchd/src/main.rs): the   *)
(* configuration file and the socket files it leaves behind, its tasks,    *)
(* signals, kills at any point, and the service manager that starts it     *)
(* again after a failure (Restart=on-failure).                             *)
(***************************************************************************)
EXTENDS AppConfig

CONSTANTS Changeable,   \* the settings an operator changes
          MaxGiven,     \* bound: settings a file gives
          ArgChoices,   \* command lines
          MaxFaults     \* bound: kills, panics of tasks and failures of the host

SocketFiles == {"api", "telemetry"}
Absent == [absent |-> TRUE]
EmptyFile == [s \in {} |-> TRUE]
\* The default file gives every setting of the nested layout.
DefaultFile == Default
VARIABLES
  file,      \* the configuration file: Absent or the settings it gives
  args,      \* the command line of the service
  phase,     \* how far main is, "down" when there is no process
  status,    \* how the last process ended: "never", "clean", "failed", "killed"
  config,    \* the configuration in use
  tasks,     \* the tasks select! waits for
  ended,     \* the tasks that ended
  sockets,   \* per socket file: "none", "stale" or "live"
  faults     \* bound: faults so far

vars == <<file, args, phase, status, config, tasks, ended, sockets, faults>>

Tasks == {"discovery", "telemetry", "api", "history", "metrics", "metrics_token", "otlp", "snapshot"}

Init ==
  /\ file = Absent /\ args \in ArgChoices
  /\ phase = "down" /\ status = "never" /\ config = Default
  /\ tasks = {} /\ ended = {} /\ faults = 0
  /\ sockets \in [SocketFiles -> {"none", "stale"}]

-----------------------------------------------------------------------------
\* A process that is gone answers on none of its sockets.
Gone == [s \in SocketFiles |-> IF sockets[s] = "live" THEN "stale" ELSE sockets[s]]
\* The end of main, at a "?" or after the aborts.
Leave(how) ==
  /\ phase' = "down" /\ status' = how
  /\ tasks' = {} /\ ended' = {} /\ sockets' = Gone

\* The operator writes the file or adds to it while the daemon is down.
Edit ==
  /\ phase = "down"
  /\ \E s \in Changeable : \E v \in SettingValues(s) :
       LET given == IF file = Absent THEN EmptyFile ELSE file
       IN /\ s \notin DOMAIN given /\ Cardinality(DOMAIN given) < MaxGiven
          /\ file' = Over([new \in {s} |-> v], given)
  /\ UNCHANGED <<args, phase, status, config, tasks, ended, sockets, faults>>

Start ==
  /\ phase = "down"
  /\ phase' = IF file = Absent /\ ~args.no_write_config THEN "creating" ELSE "loading"
  /\ UNCHANGED <<file, args, status, config, tasks, ended, sockets, faults>>

\* maybe_write_default_config: the file is created, then written.
CreateConfig ==
  /\ phase = "creating"
  /\ file' = EmptyFile /\ phase' = "writing"
  /\ UNCHANGED <<args, status, config, tasks, ended, sockets, faults>>
WriteConfig ==
  /\ phase = "writing"
  /\ file' = DefaultFile /\ phase' = "loading"
  /\ UNCHANGED <<args, status, config, tasks, ended, sockets, faults>>

\* load_config: what the file means, and nothing if that is not accepted.
FromFile == IF file = Absent THEN {Default} ELSE {c \in {Parse(file)} : Validate(c)}

\* Error: the listener policy is checked on the file, before the command line.
LoadedPolicyFirst == {Override(c, args) : c \in {f \in FromFile : EnforcePolicy(f)}}

\* The command line on top, and the policy; nothing if that refuses.
Loaded == {c \in {Override(f, args) : f \in FromFile} : EnforcePolicy(c)}

Load ==
  /\ phase = "loading"
  /\ UNCHANGED <<file, args, faults>>
  /\ \/ Loaded = {} /\ Leave("failed") /\ UNCHANGED config
     \/ /\ config' \in Loaded /\ phase' = "clearing"
        /\ UNCHANGED <<status, tasks, ended, sockets>>

\* Error: the sockets of an earlier process are left where they are.
ClearNothing ==
  /\ phase = "clearing"
  /\ phase' = "binding"
  /\ UNCHANGED <<file, args, status, config, tasks, ended, sockets, faults>>

RemoveStaleSockets ==
  /\ phase = "clearing"
  /\ sockets' = [s \in SocketFiles |-> "none"] /\ phase' = "binding"
  /\ UNCHANGED <<file, args, status, config, tasks, ended, faults>>

TasksOf(c) ==
  {"discovery", "telemetry", "api", "snapshot"}
    \cup (IF c.persistence THEN {"history"} ELSE {})
    \cup (IF c.listen_addr # NoListener THEN {"metrics", "metrics_token"} ELSE {})
    \cup (IF c.otlp THEN {"otlp"} ELSE {})

\* The telemetry socket is bound by main itself: a file in the way is an error.
BindTelemetry ==
  /\ phase = "binding"
  /\ UNCHANGED <<file, args, config, faults>>
  /\ IF sockets["telemetry"] # "none"
     THEN Leave("failed")
     ELSE /\ sockets' = [sockets EXCEPT !["telemetry"] = "live"]
          /\ tasks' = TasksOf(config) /\ phase' = "serving"
          /\ UNCHANGED <<status, ended>>

\* The api task removes what is there and binds.  An abort does not stop a
\* task in the middle of a step, so it may still bind while main exits.
BindApi ==
  /\ phase \in {"serving", "stopping", "exiting"}
  /\ "api" \in tasks \ ended /\ sockets["api"] # "live"
  /\ sockets' = [sockets EXCEPT !["api"] = "live"]
  /\ UNCHANGED <<file, args, phase, status, config, tasks, ended, faults>>

\* What a task needs of the configuration: tokio's interval takes no zero, and
\* the exporter gives up on headers or attributes it cannot send.
Runs(c, t) ==
  CASE t = "discovery" -> c.discovery_interval_ms > 0
    [] t = "history" -> c.sample_interval_ms > 0
    [] t = "otlp" -> /\ c.export_interval_ms > 0
                     /\ c.headers \cap {"blank name", "bad name", "bad value"} = {}
                     /\ \A a \in c.resource_attributes : ~ReservedAttribute(a)
    [] t = "metrics" -> Bindable(c.listen_addr)
    [] OTHER -> TRUE

TaskEnds(t) ==
  /\ phase = "serving" /\ t \in tasks \ ended
  /\ \/ ~Runs(config, t) /\ UNCHANGED faults
     \/ faults < MaxFaults /\ faults' = faults + 1   \* accept or bind fails, or the task panics
  /\ ended' = ended \cup {t}
  /\ UNCHANGED <<file, args, phase, status, config, tasks, sockets>>

\* Error: main waits for the core tasks only.
NoticeCoreTasks ==
  /\ phase = "serving" /\ ended \cap {"discovery", "telemetry", "api", "snapshot"} # {}
  /\ phase' = "stopping" /\ status' = "failed"
  /\ UNCHANGED <<file, args, config, tasks, ended, sockets, faults>>

\* select!: the end of any task, and of none that was not started, stops main.
NoticeTask ==
  /\ phase = "serving" /\ ended # {}
  /\ phase' = "stopping" /\ status' = "failed"
  /\ UNCHANGED <<file, args, config, tasks, ended, sockets, faults>>

\* SIGINT or SIGTERM; before the handlers are there the process just ends.
Signal ==
  /\ phase \notin {"down", "stopping", "exiting"}
  /\ UNCHANGED <<file, args, config, faults>>
  /\ IF phase = "serving"
     THEN phase' = "stopping" /\ status' = "clean" /\ UNCHANGED <<tasks, ended, sockets>>
     ELSE Leave("clean")

RemoveSockets ==
  /\ phase = "stopping"
  /\ sockets' = [s \in SocketFiles |-> "none"] /\ phase' = "exiting"
  /\ UNCHANGED <<file, args, status, config, tasks, ended, faults>>

Exit == phase = "exiting" /\ Leave(status) /\ UNCHANGED <<file, args, config, faults>>

\* Killed, or out of memory, disk or descriptors, at any point.
Killed ==
  /\ phase # "down" /\ faults < MaxFaults
  /\ faults' = faults + 1
  /\ \E how \in {"failed", "killed"} : Leave(how)
  /\ UNCHANGED <<file, args, config>>

Next ==
  \/ Edit \/ Start \/ CreateConfig \/ WriteConfig \/ Load \/ RemoveStaleSockets \/ BindTelemetry
  \/ BindApi \/ (\E t \in Tasks : TaskEnds(t)) \/ NoticeTask
  \/ Signal \/ RemoveSockets \/ Exit \/ Killed

Spec == Init /\ [][Next]_vars

\* The process runs; the service manager starts it again after a failure and
\* leaves it alone after a clean end.
Restart == status \in {"failed", "killed"} /\ Start
Main ==
  \/ CreateConfig \/ WriteConfig \/ Load \/ RemoveStaleSockets \/ BindTelemetry
  \/ NoticeTask \/ RemoveSockets \/ Exit
FairSpec == Spec /\ WF_vars(Restart) /\ WF_vars(Main) /\ WF_vars(BindApi)

-----------------------------------------------------------------------------
\* What the operator asked for, setting by setting: the nested word, else the
\* legacy one, else the default.
GivenFlat == {Flat[f] : f \in DOMAIN file \cap DOMAIN Flat}
LastWord(s) ==
  IF file = Absent THEN Default[s]
  ELSE IF s \in DOMAIN file THEN file[s]
  ELSE IF s \in GivenFlat THEN file[CHOOSE f \in DOMAIN Flat : Flat[f] = s]
  ELSE Default[s]

\* No loop of a configuration that was accepted ends because of it, except the
\* TCP listener, whose address nobody checks before it is bound.
ConfigurationEndsNoLoop ==
  phase = "serving" => \A t \in tasks \ {"metrics"} : Runs(config, t)

\* Metrics leave the loopback only with an opt-in, whichever layer of the
\* configuration, legacy table, nested table or command line, gave the address.
PublicOnlyByOptIn ==
  phase = "serving" /\ NotLoopback(config.listen_addr) =>
    LastWord("allow_non_loopback") \/ args.allow_public_metrics

\* The listener is where the most explicit layer puts it, or off if it says so.
ListensWhereAsked ==
  phase = "serving" =>
    config.listen_addr = IF args.metrics_listen # NoListener THEN args.metrics_listen
                         ELSE LastWord("listen_addr")

\* A running daemon does what its configuration says, and no more: it listens
\* where that puts it, in public only with an opt-in, and runs every loop.
ConfigurationSound == PublicOnlyByOptIn /\ ListensWhereAsked /\ ConfigurationEndsNoLoop

\* Where a service may end up: serving on both sockets, refused for its
\* configuration or for an address it cannot bind, or stopped by the operator.
Serving == phase = "serving" /\ \A s \in SocketFiles : sockets[s] = "live"
CannotServe == phase = "down" /\ \A c \in Loaded : \E t \in TasksOf(c) : ~Runs(c, t)
StoppedByOperator == phase = "down" /\ status = "clean"
NeverStarted == phase = "down" /\ status = "never"
=============================================================================
