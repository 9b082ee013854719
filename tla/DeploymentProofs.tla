--------------------------- MODULE DeploymentProofs ---------------------------
(***************************************************************************)
(* What the installed daemon and the logins of its user keep, for any      *)
(* settings in the configuration file, any command line and any number of  *)
(* faults, logins and installs.                                            *)
(***************************************************************************)
EXTENDS Deployment, TLAPS

-----------------------------------------------------------------------------
(* What a configuration means *)

LEMMA OverFacts ==
  ASSUME NEW f, NEW g, NEW s
  PROVE  /\ s \in DOMAIN f => s \in DOMAIN Over(f, g) /\ Over(f, g)[s] = f[s]
         /\ s \in DOMAIN g /\ s \notin DOMAIN f => s \in DOMAIN Over(f, g) /\ Over(f, g)[s] = g[s]
BY DEF Over

(* Each setting belongs to one of the tables.                               *)
LEMMA Tables ==
  /\ DOMAIN OtlpDefaults = {"otlp", "endpoint", "export_interval_ms", "timeout_ms", "otlp_tier",
                            "headers", "resource_attributes"}
  /\ DOMAIN PrometheusDefaults = {"listen_addr", "allow_non_loopback", "detail_tier"}
  /\ DOMAIN ThresholdDefaults = {"warn_rtt_ms", "critical_rtt_ms", "warn_retransmit_pct",
                                 "critical_retransmit_pct", "warn_silence_ms", "critical_silence_ms"}
  /\ DOMAIN PersistenceDefaults = {"persistence", "sample_interval_ms", "retention_days",
                                   "max_query_samples", "max_disk_mib"}
  /\ DOMAIN StreamDefaults = {"heartbeat_ms"}
  /\ DOMAIN CadenceDefaults = {"refresh_ms", "discovery_interval_ms", "cleanup_interval_ms",
                               "history_secs", "max_tracked_sessions", "max_session_detail_points"}
BY DEF OtlpDefaults, PrometheusDefaults, ThresholdDefaults, PersistenceDefaults, StreamDefaults, CadenceDefaults

(* What lies under the cadences, the streams, the persistence and the       *)
(* thresholds is still there.                                               *)
LEMMA UnderTheOthers ==
  ASSUME NEW g, NEW s \in DOMAIN g,
         s \in {"listen_addr", "allow_non_loopback", "otlp", "export_interval_ms", "headers", "resource_attributes"}
  PROVE  LET d == Over(CadenceDefaults, Over(StreamDefaults, Over(PersistenceDefaults, Over(ThresholdDefaults, g))))
         IN  s \in DOMAIN d /\ d[s] = g[s]
<1> DEFINE d2 == Over(ThresholdDefaults, g)
           d3 == Over(PersistenceDefaults, d2)
           d4 == Over(StreamDefaults, d3)
           d5 == Over(CadenceDefaults, d4)
<1>1. /\ s \notin DOMAIN ThresholdDefaults /\ s \notin DOMAIN PersistenceDefaults
      /\ s \notin DOMAIN StreamDefaults /\ s \notin DOMAIN CadenceDefaults
  BY Tables
<1>2. s \in DOMAIN d2 /\ d2[s] = g[s]
  BY <1>1, OverFacts
<1> HIDE DEF d2
<1>3. s \in DOMAIN d3 /\ d3[s] = g[s]
  BY <1>1, <1>2, OverFacts
<1> HIDE DEF d3
<1>4. s \in DOMAIN d4 /\ d4[s] = g[s]
  BY <1>1, <1>3, OverFacts
<1> HIDE DEF d4
<1>5. s \in DOMAIN d5 /\ d5[s] = g[s]
  BY <1>1, <1>4, OverFacts
<1> QED BY <1>5 DEF d5, d4, d3, d2

(* The settings that the properties are about, and their defaults.          *)
LEMMA DefaultFacts ==
  /\ {"discovery_interval_ms", "sample_interval_ms", "listen_addr", "allow_non_loopback",
      "otlp", "export_interval_ms", "headers", "resource_attributes"} \subseteq DOMAIN Default
  /\ Default["discovery_interval_ms"] = 5000 /\ Default["sample_interval_ms"] = 5000
  /\ Default["export_interval_ms"] = 15000
  /\ Default["headers"] = {} /\ Default["resource_attributes"] = {}
<1> DEFINE g == Over(PrometheusDefaults, OtlpDefaults)
           d3 == Over(PersistenceDefaults, Over(ThresholdDefaults, g))
           d4 == Over(StreamDefaults, d3)
<1>1. ASSUME NEW s \in {"otlp", "export_interval_ms", "headers", "resource_attributes"}
      PROVE  s \in DOMAIN Default /\ Default[s] = OtlpDefaults[s]
  <2>1. s \in DOMAIN OtlpDefaults /\ s \notin DOMAIN PrometheusDefaults
    BY Tables
  <2>2. s \in DOMAIN g /\ g[s] = OtlpDefaults[s]
    BY <2>1, OverFacts
  <2> HIDE DEF g
  <2>3. s \in DOMAIN Over(CadenceDefaults, d4) /\ Over(CadenceDefaults, d4)[s] = g[s]
    BY <2>2, UnderTheOthers
  <2> QED BY <2>2, <2>3 DEF Default, g
<1>2. ASSUME NEW s \in {"listen_addr", "allow_non_loopback"}
      PROVE  s \in DOMAIN Default
  <2>1. s \in DOMAIN PrometheusDefaults
    BY Tables
  <2>2. s \in DOMAIN g
    BY <2>1, OverFacts
  <2> HIDE DEF g
  <2>3. s \in DOMAIN Over(CadenceDefaults, d4)
    BY <2>2, UnderTheOthers
  <2> QED BY <2>3 DEF Default, g
<1>3. "sample_interval_ms" \in DOMAIN Default /\ Default["sample_interval_ms"] = 5000
  <2> DEFINE s == "sample_interval_ms"
  <2>1. s \in DOMAIN PersistenceDefaults /\ s \notin DOMAIN StreamDefaults /\ s \notin DOMAIN CadenceDefaults
    BY Tables
  <2>2. s \in DOMAIN d3 /\ d3[s] = PersistenceDefaults[s]
    BY <2>1, OverFacts
  <2> HIDE DEF d3
  <2>3. s \in DOMAIN d4 /\ d4[s] = PersistenceDefaults[s]
    BY <2>1, <2>2, OverFacts
  <2> HIDE DEF d4
  <2>4. s \in DOMAIN Over(CadenceDefaults, d4) /\ Over(CadenceDefaults, d4)[s] = PersistenceDefaults[s]
    BY <2>1, <2>3, OverFacts
  <2>5. Default = Over(CadenceDefaults, d4)
    BY DEF Default, d4, d3, g
  <2>6. PersistenceDefaults[s] = 5000
    BY DEF PersistenceDefaults
  <2> QED BY <2>4, <2>5, <2>6
<1>4. "discovery_interval_ms" \in DOMAIN Default /\ Default["discovery_interval_ms"] = 5000
  <2> HIDE DEF d4
  <2>1. "discovery_interval_ms" \in DOMAIN CadenceDefaults
    BY Tables
  <2>2. CadenceDefaults["discovery_interval_ms"] = 5000
    BY DEF CadenceDefaults
  <2>3. Default = Over(CadenceDefaults, d4)
    BY DEF Default, d4, d3, g
  <2> QED BY <2>1, <2>2, <2>3, OverFacts
<1>5. /\ OtlpDefaults["export_interval_ms"] = 15000
      /\ OtlpDefaults["headers"] = {} /\ OtlpDefaults["resource_attributes"] = {}
  BY DEF OtlpDefaults
<1> HIDE DEF g, d3, d4
<1>6. /\ {"otlp", "export_interval_ms", "headers", "resource_attributes"} \subseteq DOMAIN Default
      /\ Default["export_interval_ms"] = 15000
      /\ Default["headers"] = {} /\ Default["resource_attributes"] = {}
  BY <1>1, <1>5
<1> QED BY <1>2, <1>3, <1>4, <1>6

(* Every setting has its most explicit word: Parse is what LastWord says    *)
(* (MetricsConfig::deserialize).                                            *)
LEMMA ParseGivesTheLastWord ==
  ASSUME file # Absent, NEW s \in DOMAIN Default
  PROVE  Parse(file)[s] = LastWord(s) /\ DOMAIN Parse(file) = DOMAIN Default
<1> DEFINE nested == NestedGiven(file)
           flat == FlatGiven(file)
           given == DOMAIN file \cap DOMAIN Flat
<1>1. /\ DOMAIN Parse(file) = DOMAIN Default
      /\ Parse(file)[s] = CASE s \in DOMAIN nested -> nested[s]
                            [] s \notin DOMAIN nested /\ s \in DOMAIN flat -> flat[s]
                            [] s \notin DOMAIN nested \cup DOMAIN flat -> Default[s]
  BY DEF Parse
<1>2. DOMAIN nested = DOMAIN file \cap DOMAIN Default /\ (s \in DOMAIN file => nested[s] = file[s])
  BY DEF NestedGiven
<1>3. DOMAIN flat = {Flat[f] : f \in given}
  BY DEF FlatGiven
<1>4. ASSUME s \in DOMAIN flat PROVE flat[s] = file[CHOOSE f \in DOMAIN Flat : Flat[f] = s]
  <2>1. flat[s] = file[CHOOSE f \in given : Flat[f] = s]
    BY <1>3, <1>4 DEF FlatGiven
  <2>2. PICK g \in given : Flat[g] = s
    BY <1>3, <1>4
  <2>3. \A f \in DOMAIN Flat : Flat[f] = s => f = g
    <3>1. /\ DOMAIN Flat = {"flat_listen_addr", "flat_allow_non_loopback", "flat_detail_tier"}
          /\ Flat["flat_listen_addr"] = "listen_addr"
          /\ Flat["flat_allow_non_loopback"] = "allow_non_loopback"
          /\ Flat["flat_detail_tier"] = "detail_tier"
      BY DEF Flat
    <3> QED BY <2>2, <3>1
  <2>4. (CHOOSE f \in given : Flat[f] = s) = g /\ (CHOOSE f \in DOMAIN Flat : Flat[f] = s) = g
    BY <2>2, <2>3
  <2> QED BY <2>1, <2>4
<1> HIDE DEF nested, flat
<1>5. /\ s \in DOMAIN file => LastWord(s) = file[s]
      /\ s \notin DOMAIN file /\ s \in {Flat[f] : f \in given} =>
           LastWord(s) = file[CHOOSE f \in DOMAIN Flat : Flat[f] = s]
      /\ s \notin DOMAIN file /\ s \notin {Flat[f] : f \in given} => LastWord(s) = Default[s]
  BY DEF LastWord, GivenFlat
<1> HIDE DEF given
<1>6. CASE s \in DOMAIN file
  BY <1>1, <1>2, <1>5, <1>6
<1>7. CASE s \notin DOMAIN file /\ s \in DOMAIN flat
  BY <1>1, <1>2, <1>3, <1>4, <1>5, <1>7
<1>8. CASE s \notin DOMAIN file /\ s \notin DOMAIN flat
  BY <1>1, <1>2, <1>3, <1>5, <1>8
<1> QED BY <1>6, <1>7, <1>8

LEMMA AboveZero ==
  ASSUME NEW least \in Nat \ {0}, NEW value \in least..Unlimited
  PROVE  value > 0
BY SMT DEF Unlimited

(* What load_config returns: every setting has its last word, and nothing   *)
(* that a loop cannot run with was accepted.                                *)
LEMMA FileIsSound ==
  ASSUME NEW c \in FromFile
  PROVE  /\ DOMAIN c = DOMAIN Default
         /\ c["listen_addr"] = LastWord("listen_addr")
         /\ c["allow_non_loopback"] = LastWord("allow_non_loopback")
         /\ c["discovery_interval_ms"] > 0 /\ c["sample_interval_ms"] > 0
         /\ c["otlp"] => c["export_interval_ms"] > 0
         /\ c["headers"] \cap {"blank name", "bad name", "bad value"} = {}
         /\ \A a \in c["resource_attributes"] : ~ReservedAttribute(a)
<1>1. CASE file = Absent
  <2>1. c = Default
    BY <1>1 DEF FromFile
  <2>2. \A s : LastWord(s) = Default[s]
    BY <1>1 DEF LastWord
  <2> QED BY <2>1, <2>2, DefaultFacts
<1>2. CASE file # Absent
  <2>1. c = Parse(file) /\ Validate(c)
    BY <1>2 DEF FromFile
  <2>2. /\ c["listen_addr"] = LastWord("listen_addr")
        /\ c["allow_non_loopback"] = LastWord("allow_non_loopback")
        /\ DOMAIN c = DOMAIN Default
    BY <1>2, <2>1, ParseGivesTheLastWord, DefaultFacts
  <2>3. c["discovery_interval_ms"] > 0
    <3>1. c["discovery_interval_ms"] \in 500..Unlimited
      BY <2>1 DEF Validate, ValidCadences, Limits
    <3> QED BY <3>1, AboveZero
  <2>4. c["sample_interval_ms"] > 0
    <3>1. c["sample_interval_ms"] \in 1000..Unlimited
      BY <2>1 DEF Validate, ValidPersistence, Limits
    <3> QED BY <3>1, AboveZero
  <2>5. c["otlp"] => c["export_interval_ms"] > 0
    BY <2>1 DEF Validate, ValidOtlp
  <2>6. c["headers"] \subseteq {"fine"}
    BY <2>1 DEF Validate, ValidHeaders
  <2>7. \A a \in c["resource_attributes"] : ~ReservedAttribute(a)
    BY <2>1 DEF Validate, ValidAttributes
  <2>8. c["headers"] \cap {"blank name", "bad name", "bad value"} = {}
    <3>1. \A h \in c["headers"] : h = "fine"
      BY <2>6
    <3> QED BY <3>1
  <2> QED BY <2>2, <2>3, <2>4, <2>5, <2>7, <2>8
<1> QED BY <1>1, <1>2

LEMMA OtherSettings ==
  ASSUME NEW f, NEW listen, NEW allow, NEW s \in DOMAIN f \ {"listen_addr", "allow_non_loopback"}
  PROVE  [f EXCEPT !.listen_addr = listen, !.allow_non_loopback = allow][s] = f[s]
OBVIOUS

(* What main goes on with: the command line reaches the listener and the    *)
(* opt-in and nothing else.                                                 *)
LEMMA LoadedIsSound ==
  ASSUME NEW c \in Loaded
  PROVE  /\ NotLoopback(c.listen_addr) => LastWord("allow_non_loopback") \/ args.allow_public_metrics
         /\ c.listen_addr = IF args.metrics_listen # NoListener THEN args.metrics_listen
                            ELSE LastWord("listen_addr")
         /\ \A t \in TasksOf(c) \ {"metrics"} : Runs(c, t)
<1>1. PICK f \in FromFile : c = Override(f, args) /\ EnforcePolicy(c)
  BY DEF Loaded
<1>2. /\ DOMAIN f = DOMAIN Default
      /\ f["listen_addr"] = LastWord("listen_addr")
      /\ f["allow_non_loopback"] = LastWord("allow_non_loopback")
      /\ f["discovery_interval_ms"] > 0 /\ f["sample_interval_ms"] > 0
      /\ f["otlp"] => f["export_interval_ms"] > 0
      /\ f["headers"] \cap {"blank name", "bad name", "bad value"} = {}
      /\ \A a \in f["resource_attributes"] : ~ReservedAttribute(a)
  BY FileIsSound
<1>3. /\ c["listen_addr"] = IF args.metrics_listen = NoListener THEN f["listen_addr"] ELSE args.metrics_listen
      /\ c["allow_non_loopback"] = (f["allow_non_loopback"] \/ args.allow_public_metrics)
      /\ c["discovery_interval_ms"] = f["discovery_interval_ms"]
      /\ c["sample_interval_ms"] = f["sample_interval_ms"]
      /\ c["otlp"] = f["otlp"] /\ c["export_interval_ms"] = f["export_interval_ms"]
      /\ c["headers"] = f["headers"] /\ c["resource_attributes"] = f["resource_attributes"]
  <2> DEFINE listen == IF args.metrics_listen = NoListener THEN f["listen_addr"] ELSE args.metrics_listen
             allow == f["allow_non_loopback"] \/ args.allow_public_metrics
  <2>1. c = [f EXCEPT !.listen_addr = listen, !.allow_non_loopback = allow]
    BY <1>1 DEF Override
  <2> HIDE DEF listen, allow
  <2>2. {"listen_addr", "allow_non_loopback", "discovery_interval_ms", "sample_interval_ms", "otlp",
         "export_interval_ms", "headers", "resource_attributes"} \subseteq DOMAIN f
    <3>1. DOMAIN f = DOMAIN Default
      BY <1>2
    <3> QED BY <3>1, DefaultFacts
  <2>3. c["listen_addr"] = listen
    BY <2>1, <2>2
  <2>4. c["allow_non_loopback"] = allow
    BY <2>1, <2>2
  <2>5. ASSUME NEW s \in {"discovery_interval_ms", "sample_interval_ms", "otlp", "export_interval_ms",
                          "headers", "resource_attributes"}
        PROVE  c[s] = f[s]
    <3>1. s \in DOMAIN f \ {"listen_addr", "allow_non_loopback"}
      BY <2>2, <2>5
    <3> QED BY <2>1, <3>1, OtherSettings
  <2> QED BY <2>3, <2>4, <2>5 DEF listen, allow
<1>4. c.listen_addr = IF args.metrics_listen # NoListener THEN args.metrics_listen
                      ELSE LastWord("listen_addr")
  BY <1>2, <1>3
<1>5. NotLoopback(c.listen_addr) => LastWord("allow_non_loopback") \/ args.allow_public_metrics
  <2>1. NotLoopback(c.listen_addr) => c["allow_non_loopback"]
    BY <1>1 DEF EnforcePolicy
  <2> QED BY <1>2, <1>3, <2>1
<1>6. ASSUME NEW t \in TasksOf(c) \ {"metrics"} PROVE Runs(c, t)
  <2>1. c["discovery_interval_ms"] > 0 /\ c["sample_interval_ms"] > 0
    BY <1>2, <1>3
  <2>2. CASE t = "otlp"
    <3>1. c["otlp"]
      BY <2>2 DEF TasksOf
    <3>2. /\ c["export_interval_ms"] > 0
          /\ c["headers"] \cap {"blank name", "bad name", "bad value"} = {}
          /\ \A a \in c["resource_attributes"] : ~ReservedAttribute(a)
      BY <1>2, <1>3, <3>1
    <3> QED BY <2>2, <3>2 DEF Runs
  <2>3. CASE t # "otlp"
    BY <2>1, <2>3, <1>6 DEF Runs
  <2> QED BY <2>2, <2>3
<1> QED BY <1>4, <1>5, <1>6

-----------------------------------------------------------------------------
(* The configuration in use                                                 *)

InUse == {"clearing", "binding", "serving", "stopping", "exiting"}

(* From Load on the configuration is one that the file and the command line *)
(* give, and both stay as they are for as long as it is in use.             *)
ConfigurationInUse ==
  /\ phase \in InUse => config \in Loaded
  /\ phase = "serving" => tasks = TasksOf(config)

LEMMA LoadedStays ==
  ASSUME file' = file, args' = args
  PROVE  Loaded' = Loaded
BY DEF Loaded, FromFile

LEMMA ConfigurationStep ==
  ConfigurationInUse /\ [Next]_vars => ConfigurationInUse'
<1> SUFFICES ASSUME ConfigurationInUse, [Next]_vars
             PROVE  ConfigurationInUse'
  OBVIOUS
<1> USE DEF ConfigurationInUse, InUse
<1>1. CASE Edit
  BY <1>1 DEF Edit
<1>2. CASE Start
  BY <1>2 DEF Start
<1>3. CASE CreateConfig
  BY <1>3 DEF CreateConfig
<1>4. CASE WriteConfig
  BY <1>4 DEF WriteConfig
<1>5. CASE Load
  <2>1. Loaded' = Loaded
    BY <1>5, LoadedStays DEF Load
  <2> QED BY <1>5, <2>1 DEF Load, Leave
<1>6. ASSUME UNCHANGED <<file, args, config>>,
             phase' \in InUse => phase \in InUse,
             phase' = "serving" => tasks' = TasksOf(config)
      PROVE  ConfigurationInUse'
  <2>1. Loaded' = Loaded
    BY <1>6, LoadedStays
  <2>2. config' = config
    BY <1>6
  <2>3. TasksOf(config)' = TasksOf(config)
    BY <2>2 DEF TasksOf
  <2> QED BY <1>6, <2>1, <2>2, <2>3
<1>7. CASE RemoveStaleSockets
  BY <1>6, <1>7 DEF RemoveStaleSockets
<1>8. CASE BindTelemetry
  BY <1>6, <1>8 DEF BindTelemetry, Leave
<1>9. CASE BindApi
  BY <1>6, <1>9 DEF BindApi
<1>10. ASSUME NEW t \in Tasks, TaskEnds(t)
       PROVE  ConfigurationInUse'
  BY <1>6, <1>10 DEF TaskEnds
<1>11. CASE NoticeTask
  BY <1>6, <1>11 DEF NoticeTask
<1>12. CASE Signal
  BY <1>6, <1>12 DEF Signal, Leave
<1>13. CASE RemoveSockets
  BY <1>6, <1>13 DEF RemoveSockets
<1>14. CASE Exit
  BY <1>6, <1>14 DEF Exit, Leave
<1>15. CASE Killed
  BY <1>6, <1>15 DEF Killed, Leave
<1>16. CASE UNCHANGED vars
  BY <1>6, <1>16 DEF vars
<1> QED BY <1>1, <1>2, <1>3, <1>4, <1>5, <1>7, <1>8, <1>9, <1>10, <1>11, <1>12, <1>13, <1>14, <1>15, <1>16
        DEF Next

(* Whatever the file, the command line and the faults, a daemon that serves *)
(* listens where it was told to, in public only with an opt-in, and no loop *)
(* of it ends because of a setting that was accepted (main, load_config,    *)
(* enforce_metrics_listener_policy).                                        *)
THEOREM ConfigurationHolds == Spec => []ConfigurationSound
<1>1. Init => ConfigurationInUse
  BY DEF Init, ConfigurationInUse, InUse
<1>2. ConfigurationInUse => ConfigurationSound
  <2> SUFFICES ASSUME ConfigurationInUse PROVE ConfigurationSound
    OBVIOUS
  <2>1. CASE phase = "serving"
    <3>1. config \in Loaded /\ tasks = TasksOf(config)
      BY <2>1 DEF ConfigurationInUse, InUse
    <3> QED BY <3>1, LoadedIsSound
            DEF ConfigurationSound, PublicOnlyByOptIn, ListensWhereAsked, ConfigurationEndsNoLoop
  <2>2. CASE phase # "serving"
    BY <2>2 DEF ConfigurationSound, PublicOnlyByOptIn, ListensWhereAsked, ConfigurationEndsNoLoop
  <2> QED BY <2>1, <2>2
<1> QED BY <1>1, <1>2, ConfigurationStep, PTL DEF Spec

-----------------------------------------------------------------------------
(* Logins                                                                   *)

(* An executable server is a whole one: the copy has a file of its own, and *)
(* the rename takes the permission away before MakeExecutable gives it.     *)
ServerSound ==
  /\ server.exec \in BOOLEAN
  /\ server.exec => server.content = "whole"
  /\ installer = "make_executable" => server.content = "whole"

(* A login that no step of the installer disturbs execs what it found       *)
(* executable.                                                              *)
LoginSound(l) ==
  /\ login[l] # "crashed"
  /\ login[l] = "executing" /\ quiet[l] => server.exec
  /\ login[l] = "none" => ~quiet[l]

(* The environments are those of the installation for good.                 *)
Environments ==
  /\ \A l \in Logins : xdg[l] \in LoginXdg
  /\ xdg["service"] \in ServiceXdg
  /\ xdg["service"] = "/run/user/u" => runUser

LoginsInv ==
  /\ server = [content |-> server.content, exec |-> server.exec]
  /\ login = [l \in Logins |-> login[l]] /\ quiet = [l \in Logins |-> quiet[l]]
  /\ ServerSound /\ Environments
  /\ \A l \in Logins : LoginSound(l)

LEMMA LoginsStart == Login!Init => LoginsInv
<1> SUFFICES ASSUME Login!Init PROVE LoginsInv
  OBVIOUS
<1>1. /\ server = [content |-> "none", exec |-> FALSE] /\ installer = "idle"
      /\ login = [l \in Logins |-> "away"] /\ quiet = [l \in Logins |-> FALSE]
      /\ xdg["service"] \in ServiceXdg /\ \A l \in Logins : xdg[l] \in LoginXdg
      /\ xdg["service"] = "/run/user/u" => runUser
  BY DEF Login!Init
<1>2. ServerSound /\ Environments
  BY <1>1 DEF ServerSound, Environments
<1>3. \A l \in Logins : LoginSound(l)
  BY <1>1 DEF LoginSound
<1> QED BY <1>1, <1>2, <1>3 DEF LoginsInv

(* A step of the installer disturbs every login and changes none.           *)
LEMMA InstallerStep ==
  ASSUME LoginsInv, Login!Disturb, UNCHANGED <<login, xdg, runUser>>, ServerSound',
         server' = [content |-> server'.content, exec |-> server'.exec]
  PROVE  LoginsInv'
<1>1. /\ login = [l \in Logins |-> login[l]] /\ login' = login
      /\ quiet' = [l \in Logins |-> FALSE] /\ xdg' = xdg /\ runUser' = runUser
  BY DEF LoginsInv, Login!Disturb
<1>2. \A l \in Logins : LoginSound(l)'
  BY <1>1 DEF LoginsInv, LoginSound
<1>3. Environments'
  BY <1>1 DEF LoginsInv, Environments
<1>4. quiet' = [l \in Logins |-> quiet'[l]]
  BY <1>1
<1> QED BY <1>1, <1>2, <1>3, <1>4 DEF LoginsInv

(* A step of one login changes nothing of the others.                       *)
LEMMA LoginStep ==
  ASSUME LoginsInv, NEW l \in Logins, UNCHANGED <<server, installer, xdg, runUser>>,
         NEW outcome, NEW undisturbed,
         login' = [login EXCEPT ![l] = outcome],
         quiet' = [quiet EXCEPT ![l] = undisturbed],
         outcome # "crashed",
         outcome = "executing" /\ undisturbed => server.exec,
         outcome = "none" => ~undisturbed
  PROVE  LoginsInv'
<1>1. /\ login = [k \in Logins |-> login[k]] /\ quiet = [k \in Logins |-> quiet[k]]
      /\ server' = server
  BY DEF LoginsInv
<1>2. ASSUME NEW k \in Logins PROVE LoginSound(k)'
  <2>1. CASE k = l
    <3>1. login'[k] = outcome /\ quiet'[k] = undisturbed
      BY <1>1, <2>1
    <3> QED BY <1>1, <3>1 DEF LoginSound
  <2>2. CASE k # l
    <3>1. login'[k] = login[k] /\ quiet'[k] = quiet[k]
      BY <1>1, <2>2
    <3> QED BY <1>1, <3>1 DEF LoginsInv, LoginSound
  <2> QED BY <2>1, <2>2
<1>3. ServerSound' /\ Environments'
  BY DEF LoginsInv, ServerSound, Environments
<1>4. login' = [k \in Logins |-> login'[k]] /\ quiet' = [k \in Logins |-> quiet'[k]]
  BY <1>1
<1> QED BY <1>1, <1>2, <1>3, <1>4 DEF LoginsInv

LEMMA LoginsStep == LoginsInv /\ [Login!Next]_loginVars => LoginsInv'
<1> SUFFICES ASSUME LoginsInv, [Login!Next]_loginVars
             PROVE  LoginsInv'
  OBVIOUS
<1>1. CASE Login!BeginInstall
  <2>1. ServerSound' /\ server' = server
    BY <1>1 DEF Login!BeginInstall, LoginsInv, ServerSound
  <2> QED BY <1>1, <2>1, InstallerStep DEF Login!BeginInstall, LoginsInv
<1>2. CASE Login!CopyToTemporary
  <2>1. ServerSound' /\ server' = server
    BY <1>2 DEF Login!CopyToTemporary, LoginsInv, ServerSound
  <2> QED BY <1>2, <2>1, InstallerStep DEF Login!CopyToTemporary, LoginsInv
<1>3. CASE Login!Persist
  <2>1. ServerSound' /\ server' = [content |-> server'.content, exec |-> server'.exec]
    BY <1>3 DEF Login!Persist, ServerSound
  <2> QED BY <1>3, <2>1, InstallerStep DEF Login!Persist
<1>4. CASE Login!MakeExecutable
  <2>1. ServerSound' /\ server' = [content |-> server'.content, exec |-> server'.exec]
    BY <1>4 DEF Login!MakeExecutable, LoginsInv, ServerSound
  <2> QED BY <1>4, <2>1, InstallerStep DEF Login!MakeExecutable
<1>5. CASE Login!InstallWrapper
  <2>1. ServerSound' /\ server' = server
    BY <1>5 DEF Login!InstallWrapper, LoginsInv, ServerSound
  <2> QED BY <1>5, <2>1, InstallerStep DEF Login!InstallWrapper, LoginsInv
<1>6. CASE Login!InstallerDies
  <2>1. ServerSound' /\ server' = server
    BY <1>6 DEF Login!InstallerDies, LoginsInv, ServerSound
  <2> QED BY <1>6, <2>1, InstallerStep DEF Login!InstallerDies, LoginsInv
<1>7. ASSUME NEW l \in Logins, Login!Connect(l)
      PROVE  LoginsInv'
  <2> DEFINE outcome == IF wrapper THEN "checking" ELSE "stock"
  <2>1. outcome \notin {"crashed", "executing", "none"}
    OBVIOUS
  <2>2. /\ login' = [login EXCEPT ![l] = outcome] /\ quiet' = [quiet EXCEPT ![l] = TRUE]
        /\ UNCHANGED <<server, installer, xdg, runUser>>
    BY <1>7 DEF Login!Connect
  <2> HIDE DEF outcome
  <2> QED BY <2>1, <2>2, LoginStep
<1>8. ASSUME NEW l \in Logins, Login!CheckExecutable(l)
      PROVE  LoginsInv'
  <2> DEFINE outcome == IF server.exec THEN "executing" ELSE "stock"
  <2>1. outcome \notin {"crashed", "none"} /\ (outcome = "executing" => server.exec)
    OBVIOUS
  <2>2. /\ login' = [login EXCEPT ![l] = outcome] /\ quiet' = [quiet EXCEPT ![l] = quiet[l]]
        /\ UNCHANGED <<server, installer, xdg, runUser>>
    BY <1>8 DEF Login!CheckExecutable, LoginsInv
  <2> HIDE DEF outcome
  <2> QED BY <2>1, <2>2, LoginStep
<1>9. ASSUME NEW l \in Logins, Login!Exec(l)
      PROVE  LoginsInv'
  <2>1. /\ server.exec \in BOOLEAN /\ (server.exec => server.content = "whole")
        /\ login[l] = "executing" /\ (quiet[l] => server.exec)
        /\ quiet = [k \in Logins |-> quiet[k]]
    BY <1>9 DEF Login!Exec, LoginsInv, ServerSound, LoginSound
  <2>2. quiet' = [quiet EXCEPT ![l] = quiet[l]] /\ UNCHANGED <<server, installer, xdg, runUser>>
    BY <1>9, <2>1 DEF Login!Exec
  <2>3. CASE server.exec
    <3>1. login' = [login EXCEPT ![l] = "instrumented"]
      BY <1>9, <2>1, <2>3 DEF Login!Exec
    <3> QED BY <2>2, <3>1, LoginStep
  <2>4. CASE ~server.exec
    <3>1. login' = [login EXCEPT ![l] = "none"]
      BY <1>9, <2>1, <2>4 DEF Login!Exec
    <3> QED BY <2>1, <2>2, <2>4, <3>1, LoginStep
  <2> QED BY <2>3, <2>4
<1>10. CASE UNCHANGED loginVars
  BY <1>10 DEF loginVars, LoginsInv, ServerSound, Environments, LoginSound
<1> QED BY <1>1, <1>2, <1>3, <1>4, <1>5, <1>6, <1>7, <1>8, <1>9, <1>10 DEF Login!Next

(* Whatever the installer does and wherever it dies, no login runs a server *)
(* that is still being copied, one it does not disturb gets a server, and   *)
(* an instrumented one works out the directory of the daemon's socket, set  *)
(* XDG_RUNTIME_DIR or not (mosh-server-wrapper.sh, RuntimePaths::discover). *)
THEOREM LoginsHold == Login!Spec => []LoginsSound
<1>1. Login!Spec <=> Login!Init /\ [][Login!Next]_loginVars
  BY DEF Login!Spec, Login!vars, loginVars
<1>2. LoginsInv => LoginsSound
  <2> SUFFICES ASSUME LoginsInv PROVE LoginsSound
    OBVIOUS
  <2>1. Login!NoTornServer /\ Login!FailsOpen
    BY DEF LoginsInv, LoginSound, Login!NoTornServer, Login!FailsOpen
  <2>2. ASSUME NEW l \in Logins
        PROVE  Login!WrapperDir(xdg[l]) = Login!DaemonDir(xdg["service"])
    <3>1. /\ xdg["service"] = "/run/user/u" /\ runUser
          /\ xdg[l] \in {"unset", "", "/run/user/u"}
      BY DeploymentAssumption DEF LoginsInv, Environments
    <3>2. Login!DaemonDir(xdg["service"]) = <<"/run/user/u", "moshwatch">>
      BY <3>1 DEF Login!DaemonDir
    <3>3. Login!WrapperDir(xdg[l]) = <<"/run/user/u", "moshwatch">>
      BY <3>1 DEF Login!WrapperDir
    <3> QED BY <3>2, <3>3
  <2> QED BY <2>1, <2>2 DEF LoginsSound, Login!SessionsReachTheDaemon
<1> QED BY <1>1, <1>2, LoginsStart, LoginsStep, PTL
=============================================================================
