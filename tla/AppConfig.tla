------------------------------ MODULE AppConfig ------------------------------
(***************************************************************************)
(* The configuration of the daemon (moshwatch-core/src/config.rs): what a  *)
(* file that gives some settings means, which meanings are accepted, and   *)
(* what the command line changes afterwards.                               *)
(*                                                                         *)
(* A file is a function from the settings it gives to their values; "flat" *)
(* names the settings of the legacy [metrics] table.  Disk sizes are in    *)
(* MiB; NotFinite stands for a percentage that is negative, infinite or no *)
(* number.                                                                 *)
(***************************************************************************)
EXTENDS Integers, FiniteSets

NotFinite == -1
Unlimited == 1000000
NoListener == "none"

\* AppConfig::validate, the constants: the least and the greatest value.
Limits ==
  [ refresh_ms |-> <<100, Unlimited>>, discovery_interval_ms |-> <<500, Unlimited>>,
    cleanup_interval_ms |-> <<1000, Unlimited>>, history_secs |-> <<1, 86400>>,
    max_tracked_sessions |-> <<1, 10000>>, max_session_detail_points |-> <<1, 20000>>,
    heartbeat_ms |-> <<1, Unlimited>>, sample_interval_ms |-> <<1000, Unlimited>>,
    retention_days |-> <<1, 366>>, max_query_samples |-> <<1, 20000>>, max_disk_mib |-> <<1, 65536>> ]

CadenceDefaults ==
  [ refresh_ms |-> 1000, discovery_interval_ms |-> 5000, cleanup_interval_ms |-> 10000,
    history_secs |-> 900, max_tracked_sessions |-> 2048, max_session_detail_points |-> 900 ]
StreamDefaults == [heartbeat_ms |-> 15000]
PersistenceDefaults ==
  [ persistence |-> TRUE, sample_interval_ms |-> 5000, retention_days |-> 14,
    max_query_samples |-> 4096, max_disk_mib |-> 512 ]
ThresholdDefaults ==
  [ warn_rtt_ms |-> 400, critical_rtt_ms |-> 1000, warn_retransmit_pct |-> 2, critical_retransmit_pct |-> 10,
    warn_silence_ms |-> 5000, critical_silence_ms |-> 15000 ]
PrometheusDefaults ==
  [listen_addr |-> "127.0.0.1:9947", allow_non_loopback |-> FALSE, detail_tier |-> "per_session"]
OtlpDefaults ==
  [ otlp |-> FALSE, endpoint |-> "http://127.0.0.1:4318/v1/metrics", export_interval_ms |-> 15000,
    timeout_ms |-> 5000, otlp_tier |-> "aggregate_only", headers |-> {}, resource_attributes |-> {} ]

\* What f gives, and g where f gives nothing.
Over(f, g) == [s \in DOMAIN f \cup DOMAIN g |-> IF s \in DOMAIN f THEN f[s] ELSE g[s]]

Default ==
  Over(CadenceDefaults, Over(StreamDefaults, Over(PersistenceDefaults,
    Over(ThresholdDefaults, Over(PrometheusDefaults, OtlpDefaults)))))

\* The legacy settings and the nested ones they stand for.
Flat == [flat_listen_addr |-> "listen_addr", flat_allow_non_loopback |-> "allow_non_loopback",
         flat_detail_tier |-> "detail_tier"]
Settings == DOMAIN Default \cup DOMAIN Flat

\* Addresses a listener may be given in a file, where blanks mean none.  The
\* command line can also say "", which is an address and not the absence of one.
Loopback == {"127.0.0.1:9947", "localhost:9947", "localhost:port"}
Addresses == Loopback \cup {"0.0.0.0:9947", "host:9947", "127.0.0.1", NoListener}
Bindable(address) == address \notin {"localhost:port", "127.0.0.1", ""}

\* Header and attribute names, by what is wrong with them.
HeaderKinds == {"fine", "blank name", "bad name", "bad value", "Accept"}
AttributeKinds == {"fine", "blank", "service.name", "Service.Name"}
Endpoints == {"http://127.0.0.1:4318/v1/metrics", "", " http://padded", "no-scheme", "ftp://host", "http:///no-host"}

\* The values tried for a setting: its default and both sides of its limits.
SettingValues(s) ==
  CASE s \in DOMAIN Limits -> {0, Limits[s][1] - 1, Limits[s][1], Limits[s][2], Limits[s][2] + 1}
    [] s \in {"warn_retransmit_pct", "critical_retransmit_pct"} -> {NotFinite, 0, 5}
    [] s \in {"warn_rtt_ms", "critical_rtt_ms", "warn_silence_ms", "critical_silence_ms"} -> {0, 600, 20000}
    [] s \in {"persistence", "otlp", "allow_non_loopback", "flat_allow_non_loopback"} -> BOOLEAN
    [] s \in {"listen_addr", "flat_listen_addr"} -> Addresses
    [] s \in {"detail_tier", "flat_detail_tier", "otlp_tier"} -> {"per_session", "aggregate_only"}
    [] s \in {"export_interval_ms", "timeout_ms"} -> {0, 1}
    [] s = "endpoint" -> Endpoints
    [] s = "headers" -> {{h} : h \in HeaderKinds} \cup {{}}
    [] s = "resource_attributes" -> {{a} : a \in AttributeKinds} \cup {{}}

-----------------------------------------------------------------------------
\* Every struct is #[serde(default)]; the flat settings apply first, the nested
\* ones over them, one by one.  A listen address of blanks is no listener.
NestedGiven(file) == [s \in DOMAIN file \cap DOMAIN Default |-> file[s]]
FlatGiven(file) ==
  LET given == DOMAIN file \cap DOMAIN Flat
  IN [s \in {Flat[f] : f \in given} |-> file[CHOOSE f \in given : Flat[f] = s]]

\* Error: a nested table, however partial, hides the flat settings.
ParseTableWise(file) ==
  LET nested == NestedGiven(file)
  IN Over(nested, IF DOMAIN nested \cap DOMAIN PrometheusDefaults = {}
                  THEN Over(FlatGiven(file), Default) ELSE Default)

Parse(file) ==
  LET nested == NestedGiven(file)
      flat == FlatGiven(file)
  IN [s \in DOMAIN Default |->
        CASE s \in DOMAIN nested -> nested[s]
          [] s \notin DOMAIN nested /\ s \in DOMAIN flat -> flat[s]
          [] s \notin DOMAIN nested \cup DOMAIN flat -> Default[s]]

ValidCadences(c) ==
  \A s \in {"refresh_ms", "discovery_interval_ms", "cleanup_interval_ms", "history_secs",
            "max_tracked_sessions", "max_session_detail_points"} : c[s] \in Limits[s][1]..Limits[s][2]
ValidPersistence(c) ==
  \A s \in {"heartbeat_ms", "sample_interval_ms", "retention_days", "max_query_samples", "max_disk_mib"} :
    c[s] \in Limits[s][1]..Limits[s][2]
ValidThresholds(c) ==
  /\ c.warn_rtt_ms <= c.critical_rtt_ms
  /\ NotFinite \notin {c.warn_retransmit_pct, c.critical_retransmit_pct}
  /\ c.warn_retransmit_pct <= c.critical_retransmit_pct
  /\ c.warn_silence_ms <= c.critical_silence_ms
\* validate_otlp_endpoint
ValidEndpoint(endpoint) == endpoint \notin {"", " http://padded", "no-scheme", "ftp://host", "http:///no-host"}
\* Error: the endpoint is taken to be all an exporter depends on.
ValidOtlpEndpointOnly(c) == c.otlp => ValidEndpoint(c.endpoint)

\* Endpoint, interval and timeout count only when the exporter is on.
ValidOtlp(c) == c.otlp => ValidEndpoint(c.endpoint) /\ c.export_interval_ms > 0 /\ c.timeout_ms > 0
ValidHeaders(c) == c.headers \subseteq {"fine"}
ReservedAttribute(name) == name \in {"service.name", "Service.Name"}
ValidAttributes(c) == \A a \in c.resource_attributes : a # "blank" /\ ~ReservedAttribute(a)

Validate(c) ==
  /\ ValidCadences(c) /\ ValidPersistence(c) /\ ValidThresholds(c)
  /\ ValidOtlp(c) /\ ValidHeaders(c) /\ ValidAttributes(c)
  /\ c.cleanup_interval_ms >= c.discovery_interval_ms

\* main: the command line comes after the validation of the file; NoListener
\* there means that it names no address.
Override(c, args) ==
  [c EXCEPT !.listen_addr = IF args.metrics_listen = NoListener THEN @ ELSE args.metrics_listen,
            !.allow_non_loopback = @ \/ args.allow_public_metrics]

\* enforce_metrics_listener_policy: a host that is neither a loopback address
\* nor "localhost" needs the opt-in; so does what has no host:port form.
NotLoopback(address) == address # NoListener /\ address \notin Loopback
EnforcePolicy(c) == NotLoopback(c.listen_addr) => c.allow_non_loopback
=============================================================================
