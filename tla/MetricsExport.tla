---------------------------- MODULE MetricsExport ----------------------------
(***************************************************************************)
(* The metrics contract of moshwatchd: the catalogue (observability.rs),   *)
(* the samples the daemon collects (metrics.rs), the text it renders from  *)
(* them for scrapers, and the OTLP exporter that posts them to a collector *)
(* which may answer anything.  Sessions come, go, come again, report       *)
(* counters that may start over or be left out, and become instrumented    *)
(* while the exporter runs and the clock is set.                           *)
(*                                                                         *)
(* Gauges whose value no property compares are collected with value 0.     *)
(***************************************************************************)
EXTENDS Integers, FiniteSets, FiniteSetsExt, TLC

CONSTANTS
  Sids,             \* session identities
  PrometheusTier,   \* metrics.prometheus.detail_tier
  OtlpTier,         \* metrics.otlp.detail_tier
  HistoryEnabled,   \* persistence.enabled
  MaxRendered,      \* MAX_METRICS_RENDERED_SESSIONS
  ReportedHealths,  \* healths a telemetry event may lead to
  CollectorDoes,    \* outcomes of requests to the collector: an error before any
                    \* answer, an answer that is no success or cannot be read,
                    \* and the three forms of a success
  MaxCount,         \* bound: counter values
  MaxTime,          \* bound: milliseconds
  MaxCycles         \* bound: export cycles

Tiers == {"aggregate_only", "per_session"}
NONE == -1

IncludesSessions(tier) == tier = "per_session"

-----------------------------------------------------------------------------
\* METRIC_CATALOG without names, help texts and units.

Info(labels) == [kind |-> "info", labels |-> labels]
Gauge(labels) == [kind |-> "gauge", labels |-> labels]
Counter(labels) == [kind |-> "counter", labels |-> labels]

CountCatalog ==
  [BuildInfo |-> Info({"version"}),
   Sessions |-> Gauge({"kind"}), SessionsByHealth |-> Gauge({"kind", "health"}),
   MetricsRenderedSessions |-> Gauge({}), MetricsTruncatedSessions |-> Gauge({})]
DaemonCatalog ==
  [RuntimeDroppedSessionsTotal |-> Counter({}), RuntimeWorkerThreads |-> Gauge({}),
   RuntimeLoopIntervalMs |-> Gauge({"loop"}), RuntimeLoopLastDurationMs |-> Gauge({"loop"}),
   RuntimeLoopOverrunsTotal |-> Counter({"loop"}),
   HistoryCurrentBytes |-> Gauge({}), HistoryWrittenBytesTotal |-> Counter({}),
   HistoryWriteFailuresTotal |-> Counter({}), HistoryPruneFailuresTotal |-> Counter({}),
   HistoryDroppedSamplesTotal |-> Counter({}),
   ThresholdRttMs |-> Gauge({"severity"}), ThresholdRetransmitPct |-> Gauge({"severity"}),
   ThresholdSilenceMs |-> Gauge({"severity"})]
ExporterCatalog ==
  [OtlpExportEnabled |-> Gauge({"detail_tier"}), OtlpExportsTotal |-> Counter({"result"}),
   OtlpExportLastDurationMs |-> Gauge({}), OtlpExportLastSuccessUnixMs |-> Gauge({}),
   OtlpExportLastFailureUnixMs |-> Gauge({}), OtlpExportLastPayloadBytes |-> Gauge({})]

ObserverCatalog == [ObserverInfo |-> Info({"observer"})]
SessionValue == {"session_id", "kind"}
SessionWindow == SessionValue \cup {"window"}
SessionCatalog ==
  [SessionInfo |-> Info(SessionValue \cup {"display_session_id", "pid", "started_at_unix_ms"}),
   SessionHealthLevel |-> Gauge(SessionValue), SessionSrttMs |-> Gauge(SessionValue),
   SessionRttvarMs |-> Gauge(SessionValue), SessionLastRttMs |-> Gauge(SessionValue),
   SessionLastHeardAgeMs |-> Gauge(SessionValue), SessionRemoteStateAgeMs |-> Gauge(SessionValue),
   SessionRetransmitPct10s |-> Gauge(SessionValue), SessionRetransmitPct60s |-> Gauge(SessionValue)]
SessionTrafficCatalog ==
  [SessionRetransmitWindowComplete |-> Gauge(SessionWindow),
   SessionRetransmitWindowTransmissions |-> Gauge(SessionWindow),
   SessionRetransmitWindowRetransmits |-> Gauge(SessionWindow),
   SessionRetransmitWindowStateUpdates |-> Gauge(SessionWindow),
   SessionRetransmitWindowEmptyAcks |-> Gauge(SessionWindow),
   SessionPacketsTxTotal |-> Counter(SessionValue), SessionPacketsRxTotal |-> Counter(SessionValue),
   SessionRetransmitsTotal |-> Counter(SessionValue)]

\* The first group has minimum tier aggregate_only and is fleet-safe, the
\* second has minimum tier per_session and is operator-sensitive.
AggregateCatalog == CountCatalog @@ DaemonCatalog @@ ExporterCatalog
PerSessionCatalog == ObserverCatalog @@ SessionCatalog @@ SessionTrafficCatalog
MetricCatalog == AggregateCatalog @@ PerSessionCatalog

-----------------------------------------------------------------------------
VARIABLES
  now,        \* unix_time_ms
  sessions,   \* tracked sessions: records of Tracked, or Untracked
  phase,      \* the exporter: "idle" or "sending" what it gathered
  stats,      \* OtlpExporterStats
  accepted,   \* ghost: requests of which the collector took every point
  sent        \* ghost: the last point sent of every session counter that was
              \* followed ever since: the record of the session was kept, every
              \* event told the counter, and it was not reset in the very
              \* millisecond it counts from

vars == <<now, sessions, phase, stats, accepted, sent>>

SessionCounters == {"SessionPacketsTxTotal", "SessionPacketsRxTotal", "SessionRetransmitsTotal"}
Healths == {"ok", "degraded", "critical", "legacy"}
Kinds == {"instrumented", "legacy"}
Untracked == [kind |-> "none"]
Tracked == [kind : Kinds, health : Healths, reset : {NONE} \cup (0 .. MaxTime),
            seen : 0 .. MaxTime, tx : {NONE} \cup (0 .. MaxCount), rt : {NONE} \cup (0 .. MaxCount)]
Live == {s \in Sids : sessions[s] # Untracked}

NoStats == [success |-> 0, failure |-> 0, last_duration |-> NONE, last_success |-> NONE,
            last_failure |-> NONE, last_payload |-> NONE]

Init ==
  /\ now = 1
  /\ sessions = [s \in Sids |-> Untracked]
  /\ phase = "idle" /\ stats = NoStats /\ accepted = 0
  /\ sent = <<>>

-----------------------------------------------------------------------------
\* Collection (collect_metric_samples).

\* A sample: a metric, its labels, its value, and for session counters the
\* time since which they count.
Sample(id, labels, value) == [id |-> id, labels |-> labels, value |-> value, start |-> NONE]
OptionalSample(id, labels, value) == IF value = NONE THEN {} ELSE {Sample(id, labels, value)}
NoLabels == [none \in {} |-> ""]

IdentitySamples(tier) ==
  {Sample("BuildInfo", [version |-> "v"], 1)}
  \cup IF IncludesSessions(tier)
       THEN {Sample("ObserverInfo", [node_name |-> "n", system_id |-> "i"], 1)} ELSE {}

\* ExportedSummaries: every count is taken under one lock, and at most
\* MaxRendered summaries are listed; rendered is the set of those.
OfKind(k) == Cardinality({s \in Live : sessions[s].kind = k})
OfHealth(k, h) == Cardinality({s \in Live : sessions[s].kind = k /\ sessions[s].health = h})
Listed(rendered, tier) == IF IncludesSessions(tier) THEN Cardinality(rendered) ELSE 0
LeftOut(rendered, tier) ==
  IF IncludesSessions(tier) THEN Cardinality(Live) - Cardinality(rendered) ELSE 0
CountSamples(rendered, tier) ==
  {Sample("Sessions", [kind |-> k], OfKind(k)) : k \in Kinds}
  \cup {Sample("SessionsByHealth", [kind |-> k, health |-> h], OfHealth(k, h))
          : k \in Kinds, h \in Healths}
  \cup {Sample("MetricsRenderedSessions", NoLabels, Listed(rendered, tier)),
        Sample("MetricsTruncatedSessions", NoLabels, LeftOut(rendered, tier)),
        Sample("RuntimeDroppedSessionsTotal", NoLabels, 0)}

\* A loop with interval 0 is one that does not run.
Loops == {"discovery", "snapshot"} \cup IF HistoryEnabled THEN {"history"} ELSE {}
DaemonSamples ==
  {Sample("RuntimeWorkerThreads", NoLabels, 2)}
  \cup {Sample(id, [loop |-> l], 0) : l \in Loops,
          id \in {"RuntimeLoopIntervalMs", "RuntimeLoopLastDurationMs", "RuntimeLoopOverrunsTotal"}}
  \cup {Sample(id, NoLabels, 0) :
          id \in {"HistoryCurrentBytes", "HistoryWrittenBytesTotal", "HistoryWriteFailuresTotal",
                  "HistoryPruneFailuresTotal", "HistoryDroppedSamplesTotal"}}
  \cup {Sample(id, [severity |-> sev], 0) : sev \in {"warn", "critical"},
          id \in {"ThresholdRttMs", "ThresholdRetransmitPct", "ThresholdSilenceMs"}}

ExporterSamples ==
  {Sample("OtlpExportEnabled", [detail_tier |-> OtlpTier], 1),
   Sample("OtlpExportsTotal", [result |-> "success"], stats.success),
   Sample("OtlpExportsTotal", [result |-> "failure"], stats.failure)}
  \cup OptionalSample("OtlpExportLastDurationMs", NoLabels, stats.last_duration)
  \cup OptionalSample("OtlpExportLastSuccessUnixMs", NoLabels, stats.last_success)
  \cup OptionalSample("OtlpExportLastFailureUnixMs", NoLabels, stats.last_failure)
  \cup OptionalSample("OtlpExportLastPayloadBytes", NoLabels, stats.last_payload)

\* Session ids stand for the sessions' start times as well: all started at 0.
StartedAt(s) == 0
SinceTheProcessStarted(s) == StartedAt(s)   \* error: the reset is forgotten
CounterStart(s) == IF sessions[s].reset = NONE THEN StartedAt(s) ELSE sessions[s].reset

ValueLabels(s) == [session_id |-> s, kind |-> sessions[s].kind]
WindowLabels(s, w) == ValueLabels(s) @@ [window |-> w]
CounterSample(s, id, total) ==
  IF total = NONE THEN {}
  ELSE {[id |-> id, labels |-> ValueLabels(s), value |-> total, start |-> CounterStart(s)]}

\* The gauges are measured from telemetry.
SessionGauges(s) ==
  {Sample("SessionInfo", ValueLabels(s) @@ [display_session_id |-> "d", pid |-> s,
                                            started_at_unix_ms |-> StartedAt(s)], 1),
   Sample("SessionHealthLevel", ValueLabels(s), 0)}
  \cup {Sample(id, ValueLabels(s), 0) :
          id \in IF sessions[s].tx = NONE THEN {}
                 ELSE {"SessionSrttMs", "SessionRttvarMs", "SessionLastRttMs",
                       "SessionLastHeardAgeMs", "SessionRemoteStateAgeMs",
                       "SessionRetransmitPct10s", "SessionRetransmitPct60s"}}

WindowSamples(s) ==
  {Sample(id, WindowLabels(s, w), 0) : w \in {"10s", "60s"},
     id \in {"SessionRetransmitWindowComplete"}
            \cup IF sessions[s].tx = NONE THEN {}
                 ELSE {"SessionRetransmitWindowTransmissions", "SessionRetransmitWindowRetransmits",
                       "SessionRetransmitWindowStateUpdates", "SessionRetransmitWindowEmptyAcks"}}

SessionSamples(s) ==
  SessionGauges(s) \cup WindowSamples(s)
  \cup CounterSample(s, "SessionPacketsTxTotal", sessions[s].tx)
  \cup CounterSample(s, "SessionPacketsRxTotal", sessions[s].tx)
  \cup CounterSample(s, "SessionRetransmitsTotal", sessions[s].rt)

\* Errors in the collection: sessions listed whatever the tier is, or
\* truncation that is not reported.
CollectAllSessions(rendered, tier) ==
  IdentitySamples(tier) \cup CountSamples(rendered, tier) \cup DaemonSamples \cup ExporterSamples
  \cup UNION {SessionSamples(s) : s \in rendered}
CollectListedOnly(rendered, tier) ==
  IdentitySamples(tier) \cup DaemonSamples \cup ExporterSamples
  \cup {IF x.id = "MetricsTruncatedSessions" THEN [x EXCEPT !.value = 0] ELSE x
          : x \in CountSamples(rendered, tier)}
  \cup IF IncludesSessions(tier) THEN UNION {SessionSamples(s) : s \in rendered} ELSE {}

CollectMetricSamples(rendered, tier) ==
  IdentitySamples(tier) \cup CountSamples(rendered, tier) \cup DaemonSamples \cup ExporterSamples
  \cup IF IncludesSessions(tier) THEN UNION {SessionSamples(s) : s \in rendered} ELSE {}

\* Which sessions are listed is left open: nothing below depends on their order.
RenderedSets == kSubset(IF Cardinality(Live) < MaxRendered THEN Cardinality(Live) ELSE MaxRendered, Live)

-----------------------------------------------------------------------------
\* Text and OTLP encoding.

\* render_metric_samples walks the catalogue, so a metric without descriptor
\* would be left out; OpenMetrics ends with an EOF line.
RenderMetricSamples(samples, format) ==
  LET catalog == MetricCatalog
      Type(id) == IF catalog[id].kind = "info" /\ format = "prometheus"
                  THEN "gauge" ELSE catalog[id].kind
  IN [lines |-> {x \in samples : x.id \in DOMAIN catalog},
      type |-> [id \in {x.id : x \in samples} |-> Type(id)],
      eof |-> format = "openmetrics"]

\* encode_otlp_metrics: cumulative points; a daemon counter counts since the
\* exporter started, which is before the first cycle.
ExportStarted == 0
MetricsToOtlp(samples) ==
  LET catalog == MetricCatalog
      counters == {id \in DOMAIN catalog : catalog[id].kind = "counter"}
  IN {IF x.id \in counters /\ x.start = NONE THEN [x EXCEPT !.start = ExportStarted] ELSE x
        : x \in samples}
ResourceAttributes(tier) ==
  {"service.name", "service.version"}
  \cup IF IncludesSessions(tier)
       THEN {"service.instance.id", "moshwatch.observer.node_name", "moshwatch.observer.system_id"}
       ELSE {}

-----------------------------------------------------------------------------
\* Sessions.

NewRecord == [kind |-> "legacy", health |-> "legacy", reset |-> NONE, seen |-> 0,
              tx |-> NONE, rt |-> NONE]
SeriesOfSession(s) == {k \in DOMAIN sent : k[2] = s}

\* refresh_discovery: sets up a record, or says when a session without
\* telemetry was last seen.
Discover(s) ==
  /\ s \in Live => sessions[s].kind = "legacy"
  /\ sessions' = [sessions EXCEPT ![s] = [NewRecord EXCEPT !.seen = now]]
  /\ UNCHANGED <<now, phase, stats, accepted, sent>>

\* The record is removed, with the time of its last reset: it was not seen for
\* too long, or is evicted for another (module Registry says when).
Forget(s) ==
  /\ s \in Live
  /\ sessions' = [sessions EXCEPT ![s] = Untracked]
  /\ sent' = Restrict(sent, DOMAIN sent \ SeriesOfSession(s))
  /\ UNCHANGED <<now, phase, stats, accepted>>

\* normalize_event_unix_ms: an event counts as sent when it says, but not after
\* it came and not before the last one, wherever the clock went.
EventTimes(record) == {record.seen} \cup (record.seen .. now)

\* apply_telemetry, as far as the counters go (module SessionRecord has it
\* all): an event says what it says of each counter, and one that went back
\* marks a reset at the time of the event.
Regressed(old, new) == old # NONE /\ new # NONE /\ new < old
StillFollowed(s, tx, rt, back, at) ==
  {k \in DOMAIN sent : k[2] = s =>
     /\ (IF k[1] = "SessionRetransmitsTotal" THEN rt ELSE tx) # NONE
     /\ back => sent[k].start # at}
Telemetry(s) ==
  \E old \in {IF s \in Live THEN sessions[s] ELSE NewRecord},
     h \in ReportedHealths, tx, rt \in {NONE} \cup (0 .. MaxCount) :
  \E at \in EventTimes(old), back \in {Regressed(old.tx, tx) \/ Regressed(old.rt, rt)} :
    /\ sessions' = [sessions EXCEPT ![s] =
         [kind |-> "instrumented", health |-> h, seen |-> at, tx |-> tx, rt |-> rt,
          reset |-> IF back THEN at ELSE old.reset]]
    /\ sent' = Restrict(sent, StillFollowed(s, tx, rt, back, at))
    /\ UNCHANGED <<now, phase, stats, accepted>>

\* Time passes, or the clock is set, though never to before a session started.
Tock ==
  /\ \E t \in 1 .. MaxTime : now' = t
  /\ UNCHANGED <<sessions, phase, stats, accepted, sent>>

-----------------------------------------------------------------------------
\* The exporter (run_otlp_exporter).

SeriesOf(x) == <<x.id, x.labels.session_id>>
PointOf(x) == [start |-> x.start, value |-> x.value]
SessionPoints(samples) == {x \in samples : x.id \in SessionCounters}

Gather ==
  /\ phase = "idle" /\ stats.success + stats.failure < MaxCycles
  /\ phase' = "sending"
  /\ \E points \in {SessionPoints(MetricsToOtlp(CollectMetricSamples(r, OtlpTier))) : r \in RenderedSets} :
       LET series == {SeriesOf(x) : x \in points}
       IN sent' = [k \in series \cup DOMAIN sent |->
                     IF k \in series THEN PointOf(CHOOSE x \in points : SeriesOf(x) = k) ELSE sent[k]]
  /\ UNCHANGED <<now, sessions, stats, accepted>>

\* Error in handle_otlp_response: the partial success is not looked at.
FailsExceptPartial(outcome) ==
  outcome \notin {"rejected_points", "warning_only", "empty_body", "accepted"}

\* handle_otlp_response and the errors of the request itself; redirects are
\* not followed.
ExportFails(outcome) == outcome \notin {"warning_only", "empty_body", "accepted"}

\* The collector may have taken all points of a request whose answer was lost
\* or unreadable, never of one it rejected.
MayHaveAccepted(outcome) ==
  IF outcome \in {"warning_only", "empty_body", "accepted"} THEN {TRUE}
  ELSE IF outcome \in {"timed_out", "oversized_body", "undecodable_body"} THEN BOOLEAN
  ELSE {FALSE}

RecordSuccess ==
  [stats EXCEPT !.success = @ + 1, !.last_duration = 1, !.last_success = now, !.last_payload = 1]
RecordFailure ==
  [stats EXCEPT !.failure = @ + 1, !.last_duration = 1, !.last_failure = now, !.last_payload = 1]

HandleResponse ==
  /\ phase = "sending"
  /\ \E outcome \in CollectorDoes :
       /\ stats' = IF ExportFails(outcome) THEN RecordFailure ELSE RecordSuccess
       /\ \E took \in MayHaveAccepted(outcome) : accepted' = accepted + IF took THEN 1 ELSE 0
  /\ phase' = "idle"
  /\ UNCHANGED <<now, sessions, sent>>

Next ==
  \/ Tock \/ Gather \/ HandleResponse
  \/ \E s \in Sids : Discover(s) \/ Forget(s) \/ Telemetry(s)

Spec == Init /\ [][Next]_vars

-----------------------------------------------------------------------------
\* Properties.

Value(samples, id) == (CHOOSE x \in samples : x.id = id).value
Total(samples, id) == FoldSet(LAMBDA x, acc : x.value + acc, 0, {x \in samples : x.id = id})

\* Everything the daemon would show now to a scraper or send to a collector,
\* in each permitted choice of listed sessions.
Exports(tier) == {CollectMetricSamples(r, tier) : r \in RenderedSets}

\* No export of either tier loses a metric for lack of a descriptor, says two
\* things about one series, or carries a metric the catalogue keeps for the
\* per-session tier, the identity of the observer included.
ContractKept(samples, tier) ==
  /\ RenderMetricSamples(samples, "prometheus").lines = samples
  /\ \A x, y \in samples : x.id = y.id /\ x.labels = y.labels => x = y
  /\ ~IncludesSessions(tier) => {x.id : x \in samples} \subseteq DOMAIN AggregateCatalog

EveryExportKeepsTheContract ==
  /\ \A samples \in Exports(PrometheusTier) : ContractKept(samples, PrometheusTier)
  /\ \A samples \in Exports(OtlpTier) : ContractKept(samples, OtlpTier)
  /\ ~IncludesSessions(OtlpTier) => "service.instance.id" \notin ResourceAttributes(OtlpTier)

\* Truncation is explicit: what is listed and what is left out add up to the
\* sessions counted by kind and by health, and exactly the listed ones have
\* series of their own.
CountsAddUp(samples, tier) ==
  LET total == Total(samples, "Sessions")
  IN /\ total = Total(samples, "SessionsByHealth")
     /\ IncludesSessions(tier) =>
          /\ total = Value(samples, "MetricsRenderedSessions") + Value(samples, "MetricsTruncatedSessions")
          /\ Value(samples, "MetricsRenderedSessions") = Total(samples, "SessionInfo")
          /\ Value(samples, "MetricsRenderedSessions") <= MaxRendered

TruncationIsExplicit ==
  /\ \A samples \in Exports(PrometheusTier) : CountsAddUp(samples, PrometheusTier)
  /\ \A samples \in Exports(OtlpTier) : CountsAddUp(samples, OtlpTier)

\* The points of a session counter form a cumulative series, as the export
\* declares, as long as the daemon can follow the counter: a point of a later
\* request starts later or has no smaller value than any earlier one, whatever
\* the clock did, whichever requests were lost and however often the session
\* fell out of the listed ones in between.
PointBefore(p, q) == p.start < q.start \/ (p.start = q.start /\ p.value <= q.value)
SeriesStep == \A k \in DOMAIN sent \cap DOMAIN sent' : PointBefore(sent[k], sent'[k])

\* Every cycle is recorded as one attempt, and a success is only recorded when
\* the collector took every point: partial rejections, redirects and answers
\* that cannot be read are failures.
SuccessIsConfirmed == stats.success <= accepted

\* The labels of a sample are those the catalogue documents.
LabelsAsDocumented ==
  \A x \in UNION Exports(PrometheusTier) : DOMAIN x.labels = MetricCatalog[x.id].labels
=============================================================================
