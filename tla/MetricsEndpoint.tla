---------------------------- MODULE MetricsEndpoint ----------------------------
(***************************************************************************)
(* The metrics listener together with the two components that make up what *)
(* it and the exporter send: the choice of a format from Accept headers,   *)
(* and the series of the sessions.  They share no state.                   *)
(***************************************************************************)
EXTENDS MetricsServer

CONSTANTS Qualities, MaxItems,                                 \* of Headers
          Sids, PrometheusTier, OtlpTier, HistoryEnabled,      \* of Exporter
          MaxRendered, ReportedHealths, CollectorDoes, MaxCount, MaxTime, MaxCycles

(* A q is a number from 0 to 1, here in integral parts, and counters are    *)
(* unsigned.                                                                *)
ASSUME EndpointAssumption ==
  /\ Qualities \subseteq Nat
  /\ MaxCount \in Nat /\ MaxTime \in Nat

VARIABLES items, preference,
          now, sessions, phase, stats, accepted, sent

acceptVars == <<items, preference>>
exportVars == <<now, sessions, phase, stats, accepted, sent>>

Headers == INSTANCE MetricsAccept
Exporter == INSTANCE MetricsExport

-----------------------------------------------------------------------------
(* A client that accepts a format is served the one it likes best           *)
(* (requested_metrics_format).                                              *)
BestAcceptableServed == Headers!BestAcceptableServed

(* While the record of a session is kept and its events tell a counter, the *)
(* points sent of it form one cumulative series (encode_otlp_metrics,       *)
(* counter_reset_unix_ms), whichever requests are lost, however often the   *)
(* session is left out and wherever the clock is set; a counter reset twice *)
(* within a millisecond is a new series.                                    *)
SeriesStayCumulative == [][Exporter!SeriesStep]_exportVars
=============================================================================
