-------------------------- MODULE MCRegistryScenes --------------------------
(***************************************************************************)
(* Registry for TLC, looking closely at one thing. A behaviour plays in    *)
(* one of three scenes, in which fewer sessions exist, events report less  *)
(* or the clock goes less far:                                             *)
(*   admission  three sessions, two places, no counters, no endpoints      *)
(*   windows    one active session that reports every counter              *)
(*   peer       one active session that reports endpoints, no counters     *)
(***************************************************************************)
EXTENDS Registry

CONSTANTS a, b    \* model values, endpoints

VARIABLE scene

(* All counters are reported, and at most one of them stands at zero unless *)
(* all do.                                                                  *)
Reported == {f \in [CounterNames -> {0, 1}] :
               \A c, d \in CounterNames : f[c] = 0 /\ f[d] = 0 =>
                 c = d \/ \A e \in CounterNames : f[e] = 0}
MCTotals == {NoTotals} \cup Reported

AdmissionEvents == {ev \in Events : ev.addr = NONE /\ ev.totals = NoTotals}
WindowsEvents == {ev \in Events : /\ ev.addr = NONE /\ ev.totals # NoTotals
                                  /\ ~ev.close /\ ev.shutdown = FALSE}
PeerEvents == {ev \in Events : /\ ev.totals = NoTotals
                               /\ ~ev.close /\ ev.shutdown = FALSE}

Scene(procs, events, maxNow) ==
  \/ \E p \in procs, ev \in events : RejectTelemetry(p, ev) \/ AcceptTelemetry(p, ev)
  \/ \E found \in SUBSET procs : RefreshDiscovery(found)
  \/ Tick /\ now' <= maxNow
  \/ StepBack

MCInit == scene \in {"admission", "windows", "peer"} /\ Init

MCNext ==
  /\ \/ scene = "admission" /\ Scene(Procs, AdmissionEvents, 2)
     \/ scene = "windows" /\ Scene({1}, WindowsEvents, MaxNow)
     \/ scene = "peer" /\ Scene({1}, PeerEvents, MaxNow)
  /\ UNCHANGED scene

MCSpec == MCInit /\ [][MCNext]_<<scene, vars>>
=============================================================================
