----------------------------- MODULE MCRegistry -----------------------------
(* Instances of Registry for TLC. *)
EXTENDS Registry, TLC

(* Events that report no counters: what telemetry does to the set of        *)
(* sessions, to their order and to the cap.                                 *)
MCNoTotals == {NoTotals}
=============================================================================
