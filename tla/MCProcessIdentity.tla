------------------------- MODULE MCProcessIdentity -------------------------
(***************************************************************************)
(* ProcessIdentity for TLC. A behaviour plays in one of three scenes, in   *)
(* which some of the tasks run and some of the programs are started:       *)
(*   scan       discovery over two pids and three kinds of programs, whose *)
(*              results are not kept                                       *)
(*   telemetry  one pid, a connection and its events, one of them recorded *)
(*   stale      one pid, discovery and terminate requests; one session     *)
(*              is tracked at a time, until somebody is signalled          *)
(* Pids, Tasks and Exes are those of all scenes together.                  *)
(***************************************************************************)
EXTENDS ProcessIdentity

CONSTANTS p1, p2    \* model values

VARIABLE scene

Scan == INSTANCE ProcessIdentity WITH
  Tasks <- {"scan"}, Exes <- {"real", "stock", "stray"}
Telemetry == INSTANCE ProcessIdentity WITH Tasks <- {"verify"}, Exes <- {"real", "other"}
Stale == INSTANCE ProcessIdentity WITH
  Tasks <- {"scan", "terminate"}, Exes <- {"real", "other"}, MaxUptime <- 3

Unused(p) == table'[p] = None
AtMost(n, S) == Cardinality(S) <= n

MCInit == scene \in {"scan", "telemetry", "stale"} /\ Init

MCNext ==
  /\ \/ scene = "scan" /\ Scan!Next /\ AtMost(0, listed')
     \/ scene = "telemetry" /\ Telemetry!Next /\ Unused(p2) /\ AtMost(1, applied')
     \/ scene = "stale" /\ signalled = {} /\ Stale!Next /\ Unused(p2) /\ AtMost(1, listed')
  /\ UNCHANGED scene

MCSpec == MCInit /\ [][MCNext]_<<scene, vars>>
=============================================================================
