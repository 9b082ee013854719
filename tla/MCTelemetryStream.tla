------------------------- MODULE MCTelemetryStream -------------------------
(***************************************************************************)
(* TelemetryStream for TLC. A behaviour plays in one of two scenes, in     *)
(* which one of the two senders is silent:                                 *)
(*   healthy  a mosh-server that keeps to the protocol, a connection that  *)
(*            ends beside its successor, a daemon that crashes             *)
(*   faulty   a peer that sends anything on one connection; the other      *)
(*            sender exits at the start                                    *)
(***************************************************************************)
EXTENDS TelemetryStream

CONSTANTS p, q, c1, c2    \* model values

VARIABLE scene

Silent(s) == link'[s] = None /\ proc'[s] = "live" /\ wake'[s] = 0

MCInit == scene \in {"healthy", "faulty"} /\ Init

MCNext ==
  /\ \/ scene = "healthy" /\ Next /\ Silent(q)
     \/ scene = "faulty" /\ proc[p] = "live" /\ Exit(p)
     \/ scene = "faulty" /\ proc[p] = "gone" /\ Next /\ conn'[c2] = NoConn /\ crashes' = 0
  /\ UNCHANGED scene

MCSpec == MCInit /\ [][MCNext]_<<scene, vars>> /\ Fairness
=============================================================================
