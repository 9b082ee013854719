---------------------------- MODULE LatestState ----------------------------
(***************************************************************************)
(* What the snapshot feed of moshwatchd promises: a latest-state feed, not *)
(* a per-change log. The state moves through versions; what is shown only  *)
(* moves forward, never ahead of the state, may skip versions, and does    *)
(* not stay behind for ever.                                               *)
(***************************************************************************)
EXTENDS Naturals

VARIABLES current,  \* version of the daemon's state
          shown     \* version in the snapshot last published

Init == current = 0 /\ shown = 0

Change == current' = current + 1 /\ UNCHANGED shown

Show ==
  /\ shown < current
  /\ shown' \in (shown + 1)..current
  /\ UNCHANGED current

Next == Change \/ Show

Safety == Init /\ [][Next]_<<current, shown>>

Spec == Safety /\ WF_<<current, shown>>(Show)
=============================================================================
