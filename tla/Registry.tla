------------------------------ MODULE Registry ------------------------------
(***************************************************************************)
(* The in-memory session registry of moshwatchd: ServiceState in state.rs. *)
(*                                                                         *)
(* Verified telemetry and periodic /proc discovery write the same map, each *)
(* under the daemon's write lock, so an operation is one atomic step and   *)
(* the steps interleave in any order. A session is known under a legacy id *)
(* (found in /proc only) or an instrumented id (telemetry), both built     *)
(* from the same (pid, start time) pair; such a pair is a process here,    *)
(* named by its rank in the order (started_at_unix_ms, session_id) that    *)
(* the eviction order falls back on.                                       *)
(***************************************************************************)
EXTENDS SessionRecord, FiniteSets

CONSTANTS Procs,               \* (pid, start) pairs, as ranks
          MaxTracked,          \* max_tracked_sessions
          MaxDropped,          \* u64::MAX, where dropped_sessions_total saturates
          DiscoveryIntervalMs, \* discovery_interval_ms
          CleanupIntervalMs,   \* cleanup_interval_ms
          GraceFloorMs,        \* 5_000
          StaleFloorMs,        \* 30_000
          TotalsInputs,        \* counter values events report
          CloseFlags,          \* shutdown field of session_close events
          MaxNow               \* bound on the wall clock

ASSUME RegistryAssumption ==
  /\ Procs \subseteq Nat
  /\ IsFiniteSet(Procs)
  /\ MaxTracked \in Nat \ {0}
  /\ MaxDropped \in Nat
  /\ {DiscoveryIntervalMs, CleanupIntervalMs, GraceFloorMs, StaleFloorMs}
       \subseteq Nat \ {0}
  /\ TotalsInputs \subseteq Totals
  /\ CloseFlags \subseteq BOOLEAN \cup {NONE}
  /\ MaxNow \in Nat

VARIABLES sessions,  \* session id -> Record, for the tracked ids
          dropped,   \* dropped_sessions_total
          now,       \* the wall clock; it can be stepped back
          peak       \* the highest reading of the clock so far (observer)

vars == <<sessions, dropped, now, peak>>

-----------------------------------------------------------------------------
(* Session ids *)

Instrumented(p) == <<"instrumented", p>>
Legacy(p) == <<"legacy", p>>
SessionIds == {"instrumented", "legacy"} \X Procs

Tracked == DOMAIN sessions

(* What telemetry can carry. Clocks are skewed, so an event can be dated     *)
(* before or after the moment it is received.                               *)
Events ==
  [unix_ms: 0..(MaxNow + 1), close: {FALSE}, shutdown: BOOLEAN \cup {NONE},
   addr: OptAddr, totals: TotalsInputs]
  \cup
  [unix_ms: 0..(MaxNow + 1), close: {TRUE}, shutdown: CloseFlags,
   addr: OptAddr, totals: TotalsInputs]

-----------------------------------------------------------------------------
(* Capacity *)

EvictionClass(rec) ==
  IF rec.kind = "legacy" THEN 0 ELSE IF rec.shutdown THEN 1 ELSE 2

(* Error: the classes are not compared.                                     *)
OldestFirst(ss, i, j) ==
  \/ ss[i].last_observed < ss[j].last_observed
  \/ ss[i].last_observed = ss[j].last_observed /\ i[2] < j[2]

(* Session i of map ss is evicted before session j.                         *)
EvictedBefore(ss, i, j) ==
  \/ EvictionClass(ss[i]) < EvictionClass(ss[j])
  \/ /\ EvictionClass(ss[i]) = EvictionClass(ss[j])
     /\ \/ ss[i].last_observed < ss[j].last_observed
        \/ /\ ss[i].last_observed = ss[j].last_observed
           /\ i[2] < j[2]

Above(ss, i) == {j \in DOMAIN ss : EvictedBefore(ss, i, j)}

(* Error: off by one at the cap.                                            *)
OneTooMany(ss) == {i \in DOMAIN ss : Cardinality(Above(ss, i)) <= MaxTracked}

(* Removing the lowest-priority record until the cap holds leaves the       *)
(* records with fewer than MaxTracked records above them.                   *)
Survivors(ss) == {i \in DOMAIN ss : Cardinality(Above(ss, i)) < MaxTracked}

EnforceSessionCap(ss) == [i \in Survivors(ss) |-> ss[i]]

(* Error: only rejections are counted.                                      *)
CountNoEvictions(ss) == 0

Evicted(ss) == Cardinality(DOMAIN ss) - Cardinality(Survivors(ss))

(* Error: the drop counter leaves its range.                                *)
PlainAdd(total, n) == total + n

SaturatingAdd(total, n) == Earlier(total + n, MaxDropped)

(* Error: the cap is left to the eviction that follows.                     *)
NeverReject(ss, shutdown) == FALSE

(* A new active session is refused when every tracked record is an active   *)
(* instrumented one, i.e. when the first to be evicted is.                  *)
RejectNewActive(ss, shutdown) ==
  /\ ~shutdown
  /\ Cardinality(DOMAIN ss) >= MaxTracked
  /\ \A i \in DOMAIN ss : EvictionClass(ss[i]) = 2

-----------------------------------------------------------------------------
(* apply_telemetry *)

(* Error: the placeholder stays behind.                                     *)
KeepPlaceholder(ss, p) ==
  IF Instrumented(p) \notin DOMAIN ss /\ Legacy(p) \in DOMAIN ss
    THEN [i \in DOMAIN ss \cup {Instrumented(p)} |->
            IF i = Instrumented(p)
              THEN [ss[Legacy(p)] EXCEPT !.kind = "instrumented"]
              ELSE ss[i]]
    ELSE ss

(* A legacy placeholder of the same process moves to the instrumented id.   *)
Upgrade(ss, p) ==
  IF Instrumented(p) \notin DOMAIN ss /\ Legacy(p) \in DOMAIN ss
    THEN [i \in (DOMAIN ss \ {Legacy(p)}) \cup {Instrumented(p)} |->
            IF i = Instrumented(p)
              THEN [ss[Legacy(p)] EXCEPT !.kind = "instrumented"]
              ELSE ss[i]]
    ELSE ss

(* Insert the record if it is missing and apply the event to it.            *)
Admit(ss, p, ev) ==
  [i \in DOMAIN ss \cup {Instrumented(p)} |->
     IF i # Instrumented(p) THEN ss[i]
     ELSE ApplyEvent(IF i \in DOMAIN ss THEN ss[i]
                     ELSE NewRecord("instrumented", Earlier(ev.unix_ms, now)),
                     ev, now)]

RejectTelemetry(p, ev) ==
  /\ Instrumented(p) \notin DOMAIN Upgrade(sessions, p)
  /\ RejectNewActive(Upgrade(sessions, p), SessionShutdown(ev))
  /\ dropped' = SaturatingAdd(dropped, 1)
  /\ UNCHANGED <<sessions, now, peak>>

AcceptTelemetry(p, ev) ==
  LET upgraded == Upgrade(sessions, p)
      admitted == Admit(upgraded, p, ev)
  IN /\ \/ Instrumented(p) \in DOMAIN upgraded
        \/ ~RejectNewActive(upgraded, SessionShutdown(ev))
     /\ sessions' = EnforceSessionCap(admitted)
     /\ dropped' = SaturatingAdd(dropped, Evicted(admitted))
     /\ UNCHANGED <<now, peak>>

-----------------------------------------------------------------------------
(* refresh_discovery *)

LegacyGraceMs == Later(DiscoveryIntervalMs, GraceFloorMs)
ShutdownGraceMs == Later(DiscoveryIntervalMs, GraceFloorMs)
StaleCutoffMs == Later(CleanupIntervalMs * 3, StaleFloorMs)

GraceMs(rec) ==
  CASE EvictionClass(rec) = 0 -> LegacyGraceMs
    [] EvictionClass(rec) = 1 -> ShutdownGraceMs
    [] EvictionClass(rec) = 2 -> StaleCutoffMs

Fresh(rec) == now - rec.last_observed < GraceMs(rec)

(* Discovery refreshes the instrumented record of a process if there is     *)
(* one, else its legacy record.                                             *)
SeenId(p) == IF Instrumented(p) \in Tracked THEN Instrumented(p) ELSE Legacy(p)
SeenIds(found) == {SeenId(p) : p \in found}

Observe(rec) ==
  IF rec.kind = "legacy" THEN [rec EXCEPT !.last_observed = now] ELSE rec

Refreshed(found) ==
  [i \in Tracked \cup SeenIds(found) |->
     IF i \in SeenIds(found)
       THEN Observe(IF i \in Tracked THEN sessions[i]
                    ELSE NewRecord("legacy", now))
       ELSE sessions[i]]

(* Unseen records stay only while they are within their grace period.       *)
Retained(found) ==
  [i \in {j \in DOMAIN Refreshed(found) :
            j \in SeenIds(found) \/ Fresh(Refreshed(found)[j])}
     |-> Refreshed(found)[i]]

RefreshDiscovery(found) ==
  /\ sessions' = EnforceSessionCap(Retained(found))
  /\ dropped' = SaturatingAdd(dropped, Evicted(Retained(found)))
  /\ UNCHANGED <<now, peak>>

-----------------------------------------------------------------------------
(* The wall clock *)

Tick ==
  /\ now < MaxNow
  /\ now' = now + 1
  /\ peak' = Later(peak, now + 1)
  /\ UNCHANGED <<sessions, dropped>>

StepBack ==
  /\ \E t \in 0..(now - 1) : now' = t
  /\ UNCHANGED <<sessions, dropped, peak>>

-----------------------------------------------------------------------------

Init ==
  /\ sessions = [i \in {} |-> NewRecord("legacy", 0)]
  /\ dropped = 0
  /\ now = 0
  /\ peak = 0

Next ==
  \/ \E p \in Procs, ev \in Events : RejectTelemetry(p, ev)
  \/ \E p \in Procs, ev \in Events : AcceptTelemetry(p, ev)
  \/ \E found \in SUBSET Procs : RefreshDiscovery(found)
  \/ Tick
  \/ StepBack

Spec == Init /\ [][Next]_vars

-----------------------------------------------------------------------------
(* Properties *)

(* The map holds well-formed records under well-formed ids, and the drop    *)
(* counter saturates instead of leaving its range.                          *)
TypeOK ==
  /\ Tracked \subseteq SessionIds
  /\ \A i \in Tracked : sessions[i] \in Record
  /\ dropped \in 0..MaxDropped
  /\ now \in 0..MaxNow
  /\ peak \in now..MaxNow

(* However telemetry and discovery interleave, the daemon never keeps more  *)
(* than max_tracked_sessions records (enforce_session_cap).                 *)
WithinCap == Cardinality(Tracked) <= MaxTracked

(* A process is never listed twice: the handoff from the legacy to the      *)
(* instrumented id is complete, and discovery does not recreate the         *)
(* placeholder of a process that has telemetry. The kind agrees with the id.*)
OneRecordPerProcess ==
  /\ \A p \in Procs : ~(Instrumented(p) \in Tracked /\ Legacy(p) \in Tracked)
  /\ \A i \in Tracked : sessions[i].kind = i[1]

(* No peer can make a session look fresher than the daemon observed it      *)
(* (normalize_event_unix_ms): no record is dated after the latest reading   *)
(* of the daemon's own clock, whatever the events claim.                    *)
NotFresherThanClock ==
  \A i \in Tracked : sessions[i].last_observed <= peak

(* The retained points of a record are strictly ordered in time, none is    *)
(* older than history_secs before the newest, the newest is the last        *)
(* observation, and history and counter samples stay in step.               *)
HistoryCoherent ==
  \A i \in Tracked :
    LET rec == sessions[i]
        n == Len(rec.history)
    IN /\ Len(rec.counters) = n
       /\ (rec.kind = "legacy") = (n = 0)
       /\ n > 0 => rec.history[n].unix_ms = rec.last_observed
       /\ \A k \in 1..n :
            /\ rec.counters[k].unix_ms = rec.history[k].unix_ms
            /\ rec.last_observed - rec.history[k].unix_ms <= HistoryMs
       /\ \A k \in 1..n, m \in 1..n :
            k < m => rec.history[k].unix_ms < rec.history[m].unix_ms

(* No look-back window straddles a counter reset: the samples kept for the  *)
(* retransmit windows never decrease, and all date from the last reset on,  *)
(* so that the saturating subtractions of retransmit_pct never saturate.    *)
(* The bundled server reports every counter in every event; an event that   *)
(* lacks one would hide its reset.                                          *)
WindowsSpanNoReset ==
  \A i \in Tracked :
    LET s == sessions[i].counters
        reset == sessions[i].counter_reset
    IN \A k \in 1..Len(s) :
         /\ reset # NONE => s[k].unix_ms >= reset
         /\ \A m \in k..Len(s), c \in CounterNames :
              s[k].totals[c] # NONE /\ s[m].totals[c] # NONE =>
                s[k].totals[c] <= s[m].totals[c]

(* What the reports about a session are computed from can be trusted.       *)
HistorySound == HistoryCoherent /\ WindowsSpanNoReset

(* The peer history of a record tells one story: the current endpoint is    *)
(* the last one or absent, the previous endpoint is always another one and  *)
(* is known exactly when a change was recorded, and a change is never later *)
(* than the last sighting.                                                  *)
PeerCoherent ==
  \A i \in Tracked :
    LET peer == sessions[i].peer
    IN /\ peer.current \in {NONE, peer.last}
       /\ (peer.last = NONE) = (peer.seen_at = NONE)
       /\ (peer.previous = NONE) = (peer.changed_at = NONE)
       /\ peer.previous # NONE =>
            /\ peer.previous # peer.last
            /\ peer.seen_at # NONE
            /\ peer.changed_at <= peer.seen_at
       /\ peer.seen_at # NONE => peer.seen_at <= sessions[i].last_observed

(* Eviction takes the weaker first: when a fresh active instrumented        *)
(* session leaves the map, nothing but active instrumented sessions stays.  *)
ActiveEvictedLast ==
  [][\A i \in Tracked \ Tracked' :
       EvictionClass(sessions[i]) = 2 /\ Fresh(sessions[i]) =>
         \A j \in Tracked' : EvictionClass(sessions'[j]) = 2]_vars

(* A brand-new instrumented session never pushes out an established active  *)
(* one (the comment in reject_new_active_instrumented_session).             *)
AdmissionStep ==
  (\E p \in Procs : Instrumented(p) \in Tracked' \ Tracked) =>
    \A i \in Tracked : EvictionClass(sessions[i]) = 2 => i \in Tracked'
EstablishedActiveSurvives == [][AdmissionStep]_vars

(* The time of the last observation of a process never goes backwards while *)
(* telemetry is tracked, nor at the handoff from a legacy record, even if   *)
(* the wall clock is stepped back or events arrive out of order.            *)
ObservationsNeverRegress ==
  [][\A p \in Procs : Instrumented(p) \in Tracked' =>
       \A i \in {Instrumented(p), Legacy(p)} \cap Tracked :
         sessions'[Instrumented(p)].last_observed >= sessions[i].last_observed]_vars

(* No process disappears silently: every tracked process that had not       *)
(* outlived its grace period and is no longer tracked, under either id, is  *)
(* counted in dropped_sessions_total (until that counter saturates).        *)
NoSilentLoss ==
  [][LET lost == {i \in Tracked : Fresh(sessions[i])
                                   /\ SeenId(i[2])' \notin Tracked'}
     IN \/ Cardinality(lost) <= dropped' - dropped
        \/ dropped' = MaxDropped]_vars
=============================================================================
