---------------------------- MODULE SessionRecord ----------------------------
(***************************************************************************)
(* One tracked session of moshwatchd (SessionRecord in state.rs) and what  *)
(* a verified telemetry event does to it: time normalisation, reset on a   *)
(* counter regression, client-peer bookkeeping, the retained history and   *)
(* counter samples, and the two retransmit look-back windows.              *)
(*                                                                         *)
(* Pure operators only; module Registry keeps the map of records.          *)
(* Left out because nothing that is kept depends on them: the endpoint and *)
(* command-line strings, the display name, the RTT gauges, and the stored  *)
(* health, which every reader recomputes (materialize_summary).            *)
(***************************************************************************)
EXTENDS Integers, Sequences

CONSTANTS NONE,        \* Option::None
          Addrs,       \* client endpoints a telemetry event can report
          HistoryMs,   \* history_secs * 1000
          ShortMs,     \* the "10s" retransmit window
          LongMs       \* the "60s" retransmit window

ASSUME RecordAssumption ==
  /\ NONE \notin Int
  /\ NONE \notin BOOLEAN
  /\ NONE \notin Addrs
  /\ HistoryMs \in Nat
  /\ ShortMs \in Nat \ {0}
  /\ LongMs \in Nat \ {0}

-----------------------------------------------------------------------------
(* Types *)

OptNat == Nat \cup {NONE}
OptAddr == Addrs \cup {NONE}

(* The monotone counters of an event. The three that feed the windows are   *)
(* kept apart; "other" stands for the five that only take part in the       *)
(* regression test (packets tx/rx, state updates rx, duplicates, reorders). *)
CounterNames == {"state_updates_tx", "retransmits", "empty_acks_tx", "other"}
Totals == [CounterNames -> OptNat]
NoTotals == [c \in CounterNames |-> NONE]

MetricPoint == [unix_ms: Nat, addr: OptAddr]
CounterSample == [unix_ms: Nat, totals: Totals]

Window == [complete: BOOLEAN, updates: OptNat, retransmits: OptNat,
           empty_acks: OptNat]

Peer == [current: OptAddr, last: OptAddr, previous: OptAddr,
         changed_at: OptNat, seen_at: OptNat]

Record == [kind: {"legacy", "instrumented"},
           last_observed: Nat,
           shutdown: BOOLEAN,
           counter_reset: OptNat,
           totals: Totals,
           peer: Peer,
           history: Seq(MetricPoint),
           counters: Seq(CounterSample),
           window_short: Window,
           window_long: Window]

(* A telemetry event after the connection handler rewrote its identity.     *)
Event == [unix_ms: Nat,
          close: BOOLEAN,               \* event == SessionClose
          shutdown: BOOLEAN \cup {NONE},
          addr: OptAddr,
          totals: Totals]

-----------------------------------------------------------------------------
(* Fresh records *)

DefaultPeer == [current |-> NONE, last |-> NONE, previous |-> NONE,
                changed_at |-> NONE, seen_at |-> NONE]

NoWindow(complete) == [complete |-> complete, updates |-> NONE,
                       retransmits |-> NONE, empty_acks |-> NONE]

NewRecord(kind, observed) ==
  [kind |-> kind, last_observed |-> observed, shutdown |-> FALSE,
   counter_reset |-> NONE, totals |-> NoTotals, peer |-> DefaultPeer,
   history |-> <<>>, counters |-> <<>>,
   window_short |-> NoWindow(FALSE), window_long |-> NoWindow(FALSE)]

-----------------------------------------------------------------------------
(* Time *)

Earlier(s, t) == IF s <= t THEN s ELSE t
Later(s, t) == IF s >= t THEN s ELSE t

(* Error: the sender's past time is believed.                               *)
BelievePast(rec, event_ms, received) == Earlier(event_ms, received)

(* An event from the future counts as received now; one from the past of    *)
(* the record counts as observed when the record last was.                  *)
NormalizeEventMs(rec, event_ms, received) ==
  Later(Earlier(event_ms, received), rec.last_observed)

-----------------------------------------------------------------------------
(* Counters, history, windows *)

MonotonicCounterRegressed(previous, next) ==
  previous # NONE /\ next # NONE /\ next < previous

(* Error: one counter is left out of the regression test.                   *)
IgnoreEmptyAcks(totals, next) ==
  \E c \in CounterNames \ {"empty_acks_tx"} :
    MonotonicCounterRegressed(totals[c], next[c])

MetricsRegressed(totals, next) ==
  \E c \in CounterNames : MonotonicCounterRegressed(totals[c], next[c])

Last(s) == s[Len(s)]

(* Error: two samples of one millisecond are both kept.                     *)
AlwaysAppend(s, point) == Append(s, point)

(* Replace the newest entry when it has the same millisecond, else append.  *)
Upsert(s, point) ==
  IF s # <<>> /\ Last(s).unix_ms = point.unix_ms
    THEN [s EXCEPT ![Len(s)] = point]
    ELSE Append(s, point)

(* Pop entries off the front while they are older than the cutoff.          *)
TrimHistory(s) ==
  LET cutoff == Last(s).unix_ms - HistoryMs
      first == CHOOSE i \in 1..Len(s) :
                  /\ s[i].unix_ms >= cutoff
                  /\ \A j \in 1..(i - 1) : s[j].unix_ms < cutoff
  IN SubSeq(s, first, Len(s))

(* Newest sample at least `window` older than the latest one.               *)
Baselines(s, window) ==
  {i \in 1..Len(s) : Last(s).unix_ms - s[i].unix_ms >= window}

SaturatingSub(a, b) == IF a >= b THEN a - b ELSE 0

OrZero(v) == IF v = NONE THEN 0 ELSE v

(* pct itself is 100 * retransmits / (updates + retransmits + empty_acks),  *)
(* present exactly when that denominator is not zero.                       *)
RetransmitPct(s, window) ==
  IF Baselines(s, window) = {}
    THEN NoWindow(FALSE)
    ELSE LET base == CHOOSE i \in Baselines(s, window) :
                        \A j \in Baselines(s, window) : j <= i
             old == s[base].totals
             new == Last(s).totals
         IN IF \E c \in {"state_updates_tx", "retransmits"} :
                  old[c] = NONE \/ new[c] = NONE
              THEN NoWindow(TRUE)
              ELSE [complete |-> TRUE,
                    updates |-> SaturatingSub(new["state_updates_tx"],
                                              old["state_updates_tx"]),
                    retransmits |-> SaturatingSub(new["retransmits"],
                                                  old["retransmits"]),
                    empty_acks |-> SaturatingSub(OrZero(new["empty_acks_tx"]),
                                                 OrZero(old["empty_acks_tx"]))]

-----------------------------------------------------------------------------
(* Client endpoint *)

(* Error: the change test looks at the current endpoint, which is absent    *)
(* after an event without one, instead of the last known one.               *)
CompareWithCurrent(peer, addr, at) ==
  IF addr = NONE
    THEN [peer EXCEPT !.current = NONE]
    ELSE LET changed == peer.current # addr /\ peer.last # NONE
         IN [current |-> addr,
             last |-> addr,
             previous |-> IF changed THEN peer.last ELSE peer.previous,
             changed_at |-> IF changed THEN at ELSE peer.changed_at,
             seen_at |-> at]

ApplyClientPeer(peer, addr, at) ==
  IF addr = NONE
    THEN [peer EXCEPT !.current = NONE]
    ELSE LET changed == peer.last # addr /\ peer.last # NONE
         IN [current |-> addr,
             last |-> addr,
             previous |-> IF changed THEN peer.last ELSE peer.previous,
             changed_at |-> IF changed THEN at ELSE peer.changed_at,
             seen_at |-> at]

-----------------------------------------------------------------------------
(* The record part of apply_telemetry_at *)

SessionShutdown(ev) == ev.shutdown = TRUE \/ ev.close

(* An explicit shutdown field wins over the event kind.                     *)
ShutdownAfter(ev) ==
  IF ev.shutdown # NONE THEN ev.shutdown ELSE SessionShutdown(ev)

(* Samples that survive into this event: none after a regression of a       *)
(* counter or of time.                                                      *)
Kept(s, rec, ev, at) ==
  IF \/ MetricsRegressed(rec.totals, ev.totals)
     \/ rec.history # <<>> /\ at < Last(rec.history).unix_ms
    THEN <<>> ELSE s

ApplyEvent(rec, ev, received) ==
  LET at == NormalizeEventMs(rec, ev.unix_ms, received)
      peer == ApplyClientPeer(rec.peer, ev.addr, at)
      history == TrimHistory(Upsert(Kept(rec.history, rec, ev, at),
                   [unix_ms |-> at, addr |-> peer.current]))
      counters == TrimHistory(Upsert(Kept(rec.counters, rec, ev, at),
                    [unix_ms |-> at, totals |-> ev.totals]))
  IN [kind |-> "instrumented",
      last_observed |-> at,
      shutdown |-> ShutdownAfter(ev),
      counter_reset |-> IF MetricsRegressed(rec.totals, ev.totals)
                          THEN at ELSE rec.counter_reset,
      totals |-> ev.totals,
      peer |-> peer,
      history |-> history,
      counters |-> counters,
      window_short |-> RetransmitPct(counters, ShortMs),
      window_long |-> RetransmitPct(counters, LongMs)]
=============================================================================
