----------------------------- MODULE EventFeed -----------------------------
(***************************************************************************)
(* Snapshot publication in moshwatchd: SnapshotTrigger and the publisher   *)
(* task (main.rs), SnapshotHub and the event stream handlers (api.rs).     *)
(*                                                                         *)
(* Writers (the discovery loop and the telemetry handlers) change the      *)
(* state under the write lock and then request a publication, which is two *)
(* separate steps: set `dirty`, then Notify::notify_one. One publisher     *)
(* task turns the flag into snapshots, at most one per refresh interval.   *)
(* Each stream handler sends the newest snapshot of a watch channel to its *)
(* client. The content of a snapshot is the version of the state it shows. *)
(*                                                                         *)
(* Notify and watch are tokio's: notify_one wakes the registered waiter or *)
(* stores one permit; a woken waiter that is dropped hands its wake-up on; *)
(* `changed` marks the newest value as seen, `borrow` does not.            *)
(***************************************************************************)
EXTENDS Integers, FiniteSets

CONSTANTS Writers,      \* tasks that change the state
          Streams,      \* clients of /v1/events/stream
          StreamSlots,  \* STREAM_CONNECTION_SLOTS
          RefreshMs,    \* refresh_ms, in clock ticks
          MaxVersion    \* bound on the number of state changes

ASSUME FeedAssumption ==
  /\ StreamSlots \in Nat \ {0}
  /\ RefreshMs \in Nat \ {0}
  /\ MaxVersion \in Nat

VARIABLES version,   \* number of changes applied to ServiceState
          writer,    \* where each writer is
          dirty,     \* SnapshotTrigger.dirty
          permit,    \* Notify: one stored permit
          publisher, \* where the publisher task is
          woken,     \* Notify: the registered waiter has been woken
          held,      \* version exported but not yet sent
          channel,   \* the watch channel: newest frame
          remaining, \* ticks until the publisher's deadline
          since,     \* ticks since the last publication (observer)
          stream,    \* where each stream handler is
          seen,      \* sequence number its receiver has marked as seen
          inflight,  \* frame it is writing
          last       \* last snapshot frame its client received

pubVars == <<version, writer, dirty, permit, publisher, woken, held, channel,
             remaining, since>>
streamVars == <<stream, seen, inflight, last>>
vars == <<version, writer, dirty, permit, publisher, woken, held, channel,
          remaining, since, stream, seen, inflight, last>>

Frame == [seq: Nat, version: Nat]
NoFrame == [seq |-> -1, version |-> -1]   \* a heartbeat, or nothing yet

-----------------------------------------------------------------------------
(* Writers: change the state, then SnapshotTrigger::request_publish *)

ChangeState(w) ==
  /\ writer[w] = "idle"
  /\ version < MaxVersion
  /\ version' = version + 1
  /\ writer' = [writer EXCEPT ![w] = "store"]
  /\ UNCHANGED <<dirty, permit, publisher, woken, held, channel, remaining,
                 since, streamVars>>

StoreDirty(w) ==
  /\ writer[w] = "store"
  /\ dirty' = TRUE
  /\ writer' = [writer EXCEPT ![w] = "notify"]
  /\ UNCHANGED <<version, permit, publisher, woken, held, channel, remaining,
                 since, streamVars>>

WaiterRegistered == publisher \in {"waiting", "cooling"} /\ ~woken

(* Error: notify_waiters, which stores no permit.                           *)
NotifyWaiters(w) ==
  /\ writer[w] = "notify"
  /\ woken' = (woken \/ WaiterRegistered)
  /\ writer' = [writer EXCEPT ![w] = "idle"]
  /\ UNCHANGED <<version, dirty, permit, publisher, held, channel, remaining,
                 since, streamVars>>

NotifyOne(w) ==
  /\ writer[w] = "notify"
  /\ woken' = (woken \/ WaiterRegistered)
  /\ permit' = (permit \/ ~WaiterRegistered)
  /\ writer' = [writer EXCEPT ![w] = "idle"]
  /\ UNCHANGED <<version, dirty, publisher, held, channel, remaining, since,
                 streamVars>>

-----------------------------------------------------------------------------
(* The publisher task *)

(* while !dirty.swap(false) ... *)
SwapDirty ==
  /\ publisher = "swap"
  /\ dirty' = FALSE
  /\ publisher' = IF dirty THEN "export" ELSE "idle"
  /\ UNCHANGED <<version, writer, permit, woken, held, channel, remaining,
                 since, streamVars>>

(* ... notify.notified().await, with a stored permit or by waiting *)
TakePermit ==
  /\ publisher = "idle"
  /\ permit
  /\ permit' = FALSE
  /\ publisher' = "swap"
  /\ UNCHANGED <<version, writer, dirty, woken, held, channel, remaining,
                 since, streamVars>>

StartWaiting ==
  /\ publisher = "idle"
  /\ ~permit
  /\ publisher' = "waiting"
  /\ UNCHANGED <<version, writer, dirty, permit, woken, held, channel,
                 remaining, since, streamVars>>

Woken ==
  /\ publisher = "waiting"
  /\ woken
  /\ woken' = FALSE
  /\ publisher' = "swap"
  /\ UNCHANGED <<version, writer, dirty, permit, held, channel, remaining,
                 since, streamVars>>

(* export_summaries under the read lock *)
Export ==
  /\ publisher = "export"
  /\ held' = version
  /\ publisher' = "publish"
  /\ UNCHANGED <<version, writer, dirty, permit, woken, channel, remaining,
                 since, streamVars>>

(* Errors: the flag is cleared after the snapshot instead of before it; the *)
(* sequence number is too narrow and wraps; the pause is one tick too long. *)
PublishThenClear ==
  /\ publisher = "publish"
  /\ channel' = [seq |-> channel.seq + 1, version |-> held]
  /\ dirty' = FALSE
  /\ remaining' = RefreshMs
  /\ since' = 0
  /\ publisher' = "select"
  /\ UNCHANGED <<version, writer, permit, woken, held, streamVars>>

PublishWrapping ==
  /\ publisher = "publish"
  /\ channel' = [seq |-> (channel.seq + 1) % 3, version |-> held]
  /\ remaining' = RefreshMs
  /\ since' = 0
  /\ publisher' = "select"
  /\ UNCHANGED <<version, writer, dirty, permit, woken, held, streamVars>>

(* SnapshotHub::publish_snapshot, then the deadline for the next one *)
Publish ==
  /\ publisher = "publish"
  /\ channel' = [seq |-> channel.seq + 1, version |-> held]
  /\ remaining' = RefreshMs
  /\ since' = 0
  /\ publisher' = "select"
  /\ UNCHANGED <<version, writer, dirty, permit, woken, held, streamVars>>

(* select! { sleep_until(deadline) => break, notified() => {} } *)
CoolTakePermit ==
  /\ publisher = "select"
  /\ permit
  /\ permit' = FALSE
  /\ UNCHANGED <<version, writer, dirty, publisher, woken, held, channel,
                 remaining, since, streamVars>>

CoolStartWaiting ==
  /\ publisher = "select"
  /\ ~permit
  /\ remaining > 0
  /\ publisher' = "cooling"
  /\ UNCHANGED <<version, writer, dirty, permit, woken, held, channel,
                 remaining, since, streamVars>>

(* Error: a notification ends the pause.                                    *)
CoolBreak ==
  /\ publisher = "cooling"
  /\ woken
  /\ woken' = FALSE
  /\ publisher' = "swap"
  /\ UNCHANGED <<version, writer, dirty, permit, held, channel, remaining,
                 since, streamVars>>

CoolWoken ==
  /\ publisher = "cooling"
  /\ woken
  /\ woken' = FALSE
  /\ publisher' = "select"
  /\ UNCHANGED <<version, writer, dirty, permit, held, channel, remaining,
                 since, streamVars>>

(* Dropping a woken Notified future stores its wake-up as a permit. *)
DeadlineReached ==
  /\ publisher \in {"select", "cooling"}
  /\ remaining = 0
  /\ permit' = (permit \/ woken)
  /\ woken' = FALSE
  /\ publisher' = "swap"
  /\ UNCHANGED <<version, writer, dirty, held, channel, remaining, since,
                 streamVars>>

Tick ==
  /\ remaining > 0 \/ since < RefreshMs
  /\ remaining' = IF remaining > 0 THEN remaining - 1 ELSE 0
  /\ since' = IF since < RefreshMs THEN since + 1 ELSE since
  /\ UNCHANGED <<version, writer, dirty, permit, publisher, woken, held,
                 channel, streamVars>>

-----------------------------------------------------------------------------
(* stream_events, one handler per client *)

Open(s) ==
  /\ stream[s] = "closed"
  /\ Cardinality({t \in Streams : stream[t] # "closed"}) < StreamSlots
  /\ stream' = [stream EXCEPT ![s] = "headers"]
  /\ UNCHANGED <<pubVars, seen, inflight, last>>

(* subscribe(): the current value counts as seen *)
Subscribe(s) ==
  /\ stream[s] = "headers"
  /\ seen' = [seen EXCEPT ![s] = channel.seq]
  /\ stream' = [stream EXCEPT ![s] = "borrow"]
  /\ UNCHANGED <<pubVars, inflight, last>>

(* receiver.borrow().clone(), for the first frame and after each change *)
Borrow(s) ==
  /\ stream[s] = "borrow"
  /\ inflight' = [inflight EXCEPT ![s] = channel]
  /\ stream' = [stream EXCEPT ![s] = "writing"]
  /\ UNCHANGED <<pubVars, seen, last>>

(* receiver.changed(): the newest value counts as seen *)
Changed(s) ==
  /\ stream[s] = "select"
  /\ seen[s] # channel.seq
  /\ seen' = [seen EXCEPT ![s] = channel.seq]
  /\ stream' = [stream EXCEPT ![s] = "borrow"]
  /\ UNCHANGED <<pubVars, inflight, last>>

Heartbeat(s) ==
  /\ stream[s] = "select"
  /\ inflight' = [inflight EXCEPT ![s] = NoFrame]
  /\ stream' = [stream EXCEPT ![s] = "writing"]
  /\ UNCHANGED <<pubVars, seen, last>>

(* Error: the newest value is marked as seen after the write, although an   *)
(* older one was written.                                                   *)
WroteAndMarked(s) ==
  /\ stream[s] = "writing"
  /\ last' = [last EXCEPT ![s] = IF inflight[s] = NoFrame THEN @ ELSE inflight[s]]
  /\ inflight' = [inflight EXCEPT ![s] = NoFrame]
  /\ seen' = [seen EXCEPT ![s] = channel.seq]
  /\ stream' = [stream EXCEPT ![s] = "select"]
  /\ UNCHANGED pubVars

Wrote(s) ==
  /\ stream[s] = "writing"
  /\ last' = [last EXCEPT ![s] = IF inflight[s] = NoFrame THEN @ ELSE inflight[s]]
  /\ inflight' = [inflight EXCEPT ![s] = NoFrame]
  /\ stream' = [stream EXCEPT ![s] = "select"]
  /\ UNCHANGED <<pubVars, seen>>

(* The write failed or timed out: the handler returns and frees its slot. *)
WriteFailed(s) ==
  /\ stream[s] \in {"headers", "writing"}
  /\ stream' = [stream EXCEPT ![s] = "closed"]
  /\ seen' = [seen EXCEPT ![s] = 0]
  /\ inflight' = [inflight EXCEPT ![s] = NoFrame]
  /\ last' = [last EXCEPT ![s] = NoFrame]
  /\ UNCHANGED pubVars

-----------------------------------------------------------------------------

(* main publishes the empty state once before it starts the tasks.          *)
Init ==
  /\ version = 0
  /\ writer = [w \in Writers |-> "idle"]
  /\ dirty = FALSE /\ permit = FALSE /\ woken = FALSE
  /\ publisher = "swap"
  /\ held = 0
  /\ channel = [seq |-> 1, version |-> 0]
  /\ remaining = 0
  /\ since = RefreshMs
  /\ stream = [s \in Streams |-> "closed"]
  /\ seen = [s \in Streams |-> 0]
  /\ inflight = [s \in Streams |-> NoFrame]
  /\ last = [s \in Streams |-> NoFrame]

PublisherStep ==
  \/ SwapDirty \/ TakePermit \/ StartWaiting \/ Woken \/ Export \/ Publish
  \/ CoolTakePermit \/ CoolStartWaiting \/ CoolWoken \/ DeadlineReached

Next ==
  \/ \E w \in Writers : ChangeState(w)
  \/ \E w \in Writers : StoreDirty(w)
  \/ \E w \in Writers : NotifyOne(w)
  \/ SwapDirty \/ TakePermit \/ StartWaiting \/ Woken \/ Export \/ Publish
  \/ CoolTakePermit \/ CoolStartWaiting \/ CoolWoken \/ DeadlineReached
  \/ Tick
  \/ \E s \in Streams : Open(s)
  \/ \E s \in Streams : Subscribe(s)
  \/ \E s \in Streams : Borrow(s)
  \/ \E s \in Streams : Changed(s)
  \/ \E s \in Streams : Heartbeat(s)
  \/ \E s \in Streams : Wrote(s)
  \/ \E s \in Streams : WriteFailed(s)

(* The runtime polls every runnable task, time passes, and a write ends in  *)
(* success or, after STREAM_WRITE_TIMEOUT, in failure. select! picks at     *)
(* random among ready branches: the deadline is not put off for ever by     *)
(* notifications, nor (strong fairness) Changed by heartbeats. State        *)
(* changes, new clients and heartbeats are not owed.                        *)
Fairness ==
  /\ \A w \in Writers : WF_vars(StoreDirty(w)) /\ WF_vars(NotifyOne(w))
  /\ WF_vars(PublisherStep) /\ WF_vars(DeadlineReached) /\ WF_vars(Tick)
  /\ \A s \in Streams : /\ WF_vars(Subscribe(s)) /\ WF_vars(Borrow(s))
                        /\ WF_vars(Wrote(s) \/ WriteFailed(s))
                        /\ SF_vars(Changed(s))

Safety == Init /\ [][Next]_vars
Spec == Safety /\ Fairness

-----------------------------------------------------------------------------
(* Properties *)

(* Every variable stays in its range; the channel is never ahead of the     *)
(* state it shows.                                                          *)
TypeOK ==
  /\ version \in 0..MaxVersion
  /\ writer \in [Writers -> {"idle", "store", "notify"}]
  /\ dirty \in BOOLEAN /\ permit \in BOOLEAN /\ woken \in BOOLEAN
  /\ publisher \in {"swap", "idle", "waiting", "export", "publish", "select", "cooling"}
  /\ held \in Nat
  /\ channel \in Frame
  /\ remaining \in 0..RefreshMs /\ since \in 0..RefreshMs
  /\ stream \in [Streams -> {"closed", "headers", "borrow", "writing", "select"}]
  /\ seen \in [Streams -> Nat]
  /\ inflight \in [Streams -> Frame \cup {NoFrame}]
  /\ last \in [Streams -> Frame \cup {NoFrame}]

(* No lost update: whenever the published snapshot is behind the state,     *)
(* a change is still on its way into it: a writer has yet to set dirty,     *)
(* dirty is set, or the publisher has cleared it and not yet exported or    *)
(* not yet sent what it exported.                                           *)
NoLostUpdate ==
  \/ channel.version = version
  \/ dirty
  \/ \E w \in Writers : writer[w] = "store"
  \/ publisher = "export"
  \/ publisher = "publish" /\ held = version

(* No lost wake-up: the publisher never sleeps for good on a set flag. If   *)
(* it waits for a notification while dirty is set, it has been woken, or    *)
(* the writer that set the flag is about to notify it.                      *)
NoLostWakeup ==
  dirty /\ publisher \in {"idle", "waiting"} =>
    permit \/ woken \/ \E w \in Writers : writer[w] = "notify"

(* Neither an update nor a wake-up is ever lost on the way from a change of *)
(* the state to the channel (SnapshotTrigger and the publisher's loop).     *)
NothingLost == NoLostUpdate /\ NoLostWakeup

(* A stream handler that waits for the next change has sent the newest      *)
(* snapshot: if its receiver has seen the channel's value, the client has   *)
(* received it.                                                             *)
IdleStreamIsCurrent ==
  \A s \in Streams :
    stream[s] = "select" /\ seen[s] = channel.seq => last[s] = channel

(* A client never sees the feed go backwards: the snapshots it receives on  *)
(* a connection have non-decreasing sequence numbers and state versions.    *)
FramesNeverRegress ==
  [][\A s \in Streams :
       stream'[s] # "closed" =>
         /\ last'[s].seq >= last[s].seq
         /\ last'[s].version >= last[s].version]_vars

(* Publications are at least refresh_ms apart, however often it is asked.   *)
PublicationsSpaced == [][channel' # channel => since >= RefreshMs]_vars

(* Snapshot frames advance sequence numbers (the comment in stream_events): *)
(* consecutive snapshot frames on a stream have increasing numbers.         *)
SnapshotFramesAdvance ==
  [][\A s \in Streams :
       /\ stream[s] = "writing" /\ stream'[s] = "select"
       /\ inflight[s] # NoFrame /\ last[s] # NoFrame
       => inflight[s].seq > last[s].seq]_vars

(* An open stream does not stay behind: again and again it is closed or its *)
(* client has the newest state.                                             *)
StreamsCatchUp ==
  \A s \in Streams : []<>(stream[s] = "closed" \/ last[s].version = version)

(* The feed is a latest-state feed. *)
Latest == INSTANCE LatestState WITH current <- version, shown <- channel.version
ImplementsLatestState == Latest!Spec
=============================================================================
