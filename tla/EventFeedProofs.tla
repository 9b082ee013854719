--------------------------- MODULE EventFeedProofs ---------------------------
(***************************************************************************)
(* Proofs about EventFeed for any number of writers, streams and slots,    *)
(* any refresh interval and any number of changes: nothing is lost on the  *)
(* way to the channel, publications keep their distance, idle streams are  *)
(* current, no client sees the feed go back, and the feed implements the   *)
(* safety part of the latest-state feed.                                   *)
(*                                                                         *)
(* The argument: what is shown is never ahead of what was exported, nor    *)
(* that of the state (Behind); the pause and the clock add up to the       *)
(* refresh interval (Paced); a handler's frame lies between what its       *)
(* client has and the channel (Follows).                                   *)
(***************************************************************************)
EXTENDS EventFeed, TLAPS

Behind ==
  /\ channel.version <= version
  /\ publisher = "publish" => channel.version <= held /\ held <= version

Paced ==
  IF publisher \in {"select", "cooling"} THEN since + remaining >= RefreshMs ELSE since = RefreshMs

NotAfter(f, g) == f.seq <= g.seq /\ f.version <= g.version

Follows(s) ==
  /\ seen[s] <= channel.seq
  /\ NotAfter(last[s], channel)
  /\ inflight[s] # NoFrame => /\ NotAfter(last[s], inflight[s])
                              /\ NotAfter(inflight[s], channel)
                              /\ stream[s] = "writing"
  /\ stream[s] = "closed" => last[s] = NoFrame
  /\ seen[s] = channel.seq =>
       /\ stream[s] = "select" => last[s] = channel
       /\ stream[s] = "writing" => IF inflight[s] = NoFrame THEN last[s] = channel
                                   ELSE inflight[s] = channel

AllFollow == \A s \in Streams : Follows(s)

PubInv == TypeOK /\ Behind /\ NothingLost /\ Paced

-----------------------------------------------------------------------------
(* Types *)

LEMMA FrameFields ==
  ASSUME NEW f \in Frame \cup {NoFrame}
  PROVE  /\ f.seq \in Int /\ f.version \in Int
         /\ f.seq >= NoFrame.seq /\ f.version >= NoFrame.version
         /\ f \in Frame => f.seq \in Nat /\ f.version \in Nat /\ f # NoFrame
BY DEF Frame, NoFrame

LEMMA TypeStep == TypeOK /\ [Next]_vars => TypeOK'
<1> SUFFICES ASSUME TypeOK, [Next]_vars PROVE TypeOK'
  OBVIOUS
<1> USE FeedAssumption DEF FeedAssumption, TypeOK
<1>1. ASSUME NEW w \in Writers, ChangeState(w) PROVE TypeOK'
  BY <1>1 DEF ChangeState, streamVars
<1>2. ASSUME NEW w \in Writers, StoreDirty(w) PROVE TypeOK'
  BY <1>2 DEF StoreDirty, streamVars
<1>3. ASSUME NEW w \in Writers, NotifyOne(w) PROVE TypeOK'
  <2>1. WaiterRegistered \in BOOLEAN
    BY DEF WaiterRegistered
  <2> QED BY <1>3, <2>1 DEF NotifyOne, streamVars
<1>4. CASE SwapDirty
  BY <1>4 DEF SwapDirty, streamVars
<1>5. CASE TakePermit \/ StartWaiting \/ Woken \/ CoolTakePermit \/ CoolStartWaiting \/ CoolWoken
  BY <1>5 DEF TakePermit, StartWaiting, Woken, CoolTakePermit, CoolStartWaiting, CoolWoken, streamVars
<1>6. CASE Export
  BY <1>6 DEF Export, streamVars
<1>7. CASE Publish
  BY <1>7 DEF Publish, streamVars, Frame
<1>8. CASE DeadlineReached
  BY <1>8 DEF DeadlineReached, streamVars
<1>9. CASE Tick
  BY <1>9 DEF Tick, streamVars
<1>10. ASSUME NEW s \in Streams, Open(s) \/ Subscribe(s) \/ Borrow(s) \/ Changed(s) \/ Heartbeat(s)
       PROVE TypeOK'
  BY <1>10 DEF Open, Subscribe, Borrow, Changed, Heartbeat, pubVars, Frame
<1>11. ASSUME NEW s \in Streams, Wrote(s) \/ WriteFailed(s) PROVE TypeOK'
  BY <1>11 DEF Wrote, WriteFailed, pubVars
<1>12. CASE UNCHANGED vars
  BY <1>12 DEF vars
<1> QED
  BY <1>1, <1>2, <1>3, <1>4, <1>5, <1>6, <1>7, <1>8, <1>9, <1>10, <1>11, <1>12 DEF Next

LEMMA TypeInit == Init => TypeOK
<1> SUFFICES ASSUME Init PROVE TypeOK
  OBVIOUS
<1>1. channel \in Frame
  BY DEF Init, Frame
<1>2. /\ version \in 0..MaxVersion /\ held \in Nat
      /\ remaining \in 0..RefreshMs /\ since \in 0..RefreshMs
  BY FeedAssumption DEF FeedAssumption, Init
<1>3. /\ writer \in [Writers -> {"idle", "store", "notify"}]
      /\ stream \in [Streams -> {"closed", "headers", "borrow", "writing", "select"}]
      /\ seen \in [Streams -> Nat]
      /\ inflight \in [Streams -> Frame \cup {NoFrame}]
      /\ last \in [Streams -> Frame \cup {NoFrame}]
  BY DEF Init
<1> QED BY <1>1, <1>2, <1>3 DEF Init, TypeOK

(* Every variable of the feed stays in its range (main.rs, api.rs).         *)
THEOREM FeedTypes == Spec => []TypeOK
BY TypeInit, TypeStep, PTL DEF Spec, Safety

-----------------------------------------------------------------------------
(* The publisher: nothing is shown too early, lost, or sent too often. *)

LEMMA StreamStepKeepsPublisher ==
  ASSUME NEW s \in Streams,
         Open(s) \/ Subscribe(s) \/ Borrow(s) \/ Changed(s) \/ Heartbeat(s) \/ Wrote(s) \/ WriteFailed(s)
  PROVE  UNCHANGED pubVars
BY DEF Open, Subscribe, Borrow, Changed, Heartbeat, Wrote, WriteFailed

LEMMA BehindStep == TypeOK /\ Behind /\ [Next]_vars => Behind'
<1> SUFFICES ASSUME TypeOK, Behind, [Next]_vars PROVE Behind'
  OBVIOUS
<1>0. version \in Nat /\ held \in Nat /\ channel.version \in Nat
  BY FrameFields, FeedAssumption DEF TypeOK, FeedAssumption
<1>1. ASSUME NEW w \in Writers, ChangeState(w) PROVE Behind'
  BY <1>0, <1>1 DEF Behind, ChangeState
<1>2. CASE Export
  BY <1>0, <1>2 DEF Behind, Export
<1>3. CASE Publish
  BY <1>0, <1>3 DEF Behind, Publish
<1>4. CASE UNCHANGED <<version, held, channel>> /\ (publisher' = "publish" => publisher = "publish")
  BY <1>4 DEF Behind
<1>5. ASSUME NEW w \in Writers, StoreDirty(w) \/ NotifyOne(w) PROVE Behind'
  BY <1>4, <1>5 DEF StoreDirty, NotifyOne
<1>6. CASE SwapDirty \/ TakePermit \/ StartWaiting \/ Woken \/ CoolTakePermit \/ CoolStartWaiting
           \/ CoolWoken \/ DeadlineReached \/ Tick
  BY <1>4, <1>6 DEF SwapDirty, TakePermit, StartWaiting, Woken, CoolTakePermit, CoolStartWaiting,
                    CoolWoken, DeadlineReached, Tick
<1>7. CASE UNCHANGED pubVars
  BY <1>4, <1>7 DEF pubVars
<1>8. CASE UNCHANGED vars
  BY <1>7, <1>8 DEF vars, pubVars
<1> QED BY <1>1, <1>2, <1>3, <1>5, <1>6, <1>7, <1>8, StreamStepKeepsPublisher DEF Next

(* A change stays on its way: each step that takes away one reason why the  *)
(* channel may be behind puts the next one in its place.                    *)
LEMMA UpdateStep == TypeOK /\ Behind /\ NoLostUpdate /\ [Next]_vars => NoLostUpdate'
<1> SUFFICES ASSUME TypeOK, Behind, NoLostUpdate, [Next]_vars PROVE NoLostUpdate'
  OBVIOUS
<1>0. /\ version \in Nat /\ held \in Nat /\ channel.version \in Nat
      /\ writer \in [Writers -> {"idle", "store", "notify"}]
  BY FrameFields, FeedAssumption DEF TypeOK, FeedAssumption
<1>1. ASSUME NEW w \in Writers, ChangeState(w) PROVE NoLostUpdate'
  BY <1>0, <1>1 DEF NoLostUpdate, ChangeState
<1>2. ASSUME NEW w \in Writers, StoreDirty(w) PROVE NoLostUpdate'
  BY <1>2 DEF NoLostUpdate, StoreDirty
<1>3. ASSUME NEW w \in Writers, NotifyOne(w) PROVE NoLostUpdate'
  <2>1. \A v \in Writers : writer[v] = "store" => writer'[v] = "store"
    BY <1>0, <1>3 DEF NotifyOne
  <2> QED BY <1>3, <2>1 DEF NoLostUpdate, NotifyOne
<1>4. CASE SwapDirty
  BY <1>4 DEF NoLostUpdate, SwapDirty
<1>5. CASE Export
  BY <1>5 DEF NoLostUpdate, Export
<1>6. CASE Publish
  BY <1>0, <1>6 DEF NoLostUpdate, Publish, Behind
<1>7. CASE /\ UNCHANGED <<version, writer, dirty, held, channel>>
           /\ publisher \in {"export", "publish"} => publisher' = publisher
  BY <1>7 DEF NoLostUpdate
<1>8. CASE TakePermit \/ StartWaiting \/ Woken \/ CoolTakePermit \/ CoolStartWaiting \/ CoolWoken
           \/ DeadlineReached \/ Tick
  BY <1>7, <1>8 DEF TakePermit, StartWaiting, Woken, CoolTakePermit, CoolStartWaiting, CoolWoken,
                    DeadlineReached, Tick
<1>9. CASE UNCHANGED pubVars
  BY <1>7, <1>9 DEF pubVars
<1>10. CASE UNCHANGED vars
  BY <1>9, <1>10 DEF vars, pubVars
<1> QED
  BY <1>1, <1>2, <1>3, <1>4, <1>5, <1>6, <1>8, <1>9, <1>10, StreamStepKeepsPublisher DEF Next

(* A notification is consumed only by a step that looks at the flag next.   *)
LEMMA WakeupStep == TypeOK /\ NoLostWakeup /\ [Next]_vars => NoLostWakeup'
<1> SUFFICES ASSUME TypeOK, NoLostWakeup, [Next]_vars PROVE NoLostWakeup'
  OBVIOUS
<1>0. writer \in [Writers -> {"idle", "store", "notify"}]
  BY DEF TypeOK
<1>1. ASSUME NEW w \in Writers, ChangeState(w) PROVE NoLostWakeup'
  <2>1. \A v \in Writers : writer[v] = "notify" => writer'[v] = "notify"
    BY <1>0, <1>1 DEF ChangeState
  <2> QED BY <1>1, <2>1 DEF NoLostWakeup, ChangeState
<1>2. ASSUME NEW w \in Writers, StoreDirty(w) PROVE NoLostWakeup'
  BY <1>0, <1>2 DEF NoLostWakeup, StoreDirty
<1>3. ASSUME NEW w \in Writers, NotifyOne(w) PROVE NoLostWakeup'
  BY <1>3 DEF NoLostWakeup, NotifyOne
<1>4. CASE SwapDirty
  BY <1>4 DEF NoLostWakeup, SwapDirty
<1>5. CASE StartWaiting
  BY <1>5 DEF NoLostWakeup, StartWaiting
<1>6. CASE publisher' \notin {"idle", "waiting"}
  BY <1>6 DEF NoLostWakeup
<1>7. CASE TakePermit \/ Woken \/ Export \/ Publish \/ CoolTakePermit \/ CoolStartWaiting \/ CoolWoken
           \/ DeadlineReached
  BY <1>6, <1>7 DEF TakePermit, Woken, Export, Publish, CoolTakePermit, CoolStartWaiting, CoolWoken,
                    DeadlineReached
<1>8. CASE UNCHANGED <<writer, dirty, permit, publisher, woken>>
  BY <1>8 DEF NoLostWakeup
<1> QED
  BY <1>1, <1>2, <1>3, <1>4, <1>5, <1>7, <1>8, StreamStepKeepsPublisher DEF Next, Tick, vars, pubVars

(* The clock makes up for what it takes from the pause.                     *)
LEMMA PacedStep == TypeOK /\ Paced /\ [Next]_vars => Paced'
<1> SUFFICES ASSUME TypeOK, Paced, [Next]_vars PROVE Paced'
  OBVIOUS
<1>0. /\ RefreshMs \in Nat \ {0} /\ remaining \in 0..RefreshMs /\ since \in 0..RefreshMs
  BY FeedAssumption DEF FeedAssumption, TypeOK
<1>1. CASE Publish
  BY <1>0, <1>1 DEF Paced, Publish
<1>2. CASE DeadlineReached
  BY <1>0, <1>2 DEF Paced, DeadlineReached
<1>3. CASE Tick
  BY <1>0, <1>3 DEF Paced, Tick
<1>4. CASE /\ UNCHANGED <<remaining, since>>
           /\ publisher \in {"select", "cooling"} <=> publisher' \in {"select", "cooling"}
  BY <1>4 DEF Paced
<1>5. CASE SwapDirty \/ TakePermit \/ StartWaiting \/ Woken \/ Export \/ CoolTakePermit
           \/ CoolStartWaiting \/ CoolWoken
  BY <1>4, <1>5 DEF SwapDirty, TakePermit, StartWaiting, Woken, Export, CoolTakePermit,
                    CoolStartWaiting, CoolWoken
<1>6. ASSUME NEW w \in Writers, ChangeState(w) \/ StoreDirty(w) \/ NotifyOne(w) PROVE Paced'
  BY <1>4, <1>6 DEF ChangeState, StoreDirty, NotifyOne
<1>7. CASE UNCHANGED pubVars
  BY <1>4, <1>7 DEF pubVars
<1>8. CASE UNCHANGED vars
  BY <1>7, <1>8 DEF vars, pubVars
<1> QED BY <1>1, <1>2, <1>3, <1>5, <1>6, <1>7, <1>8, StreamStepKeepsPublisher DEF Next

LEMMA PublisherInvariant == Spec => []PubInv
<1>1. Init => PubInv
  <2>1. Init => Behind /\ NothingLost
    BY DEF Init, Behind, NothingLost, NoLostUpdate, NoLostWakeup
  <2>2. Init => Paced
    BY DEF Init, Paced
  <2> QED BY <2>1, <2>2, TypeInit DEF PubInv
<1>2. PubInv /\ [Next]_vars => PubInv'
  BY TypeStep, BehindStep, UpdateStep, WakeupStep, PacedStep DEF PubInv, NothingLost
<1> QED BY <1>1, <1>2, PTL DEF Spec, Safety

(* No update and no wake-up is lost between a change of the state and the   *)
(* channel, however writers and publisher interleave (SnapshotTrigger).     *)
THEOREM NoChangeIsLost == Spec => []NothingLost
<1>1. PubInv => NothingLost
  BY DEF PubInv
<1> QED BY <1>1, PublisherInvariant, PTL

(* Two publications are at least refresh_ms apart (snapshot_publish_loop).  *)
THEOREM Spacing == Spec => PublicationsSpaced
<1>1. PubInv /\ [Next]_vars => [channel' # channel => since >= RefreshMs]_vars
  <2> SUFFICES ASSUME PubInv, Next, channel' # channel PROVE since >= RefreshMs
    BY DEF vars
  <2>1. Publish
    BY StreamStepKeepsPublisher
    DEF Next, pubVars, ChangeState, StoreDirty, NotifyOne, SwapDirty, TakePermit, StartWaiting, Woken,
        Export, CoolTakePermit, CoolStartWaiting, CoolWoken, DeadlineReached, Tick
  <2>2. since = RefreshMs /\ RefreshMs \in Nat
    BY <2>1, FeedAssumption DEF PubInv, Paced, Publish, FeedAssumption
  <2> QED BY <2>2
<1> QED BY <1>1, PublisherInvariant, PTL DEF Spec, Safety, PublicationsSpaced

(* What the feed shows moves as the abstract feed does: only forward, never *)
(* ahead of the state. (The liveness part of ImplementsLatestState is       *)
(* checked by the event_feed run.)                                          *)
THEOREM ShowsTheLatestState == Spec => Latest!Safety
<1>1. Init => Latest!Init
  BY DEF Init, Latest!Init
<1>2. PubInv /\ [Next]_vars => [Latest!Next]_<<version, channel.version>>
  <2> SUFFICES ASSUME PubInv, [Next]_vars, ~UNCHANGED <<version, channel.version>>
               PROVE  Latest!Next
    OBVIOUS
  <2>1. version \in Nat /\ held \in Nat /\ channel.version \in Nat /\ Behind
    BY FrameFields, FeedAssumption DEF PubInv, TypeOK, FeedAssumption
  <2>2. ASSUME NEW w \in Writers, ChangeState(w) PROVE Latest!Next
    BY <2>2 DEF ChangeState, Latest!Next, Latest!Change
  <2>3. CASE Publish
    BY <2>1, <2>3 DEF Publish, Behind, Latest!Next, Latest!Show
  <2> QED
    BY <2>2, <2>3, StreamStepKeepsPublisher
    DEF Next, vars, pubVars, StoreDirty, NotifyOne, SwapDirty, TakePermit, StartWaiting, Woken,
        Export, CoolTakePermit, CoolStartWaiting, CoolWoken, DeadlineReached, Tick
<1> QED BY <1>1, <1>2, PublisherInvariant, PTL DEF Spec, Safety, Latest!Safety

-----------------------------------------------------------------------------
(* The streams *)

(* A step of the publisher leaves the streams alone and moves the channel   *)
(* forward, to a new sequence number.                                       *)
LEMMA ChannelMovesForward ==
  ASSUME PubInv, [Next]_vars
  PROVE  /\ channel' = channel \/ (channel'.seq > channel.seq /\ NotAfter(channel, channel'))
         /\ channel' # channel => UNCHANGED streamVars
<1>0. /\ held \in Nat /\ channel \in Frame /\ channel.version \in Nat /\ channel.seq \in Nat /\ Behind
  BY FrameFields DEF PubInv, TypeOK
<1>1. CASE Publish
  <2>1. channel'.seq = channel.seq + 1 /\ channel'.version = held
    BY <1>1 DEF Publish
  <2>2. channel.version <= held
    BY <1>0, <1>1 DEF Behind, Publish
  <2>3. UNCHANGED streamVars
    BY <1>1 DEF Publish
  <2> QED BY <1>0, <2>1, <2>2, <2>3 DEF NotAfter
<1>2. CASE ~Publish
  BY <1>2, StreamStepKeepsPublisher
  DEF Next, vars, pubVars, ChangeState, StoreDirty, NotifyOne, SwapDirty, TakePermit, StartWaiting,
      Woken, Export, CoolTakePermit, CoolStartWaiting, CoolWoken, DeadlineReached, Tick
<1> QED BY <1>1, <1>2

(* NotAfter is a transitive order on frames.                                *)
LEMMA NotAfterOrder ==
  ASSUME NEW f \in Frame \cup {NoFrame}, NEW g \in Frame \cup {NoFrame}, NEW h \in Frame \cup {NoFrame}
  PROVE  /\ NotAfter(f, f) /\ NotAfter(NoFrame, f)
         /\ NotAfter(f, g) /\ NotAfter(g, h) => NotAfter(f, h)
BY FrameFields DEF NotAfter

LEMMA FollowsStep ==
  ASSUME PubInv, PubInv', [Next]_vars, NEW s \in Streams, Follows(s)
  PROVE  Follows(s)'
<1>0. /\ channel \in Frame /\ channel' \in Frame /\ channel.seq \in Nat /\ channel'.seq \in Nat
      /\ channel # NoFrame
      /\ seen[s] \in Nat /\ last[s] \in Frame \cup {NoFrame} /\ inflight[s] \in Frame \cup {NoFrame}
      /\ stream \in [Streams -> {"closed", "headers", "borrow", "writing", "select"}]
      /\ DOMAIN seen = Streams /\ DOMAIN last = Streams /\ DOMAIN inflight = Streams
  BY FrameFields DEF PubInv, TypeOK
<1>1. CASE channel' # channel
  <2>1. /\ channel'.seq > channel.seq /\ NotAfter(channel, channel')
        /\ UNCHANGED <<stream, seen, inflight, last>>
    BY <1>1, ChannelMovesForward DEF streamVars
  <2>2. NotAfter(last[s], channel') /\ (inflight[s] # NoFrame => NotAfter(inflight[s], channel'))
    BY <1>0, <2>1, NotAfterOrder DEF Follows
  <2>3. seen[s] <= channel'.seq /\ seen[s] # channel'.seq
    BY <1>0, <2>1 DEF Follows
  <2> QED BY <2>1, <2>2, <2>3 DEF Follows
<1>2. CASE channel' = channel /\ stream'[s] = stream[s] /\ seen'[s] = seen[s]
           /\ inflight'[s] = inflight[s] /\ last'[s] = last[s]
  BY <1>2 DEF Follows
<1>3. CASE Open(s)
  BY <1>0, <1>3 DEF Open, pubVars, Follows
<1>4. CASE Subscribe(s)
  BY <1>0, <1>4 DEF Subscribe, pubVars, Follows
<1>5. CASE Borrow(s)
  BY <1>0, <1>5, NotAfterOrder DEF Borrow, pubVars, Follows
<1>6. CASE Changed(s)
  BY <1>0, <1>6 DEF Changed, pubVars, Follows
<1>7. CASE Heartbeat(s)
  BY <1>0, <1>7 DEF Heartbeat, pubVars, Follows
<1>8. CASE Wrote(s)
  <2>1. CASE inflight[s] = NoFrame
    BY <1>0, <1>8, <2>1 DEF Wrote, pubVars, Follows
  <2>2. CASE inflight[s] # NoFrame
    BY <1>0, <1>8, <2>2 DEF Wrote, pubVars, Follows
  <2> QED BY <2>1, <2>2
<1>9. CASE WriteFailed(s)
  BY <1>0, <1>9, NotAfterOrder DEF WriteFailed, pubVars, Follows
<1>10. ASSUME NEW t \in Streams, t # s,
              Open(t) \/ Subscribe(t) \/ Borrow(t) \/ Changed(t) \/ Heartbeat(t) \/ Wrote(t) \/ WriteFailed(t)
       PROVE  Follows(s)'
  BY <1>0, <1>2, <1>10 DEF Open, Subscribe, Borrow, Changed, Heartbeat, Wrote, WriteFailed, pubVars
<1>11. CASE UNCHANGED streamVars
  BY <1>1, <1>2, <1>11 DEF streamVars
<1> QED
  BY <1>3, <1>4, <1>5, <1>6, <1>7, <1>8, <1>9, <1>10, <1>11
  DEF Next, vars, streamVars, ChangeState, StoreDirty, NotifyOne, SwapDirty, TakePermit, StartWaiting,
      Woken, Export, Publish, CoolTakePermit, CoolStartWaiting, CoolWoken, DeadlineReached, Tick

LEMMA StreamsFollow == Spec => [](PubInv /\ AllFollow)
<1>1. Init => AllFollow
  <2> SUFFICES ASSUME Init, NEW s \in Streams PROVE Follows(s)
    BY DEF AllFollow
  <2>1. /\ seen[s] = 0 /\ stream[s] = "closed" /\ inflight[s] = NoFrame /\ last[s] = NoFrame
        /\ channel = [seq |-> 1, version |-> 0]
    BY DEF Init
  <2>2. NotAfter(NoFrame, channel)
    BY <2>1 DEF NotAfter, NoFrame
  <2> QED BY <2>1, <2>2 DEF Follows
<1>2. PubInv /\ PubInv' /\ AllFollow /\ [Next]_vars => AllFollow'
  BY FollowsStep DEF AllFollow
<1> QED BY <1>1, <1>2, PublisherInvariant, PTL DEF Spec, Safety

(* A handler that waits for a change and has seen the channel's value has   *)
(* sent it: no snapshot is skipped although changed() and borrow() are two  *)
(* steps (stream_events).                                                   *)
THEOREM IdleMeansCurrent == Spec => []IdleStreamIsCurrent
<1>1. AllFollow => IdleStreamIsCurrent
  BY DEF AllFollow, Follows, IdleStreamIsCurrent
<1> QED BY <1>1, StreamsFollow, PTL

(* On one connection neither sequence numbers nor versions go back.         *)
THEOREM ClientsNeverGoBack == Spec => FramesNeverRegress
<1> DEFINE Forward == \A s \in Streams :
                        stream'[s] # "closed" => /\ last'[s].seq >= last[s].seq
                                                 /\ last'[s].version >= last[s].version
<1>1. PubInv /\ AllFollow /\ [Next]_vars => [Forward]_vars
  <2> SUFFICES ASSUME PubInv, AllFollow, Next, NEW s \in Streams, stream'[s] # "closed"
               PROVE  last'[s].seq >= last[s].seq /\ last'[s].version >= last[s].version
    OBVIOUS
  <2>0. /\ last[s] \in Frame \cup {NoFrame} /\ inflight[s] \in Frame \cup {NoFrame} /\ Follows(s)
        /\ DOMAIN last = Streams /\ DOMAIN stream = Streams
        /\ last[s].seq \in Int /\ last[s].version \in Int
        /\ inflight[s].seq \in Int /\ inflight[s].version \in Int
    BY FrameFields DEF PubInv, TypeOK, AllFollow
  <2>1. CASE last'[s] = last[s]
    BY <2>0, <2>1
  <2>2. ASSUME NEW t \in Streams, Wrote(t) PROVE last'[s] = last[s] \/ NotAfter(last[s], last'[s])
    BY <2>0, <2>2 DEF Wrote, Follows
  <2>3. ASSUME NEW t \in Streams, WriteFailed(t) PROVE last'[s] = last[s]
    BY <2>0, <2>3 DEF WriteFailed
  <2>4. ASSUME NEW t \in Streams, Open(t) \/ Subscribe(t) \/ Borrow(t) \/ Changed(t) \/ Heartbeat(t)
        PROVE  last'[s] = last[s]
    BY <2>4 DEF Open, Subscribe, Borrow, Changed, Heartbeat
  <2>5. last'[s] = last[s] \/ NotAfter(last[s], last'[s])
    BY <2>2, <2>3, <2>4
    DEF Next, streamVars, ChangeState, StoreDirty, NotifyOne, SwapDirty, TakePermit, StartWaiting,
        Woken, Export, Publish, CoolTakePermit, CoolStartWaiting, CoolWoken, DeadlineReached, Tick
  <2>6. CASE NotAfter(last[s], last'[s])
    <3>1. last'[s] \in Frame \cup {NoFrame}
      <4>1. TypeOK'
        BY TypeStep DEF PubInv
      <4> QED BY <4>1 DEF TypeOK
    <3> QED BY <2>0, <2>6, <3>1, FrameFields DEF NotAfter
  <2> QED BY <2>1, <2>5, <2>6
<1> QED BY <1>1, StreamsFollow, PTL DEF Spec, Safety, FramesNeverRegress
=============================================================================
