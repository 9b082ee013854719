-------------------------- MODULE TelemetryStream --------------------------
(***************************************************************************)
(* Telemetry connections: TelemetryEmitter in the bundled mosh-server on   *)
(* one side, the listener and handle_telemetry_stream of moshwatchd on the *)
(* other, the kernel's socket buffers between them.                        *)
(*                                                                         *)
(* A frame is a sequence of units, the last one the newline. An event is   *)
(* <<"a", "b", "nl">>: cut anywhere before the newline it no longer        *)
(* parses, except where only the newline is missing. The emitter writes    *)
(* without blocking and drops the connection when a frame does not fit,    *)
(* so the daemon sees the torn frame at the end of a connection.           *)
(*                                                                         *)
(* Time is counted in ticks. A tick waits for every emitter that is due    *)
(* and every read deadline that has passed; a process that is stopped or   *)
(* writes garbage is in Faulty and is waited for by nobody.                *)
(***************************************************************************)
EXTENDS Integers, Sequences

CONSTANTS Healthy, Faulty,       \* mosh-server processes of the same user
          Conns,                 \* bound: connections that exist at a time
          Slots,                 \* connection_slots
          MaxInvalidFrames,      \* MAX_INVALID_TELEMETRY_FRAMES
          FrameLimit,            \* MAX_TELEMETRY_FRAME_BYTES, in units
          SocketBuffer,          \* units the kernel holds for a connection
          InitialTimeout,        \* INITIAL_TELEMETRY_FRAME_TIMEOUT
          FrameTimeout,          \* TELEMETRY_FRAME_TIMEOUT
          ConfirmedWakeup,       \* wakeup_interval_ms once delivery works
          RetryWakeup,           \* wakeup_interval_ms before
          MaxCrashes             \* bound: daemon crashes

Senders == Healthy \cup Faulty

VARIABLES proc,      \* each sender: "live" or "gone"
          link,      \* TelemetryEmitter.fd: its connection, or None
          confirmed, \* TelemetryEmitter.delivery_confirmed
          wake,      \* ticks until its main loop wakes up
          up,        \* the daemon is running
          permits,   \* connection_slots: free permits
          conn,      \* the connections
          heard,     \* senders of which an event was applied since the last tick
          crashes

vars == <<proc, link, confirmed, wake, up, permits, conn, heard, crashes>>
emitterVars == <<proc, link, confirmed, wake>>

None == "none"
Event == <<"a", "b", "nl">>
(* Frames of a faulty sender: an event that does not match the peer, a      *)
(* malformed line, a blank one, one that is too long, and a piece of one.   *)
FaultyFrames == {Event, <<"a", "o", "nl">>, <<"nl">>, <<"x">>,
                 <<"x", "x", "x", "nl">>}

NoConn == [by |-> None, phase |-> "free", why |-> None, buf |-> <<>>,
           eof |-> FALSE, frame |-> <<>>, drain |-> FALSE, invalid |-> 0,
           valid |-> FALSE, timer |-> 0, since |-> 0, verdicts |-> <<>>]

(* An event fits into the frame limit, one torn frame does not end a        *)
(* connection, and every deadline is longer than the interval at which a    *)
(* connected emitter writes: 16 KiB, 8 frames, 5 and 40 seconds against one *)
(* in the code.                                                             *)
ASSUME TelemetryAssumption ==
  /\ Healthy \cap Faulty = {} /\ None \notin Senders \cup Conns
  /\ {Slots, SocketBuffer, FrameLimit, MaxInvalidFrames} \subseteq Nat
  /\ {ConfirmedWakeup, RetryWakeup, InitialTimeout, FrameTimeout} \subseteq Nat
  /\ FrameLimit >= Len(Event) /\ MaxInvalidFrames >= 2
  /\ ConfirmedWakeup < InitialTimeout /\ ConfirmedWakeup < FrameTimeout

-----------------------------------------------------------------------------
(* The emitter *)

(* close_socket after a failed send: the daemon still finds what was        *)
(* written, unless it is the side that closed.                              *)
Closed(r) == IF r.phase = "done" THEN [r EXCEPT !.phase = "free"]
             ELSE [r EXCEPT !.eof = TRUE]

Delivery(s, ok) ==
  /\ confirmed' = [confirmed EXCEPT ![s] = ok]
  /\ wake' = [wake EXCEPT ![s] = IF ok THEN ConfirmedWakeup ELSE RetryWakeup]

(* Error: keep the socket after a partial write. *)
KeepSocket(s, c, r) ==
  /\ link' = [link EXCEPT ![s] = c]
  /\ conn' = [conn EXCEPT ![c] = r]
  /\ Delivery(s, FALSE)

SendFails(s, c, r) ==
  /\ link' = [link EXCEPT ![s] = None]
  /\ conn' = [conn EXCEPT ![c] = Closed(r)]
  /\ Delivery(s, FALSE)

(* send_payload: connect_socket unless connected, then send what fits. A     *)
(* connect to a daemon that is not there fails; one that finds no place in  *)
(* the listener's queue waits.                                              *)
SendPayload(s, f) ==
  \/ /\ link[s] = None /\ ~up
     /\ Delivery(s, FALSE)
     /\ UNCHANGED <<link, conn>>
  \/ \E c \in Conns :
       /\ IF link[s] = None THEN up /\ conn[c].phase = "free" ELSE c = link[s]
       /\ LET r == IF link[s] = None
                   THEN [NoConn EXCEPT !.by = s, !.phase = "queued"]
                   ELSE conn[c]
              room == SocketBuffer - Len(r.buf)
          IN IF r.phase # "done" /\ Len(f) <= room
             THEN /\ link' = [link EXCEPT ![s] = c]
                  /\ conn' = [conn EXCEPT ![c] = [r EXCEPT !.buf = @ \o f]]
                  /\ Delivery(s, TRUE)
             ELSE SendFails(s, c, IF r.phase = "done" THEN r
                    ELSE [r EXCEPT !.buf = @ \o SubSeq(f, 1, room)])

(* session_open and session_tick: any round of the main loop emits.         *)
Emit(s) ==
  /\ proc[s] = "live"
  /\ \E f \in IF s \in Faulty THEN FaultyFrames ELSE {Event} :
       SendPayload(s, f)
  /\ UNCHANGED <<proc, up, permits, heard, crashes>>

(* The process ends after its session_close, which was written before, or   *)
(* is killed: its socket is closed.                                         *)
Exit(s) ==
  /\ proc[s] = "live"
  /\ proc' = [proc EXCEPT ![s] = "gone"]
  /\ link' = [link EXCEPT ![s] = None]
  /\ conn' = IF link[s] = None THEN conn
             ELSE [conn EXCEPT ![link[s]] = Closed(@)]
  /\ UNCHANGED <<confirmed, wake, up, permits, heard, crashes>>

-----------------------------------------------------------------------------
(* The daemon *)

(* The stream is dropped, the permit with it. *)
Finished(r, why) ==
  [NoConn EXCEPT !.by = r.by, !.phase = IF r.eof THEN "free" ELSE "done",
                 !.why = why, !.verdicts = r.verdicts]

(* Error: the permit is not tied to the task. *)
LeakPermit(c, why) ==
  /\ conn' = [conn EXCEPT ![c] = Finished(@, why)]
  /\ UNCHANGED permits

End(c, why) ==
  /\ conn' = [conn EXCEPT ![c] = Finished(@, why)]
  /\ permits' = permits + 1

(* The accept loop of spawn_telemetry_listener. *)
Accept(c) ==
  /\ up
  /\ conn[c].phase = "queued"
  /\ IF permits > 0
     THEN /\ permits' = permits - 1
          /\ conn' = [conn EXCEPT ![c].phase = "accepted"]
     ELSE /\ conn' = [conn EXCEPT ![c] = Finished(@, "busy")]
          /\ UNCHANGED permits
  /\ UNCHANGED <<emitterVars, up, heard, crashes>>

TelemetryFrameTimeout(valid) == IF valid THEN FrameTimeout ELSE InitialTimeout

NextFrame(r) == [r EXCEPT !.frame = <<>>, !.drain = FALSE, !.since = 0,
                          !.timer = TelemetryFrameTimeout(r.valid)]

(* verified_telemetry_peer reads /proc: it fails once the peer has exited.  *)
VerifyPeer(c) ==
  /\ conn[c].phase = "accepted"
  /\ IF proc[conn[c].by] = "live"
     THEN /\ conn' = [conn EXCEPT ![c] = NextFrame([@ EXCEPT !.phase = "reading"])]
          /\ UNCHANGED permits
     ELSE End(c, "rejected")
  /\ UNCHANGED <<emitterVars, up, heard, crashes>>

Remember(r, verdict) ==
  [r EXCEPT !.verdicts =
     LET all == Append(@, verdict)
     IN IF Len(all) > MaxInvalidFrames THEN Tail(all) ELSE all]

(* Oversized, malformed or not matching the peer: counted, and the          *)
(* connection is given up when there are too many in a row.                 *)
Refuse(c, r) ==
  LET counted == Remember([r EXCEPT !.invalid = @ + 1], "refused")
  IN /\ IF counted.invalid >= MaxInvalidFrames
        THEN /\ conn' = [conn EXCEPT ![c] = Finished(counted, "invalid")]
             /\ permits' = permits + 1
        ELSE /\ conn' = [conn EXCEPT ![c] = NextFrame(counted)]
             /\ UNCHANGED permits
     /\ UNCHANGED heard

(* Error: the count of invalid frames is never reset. *)
ApplyKeepingCount(c, r) ==
  /\ conn' = [conn EXCEPT ![c] =
                NextFrame(Remember([r EXCEPT !.valid = TRUE], "applied"))]
  /\ heard' = heard \cup {r.by}
  /\ UNCHANGED permits

Apply(c, r) ==
  /\ conn' = [conn EXCEPT ![c] =
       NextFrame(Remember([r EXCEPT !.valid = TRUE, !.invalid = 0], "applied"))]
  /\ heard' = heard \cup {r.by}
  /\ UNCHANGED permits

(* handle_telemetry_stream with what the read returned: r is the connection *)
(* after it.                                                                *)
HandleFrame(c, r, oversized) ==
  CASE oversized -> Refuse(c, r)
    [] ~oversized /\ r.frame = <<>> ->
         /\ conn' = [conn EXCEPT ![c] = NextFrame(r)]
         /\ UNCHANGED <<permits, heard>>
    [] ~oversized /\ r.frame = <<"a", "b">> -> Apply(c, r)
    [] OTHER -> Refuse(c, r)

(* Error: the deadline starts again with every chunk. *)
TakeAndRearm(r, u) ==
  [r EXCEPT !.drain = @ \/ Len(r.frame) + 1 > FrameLimit,
            !.frame = IF r.drain \/ Len(@) + 1 > FrameLimit THEN @
                      ELSE Append(@, u),
            !.timer = TelemetryFrameTimeout(r.valid)]

(* A chunk without newline: kept while it fits, else the frame is drained.  *)
Take(r, u) ==
  [r EXCEPT !.drain = @ \/ Len(r.frame) + 1 > FrameLimit,
            !.frame = IF r.drain \/ Len(@) + 1 > FrameLimit THEN @
                      ELSE Append(@, u)]

(* read_bounded_telemetry_frame and drain_telemetry_frame_remainder.        *)
Read(c) ==
  /\ conn[c].phase = "reading"
  /\ conn[c].buf # <<>>
  /\ LET u == Head(conn[c].buf)
         r == [conn[c] EXCEPT !.buf = Tail(@)]
     IN IF u = "nl"
        THEN HandleFrame(c, r, r.drain \/ Len(r.frame) + 1 > FrameLimit)
        ELSE /\ conn' = [conn EXCEPT ![c] = Take(r, u)]
             /\ UNCHANGED <<permits, heard>>
  /\ UNCHANGED <<emitterVars, up, crashes>>

(* The end of the stream: an unfinished frame is still handled.             *)
ReadEof(c) ==
  /\ conn[c].phase = "reading"
  /\ conn[c].buf = <<>> /\ conn[c].eof
  /\ IF conn[c].frame = <<>> /\ ~conn[c].drain
     THEN End(c, "eof") /\ UNCHANGED heard
     ELSE HandleFrame(c, conn[c], conn[c].drain)
  /\ UNCHANGED <<emitterVars, up, crashes>>

(* timeout_at polls the read first: the deadline counts when there is       *)
(* nothing to read.                                                         *)
ReadTimeout(c) ==
  /\ conn[c].phase = "reading"
  /\ conn[c].timer = 0
  /\ conn[c].buf = <<>> /\ ~conn[c].eof
  /\ End(c, "timeout")
  /\ UNCHANGED <<emitterVars, up, heard, crashes>>

Crash ==
  /\ up /\ crashes < MaxCrashes
  /\ up' = FALSE
  /\ crashes' = crashes + 1
  /\ permits' = Slots
  /\ heard' = {}
  /\ conn' = [c \in Conns |-> IF conn[c].phase \in {"free", "done"} THEN conn[c]
                              ELSE Finished(conn[c], "crash")]
  /\ UNCHANGED emitterVars

Restart == ~up /\ up' = TRUE /\ UNCHANGED <<emitterVars, permits, conn, heard, crashes>>

-----------------------------------------------------------------------------
(* A healthy emitter that is due and can run; it cannot while its connect   *)
(* waits for a place in the queue.                                          *)
Due(s) == /\ s \in Healthy /\ proc[s] = "live" /\ wake[s] = 0
          /\ link[s] # None \/ ~up \/ \E c \in Conns : conn[c].phase = "free"

Tick ==
  /\ \A s \in Senders : ~Due(s)
  /\ \A c \in Conns : conn[c].phase = "reading" => conn[c].timer > 0
  /\ wake' = [s \in Senders |-> IF wake[s] > 0 THEN wake[s] - 1 ELSE 0]
  /\ conn' = [c \in Conns |->
       IF conn[c].phase # "reading" THEN conn[c]
       ELSE [conn[c] EXCEPT !.timer = @ - 1, !.since = @ + 1]]
  /\ heard' = {}
  /\ UNCHANGED <<proc, link, confirmed, up, permits, crashes>>

Init ==
  /\ proc = [s \in Senders |-> "live"]
  /\ link = [s \in Senders |-> None]
  /\ confirmed = [s \in Senders |-> FALSE]
  /\ wake = [s \in Senders |-> 0]
  /\ up = FALSE
  /\ permits = Slots
  /\ conn = [c \in Conns |-> NoConn]
  /\ heard = {}
  /\ crashes = 0

Next ==
  \/ \E s \in Senders : Emit(s) \/ Exit(s)
  \/ \E c \in Conns : \/ Accept(c) \/ VerifyPeer(c) \/ Read(c)
                       \/ ReadEof(c) \/ ReadTimeout(c)
  \/ Crash \/ Restart \/ Tick

(* The daemon's tasks run, the clock advances, due emitters wake up and the *)
(* service manager restarts the daemon.                                     *)
Fairness ==
  /\ \A c \in Conns : WF_vars(Accept(c)) /\ WF_vars(VerifyPeer(c))
       /\ WF_vars(Read(c)) /\ WF_vars(ReadEof(c)) /\ WF_vars(ReadTimeout(c))
  /\ \A s \in Healthy : WF_vars(Due(s) /\ Emit(s))
  /\ WF_vars(Tick) /\ WF_vars(Restart)

Spec == Init /\ [][Next]_vars
FairSpec == Spec /\ Fairness

-----------------------------------------------------------------------------

(* A peer that only sends events never has one refused on a connection it   *)
(* is still using: what a partial write leaves behind is at the end of a    *)
(* connection, never in front of the next event.                            *)
HealthyNeverPenalised ==
  \A c \in Conns :
    conn[c].phase = "reading" /\ conn[c].by \in Healthy /\ conn[c].invalid > 0
      => conn[c].eof /\ conn[c].buf = <<>>

(* The daemon never gives up a healthy peer for silence or for invalid      *)
(* frames: the deadlines are longer than the wake-up interval that goes     *)
(* with an open connection.                                                 *)
HealthyNeverCut ==
  \A c \in Conns : conn[c].by \in Healthy => conn[c].why \notin {"timeout", "invalid"}

(* A connection is cut for invalid frames exactly after MaxInvalidFrames in *)
(* a row, whatever blank lines and events came before.                      *)
CutOnlyAfterRefusedRun ==
  \A c \in Conns :
    conn[c].why = "invalid" <=>
      /\ Len(conn[c].verdicts) = MaxInvalidFrames
      /\ \A i \in 1..MaxInvalidFrames : conn[c].verdicts[i] = "refused"

(* No frame occupies a handler longer than its deadline, however it is      *)
(* chopped up and even if it has to be drained.                             *)
FrameTimeIsBounded ==
  \A c \in Conns :
    conn[c].phase = "reading" => conn[c].since <= TelemetryFrameTimeout(conn[c].valid)

(* The peers that keep to the protocol are left alone, the others are cut   *)
(* off in bounded time.                                                     *)
HealthyNeverPunished == HealthyNeverPenalised /\ HealthyNeverCut
FaultyIsBounded == CutOnlyAfterRefusedRun /\ FrameTimeIsBounded

(* Every running emitter is heard again and again, after any crash of the   *)
(* daemon and any torn connection, if there are slots for all of them.      *)
EventuallyHeard ==
  \A s \in Healthy : (proc[s] = "live") ~> (s \in heard \/ proc[s] = "gone")

(* README.md: the emitter "stays at a 30-second wakeup cadence until the    *)
(* daemon is actually consuming telemetry". The short interval has run out  *)
(* and the daemon has consumed nothing: a full socket write is all that     *)
(* delivery_confirmed stands for.                                           *)
FastCadenceOnlyWhenConsumed ==
  \A s \in Healthy : proc[s] = "live" /\ confirmed[s] /\ wake[s] = 0
                      => conn[link[s]].valid
=============================================================================
