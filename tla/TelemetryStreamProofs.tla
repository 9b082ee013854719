------------------------ MODULE TelemetryStreamProofs ------------------------
(***************************************************************************)
(* What the daemon does to telemetry peers, for any number of senders,     *)
(* connections, slots and crashes, and all limits and deadlines that       *)
(* TelemetryAssumption allows.                                             *)
(*                                                                         *)
(* A faulty peer: the count of invalid frames is the length of the run of  *)
(* refused frames that the verdicts end with (RunOK), and what is left of  *)
(* the deadline and what has passed of it add up (TimeOK).                 *)
(*                                                                         *)
(* A healthy peer: what was read and what is still in the socket are       *)
(* events one after the other, whole ones while the connection is open     *)
(* (Chain), so that nothing but a torn end can be refused. An open         *)
(* connection belongs to exactly one running emitter (LinkOK), and when it *)
(* has been read to the end, its emitter is due before its deadline is     *)
(* (TimelyOK).                                                             *)
(***************************************************************************)
EXTENDS TelemetryStream, SequenceTheorems, TLAPS

Units == {"a", "b", "o", "x", "nl"}
Reasons == {"busy", "rejected", "eof", "timeout", "crash"}
ConnRec ==
  [by: Senders \cup {None}, phase: {"free", "queued", "accepted", "reading", "done"},
   why: Reasons \cup {None, "invalid"}, buf: Seq(Units), eof: BOOLEAN,
   frame: Seq(Units), drain: BOOLEAN, invalid: Nat, valid: BOOLEAN,
   timer: Nat, since: Nat, verdicts: Seq({"refused", "applied"})]

TypeOK ==
  /\ proc \in [Senders -> {"live", "gone"}]
  /\ link \in [Senders -> Conns \cup {None}]
  /\ wake \in [Senders -> Nat]
  /\ conn \in [Conns -> ConnRec]

Active(r) == r.phase \in {"queued", "accepted", "reading"}
AllRefused(v) ==
  Len(v) = MaxInvalidFrames /\ \A i \in 1..MaxInvalidFrames : v[i] = "refused"

(* The verdicts end with exactly n refused frames, or all of them are.      *)
RunOK(v, n) ==
  /\ Len(v) <= MaxInvalidFrames /\ n <= Len(v)
  /\ \A i \in 1..Len(v) : i > Len(v) - n => v[i] = "refused"
  /\ n < Len(v) => v[Len(v) - n] # "refused"

CountOK(r) ==
  IF Active(r) THEN r.why = None /\ r.invalid < MaxInvalidFrames /\ RunOK(r.verdicts, r.invalid)
  ELSE r.why = "invalid" <=> AllRefused(r.verdicts)

TimeOK(r) ==
  r.phase = "reading" => r.timer + r.since = TelemetryFrameTimeout(r.valid)

(* The unit that follows u in a stream of events. *)
After(u) == CASE u = "nl" -> "a" [] u = "a" -> "b" [] OTHER -> "nl"
LastOf(f) == IF f = <<>> THEN "nl" ELSE f[Len(f)]

(* After u, buf goes on with events, up to the end of one if open.          *)
Chain(u, buf, open) ==
  /\ buf # <<>> => buf[1] = After(u)
  /\ \A i \in 1..(Len(buf) - 1) : buf[i + 1] = After(buf[i])
  /\ open => (IF buf = <<>> THEN u ELSE buf[Len(buf)]) = "nl"

StreamOK(r) ==
  r.by \in Healthy =>
    /\ r.why \notin {"timeout", "invalid"}
    /\ Active(r) =>
         /\ ~r.drain /\ r.frame \in {<<>>, <<"a">>, <<"a", "b">>}
         /\ r.phase # "reading" => r.frame = <<>>
         /\ Chain(LastOf(r.frame), r.buf, ~r.eof)
         /\ r.invalid > 0 => r.eof /\ r.buf = <<>> /\ r.frame = <<>>

RecOK(r) == CountOK(r) /\ TimeOK(r) /\ StreamOK(r)

(* An open connection is the one of its sender, and that sender runs.       *)
Open(r) == r.phase # "free" /\ ~r.eof
LinkOK ==
  /\ \A s \in Senders : link[s] # None =>
       /\ proc[s] = "live" /\ Open(conn[link[s]]) /\ conn[link[s]].by = s
       /\ s \in Healthy => wake[s] <= ConfirmedWakeup
  /\ \A c \in Conns : Open(conn[c]) =>
       conn[c].by \in Senders /\ link[conn[c].by] = c

Timely(r) ==
  r.phase = "reading" /\ r.by \in Healthy /\ ~r.eof /\ r.buf = <<>>
    => wake[r.by] < r.timer

RecordsOK == \A c \in Conns : RecOK(conn[c])
TimelyOK == \A c \in Conns : Timely(conn[c])
IInv == TypeOK /\ RecordsOK /\ LinkOK /\ TimelyOK

-----------------------------------------------------------------------------
(* The run of refused frames *)

Verdicts == {"refused", "applied"}

(* What is remembered of the verdicts v and one more. *)
Kept(v, x) ==
  IF Len(Append(v, x)) > MaxInvalidFrames THEN Tail(Append(v, x)) ELSE Append(v, x)

(* w is v and then x, without the first verdict of a full v. *)
Rolled(v, x, w) ==
  /\ w \in Seq(Verdicts)
  /\ Len(v) = MaxInvalidFrames =>
       Len(w) = Len(v) /\ \A i \in 1..(Len(v) - 1) : w[i] = v[i + 1]
  /\ Len(v) # MaxInvalidFrames =>
       Len(w) = Len(v) + 1 /\ \A i \in 1..Len(v) : w[i] = v[i]
  /\ w[Len(w)] = x

LEMMA KeptVerdicts ==
  ASSUME NEW v \in Seq(Verdicts), NEW x \in Verdicts, Len(v) <= MaxInvalidFrames
  PROVE  Rolled(v, x, Kept(v, x))
<1> DEFINE all == Append(v, x)
<1>0. MaxInvalidFrames \in Nat \ {0, 1} /\ Len(v) \in Nat
  BY TelemetryAssumption
<1>1. /\ all \in Seq(Verdicts) /\ Len(all) = Len(v) + 1
      /\ \A i \in 1..Len(v) : all[i] = v[i]
      /\ all[Len(v) + 1] = x
  OBVIOUS
<1>2. /\ Tail(all) \in Seq(Verdicts) /\ Len(Tail(all)) = Len(v)
      /\ \A i \in 1..Len(v) : Tail(all)[i] = all[i + 1]
  BY <1>1
<1>3. Len(v) = MaxInvalidFrames <=> Len(all) > MaxInvalidFrames
  BY <1>0, <1>1
<1> HIDE DEF all
<1>4. Kept(v, x) = IF Len(v) = MaxInvalidFrames THEN Tail(all) ELSE all
  BY <1>3 DEF Kept, all
<1>5. CASE Len(v) = MaxInvalidFrames
  BY <1>0, <1>1, <1>2, <1>4, <1>5 DEF Rolled
<1>6. CASE Len(v) # MaxInvalidFrames
  BY <1>0, <1>1, <1>4, <1>6 DEF Rolled
<1> QED BY <1>5, <1>6

(* A refused frame makes the run longer; one of the limit's length is all   *)
(* that is remembered.                                                      *)
LEMMA RunGrows ==
  ASSUME NEW v \in Seq(Verdicts), NEW n \in Nat, RunOK(v, n), n < MaxInvalidFrames,
         NEW w, w = Kept(v, "refused")
  PROVE  /\ RunOK(w, n + 1)
         /\ n + 1 >= MaxInvalidFrames => AllRefused(w)
<1>0. MaxInvalidFrames \in Nat \ {0, 1} /\ Len(v) \in Nat /\ Len(v) <= MaxInvalidFrames
  BY TelemetryAssumption DEF RunOK
<1>1. Rolled(v, "refused", w)
  BY <1>0, KeptVerdicts DEF Verdicts
<1>2. RunOK(w, n + 1)
  <2>1. CASE Len(v) = MaxInvalidFrames
    BY <1>0, <1>1, <2>1 DEF RunOK, Rolled
  <2>2. CASE Len(v) # MaxInvalidFrames
    BY <1>0, <1>1, <2>2 DEF RunOK, Rolled
  <2> QED BY <2>1, <2>2
<1>3. n + 1 >= MaxInvalidFrames => AllRefused(w)
  BY <1>0, <1>1, <1>2 DEF RunOK, AllRefused, Rolled
<1> QED BY <1>2, <1>3

(* An applied one ends it. *)
LEMMA RunBreaks ==
  ASSUME NEW v \in Seq(Verdicts), Len(v) <= MaxInvalidFrames, NEW w, w = Kept(v, "applied")
  PROVE  RunOK(w, 0)
<1>0. MaxInvalidFrames \in Nat \ {0, 1} /\ Len(v) \in Nat
  BY TelemetryAssumption
<1>1. Rolled(v, "applied", w)
  BY <1>0, KeptVerdicts DEF Verdicts
<1> QED BY <1>0, <1>1 DEF RunOK, Rolled

LEMMA RunNotFull ==
  ASSUME NEW v \in Seq(Verdicts), NEW n \in Nat, RunOK(v, n), n < MaxInvalidFrames
  PROVE  ~AllRefused(v)
BY TelemetryAssumption DEF RunOK, AllRefused

-----------------------------------------------------------------------------
(* One connection *)

LEMMA FinishedOK ==
  ASSUME NEW r \in ConnRec, Active(r), RecOK(r), NEW why \in Reasons,
         why = "timeout" => r.by \notin Healthy
  PROVE  LET q == Finished(r, why)
         IN /\ q \in ConnRec /\ RecOK(q) /\ q.by = r.by /\ q.phase # "reading"
            /\ Open(q) <=> Open(r)
<1> DEFINE q == Finished(r, why)
<1>1. /\ q \in ConnRec /\ q.by = r.by /\ q.phase = (IF r.eof THEN "free" ELSE "done")
      /\ ~q.eof /\ q.why = why /\ q.verdicts = r.verdicts
  <2>1. NoConn \in ConnRec /\ NoConn.eof = FALSE
    BY DEF NoConn, ConnRec
  <2>2. /\ q \in ConnRec /\ q.eof = NoConn.eof
    BY <2>1 DEF Finished, ConnRec
  <2>3. /\ q.by = r.by /\ q.phase = (IF r.eof THEN "free" ELSE "done")
        /\ q.why = why /\ q.verdicts = r.verdicts
    BY <2>1 DEF Finished, ConnRec
  <2> QED BY <2>1, <2>2, <2>3
<1>2. ~AllRefused(r.verdicts)
  BY RunNotFull DEF RecOK, CountOK, ConnRec, Verdicts
<1> HIDE DEF q
<1>3. RecOK(q)
  BY <1>1, <1>2 DEF RecOK, CountOK, TimeOK, StreamOK, Active, Reasons
<1>4. (Open(q) <=> Open(r)) /\ q.phase # "reading"
  BY <1>1 DEF Open, Active
<1> QED BY <1>1, <1>3, <1>4 DEF q

(* A connection that is about to read the next frame: r without the frame   *)
(* that was handled.                                                        *)
Between(r) ==
  /\ r.phase = "reading" /\ r.why = None
  /\ r.invalid < MaxInvalidFrames /\ RunOK(r.verdicts, r.invalid)
  /\ r.by \in Healthy => /\ Chain("nl", r.buf, ~r.eof)
                         /\ r.invalid > 0 => r.eof /\ r.buf = <<>>

(* What a daemon's step may make of the record r.                           *)
Successor(r, q) ==
  /\ q \in ConnRec /\ RecOK(q) /\ q.by = r.by
  /\ Open(q) <=> Open(r)
  /\ q.phase = "reading" /\ q.by \in Healthy /\ ~q.eof /\ q.buf = <<>>
       => q.timer > ConfirmedWakeup

LEMMA TimeoutsLongEnough ==
  \A valid \in BOOLEAN : TelemetryFrameTimeout(valid) \in Nat
                         /\ TelemetryFrameTimeout(valid) > ConfirmedWakeup
BY TelemetryAssumption DEF TelemetryFrameTimeout

LEMMA NextFrameOK ==
  ASSUME NEW r \in ConnRec, Between(r)
  PROVE  Successor(r, NextFrame(r))
<1> DEFINE q == NextFrame(r)
<1>1. TelemetryFrameTimeout(r.valid) \in Nat /\ TelemetryFrameTimeout(r.valid) > ConfirmedWakeup
  BY TimeoutsLongEnough DEF ConnRec
<1>2. q \in ConnRec
  <2>1. <<>> \in Seq(Units)
    OBVIOUS
  <2> QED BY <1>1, <2>1 DEF NextFrame, ConnRec
<1>3. /\ q.by = r.by /\ q.phase = r.phase /\ q.why = r.why /\ q.buf = r.buf
      /\ q.eof = r.eof /\ q.frame = <<>> /\ ~q.drain /\ q.invalid = r.invalid
      /\ q.valid = r.valid /\ q.timer = TelemetryFrameTimeout(r.valid)
      /\ q.since = 0 /\ q.verdicts = r.verdicts
  BY DEF NextFrame, ConnRec
<1> HIDE DEF q
<1>4. CountOK(q) /\ TimeOK(q)
  BY <1>1, <1>3 DEF Between, CountOK, TimeOK, Active
<1>5. StreamOK(q)
  <2>1. LastOf(q.frame) = "nl"
    BY <1>3 DEF LastOf
  <2> QED BY <1>3, <2>1 DEF Between, StreamOK, Active, None
<1> QED BY <1>1, <1>2, <1>3, <1>4, <1>5 DEF Successor, RecOK, Open, q

(* One more verdict. *)
LEMMA RememberFields ==
  ASSUME NEW r \in ConnRec, NEW x \in Verdicts, Len(r.verdicts) <= MaxInvalidFrames,
         NEW q, q = Remember(r, x)
  PROVE  /\ q \in ConnRec /\ q.verdicts = Kept(r.verdicts, x)
         /\ q.by = r.by /\ q.phase = r.phase /\ q.why = r.why /\ q.buf = r.buf
         /\ q.eof = r.eof /\ q.invalid = r.invalid /\ q.valid = r.valid
<1>1. q = [r EXCEPT !.verdicts = Kept(r.verdicts, x)]
  BY DEF Remember, Kept
<1>2. r.verdicts \in Seq(Verdicts)
  BY DEF ConnRec, Verdicts
<1>3. Kept(r.verdicts, x) \in Seq(Verdicts)
  BY <1>2, KeptVerdicts DEF Rolled
<1> QED BY <1>1, <1>3 DEF ConnRec, Verdicts

(* The frame in r is a whole one, or a healthy sender's torn last one.      *)
FrameRead(r, oversized) ==
  r.by \in Healthy =>
    /\ ~oversized /\ r.frame \in {<<>>, <<"a">>, <<"a", "b">>}
    /\ r.frame = <<"a">> => r.eof /\ r.buf = <<>> /\ r.invalid = 0

LEMMA RefuseOK ==
  ASSUME NEW c \in Conns, NEW r \in ConnRec, Between(r), Refuse(c, r),
         conn \in [Conns -> ConnRec],
         r.by \in Healthy => r.eof /\ r.buf = <<>> /\ r.invalid = 0
  PROVE  \E q : Successor(r, q) /\ conn' = [conn EXCEPT ![c] = q]
<1> DEFINE one == [r EXCEPT !.invalid = @ + 1]
           counted == Remember(one, "refused")
<1>1. /\ one \in ConnRec /\ one.invalid = r.invalid + 1 /\ one.verdicts = r.verdicts
      /\ one.by = r.by /\ one.phase = r.phase /\ one.why = r.why /\ one.buf = r.buf
      /\ one.eof = r.eof
  <2>1. r.invalid + 1 \in Nat
    BY DEF ConnRec
  <2>2. one \in ConnRec
    BY <2>1 DEF ConnRec
  <2> QED BY <2>2 DEF ConnRec
<1>2. /\ r.verdicts \in Seq(Verdicts) /\ r.invalid \in Nat /\ MaxInvalidFrames \in Nat
      /\ Len(r.verdicts) <= MaxInvalidFrames /\ MaxInvalidFrames >= 2
  BY TelemetryAssumption DEF ConnRec, Verdicts, Between, RunOK
<1> HIDE DEF one
<1>3. /\ counted \in ConnRec /\ counted.verdicts = Kept(r.verdicts, "refused")
      /\ counted.by = r.by /\ counted.phase = r.phase /\ counted.why = r.why
      /\ counted.buf = r.buf /\ counted.eof = r.eof /\ counted.invalid = r.invalid + 1
  BY <1>1, <1>2, RememberFields DEF Verdicts
<1>4. /\ RunOK(counted.verdicts, r.invalid + 1)
      /\ r.invalid + 1 >= MaxInvalidFrames => AllRefused(counted.verdicts)
  BY <1>2, <1>3, RunGrows DEF Between
<1>5. IF counted.invalid >= MaxInvalidFrames
      THEN conn' = [conn EXCEPT ![c] = Finished(counted, "invalid")]
      ELSE conn' = [conn EXCEPT ![c] = NextFrame(counted)]
  BY DEF Refuse, one, counted
<1> HIDE DEF counted
<1>6. CASE counted.invalid >= MaxInvalidFrames
  <2> DEFINE q == Finished(counted, "invalid")
  <2>1. NoConn \in ConnRec /\ NoConn.eof = FALSE
    BY DEF NoConn, ConnRec
  <2>2. q \in ConnRec /\ q.eof = NoConn.eof
    BY <1>3, <2>1 DEF Finished, ConnRec
  <2>3. /\ q.by = r.by /\ q.phase = (IF r.eof THEN "free" ELSE "done")
        /\ q.why = "invalid" /\ q.verdicts = counted.verdicts
    BY <1>3, <2>1 DEF Finished, ConnRec
  <2> HIDE DEF q
  <2>4. r.by \notin Healthy
    BY <1>2, <1>3, <1>6
  <2>5. RecOK(q)
    BY <1>2, <1>3, <1>4, <1>6, <2>3, <2>4 DEF RecOK, CountOK, TimeOK, StreamOK, Active
  <2>6. Open(q) <=> Open(r)
    BY <2>1, <2>2, <2>3 DEF Open, Between
  <2> QED BY <1>5, <1>6, <2>2, <2>3, <2>5, <2>6 DEF Successor, q
<1>7. CASE ~(counted.invalid >= MaxInvalidFrames)
  <2>1. Between(counted)
    BY <1>2, <1>3, <1>4, <1>7 DEF Between, Chain
  <2>2. Successor(counted, NextFrame(counted))
    BY <1>3, <2>1, NextFrameOK
  <2>3. Successor(r, NextFrame(counted))
    BY <1>3, <2>2 DEF Successor, Open
  <2> QED BY <1>5, <1>7, <2>3
<1> QED BY <1>6, <1>7

LEMMA ApplyOK ==
  ASSUME NEW c \in Conns, NEW r \in ConnRec, Between(r), Apply(c, r)
  PROVE  \E q : Successor(r, q) /\ conn' = [conn EXCEPT ![c] = q]
<1> DEFINE one == [r EXCEPT !.valid = TRUE, !.invalid = 0]
           counted == Remember(one, "applied")
<1>1. /\ one \in ConnRec /\ one.invalid = 0 /\ one.verdicts = r.verdicts
      /\ one.by = r.by /\ one.phase = r.phase /\ one.why = r.why /\ one.buf = r.buf
      /\ one.eof = r.eof
  BY DEF ConnRec
<1>2. /\ r.verdicts \in Seq(Verdicts) /\ Len(r.verdicts) <= MaxInvalidFrames
      /\ MaxInvalidFrames \in Nat /\ MaxInvalidFrames >= 2
  BY TelemetryAssumption DEF ConnRec, Verdicts, Between, RunOK
<1> HIDE DEF one
<1>3. /\ counted \in ConnRec /\ counted.verdicts = Kept(r.verdicts, "applied")
      /\ counted.by = r.by /\ counted.phase = r.phase /\ counted.why = r.why
      /\ counted.buf = r.buf /\ counted.eof = r.eof /\ counted.invalid = 0
  BY <1>1, <1>2, RememberFields DEF Verdicts
<1>4. RunOK(counted.verdicts, 0)
  BY <1>2, <1>3, RunBreaks
<1>5. conn' = [conn EXCEPT ![c] = NextFrame(counted)]
  BY DEF Apply, one, counted
<1> HIDE DEF counted
<1>6. Between(counted)
  BY <1>2, <1>3, <1>4 DEF Between
<1>7. Successor(counted, NextFrame(counted))
  BY <1>3, <1>6, NextFrameOK
<1>8. Successor(r, NextFrame(counted))
  BY <1>3, <1>7 DEF Successor, Open
<1> QED BY <1>5, <1>8

LEMMA HandleFrameOK ==
  ASSUME NEW c \in Conns, NEW r \in ConnRec, NEW oversized \in BOOLEAN,
         Between(r), FrameRead(r, oversized), HandleFrame(c, r, oversized),
         conn \in [Conns -> ConnRec]
  PROVE  \E q : Successor(r, q) /\ conn' = [conn EXCEPT ![c] = q]
<1>1. CASE oversized
  <2>1. Refuse(c, r) /\ r.by \notin Healthy
    BY <1>1 DEF HandleFrame, FrameRead
  <2> QED BY <2>1, RefuseOK
<1>2. CASE ~oversized /\ r.frame = <<>>
  <2>1. conn' = [conn EXCEPT ![c] = NextFrame(r)]
    BY <1>2 DEF HandleFrame
  <2> QED BY <2>1, NextFrameOK
<1>3. CASE ~oversized /\ r.frame = <<"a", "b">>
  <2>1. r.frame # <<>>
    BY <1>3
  <2>2. Apply(c, r)
    BY <1>3, <2>1 DEF HandleFrame
  <2> QED BY <2>2, ApplyOK
<1>4. CASE ~oversized /\ r.frame # <<>> /\ r.frame # <<"a", "b">>
  <2>1. Refuse(c, r)
    BY <1>4 DEF HandleFrame
  <2>2. r.by \in Healthy => r.eof /\ r.buf = <<>> /\ r.invalid = 0
    BY <1>4 DEF FrameRead
  <2> QED BY <2>1, <2>2, RefuseOK
<1> QED BY <1>1, <1>2, <1>3, <1>4

-----------------------------------------------------------------------------
(* Streams of events *)

LEMMA ChainTail ==
  ASSUME NEW u, NEW buf \in Seq(Units), NEW open \in BOOLEAN, buf # <<>>, Chain(u, buf, open)
  PROVE  buf[1] = After(u) /\ Tail(buf) \in Seq(Units) /\ Chain(buf[1], Tail(buf), open)
<1> DEFINE t == Tail(buf)
<1>1. /\ t \in Seq(Units) /\ Len(buf) \in Nat \ {0} /\ Len(t) = Len(buf) - 1
      /\ \A i \in 1..Len(t) : t[i] = buf[i + 1]
      /\ t = <<>> <=> Len(t) = 0
  <2>1. t \in Seq(Units) /\ Len(t) = Len(buf) - 1 /\ \A i \in 1..Len(t) : t[i] = buf[i + 1]
    BY HeadTailProperties
  <2> QED BY <2>1, EmptySeq
<1> HIDE DEF t
<1> QED BY <1>1 DEF Chain, t

LEMMA TwoUnits == Len(<<"a">>) = 1 /\ Append(<<"a">>, "b") = <<"a", "b">>
<1>1. <<"a">> \in Seq(Units) /\ <<"a", "b">> \in Seq(Units) /\ "b" \in Units
  BY DEF Units
<1>2. /\ Append(<<"a">>, "b") \in Seq(Units) /\ Len(Append(<<"a">>, "b")) = 2
      /\ \A i \in 1..2 : Append(<<"a">>, "b")[i] = <<"a", "b">>[i]
  BY <1>1, AppendProperties
<1>3. Len(<<"a">>) = 1 /\ Len(<<"a", "b">>) = 2
  OBVIOUS
<1> QED BY <1>1, <1>2, <1>3, SeqEqual

(* The daemon's steps leave the emitters alone and replace records by        *)
(* successors.                                                              *)
LEMMA DaemonSteps ==
  ASSUME IInv, conn' \in [Conns -> ConnRec], UNCHANGED emitterVars,
         \A c \in Conns : conn'[c] = conn[c] \/ Successor(conn[c], conn'[c])
  PROVE  IInv'
<1>1. TypeOK'
  BY DEF IInv, TypeOK, emitterVars
<1>2. RecordsOK'
  BY DEF IInv, RecordsOK, Successor
<1>3. \A c \in Conns : conn'[c].by = conn[c].by /\ (Open(conn'[c]) <=> Open(conn[c]))
  BY DEF Successor
<1>4. LinkOK'
  BY <1>3 DEF IInv, TypeOK, LinkOK, emitterVars
<1>5. ASSUME NEW c \in Conns, NEW q, q = conn'[c], Successor(conn[c], q),
             q.phase = "reading", q.by \in Healthy, ~q.eof, q.buf = <<>>
      PROVE  wake[q.by] < q.timer
  <2>1. Open(conn[c]) /\ q.by = conn[c].by /\ q.timer > ConfirmedWakeup
    BY <1>5 DEF Successor, Open
  <2>2. q.by \in Senders /\ link[q.by] = c /\ c # None
    BY <2>1, TelemetryAssumption DEF IInv, LinkOK
  <2>3. wake[q.by] <= ConfirmedWakeup
    BY <1>5, <2>2 DEF IInv, LinkOK
  <2>4. wake[q.by] \in Nat /\ ConfirmedWakeup \in Nat /\ q.timer \in Nat
    BY <1>5, <2>2, TelemetryAssumption DEF IInv, TypeOK, Successor, ConnRec
  <2> QED BY <2>1, <2>3, <2>4
<1>6. TimelyOK'
  BY <1>5 DEF IInv, TimelyOK, Timely, emitterVars
<1> QED BY <1>1, <1>2, <1>4, <1>6 DEF IInv

LEMMA DaemonStep ==
  ASSUME IInv, NEW c \in Conns, NEW q, Successor(conn[c], q),
         conn' = [conn EXCEPT ![c] = q], UNCHANGED emitterVars
  PROVE  IInv'
<1>1. conn' \in [Conns -> ConnRec]
  BY DEF IInv, TypeOK, Successor
<1>2. \A d \in Conns : conn'[d] = conn[d] \/ Successor(conn[d], conn'[d])
  BY DEF IInv, TypeOK
<1> QED BY <1>1, <1>2, DaemonSteps

LEMMA EndStep ==
  ASSUME IInv, NEW c \in Conns, Active(conn[c]), NEW why \in Reasons,
         why = "timeout" => conn[c].by \notin Healthy,
         conn' = [conn EXCEPT ![c] = Finished(@, why)], UNCHANGED emitterVars
  PROVE  IInv'
<1> DEFINE q == Finished(conn[c], why)
<1>1. conn[c] \in ConnRec /\ RecOK(conn[c])
  BY DEF IInv, TypeOK, RecordsOK
<1>2. q \in ConnRec /\ RecOK(q) /\ q.by = conn[c].by /\ q.phase # "reading"
      /\ (Open(q) <=> Open(conn[c]))
  BY <1>1, FinishedOK
<1>3. conn' = [conn EXCEPT ![c] = q]
  OBVIOUS
<1> HIDE DEF q
<1> QED BY <1>2, <1>3, DaemonStep DEF Successor

LEMMA AcceptStep == ASSUME IInv, NEW c \in Conns, Accept(c) PROVE IInv'
<1>1. conn[c] \in ConnRec /\ RecOK(conn[c]) /\ conn[c].phase = "queued"
  BY DEF IInv, TypeOK, RecordsOK, Accept
<1>2. CASE permits > 0
  <2> DEFINE q == [conn[c] EXCEPT !.phase = "accepted"]
  <2>1. conn' = [conn EXCEPT ![c] = q] /\ UNCHANGED emitterVars
    BY <1>2 DEF Accept
  <2>2. /\ q \in ConnRec /\ q.phase = "accepted" /\ q.by = conn[c].by /\ q.why = conn[c].why
        /\ q.buf = conn[c].buf /\ q.eof = conn[c].eof /\ q.frame = conn[c].frame
        /\ q.drain = conn[c].drain /\ q.invalid = conn[c].invalid
        /\ q.verdicts = conn[c].verdicts
    BY <1>1 DEF ConnRec
  <2> HIDE DEF q
  <2>3. RecOK(q)
    BY <1>1, <2>2 DEF RecOK, CountOK, TimeOK, StreamOK, Active
  <2>4. Successor(conn[c], q)
    BY <1>1, <2>2, <2>3 DEF Successor, Open
  <2> QED BY <2>1, <2>4, DaemonStep
<1>3. CASE ~(permits > 0)
  <2>1. conn' = [conn EXCEPT ![c] = Finished(@, "busy")] /\ UNCHANGED emitterVars
    BY <1>3 DEF Accept
  <2> QED BY <1>1, <2>1, EndStep DEF Active, Reasons
<1> QED BY <1>2, <1>3

LEMMA VerifyPeerStep == ASSUME IInv, NEW c \in Conns, VerifyPeer(c) PROVE IInv'
<1>1. conn[c] \in ConnRec /\ RecOK(conn[c]) /\ conn[c].phase = "accepted"
  BY DEF IInv, TypeOK, RecordsOK, VerifyPeer
<1>2. CASE proc[conn[c].by] = "live"
  <2> DEFINE one == [conn[c] EXCEPT !.phase = "reading"]
  <2>1. conn' = [conn EXCEPT ![c] = NextFrame(one)] /\ UNCHANGED emitterVars
    BY <1>2 DEF VerifyPeer
  <2>2. /\ one \in ConnRec /\ one.phase = "reading" /\ one.by = conn[c].by
        /\ one.why = conn[c].why /\ one.buf = conn[c].buf /\ one.eof = conn[c].eof
        /\ one.invalid = conn[c].invalid /\ one.verdicts = conn[c].verdicts
    BY <1>1 DEF ConnRec
  <2> HIDE DEF one
  <2>3. conn[c].by \in Healthy => Chain("nl", conn[c].buf, ~conn[c].eof)
    BY <1>1 DEF RecOK, StreamOK, Active, LastOf
  <2>4. Between(one)
    BY <1>1, <2>2, <2>3 DEF Between, RecOK, CountOK, StreamOK, Active
  <2>5. Successor(one, NextFrame(one))
    BY <2>2, <2>4, NextFrameOK
  <2>6. Successor(conn[c], NextFrame(one))
    BY <1>1, <2>2, <2>5 DEF Successor, Open
  <2> QED BY <2>1, <2>6, DaemonStep
<1>3. CASE proc[conn[c].by] # "live"
  <2>1. conn' = [conn EXCEPT ![c] = Finished(@, "rejected")] /\ UNCHANGED emitterVars
    BY <1>3 DEF VerifyPeer, End
  <2> QED BY <1>1, <2>1, EndStep DEF Active, Reasons
<1> QED BY <1>2, <1>3

(* The newline ends the frame: a healthy sender's frame is an event.        *)
LEMMA ReadStep == ASSUME IInv, NEW c \in Conns, Read(c) PROVE IInv'
<1> DEFINE old == conn[c]
           u == Head(old.buf)
           r == [old EXCEPT !.buf = Tail(@)]
<1>1. /\ old \in ConnRec /\ RecOK(old) /\ old.phase = "reading" /\ old.buf # <<>>
      /\ conn \in [Conns -> ConnRec] /\ UNCHANGED emitterVars
  BY DEF IInv, TypeOK, RecordsOK, Read
<1>2. /\ IF u = "nl" THEN HandleFrame(c, r, r.drain \/ Len(r.frame) + 1 > FrameLimit)
         ELSE conn' = [conn EXCEPT ![c] = Take(r, u)]
  BY DEF Read
<1> HIDE DEF old
<1>3. u \in Units /\ u = old.buf[1] /\ Tail(old.buf) \in Seq(Units)
  BY <1>1 DEF ConnRec
<1>4. /\ r \in ConnRec /\ r.buf = Tail(old.buf) /\ r.phase = old.phase /\ r.by = old.by
      /\ r.why = old.why /\ r.eof = old.eof /\ r.frame = old.frame /\ r.drain = old.drain
      /\ r.invalid = old.invalid /\ r.verdicts = old.verdicts /\ r.valid = old.valid
      /\ r.timer = old.timer /\ r.since = old.since
  BY <1>1, <1>3 DEF ConnRec
<1> HIDE DEF r, u
<1>5. old.by \in Healthy =>
        /\ ~old.drain /\ old.frame \in {<<>>, <<"a">>, <<"a", "b">>}
        /\ u = After(LastOf(old.frame)) /\ Chain(u, r.buf, ~r.eof)
        /\ old.invalid = 0 /\ old.why = None
  <2> SUFFICES ASSUME old.by \in Healthy
               PROVE  /\ ~old.drain /\ old.frame \in {<<>>, <<"a">>, <<"a", "b">>}
                      /\ u = After(LastOf(old.frame)) /\ Chain(u, r.buf, ~r.eof)
                      /\ old.invalid = 0 /\ old.why = None
    OBVIOUS
  <2>1. /\ Chain(LastOf(old.frame), old.buf, ~old.eof) /\ ~old.drain /\ old.why = None
        /\ old.frame \in {<<>>, <<"a">>, <<"a", "b">>} /\ ~(old.invalid > 0)
    BY <1>1 DEF RecOK, StreamOK, CountOK, Active
  <2>2. old.buf \in Seq(Units) /\ (~old.eof) \in BOOLEAN /\ old.invalid \in Nat
    BY <1>1 DEF ConnRec
  <2>3. old.buf[1] = After(LastOf(old.frame)) /\ Chain(old.buf[1], Tail(old.buf), ~old.eof)
    BY <1>1, <2>1, <2>2, ChainTail
  <2> QED BY <1>3, <1>4, <2>1, <2>2, <2>3
<1>6. FrameLimit \in Nat /\ FrameLimit >= 3
  BY TelemetryAssumption DEF Event
<1>7. CASE u = "nl"
  <2> DEFINE oversized == r.drain \/ Len(r.frame) + 1 > FrameLimit
  <2>1. Between(r)
    BY <1>1, <1>4, <1>5, <1>7 DEF Between, RecOK, CountOK, Active
  <2>2. r.by \in Healthy => r.frame = <<"a", "b">> /\ ~oversized
    BY <1>4, <1>5, <1>6, <1>7 DEF After, LastOf
  <2>3. oversized \in BOOLEAN
    OBVIOUS
  <2>4. HandleFrame(c, r, oversized)
    BY <1>2, <1>7
  <2> HIDE DEF oversized
  <2>5. FrameRead(r, oversized)
    <3>1. <<"a", "b">> # <<"a">>
      OBVIOUS
    <3> QED BY <2>2, <3>1 DEF FrameRead
  <2>6. PICK q : Successor(r, q) /\ conn' = [conn EXCEPT ![c] = q]
    BY <1>1, <1>4, <2>1, <2>3, <2>4, <2>5, HandleFrameOK
  <2>7. Successor(conn[c], q)
    BY <1>4, <2>6 DEF Successor, Open, old
  <2> QED BY <1>1, <2>6, <2>7, DaemonStep
<1>8. CASE u # "nl"
  <2> DEFINE q == Take(r, u)
  <2>1. conn' = [conn EXCEPT ![c] = q]
    BY <1>2, <1>8
  <2>2. Append(r.frame, u) \in Seq(Units)
    BY <1>3, <1>4 DEF ConnRec
  <2>3. q \in ConnRec
    BY <1>4, <1>6, <2>2 DEF Take, ConnRec
  <2>4. /\ q.buf = r.buf /\ q.phase = r.phase /\ q.by = r.by
        /\ q.why = r.why /\ q.eof = r.eof /\ q.invalid = r.invalid
        /\ q.verdicts = r.verdicts /\ q.valid = r.valid
        /\ q.timer = r.timer /\ q.since = r.since
        /\ q.drain = (r.drain \/ Len(r.frame) + 1 > FrameLimit)
        /\ q.frame = IF r.drain \/ Len(r.frame) + 1 > FrameLimit THEN r.frame
                     ELSE Append(r.frame, u)
    BY <1>4 DEF Take, ConnRec
  <2> HIDE DEF q
  <2>5. old.by \in Healthy =>
          /\ ~q.drain /\ q.frame \in {<<"a">>, <<"a", "b">>} /\ LastOf(q.frame) = u
    <3> SUFFICES ASSUME old.by \in Healthy
                 PROVE  ~q.drain /\ q.frame \in {<<"a">>, <<"a", "b">>} /\ LastOf(q.frame) = u
      OBVIOUS
    <3>1. CASE old.frame = <<>>
      <4>1. u = "a"
        BY <1>5, <3>1 DEF After, LastOf
      <4>2. r.frame = old.frame /\ Len(r.frame) = 0 /\ Append(r.frame, u) = <<"a">>
        BY <1>4, <3>1, <4>1
      <4>3. ~(r.drain \/ Len(r.frame) + 1 > FrameLimit)
        BY <1>4, <1>5, <1>6, <4>2
      <4>4. q.frame = <<"a">> /\ ~q.drain
        BY <2>4, <4>2, <4>3
      <4> QED BY <4>1, <4>4 DEF LastOf
    <3>2. CASE old.frame = <<"a">>
      <4>1. u = "b"
        BY <1>5, <3>2 DEF After, LastOf
      <4>2. r.frame = old.frame /\ Len(r.frame) = 1 /\ Append(r.frame, u) = <<"a", "b">>
        BY <1>4, <3>2, <4>1, TwoUnits
      <4>3. ~(r.drain \/ Len(r.frame) + 1 > FrameLimit)
        BY <1>4, <1>5, <1>6, <4>2
      <4>4. q.frame = <<"a", "b">> /\ ~q.drain
        BY <2>4, <4>2, <4>3
      <4> QED BY <4>1, <4>4 DEF LastOf
    <3>3. CASE old.frame = <<"a", "b">>
      BY <1>5, <1>8, <3>3 DEF After, LastOf
    <3> QED BY <1>5, <3>1, <3>2, <3>3
  <2>6. CountOK(q) /\ TimeOK(q)
    BY <1>1, <1>4, <2>4 DEF RecOK, CountOK, TimeOK, Active
  <2>7. StreamOK(q)
    BY <1>1, <1>4, <1>5, <2>4, <2>5 DEF StreamOK, None, RecOK
  <2>8. q.by \in Healthy /\ ~q.eof => q.buf # <<>>
    BY <1>4, <1>5, <1>8, <2>4 DEF Chain
  <2>9. Successor(conn[c], q)
    BY <1>4, <2>3, <2>4, <2>6, <2>7, <2>8 DEF Successor, Open, RecOK, old
  <2> QED BY <1>1, <2>1, <2>9, DaemonStep
<1> QED BY <1>7, <1>8

LEMMA ReadEofStep == ASSUME IInv, NEW c \in Conns, ReadEof(c) PROVE IInv'
<1> DEFINE r == conn[c]
<1>1. /\ r \in ConnRec /\ RecOK(r) /\ r.phase = "reading" /\ r.buf = <<>> /\ r.eof
      /\ conn \in [Conns -> ConnRec] /\ UNCHANGED emitterVars
  BY DEF IInv, TypeOK, RecordsOK, ReadEof
<1>2. IF r.frame = <<>> /\ ~r.drain THEN End(c, "eof") ELSE HandleFrame(c, r, r.drain)
  BY DEF ReadEof
<1>3. CASE r.frame = <<>> /\ ~r.drain
  <2>1. conn' = [conn EXCEPT ![c] = Finished(@, "eof")]
    BY <1>2, <1>3 DEF End
  <2> QED BY <1>1, <2>1, EndStep DEF Active, Reasons
<1>4. CASE ~(r.frame = <<>> /\ ~r.drain)
  <2> HIDE DEF r
  <2>1. Between(r)
    BY <1>1 DEF Between, RecOK, CountOK, Active, Chain
  <2>2. FrameRead(r, r.drain) /\ r.drain \in BOOLEAN
    <3>1. r.invalid \in Nat /\ r.drain \in BOOLEAN
      BY <1>1 DEF ConnRec
    <3> QED BY <1>1, <1>4, <3>1 DEF FrameRead, RecOK, StreamOK, Active
  <2>3. PICK q : Successor(r, q) /\ conn' = [conn EXCEPT ![c] = q]
    BY <1>1, <1>2, <1>4, <2>1, <2>2, HandleFrameOK
  <2> QED BY <1>1, <2>3, DaemonStep DEF r
<1> QED BY <1>3, <1>4

(* The emitter of a healthy peer that has been read to the end is due       *)
(* before the deadline is.                                                  *)
LEMMA ReadTimeoutStep == ASSUME IInv, NEW c \in Conns, ReadTimeout(c) PROVE IInv'
<1>1. /\ conn[c].phase = "reading" /\ conn[c].timer = 0 /\ conn[c].buf = <<>>
      /\ ~conn[c].eof /\ UNCHANGED emitterVars
      /\ conn' = [conn EXCEPT ![c] = Finished(@, "timeout")]
  BY DEF ReadTimeout, End
<1>2. conn[c].by \notin Healthy
  <2>1. conn[c].by \in Healthy => wake[conn[c].by] < 0
    BY <1>1 DEF IInv, TimelyOK, Timely
  <2>2. conn[c].by \in Healthy => wake[conn[c].by] \in Nat
    BY DEF IInv, TypeOK, Senders
  <2> QED BY <2>1, <2>2
<1> QED BY <1>1, <1>2, EndStep DEF Active, Reasons

LEMMA CrashStep == ASSUME IInv, Crash PROVE IInv'
<1>1. ASSUME NEW c \in Conns
      PROVE  /\ conn'[c] \in ConnRec
             /\ conn'[c] = conn[c] \/ Successor(conn[c], conn'[c])
  <2>1. conn[c] \in ConnRec /\ RecOK(conn[c])
    BY DEF IInv, TypeOK, RecordsOK
  <2>2. CASE conn[c].phase \in {"free", "done"}
    BY <2>1, <2>2 DEF Crash
  <2>3. CASE conn[c].phase \notin {"free", "done"}
    <3>1. Active(conn[c]) /\ conn'[c] = Finished(conn[c], "crash")
      BY <2>1, <2>3 DEF Crash, Active, ConnRec
    <3> QED BY <2>1, <3>1, FinishedOK DEF Successor, Reasons
  <2> QED BY <2>2, <2>3
<1>2. conn' \in [Conns -> ConnRec] /\ UNCHANGED emitterVars
  BY <1>1 DEF Crash
<1> QED BY <1>1, <1>2, DaemonSteps

-----------------------------------------------------------------------------
(* The emitters *)

(* A sender that opens, keeps or loses the connection c.                    *)
LEMMA SenderStep ==
  ASSUME IInv, NEW s \in Senders, NEW c \in Conns, NEW l \in {c, None},
         link[s] = c \/ (link[s] = None /\ conn[c].phase = "free"),
         NEW q \in ConnRec, RecOK(q), q.by = s, Open(q) <=> l = c,
         conn' = [conn EXCEPT ![c] = q], link' = [link EXCEPT ![s] = l],
         proc' \in [Senders -> {"live", "gone"}], wake' \in [Senders -> Nat],
         \A t \in Senders \ {s} : proc'[t] = proc[t] /\ wake'[t] = wake[t],
         l = c => /\ proc'[s] = "live"
                  /\ s \in Healthy => wake'[s] <= ConfirmedWakeup /\ q.buf # <<>>
  PROVE  IInv'
<1>0. c # None
  BY TelemetryAssumption
<1>1. TypeOK'
  BY DEF IInv, TypeOK
<1>2. /\ \A d \in Conns : conn'[d] = IF d = c THEN q ELSE conn[d]
      /\ \A t \in Senders : link'[t] = IF t = s THEN l ELSE link[t]
  BY DEF IInv, TypeOK
<1>3. RecordsOK'
  BY <1>2 DEF IInv, RecordsOK
<1>4. \A t \in Senders \ {s} : link[t] # c
  BY <1>0 DEF IInv, LinkOK, Open
<1>5. \A d \in Conns \ {c} : Open(conn[d]) => conn[d].by \in Senders \ {s}
  <2> SUFFICES ASSUME NEW d \in Conns \ {c}, Open(conn[d]) PROVE conn[d].by \in Senders \ {s}
    OBVIOUS
  <2>1. conn[d].by \in Senders /\ link[conn[d].by] = d /\ d # None
    BY TelemetryAssumption DEF IInv, LinkOK
  <2> QED BY <2>1
<1>6. LinkOK'
  <2>1. ASSUME NEW t \in Senders, link'[t] # None
        PROVE  /\ proc'[t] = "live" /\ Open(conn'[link'[t]]) /\ conn'[link'[t]].by = t
               /\ t \in Healthy => wake'[t] <= ConfirmedWakeup
    <3>1. CASE t = s
      BY <1>0, <1>2, <2>1, <3>1
    <3>2. CASE t # s
      <4>1. link'[t] = link[t] /\ link[t] \in Conns \ {c}
        BY <1>2, <1>4, <2>1, <3>2 DEF IInv, TypeOK
      <4> QED BY <1>2, <2>1, <3>2, <4>1 DEF IInv, LinkOK
    <3> QED BY <3>1, <3>2
  <2>2. ASSUME NEW d \in Conns, Open(conn'[d])
        PROVE  conn'[d].by \in Senders /\ link'[conn'[d].by] = d
    <3>1. CASE d = c
      BY <1>0, <1>2, <2>2, <3>1
    <3>2. CASE d # c
      BY <1>2, <1>5, <2>2, <3>2 DEF IInv, LinkOK
    <3> QED BY <3>1, <3>2
  <2> QED BY <2>1, <2>2 DEF LinkOK
<1>7. TimelyOK'
  <2> SUFFICES ASSUME NEW d \in Conns, conn'[d].phase = "reading", conn'[d].by \in Healthy,
                      ~conn'[d].eof, conn'[d].buf = <<>>
               PROVE  wake'[conn'[d].by] < conn'[d].timer
    BY DEF TimelyOK, Timely
  <2>1. d # c
    BY <1>0, <1>2 DEF Open
  <2>2. conn'[d] = conn[d] /\ wake'[conn[d].by] = wake[conn[d].by]
    BY <1>2, <1>5, <2>1 DEF Open
  <2> QED BY <2>2 DEF IInv, TimelyOK, Timely
<1> QED BY <1>1, <1>3, <1>6, <1>7 DEF IInv

(* A sender without a connection. *)
LEMMA UnlinkedStep ==
  ASSUME IInv, NEW s \in Senders, link[s] = None, UNCHANGED <<link, conn>>,
         proc' \in [Senders -> {"live", "gone"}], wake' \in [Senders -> Nat],
         \A t \in Senders \ {s} : proc'[t] = proc[t] /\ wake'[t] = wake[t]
  PROVE  IInv'
<1>1. TypeOK' /\ RecordsOK'
  BY DEF IInv, TypeOK, RecordsOK
<1>2. LinkOK'
  BY DEF IInv, LinkOK
<1>3. \A c \in Conns : Open(conn[c]) => conn[c].by \in Senders \ {s}
  BY TelemetryAssumption DEF IInv, LinkOK
<1>4. TimelyOK'
  BY <1>3 DEF IInv, TimelyOK, Timely, Open
<1> QED BY <1>1, <1>2, <1>4 DEF IInv

LEMMA EventUnits ==
  /\ Event \in Seq(Units) /\ Len(Event) = 3
  /\ Event[1] = "a" /\ Event[2] = "b" /\ Event[3] = "nl"
BY DEF Event, Units

(* An event, or the start of one on a connection that ends, continues a     *)
(* stream of whole events.                                                  *)
LEMMA ChainAppend ==
  ASSUME NEW u, NEW buf \in Seq(Units), NEW g \in Seq(Units), NEW open \in BOOLEAN,
         Chain(u, buf, TRUE), Len(g) <= 3, \A i \in 1..Len(g) : g[i] = Event[i],
         open => Len(g) = 3
  PROVE  Chain(u, buf \o g, open)
<1> DEFINE w == buf \o g
<1>1. /\ w \in Seq(Units) /\ Len(w) = Len(buf) + Len(g) /\ Len(buf) \in Nat /\ Len(g) \in Nat
      /\ \A i \in 1..Len(w) : w[i] = IF i <= Len(buf) THEN buf[i] ELSE g[i - Len(buf)]
      /\ buf = <<>> <=> Len(buf) = 0
      /\ w = <<>> <=> Len(w) = 0
  BY ConcatProperties, EmptySeq
<1>2. /\ Len(g) >= 1 => g[1] = "a"
      /\ Len(g) >= 2 => g[2] = "b"
      /\ Len(g) >= 3 => g[3] = "nl"
  BY <1>1, EventUnits
<1> HIDE DEF w
<1>3. (IF Len(buf) = 0 THEN u ELSE buf[Len(buf)]) = "nl"
  BY <1>1 DEF Chain
<1>4. w # <<>> => w[1] = After(u)
  <2>1. CASE Len(buf) = 0
    BY <1>1, <1>2, <1>3, <2>1 DEF After
  <2>2. CASE Len(buf) # 0
    BY <1>1, <2>2 DEF Chain
  <2> QED BY <2>1, <2>2
<1>5. ASSUME NEW i \in 1..(Len(w) - 1) PROVE w[i + 1] = After(w[i])
  <2>1. CASE i < Len(buf)
    <3>1. w[i] = buf[i] /\ w[i + 1] = buf[i + 1] /\ i \in 1..(Len(buf) - 1)
      BY <1>1, <2>1
    <3> QED BY <3>1 DEF Chain
  <2>2. CASE i = Len(buf)
    <3>1. w[i] = "nl" /\ w[i + 1] = g[1] /\ Len(g) >= 1
      BY <1>1, <1>3, <2>2
    <3> QED BY <1>2, <3>1 DEF After
  <2>3. CASE i > Len(buf)
    <3>1. /\ w[i] = g[i - Len(buf)] /\ w[i + 1] = g[i + 1 - Len(buf)]
          /\ i - Len(buf) \in {1, 2} /\ Len(g) >= i + 1 - Len(buf)
      BY <1>1, <2>3
    <3>2. CASE i - Len(buf) = 1
      <4>1. i + 1 - Len(buf) = 2
        BY <1>1, <3>2
      <4> QED BY <1>2, <3>1, <3>2, <4>1 DEF After
    <3>3. CASE i - Len(buf) = 2
      <4>1. i + 1 - Len(buf) = 3
        BY <1>1, <3>3
      <4> QED BY <1>2, <3>1, <3>3, <4>1 DEF After
    <3> QED BY <3>1, <3>2, <3>3
  <2> QED BY <1>1, <2>1, <2>2, <2>3
<1>6. ASSUME open PROVE w # <<>> /\ w[Len(w)] = "nl"
  <2>1. Len(g) = 3
    BY <1>6, Zenon
  <2>2. Len(w) \in 1..Len(w) /\ Len(w) > Len(buf) /\ Len(w) - Len(buf) = 3
    BY <1>1, <2>1
  <2>3. w[Len(w)] = g[Len(w) - Len(buf)]
    BY <1>1, <2>2
  <2> QED BY <1>1, <1>2, <2>1, <2>2, <2>3
<1> QED BY <1>4, <1>5, <1>6 DEF Chain, w

(* The sender closes a connection. *)
LEMMA ClosedOK ==
  ASSUME NEW r \in ConnRec, RecOK(r), Open(r)
  PROVE  Closed(r) \in ConnRec /\ RecOK(Closed(r)) /\ Closed(r).by = r.by /\ ~Open(Closed(r))
<1>1. CASE r.phase = "done"
  <2> DEFINE q == [r EXCEPT !.phase = "free"]
  <2>1. q \in ConnRec /\ q.phase = "free" /\ q.by = r.by /\ q.why = r.why
        /\ q.verdicts = r.verdicts
    BY DEF ConnRec
  <2>2. Closed(r) = q
    BY <1>1 DEF Closed
  <2> HIDE DEF q
  <2> QED BY <1>1, <2>1, <2>2 DEF RecOK, CountOK, TimeOK, StreamOK, Active, Open
<1>2. CASE r.phase # "done"
  <2> DEFINE q == [r EXCEPT !.eof = TRUE]
  <2>1. /\ q \in ConnRec /\ q.phase = r.phase /\ q.by = r.by /\ q.why = r.why /\ q.buf = r.buf
        /\ q.eof = TRUE /\ q.frame = r.frame /\ q.drain = r.drain /\ q.invalid = r.invalid
        /\ q.valid = r.valid /\ q.timer = r.timer /\ q.since = r.since
        /\ q.verdicts = r.verdicts
    BY DEF ConnRec
  <2>2. Closed(r) = q
    BY <1>2 DEF Closed
  <2> HIDE DEF q
  <2>3. CountOK(q) /\ TimeOK(q)
    BY <2>1 DEF RecOK, CountOK, TimeOK, Active
  <2>4. StreamOK(q)
    BY <2>1 DEF RecOK, StreamOK, Active, Chain, Open
  <2> QED BY <2>1, <2>2, <2>3, <2>4 DEF RecOK, Open
<1> QED BY <1>1, <1>2

(* The start of an event, or all of it. *)
EventPart(g, torn) ==
  /\ Len(g) <= 3 /\ \A i \in 1..Len(g) : g[i] = Event[i]
  /\ torn \/ Len(g) = 3

(* The sender writes g, all of a frame or the start of it.                  *)
LEMMA WrittenOK ==
  ASSUME NEW r \in ConnRec, RecOK(r), Open(r), Active(r), NEW g \in Seq(Units),
         NEW eof \in BOOLEAN, NEW q, q = [r EXCEPT !.buf = @ \o g, !.eof = eof],
         r.by \in Healthy => EventPart(g, eof)
  PROVE  /\ q \in ConnRec /\ RecOK(q) /\ q.by = r.by
         /\ Open(q) <=> ~eof
         /\ Len(g) > 0 => q.buf # <<>>
<1>1. r.buf \in Seq(Units) /\ r.buf \o g \in Seq(Units) /\ Len(r.buf \o g) = Len(r.buf) + Len(g)
      /\ Len(r.buf) \in Nat /\ Len(g) \in Nat
  BY ConcatProperties DEF ConnRec
<1>2. /\ q \in ConnRec /\ q.phase = r.phase /\ q.by = r.by /\ q.why = r.why
      /\ q.buf = r.buf \o g /\ q.eof = eof /\ q.frame = r.frame /\ q.drain = r.drain
      /\ q.invalid = r.invalid /\ q.valid = r.valid /\ q.timer = r.timer
      /\ q.since = r.since /\ q.verdicts = r.verdicts
  BY <1>1 DEF ConnRec
<1>3. CountOK(q) /\ TimeOK(q)
  BY <1>2 DEF RecOK, CountOK, TimeOK, Active
<1>4. StreamOK(q)
  <2> SUFFICES ASSUME r.by \in Healthy PROVE StreamOK(q)
    BY <1>2 DEF StreamOK
  <2>1. Chain(LastOf(r.frame), r.buf, TRUE) /\ ~(r.invalid > 0)
    BY DEF RecOK, StreamOK, Open
  <2>2. Chain(LastOf(r.frame), r.buf \o g, ~eof)
    <3> DEFINE open == ~eof
    <3>1. open \in BOOLEAN
      OBVIOUS
    <3>2. /\ Len(g) <= 3 /\ \A i \in 1..Len(g) : g[i] = Event[i]
          /\ open => Len(g) = 3
      BY DEF EventPart
    <3> HIDE DEF open
    <3>3. Chain(LastOf(r.frame), r.buf \o g, open)
      BY <1>1, <2>1, <3>1, <3>2, ChainAppend
    <3> QED BY <3>3 DEF open
  <2> QED BY <1>2, <2>1, <2>2 DEF RecOK, StreamOK, Active
<1>5. Len(g) > 0 => q.buf # <<>>
  BY <1>1, <1>2
<1> QED BY <1>2, <1>3, <1>4, <1>5 DEF RecOK, Open, Active

LEMMA ExitStep == ASSUME IInv, NEW s \in Senders, Exit(s) PROVE IInv'
<1>1. /\ proc' \in [Senders -> {"live", "gone"}] /\ wake' \in [Senders -> Nat]
      /\ \A t \in Senders \ {s} : proc'[t] = proc[t] /\ wake'[t] = wake[t]
  BY DEF Exit, IInv, TypeOK
<1>2. CASE link[s] = None
  <2>1. UNCHANGED <<link, conn>>
    BY <1>2 DEF Exit, IInv, TypeOK
  <2> QED BY <1>1, <1>2, <2>1, UnlinkedStep
<1>3. CASE link[s] # None
  <2> DEFINE c == link[s]
             q == Closed(conn[c])
  <2>1. c \in Conns /\ conn[c] \in ConnRec /\ RecOK(conn[c]) /\ Open(conn[c]) /\ conn[c].by = s
    BY <1>3 DEF IInv, TypeOK, LinkOK, RecordsOK
  <2>2. q \in ConnRec /\ RecOK(q) /\ q.by = s /\ ~Open(q)
    BY <2>1, ClosedOK
  <2>3. conn' = [conn EXCEPT ![c] = q] /\ link' = [link EXCEPT ![s] = None]
    BY <1>3 DEF Exit
  <2> HIDE DEF q
  <2> QED BY <1>1, <1>3, <2>1, <2>2, <2>3, SenderStep
<1> QED BY <1>2, <1>3

(* What is left of a connection after a frame was written in full or not.   *)
LEMMA SendPayloadStep ==
  ASSUME IInv, NEW s \in Senders, NEW f \in Seq(Units), Len(f) > 0,
         s \in Healthy => f = Event, SendPayload(s, f), proc[s] = "live", proc' = proc
  PROVE  IInv'
<1>1. /\ proc' \in [Senders -> {"live", "gone"}] /\ wake' \in [Senders -> Nat]
      /\ \A t \in Senders \ {s} : proc'[t] = proc[t] /\ wake'[t] = wake[t]
  <2>1. PICK w \in {ConfirmedWakeup, RetryWakeup} : wake' = [wake EXCEPT ![s] = w]
    BY DEF SendPayload, SendFails, Delivery
  <2>2. w \in Nat
    BY TelemetryAssumption
  <2> QED BY <2>1, <2>2 DEF IInv, TypeOK
<1>2. CASE link[s] = None /\ UNCHANGED <<link, conn>>
  BY <1>1, <1>2, UnlinkedStep
<1>3. ASSUME NEW c \in Conns, NEW r, NEW room,
             IF link[s] = None THEN up /\ conn[c].phase = "free" ELSE c = link[s],
             r = (IF link[s] = None THEN [NoConn EXCEPT !.by = s, !.phase = "queued"]
                  ELSE conn[c]),
             room = SocketBuffer - Len(r.buf),
             IF r.phase # "done" /\ Len(f) <= room
             THEN /\ link' = [link EXCEPT ![s] = c]
                  /\ conn' = [conn EXCEPT ![c] = [r EXCEPT !.buf = @ \o f]]
                  /\ Delivery(s, TRUE)
             ELSE SendFails(s, c, IF r.phase = "done" THEN r
                    ELSE [r EXCEPT !.buf = @ \o SubSeq(f, 1, room)])
      PROVE  IInv'
  <2>1. r \in ConnRec /\ RecOK(r) /\ r.by = s /\ Open(r)
    <3>1. CASE link[s] = None
      <4>1. NoConn \in ConnRec /\ NoConn.why = None /\ NoConn.invalid = 0 /\ ~NoConn.eof
            /\ NoConn.verdicts = <<>> /\ ~NoConn.drain /\ NoConn.frame = <<>>
            /\ NoConn.buf = <<>>
        BY DEF NoConn, ConnRec
      <4>2. /\ r \in ConnRec /\ r.by = s /\ r.phase = "queued" /\ r.why = None /\ r.invalid = 0
            /\ ~r.eof /\ r.verdicts = <<>> /\ ~r.drain /\ r.frame = <<>> /\ r.buf = <<>>
        BY <1>3, <3>1, <4>1 DEF ConnRec
      <4>3. MaxInvalidFrames \in Nat /\ MaxInvalidFrames >= 2
        BY TelemetryAssumption
      <4>4. RunOK(r.verdicts, r.invalid)
        BY <4>2, <4>3 DEF RunOK
      <4>5. Chain(LastOf(r.frame), r.buf, ~r.eof)
        BY <4>2 DEF Chain, LastOf
      <4> QED BY <4>2, <4>3, <4>4, <4>5
              DEF RecOK, CountOK, TimeOK, StreamOK, Active, Open, None
    <3>2. CASE link[s] # None
      BY <1>3, <3>2 DEF IInv, TypeOK, RecordsOK, LinkOK
    <3> QED BY <3>1, <3>2
  <2>2. link[s] = c \/ (link[s] = None /\ conn[c].phase = "free")
    BY <1>3
  <2>3. CASE r.phase # "done" /\ Len(f) <= room
    <3> DEFINE q == [r EXCEPT !.buf = @ \o f, !.eof = FALSE]
    <3>1. [r EXCEPT !.buf = @ \o f] = q
      BY <2>1 DEF ConnRec, Open
    <3>2. link' = [link EXCEPT ![s] = c] /\ conn' = [conn EXCEPT ![c] = q]
      BY <1>3, <2>3, <3>1
    <3>3. wake'[s] = ConfirmedWakeup /\ ConfirmedWakeup \in Nat
      BY <1>3, <2>3, TelemetryAssumption DEF Delivery, IInv, TypeOK
    <3>4. Active(r)
      BY <2>1, <2>3 DEF Open, Active, ConnRec
    <3>5. r.by \in Healthy => EventPart(f, FALSE)
      <4>1. Len(Event) <= 3 /\ Len(Event) = 3 /\ \A i \in 1..Len(Event) : Event[i] = Event[i]
        BY EventUnits
      <4>2. r.by \in Healthy => f = Event
        BY <2>1
      <4> QED BY <4>1, <4>2, Zenon DEF EventPart
    <3>6. q = [r EXCEPT !.buf = @ \o f, !.eof = FALSE]
      OBVIOUS
    <3> HIDE DEF q
    <3>7. /\ q \in ConnRec /\ RecOK(q) /\ q.by = r.by
          /\ Open(q) <=> ~FALSE
          /\ Len(f) > 0 => q.buf # <<>>
      BY <2>1, <3>4, <3>5, <3>6, WrittenOK, Zenon
    <3>8. /\ proc'[s] = "live" /\ c \in {c, None} /\ (Open(q) <=> c = c)
          /\ s \in Healthy => wake'[s] <= ConfirmedWakeup /\ q.buf # <<>>
      BY <3>3, <3>7
    <3> QED BY <1>1, <2>1, <2>2, <3>2, <3>7, <3>8, SenderStep
  <2>4. CASE r.phase = "done"
    <3>1. link' = [link EXCEPT ![s] = None] /\ conn' = [conn EXCEPT ![c] = Closed(r)]
      BY <1>3, <2>4 DEF SendFails
    <3>2. Closed(r) \in ConnRec /\ RecOK(Closed(r)) /\ Closed(r).by = s /\ ~Open(Closed(r))
      BY <2>1, ClosedOK
    <3> QED BY <1>1, <2>2, <3>1, <3>2, SenderStep, TelemetryAssumption
  <2>5. CASE r.phase # "done" /\ ~(Len(f) <= room)
    <3> DEFINE g == SubSeq(f, 1, room)
               q == [r EXCEPT !.buf = @ \o g, !.eof = TRUE]
    <3>1. Closed([r EXCEPT !.buf = @ \o g]) = q
      BY <2>1, <2>5 DEF Closed, ConnRec
    <3>2. link' = [link EXCEPT ![s] = None] /\ conn' = [conn EXCEPT ![c] = q]
      BY <1>3, <2>5, <3>1 DEF SendFails
    <3>3. Active(r)
      BY <2>1, <2>5 DEF Open, Active, ConnRec
    <3>4. g \in Seq(Units) /\ Len(g) <= Len(f) /\ \A i \in 1..Len(g) : g[i] = f[i]
      <4>1. room \in Int /\ Len(f) \in Nat /\ room < Len(f)
        <5>1. Len(r.buf) \in Nat /\ SocketBuffer \in Nat /\ Len(f) \in Nat
          BY <2>1, TelemetryAssumption DEF ConnRec
        <5> QED BY <1>3, <2>5, <5>1
      <4>2. CASE room <= 0
        BY <4>1, <4>2
      <4>3. CASE room > 0
        BY <4>1, <4>3, SubSeqProperties
      <4> QED BY <4>1, <4>2, <4>3
    <3>5. r.by \in Healthy => EventPart(g, TRUE)
      <4>1. Len(g) \in Nat
        BY <3>4
      <4> QED BY <2>1, <3>4, <4>1, EventUnits DEF EventPart
    <3>6. q = [r EXCEPT !.buf = @ \o g, !.eof = TRUE]
      OBVIOUS
    <3> HIDE DEF g, q
    <3>7. q \in ConnRec /\ RecOK(q) /\ q.by = r.by /\ (Open(q) <=> ~TRUE)
      BY <2>1, <3>3, <3>4, <3>5, <3>6, WrittenOK, Zenon
    <3> QED BY <1>1, <2>1, <2>2, <3>2, <3>7, SenderStep, TelemetryAssumption
  <2> QED BY <2>3, <2>4, <2>5
<1> QED BY <1>2, <1>3 DEF SendPayload

LEMMA EmitStep == ASSUME IInv, NEW s \in Senders, Emit(s) PROVE IInv'
<1>1. PICK f \in (IF s \in Faulty THEN FaultyFrames ELSE {Event}) : SendPayload(s, f)
  BY DEF Emit
<1>2. f \in Seq(Units) /\ Len(f) > 0
  <2>1. \A x, y, z \in Units :
          /\ <<x>> \in Seq(Units) /\ Len(<<x>>) > 0
          /\ <<x, y, z>> \in Seq(Units) /\ Len(<<x, y, z>>) > 0
          /\ <<x, y, z, "nl">> \in Seq(Units) /\ Len(<<x, y, z, "nl">>) > 0
    BY DEF Units
  <2> QED BY <1>1, <2>1 DEF FaultyFrames, Event, Units
<1>3. s \in Healthy => f = Event
  BY <1>1, TelemetryAssumption
<1> QED BY <1>1, <1>2, <1>3, SendPayloadStep DEF Emit

-----------------------------------------------------------------------------
(* Time *)

LEMMA TickStep == ASSUME IInv, Tick PROVE IInv'
<1>1. ASSUME NEW c \in Conns
      PROVE  /\ conn'[c] \in ConnRec /\ RecOK(conn'[c]) /\ conn'[c].by = conn[c].by
             /\ conn'[c].phase = conn[c].phase /\ conn'[c].eof = conn[c].eof
             /\ conn'[c].buf = conn[c].buf
             /\ conn[c].phase = "reading" => conn'[c].timer = conn[c].timer - 1
  <2> DEFINE r == conn[c]
             q == [r EXCEPT !.timer = @ - 1, !.since = @ + 1]
  <2>1. r \in ConnRec /\ RecOK(r)
    BY DEF IInv, TypeOK, RecordsOK
  <2>2. CASE r.phase # "reading"
    BY <2>1, <2>2 DEF Tick
  <2>3. CASE r.phase = "reading"
    <3>1. conn'[c] = q /\ r.timer > 0
      BY <2>3 DEF Tick
    <3> HIDE DEF r
    <3>2. r.timer - 1 \in Nat /\ r.since + 1 \in Nat
      BY <2>1, <3>1 DEF ConnRec
    <3>3. q \in ConnRec
      BY <2>1, <3>2 DEF ConnRec
    <3>4. /\ q.phase = r.phase /\ q.by = r.by /\ q.why = r.why /\ q.buf = r.buf /\ q.eof = r.eof
          /\ q.frame = r.frame /\ q.drain = r.drain /\ q.invalid = r.invalid
          /\ q.valid = r.valid /\ q.timer = r.timer - 1 /\ q.since = r.since + 1
          /\ q.verdicts = r.verdicts
      BY <2>1 DEF ConnRec
    <3>5. q.timer + q.since = r.timer + r.since
      BY <2>1, <3>4 DEF ConnRec
    <3> HIDE DEF q
    <3>6. RecOK(q)
      BY <2>1, <3>4, <3>5 DEF RecOK, CountOK, TimeOK, StreamOK, Active
    <3> QED BY <3>1, <3>3, <3>4, <3>6 DEF r
  <2> QED BY <2>2, <2>3
<1>2. ASSUME NEW s \in Senders
      PROVE  /\ wake[s] \in Nat /\ wake'[s] \in Nat /\ wake'[s] <= wake[s]
             /\ wake[s] > 0 => wake'[s] = wake[s] - 1
  <2>1. wake[s] \in Nat /\ wake'[s] = IF wake[s] > 0 THEN wake[s] - 1 ELSE 0
    BY DEF Tick, IInv, TypeOK
  <2> QED BY <2>1
<1>3. TypeOK'
  BY <1>1, <1>2 DEF IInv, TypeOK, Tick
<1>4. RecordsOK'
  BY <1>1 DEF RecordsOK
<1>5. LinkOK'
  <2>1. ASSUME NEW s \in Senders, link'[s] # None
        PROVE  /\ proc'[s] = "live" /\ Open(conn'[link'[s]]) /\ conn'[link'[s]].by = s
               /\ s \in Healthy => wake'[s] <= ConfirmedWakeup
    <3>1. link[s] \in Conns /\ link'[s] = link[s] /\ proc' = proc
      BY <2>1 DEF Tick, IInv, TypeOK
    <3>2. s \in Healthy => wake'[s] <= ConfirmedWakeup
      BY <1>2, <2>1, <3>1, TelemetryAssumption DEF IInv, LinkOK
    <3> QED BY <1>1, <2>1, <3>1, <3>2 DEF IInv, LinkOK, Open
  <2>2. ASSUME NEW c \in Conns, Open(conn'[c])
        PROVE  conn'[c].by \in Senders /\ link'[conn'[c].by] = c
    <3>1. Open(conn[c]) /\ conn'[c].by = conn[c].by /\ link' = link
      BY <1>1, <2>2 DEF Tick, Open
    <3> QED BY <3>1 DEF IInv, LinkOK
  <2> QED BY <2>1, <2>2 DEF LinkOK
<1>6. TimelyOK'
  <2> SUFFICES ASSUME NEW c \in Conns, conn'[c].phase = "reading", conn'[c].by \in Healthy,
                      ~conn'[c].eof, conn'[c].buf = <<>>
               PROVE  wake'[conn'[c].by] < conn'[c].timer
    BY DEF TimelyOK, Timely
  <2> DEFINE s == conn[c].by
  <2>1. /\ conn[c].phase = "reading" /\ s \in Healthy /\ ~conn[c].eof /\ conn[c].buf = <<>>
        /\ s \in Senders /\ wake[s] < conn[c].timer /\ conn'[c].timer = conn[c].timer - 1
        /\ conn'[c].by = s /\ conn[c].timer \in Nat
    BY <1>1 DEF IInv, TypeOK, ConnRec, TimelyOK, Timely, Senders
  <2>2. proc[s] = "live" /\ link[s] # None
    BY <2>1, TelemetryAssumption DEF IInv, LinkOK, Open
  <2>3. wake[s] # 0
    BY <2>1, <2>2 DEF Tick, Due
  <2> HIDE DEF s
  <2> QED BY <1>2, <2>1, <2>3
<1> QED BY <1>3, <1>4, <1>5, <1>6 DEF IInv

-----------------------------------------------------------------------------
(* The theorems *)

LEMMA InitOK == Init => IInv
<1> SUFFICES ASSUME Init PROVE IInv
  OBVIOUS
<1>1. NoConn \in ConnRec /\ NoConn.phase = "free" /\ NoConn.why = None /\ NoConn.verdicts = <<>>
  BY DEF NoConn, ConnRec
<1>2. RecOK(NoConn)
  <2>1. MaxInvalidFrames >= 2
    BY TelemetryAssumption
  <2> QED BY <1>1, <2>1 DEF RecOK, CountOK, TimeOK, StreamOK, Active, AllRefused, None
<1>3. \A c \in Conns : conn[c] = NoConn
  BY DEF Init
<1>4. TypeOK
  BY <1>1 DEF Init, TypeOK
<1> QED BY <1>1, <1>2, <1>3, <1>4 DEF Init, IInv, RecordsOK, LinkOK, TimelyOK, Timely, Open

LEMMA StepOK == IInv /\ [Next]_vars => IInv'
<1> SUFFICES ASSUME IInv, [Next]_vars PROVE IInv'
  OBVIOUS
<1>1. ASSUME NEW s \in Senders, Emit(s) \/ Exit(s) PROVE IInv'
  BY <1>1, EmitStep, ExitStep
<1>2. ASSUME NEW c \in Conns, Accept(c) \/ VerifyPeer(c) \/ Read(c) \/ ReadEof(c) \/ ReadTimeout(c)
      PROVE  IInv'
  BY <1>2, AcceptStep, VerifyPeerStep, ReadStep, ReadEofStep, ReadTimeoutStep
<1>3. CASE Restart \/ UNCHANGED vars
  <2>1. UNCHANGED <<proc, link, wake, conn>>
    BY <1>3 DEF Restart, vars, emitterVars
  <2> QED BY <2>1 DEF IInv, TypeOK, RecordsOK, LinkOK, TimelyOK, Timely
<1> QED BY <1>1, <1>2, <1>3, CrashStep, TickStep DEF Next

THEOREM Invariant == Spec => []IInv
BY InitOK, StepOK, PTL DEF Spec

(* A connection is cut for invalid frames exactly when MaxInvalidFrames in  *)
(* a row have been refused, and no frame keeps a handler longer than its    *)
(* deadline (handle_telemetry_stream, read_bounded_telemetry_frame).        *)
THEOREM FaultyPeersAreCutInTime == Spec => []FaultyIsBounded
<1>1. IInv => FaultyIsBounded
  <2> SUFFICES ASSUME IInv, NEW c \in Conns
               PROVE  /\ conn[c].why = "invalid" <=> AllRefused(conn[c].verdicts)
                      /\ conn[c].phase = "reading" =>
                           conn[c].since <= TelemetryFrameTimeout(conn[c].valid)
    BY DEF FaultyIsBounded, CutOnlyAfterRefusedRun, FrameTimeIsBounded, AllRefused
  <2> DEFINE r == conn[c]
  <2>1. r \in ConnRec /\ RecOK(r)
    BY DEF IInv, TypeOK, RecordsOK
  <2> HIDE DEF r
  <2>2. CASE Active(r)
    <3>1. ~AllRefused(r.verdicts)
      BY <2>1, <2>2, RunNotFull DEF RecOK, CountOK, ConnRec, Verdicts
    <3>2. r.phase = "reading" => r.since <= TelemetryFrameTimeout(r.valid)
      BY <2>1, TimeoutsLongEnough DEF RecOK, TimeOK, ConnRec
    <3> QED BY <2>1, <2>2, <3>1, <3>2 DEF RecOK, CountOK, None, r
  <2>3. CASE ~Active(r)
    BY <2>1, <2>3 DEF RecOK, CountOK, Active, r
  <2> QED BY <2>2, <2>3
<1> QED BY <1>1, Invariant, PTL

(* A mosh-server that only sends events has none refused while it is still  *)
(* connected and is never cut for silence or for invalid frames, however    *)
(* its writes are torn, the daemon restarts and slots run out.              *)
THEOREM HealthyPeersAreLeftAlone == Spec => []HealthyNeverPunished
<1>1. IInv => HealthyNeverPunished
  <2> SUFFICES ASSUME IInv, NEW c \in Conns, conn[c].by \in Healthy
               PROVE  /\ conn[c].phase = "reading" /\ conn[c].invalid > 0
                           => conn[c].eof /\ conn[c].buf = <<>>
                      /\ conn[c].why \notin {"timeout", "invalid"}
    BY DEF HealthyNeverPunished, HealthyNeverPenalised, HealthyNeverCut
  <2>1. StreamOK(conn[c])
    BY DEF IInv, RecordsOK, RecOK
  <2> QED BY <2>1 DEF StreamOK, Active
<1> QED BY <1>1, Invariant, PTL
=============================================================================
