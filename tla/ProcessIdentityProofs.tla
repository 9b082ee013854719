----------------------- MODULE ProcessIdentityProofs -----------------------
(***************************************************************************)
(* What the scan, the telemetry peers and the terminate requests rely on,  *)
(* for any number of pids, processes, programs and settings of the clock.  *)
(*                                                                         *)
(* The argument is the same for all three. The process with a pid is never *)
(* older than one that was seen under it, and the boot time that a reader  *)
(* adds lies below any earlier one by `fall` at most. So the start time it *)
(* computes for a younger process can only fall short of its age by that   *)
(* much, and is equal to an older one's only if the clock was set back.    *)
(***************************************************************************)
EXTENDS ProcessIdentity, TLAPS

Proc == [pid: Pids, born: Nat, exe: AllExes, wall: Nat]
Id == [pid: Pids, start: Nat, born: Nat]
Target == [pid: Pids, start: Nat, born: Nat, gone: BOOLEAN]
Steps == {"exe", "start", "cmdline"}
Read == [step: Steps \cup {"idle", "next", "kill"}, pid: Pids \cup {"none"}, btime: Nat,
         exe: AllExes, start: Nat, born: Nat]

(* The boot time from which a process, or who identified it, computed its   *)
(* start time.                                                              *)
WallBoot(r) == r.wall - r.born
Boot(s) == s.start - s.born

(* Earlier boot times are at most `high`, and the one now is not more than  *)
(* `fall` below them.                                                       *)
ClockOK ==
  /\ btime \in Nat /\ high \in Nat /\ fall \in Nat
  /\ btime <= high /\ high <= MaxStep /\ high - btime <= fall

KernelOK ==
  /\ uptime \in Nat /\ ClockOK
  /\ table \in [Pids -> Proc \cup {None}]
  /\ \A p \in Pids : table[p] # None =>
       table[p].pid = p /\ table[p].born <= uptime /\ WallBoot(table[p]) \in 0..high

(* Whoever has the pid of s now is not older than s.                        *)
NotYounger(s) == table[s.pid] # None => s.born <= table[s.pid].born

Seen(s) == s.born <= uptime /\ Boot(s) \in 0..high /\ NotYounger(s)

ReadOK(t) ==
  LET r == task[t]
  IN /\ r \in Read /\ r.btime <= high
     /\ r.step \in Steps => r.pid \in Pids
     /\ r.step = "cmdline" => Boot(r) = r.btime /\ r.born <= uptime /\ NotYounger(r)

ReadsOK == task \in [AllTasks -> Read] /\ \A t \in AllTasks : ReadOK(t)

KnownOK ==
  /\ found \subseteq Id /\ listed \subseteq Id
  /\ applied \subseteq [from: Proc, as: Id, start: SUBSET Nat]
  /\ \A s \in found \cup Known : Seen(s)

ConnOK ==
  /\ conn \in Proc \cup {None} /\ peer \in Id \cup {None}
  /\ task["verify"].step \in Steps \cup {"idle"}
  /\ conn # None =>
       conn.born <= uptime /\ NotYounger(conn) /\ WallBoot(conn) \in 0..high
  /\ task["verify"].step \in Steps =>
       /\ conn # None /\ task["verify"].pid = conn.pid
       /\ WallBoot(conn) - fall <= task["verify"].btime
       /\ task["verify"].step = "cmdline" => conn.born <= task["verify"].born
  /\ peer # None =>
       /\ conn # None /\ peer.pid = conn.pid /\ conn.born <= peer.born
       /\ Seen(peer) /\ WallBoot(conn) - fall <= Boot(peer)

(* A process that had ended when the request came is not there again.       *)
TargetOK ==
  /\ target \in Target \cup {None}
  /\ task["terminate"].step \in Steps \cup {"idle", "kill"}
  /\ target # None =>
       /\ Seen(target)
       /\ target.gone => \/ table[target.pid] = None
                         \/ table[target.pid].born > target.born
  /\ task["terminate"].step \in Steps =>
       /\ target # None /\ task["terminate"].pid = target.pid
       /\ Boot(target) - fall <= task["terminate"].btime
       /\ task["terminate"].step = "cmdline" /\ target.gone =>
            task["terminate"].born > target.born
  /\ task["terminate"].step = "kill" =>
       /\ target # None
       /\ target.gone => task["terminate"].born - target.born \in 1 .. fall

(* A scan has not visited a pid, is about to record it, or has recorded     *)
(* what it must.                                                            *)
FoundAt(p) == {s \in found : s.pid = p}
Expected(p) ==
  IF table[p] = None \/ table[p].exe \in {"stray", "other"} THEN {}
  ELSE {[pid |-> p, start |-> task["scan"].btime + table[p].born, born |-> table[p].born]}
Visiting(p) == task["scan"].step \in Steps /\ task["scan"].pid = p

ScanPidOK(p) ==
  /\ p \in todo \/ Visiting(p) => FoundAt(p) = {}
  /\ Visiting(p) =>
       /\ p \notin todo /\ table[p] # None
       /\ task["scan"].step \in {"start", "cmdline"} =>
            task["scan"].exe = NormalizeProcExePath(table[p].exe)
       /\ task["scan"].step = "cmdline" => task["scan"].born = table[p].born
  /\ p \notin todo /\ ~Visiting(p) => FoundAt(p) = Expected(p)

ScanOK ==
  /\ task["scan"].step \in Steps \cup {"idle", "next"}
  /\ task["scan"].step # "idle" => \A p \in Pids \ moved : ScanPidOK(p)

IInv == /\ KernelOK /\ ReadsOK /\ KnownOK /\ ConnOK /\ TargetOK /\ ScanOK
        /\ AttributedWithinDrift /\ StaleTargetNeverSignalled

-----------------------------------------------------------------------------
(* The kernel *)

Env == (\E p \in Pids : Spawn(p) \/ Die(p)) \/ Upgrade \/ CorrectClock

(* Time goes on, and pids go to younger processes only.                     *)
Later ==
  /\ uptime' \in Nat /\ uptime <= uptime' /\ high <= high' /\ fall <= fall'
  /\ \A p \in Pids : table'[p] # None =>
       \/ table[p] # None /\ table'[p].born = table[p].born
       \/ uptime < table'[p].born

LEMMA EnvKernel ==
  ASSUME IInv, Env
  PROVE  /\ KernelOK' /\ Later
         /\ UNCHANGED <<task, todo, found, listed, conn, peer, applied, target, signalled>>
<1>1. /\ uptime \in Nat /\ ClockOK
      /\ table \in [Pids -> Proc \cup {None}]
      /\ \A p \in Pids : table[p] # None =>
           table[p] \in Proc /\ table[p].pid = p /\ table[p].born <= uptime
             /\ WallBoot(table[p]) \in 0..high
  BY DEF IInv, KernelOK
<1>2. CASE \E p \in Pids : Spawn(p)
  <2>1. PICK p \in Pids : Spawn(p)
    BY <1>2
  <2>2. PICK e \in Exes :
          table' = [table EXCEPT ![p] = [pid |-> p, born |-> uptime + 1, exe |-> e,
                                         wall |-> btime + uptime + 1]]
    BY <2>1 DEF Spawn
  <2> DEFINE new == [pid |-> p, born |-> uptime + 1, exe |-> e, wall |-> btime + uptime + 1]
  <2>3. /\ new \in Proc /\ new.pid = p /\ new.born = uptime + 1 /\ WallBoot(new) = btime
    BY <1>1, IdentityAssumption DEF Proc, WallBoot, ClockOK
  <2>4. table' = [table EXCEPT ![p] = new]
    BY <2>2
  <2>5. uptime' = uptime + 1 /\ UNCHANGED clockVars
    BY <2>1 DEF Spawn
  <2> HIDE DEF new
  <2>6. KernelOK'
    <3>1. /\ uptime' \in Nat /\ ClockOK' /\ uptime <= uptime'
          /\ table' \in [Pids -> Proc \cup {None}]
      BY <1>1, <2>3, <2>4, <2>5 DEF ClockOK, clockVars
    <3>2. ASSUME NEW q \in Pids, table'[q] # None
          PROVE  /\ table'[q].pid = q /\ table'[q].born <= uptime'
                 /\ WallBoot(table'[q]) \in 0..high'
      <4>1. CASE q = p
        BY <1>1, <2>3, <2>4, <2>5, <3>1, <4>1 DEF ClockOK, clockVars
      <4>2. CASE q # p
        <5>1. table'[q] = table[q] /\ table[q].born \in Nat
          BY <1>1, <2>4, <3>2, <4>2 DEF Proc
        <5> QED BY <1>1, <2>5, <3>1, <3>2, <5>1 DEF clockVars
      <4> QED BY <4>1, <4>2
    <3> QED BY <3>1, <3>2 DEF KernelOK, WallBoot
  <2>7. Later
    BY <1>1, <2>3, <2>4, <2>5 DEF Later, ClockOK, clockVars
  <2> QED BY <2>1, <2>6, <2>7 DEF Spawn
<1>3. CASE \E p \in Pids : Die(p)
  BY <1>1, <1>3 DEF Die, KernelOK, Later, WallBoot, ClockOK, clockVars
<1>4. CASE Upgrade
  <2> DEFINE q(p) == IF table[p] = None \/ table[p].exe \notin {"real", "stock"} THEN table[p]
                     ELSE [table[p] EXCEPT !.exe = IF @ = "real" THEN "real (deleted)"
                                                   ELSE "stock (deleted)"]
  <2>1. table' = [p \in Pids |-> q(p)] /\ UNCHANGED <<uptime, clockVars>>
    BY <1>4 DEF Upgrade
  <2>2. ASSUME NEW p \in Pids, table[p] # None
        PROVE  /\ q(p) \in Proc /\ q(p).pid = table[p].pid /\ q(p).born = table[p].born
               /\ q(p).wall = table[p].wall
    BY <1>1, <2>2 DEF Proc, AllExes
  <2>3. ASSUME NEW p \in Pids, table[p] = None
        PROVE  q(p) = None
    BY <2>3
  <2> HIDE DEF q
  <2>4. KernelOK'
    BY <1>1, <2>1, <2>2, <2>3 DEF KernelOK, WallBoot, ClockOK, clockVars
  <2>5. Later
    BY <1>1, <2>1, <2>2, <2>3 DEF Later, ClockOK, clockVars
  <2> QED BY <1>4, <2>4, <2>5 DEF Upgrade
<1>5. CASE CorrectClock
  <2>1. /\ ClockOK' /\ high <= high' /\ fall <= fall' /\ high \in Nat /\ high' \in Nat
        /\ UNCHANGED <<table, uptime>>
    <3>1. PICK b \in 0 .. MaxStep : btime' = b
      BY <1>5 DEF CorrectClock
    <3>2. /\ high' = IF high < b THEN b ELSE high
          /\ fall' = IF fall < high' - b THEN high' - b ELSE fall
          /\ UNCHANGED <<table, uptime>>
      BY <1>5, <3>1 DEF CorrectClock
    <3>3. /\ high \in Nat /\ fall \in Nat /\ high <= MaxStep /\ MaxStep \in Nat
          /\ b \in Nat /\ b <= MaxStep
      BY <1>1, <3>1, IdentityAssumption DEF ClockOK
    <3>4. high' \in Nat /\ high <= high' /\ high' <= MaxStep /\ b <= high'
      BY <3>2, <3>3
    <3>5. fall' \in Nat /\ fall <= fall' /\ high' - b <= fall'
      BY <3>2, <3>3, <3>4
    <3> QED BY <3>1, <3>2, <3>3, <3>4, <3>5 DEF ClockOK
  <2>2. \A p \in Pids : table[p] # None => WallBoot(table'[p]) \in 0..high'
    BY <1>1, <2>1
  <2>3. KernelOK'
    BY <1>1, <2>1, <2>2 DEF KernelOK, WallBoot
  <2>4. Later
    BY <1>1, <2>1 DEF Later
  <2> QED BY <1>5, <2>3, <2>4 DEF CorrectClock
<1> QED BY <1>2, <1>3, <1>4, <1>5 DEF Env

(* What was seen under a pid stays older than what comes.                   *)
LEMMA NotYoungerLater ==
  ASSUME IInv, KernelOK', Later, NEW s, s.pid \in Pids, s.born \in Nat,
         s.born <= uptime, NotYounger(s)
  PROVE  NotYounger(s)' /\ s.born <= uptime'
<1>1. uptime \in Nat /\ uptime' \in Nat /\ uptime <= uptime'
  BY DEF IInv, KernelOK, Later
<1>2. ASSUME table'[s.pid] # None
      PROVE  s.born <= table'[s.pid].born
  <2>1. CASE table[s.pid] # None /\ table'[s.pid].born = table[s.pid].born
    BY <1>2, <2>1 DEF NotYounger
  <2>2. CASE uptime < table'[s.pid].born
    <3>1. table'[s.pid].born \in Nat
      BY <1>2 DEF KernelOK, Proc
    <3> QED BY <1>1, <2>2, <3>1
  <2> QED BY <1>2, <2>1, <2>2 DEF Later
<1> QED BY <1>1, <1>2 DEF NotYounger

LEMMA SeenLater ==
  ASSUME IInv, KernelOK', Later, NEW s, s.pid \in Pids, s.born \in Nat, s.start \in Nat,
         Seen(s)
  PROVE  Seen(s)'
<1>1. high \in Nat /\ high' \in Nat /\ high <= high'
  BY DEF IInv, KernelOK, Later, ClockOK
<1>2. NotYounger(s)' /\ s.born <= uptime'
  BY NotYoungerLater DEF Seen
<1> QED BY <1>1, <1>2 DEF Seen, Boot

(* The bounds only get wider.                                               *)
LEMMA AttributedLater ==
  ASSUME IInv, KernelOK', Later, UNCHANGED applied
  PROVE  AttributedWithinDrift'
<1>1. fall \in Nat /\ fall' \in Nat /\ fall <= fall' /\ MaxDrift \in Nat
  BY IdentityAssumption DEF IInv, KernelOK, Later, ClockOK
<1>2. ASSUME NEW a \in applied
      PROVE  /\ a.from.pid = a.as.pid /\ a.from.born <= a.as.born
             /\ a.start # {} => a.as.born - a.from.born <= MaxDrift + fall'
  <2>1. /\ a.from.pid = a.as.pid /\ a.from.born <= a.as.born
        /\ a.start # {} => a.as.born - a.from.born <= MaxDrift + fall
    BY <1>2 DEF IInv, AttributedWithinDrift
  <2>2. a.from.born \in Nat /\ a.as.born \in Nat
    BY <1>2 DEF IInv, KnownOK, Proc, Id
  <2> QED BY <1>1, <2>1, <2>2
<1> QED BY <1>2 DEF AttributedWithinDrift

LEMMA SignalsLater ==
  ASSUME IInv, KernelOK', Later, UNCHANGED signalled
  PROVE  StaleTargetNeverSignalled'
<1>1. fall \in Nat /\ fall' \in Nat /\ fall <= fall'
  BY DEF IInv, KernelOK, Later, ClockOK
<1>2. \A n : n \in 1 .. fall => n \in 1 .. fall'
  BY <1>1
<1> QED BY <1>2 DEF IInv, StaleTargetNeverSignalled

LEMMA Wider ==
  ASSUME NEW m \in Int, NEW n \in Int, m <= n,
         NEW x \in Int, NEW y \in Int, x - m <= y
  PROVE  x - n <= y
OBVIOUS

LEMMA EnvStep ==
  ASSUME IInv, Env
  PROVE  IInv'
<1>1. /\ KernelOK' /\ Later
      /\ UNCHANGED <<task, todo, found, listed, conn, peer, applied, target, signalled>>
  BY EnvKernel
<1>2. /\ uptime \in Nat /\ high \in Nat /\ uptime' \in Nat /\ high' \in Nat
      /\ fall \in Nat /\ fall' \in Nat
      /\ uptime <= uptime' /\ high <= high' /\ fall <= fall'
  BY <1>1 DEF IInv, KernelOK, Later, ClockOK
<1>3. ReadsOK'
  <2>1. ASSUME NEW t \in AllTasks
        PROVE  ReadOK(t)'
    <3>1. task[t] \in Read /\ ReadOK(t)
      BY DEF IInv, ReadsOK
    <3>2. task[t].step = "cmdline" => NotYounger(task[t])' /\ task[t].born <= uptime'
      BY <1>1, <3>1, NotYoungerLater DEF ReadOK, Read, Steps
    <3>3. task[t].btime <= high'
      BY <1>2, <3>1 DEF ReadOK, Read
    <3>4. Boot(task[t])' = Boot(task[t])
      BY <1>1 DEF Boot
    <3> QED BY <1>1, <3>1, <3>2, <3>3, <3>4 DEF ReadOK, NotYounger, Boot
  <2> QED BY <1>1, <2>1 DEF IInv, ReadsOK
<1>4. KnownOK'
  <2>1. Known' = Known /\ found' = found /\ found \cup Known \subseteq Id
    BY <1>1 DEF IInv, KnownOK, Known
  <2>2. ASSUME NEW s \in found \cup Known
        PROVE  Seen(s)'
    BY <1>1, <2>1, SeenLater DEF IInv, KnownOK, Id
  <2> QED BY <1>1, <2>1, <2>2 DEF IInv, KnownOK
<1>5. ConnOK'
  <2>1. peer # None => Seen(peer)'
    <3> SUFFICES ASSUME peer # None PROVE Seen(peer)'
      OBVIOUS
    <3>1. PICK s \in Id : s = peer
      BY DEF IInv, ConnOK
    <3>2. Seen(s)'
      BY <1>1, <3>1, SeenLater DEF IInv, ConnOK, Id
    <3> QED BY <1>1, <3>1, <3>2
  <2>2. ASSUME conn # None
        PROVE  conn.born <= uptime' /\ NotYounger(conn)' /\ WallBoot(conn) \in 0..high'
    <3>1. PICK c \in Proc : c = conn
      BY <2>2 DEF IInv, ConnOK
    <3>2. c.pid \in Pids /\ c.born \in Nat /\ c.born <= uptime /\ NotYounger(c)
      BY <2>2, <3>1 DEF IInv, ConnOK, Proc
    <3>3. NotYounger(c)' /\ c.born <= uptime'
      BY <1>1, <3>2, NotYoungerLater
    <3>4. WallBoot(conn) \in 0..high
      BY <2>2 DEF IInv, ConnOK
    <3> QED BY <1>1, <1>2, <3>1, <3>3, <3>4 DEF NotYounger
  <2>3. conn # None => WallBoot(conn) \in Int
    BY <1>2 DEF IInv, ConnOK
  <2>5. task["verify"].step \in Steps => WallBoot(conn) - fall' <= task["verify"].btime
    <3>1. task["verify"].btime \in Int
      BY DEF IInv, ReadsOK, AllTasks, Read
    <3> QED BY <1>2, <2>3, <3>1, Wider DEF IInv, ConnOK
  <2>6. peer # None => WallBoot(conn) - fall' <= Boot(peer)
    <3>1. peer # None => Boot(peer) \in Int
      BY DEF IInv, ConnOK, Seen
    <3> QED BY <1>2, <2>3, <3>1, Wider DEF IInv, ConnOK
  <2>7. WallBoot(conn)' = WallBoot(conn) /\ Boot(peer)' = Boot(peer)
    BY <1>1 DEF WallBoot, Boot
  <2> QED BY <1>1, <2>1, <2>2, <2>5, <2>6, <2>7 DEF IInv, ConnOK
<1>6. TargetOK'
  <2>1. ASSUME target # None
        PROVE  /\ Seen(target)'
               /\ target.gone => \/ table'[target.pid] = None
                                 \/ table'[target.pid].born > target.born
    <3>1. PICK s \in Target : s = target
      BY <2>1 DEF IInv, TargetOK
    <3>2. Seen(s)'
      BY <1>1, <2>1, <3>1, SeenLater DEF IInv, TargetOK, Target
    <3>3. s.gone => \/ table'[s.pid] = None \/ table'[s.pid].born > s.born
      BY <1>1, <1>2, <2>1, <3>1
         DEF IInv, TargetOK, Target, Later, Seen, KernelOK, Proc
    <3> QED BY <1>1, <3>1, <3>2, <3>3
  <2>2. task["terminate"].step \in Steps => Boot(target) - fall' <= task["terminate"].btime
    <3>1. target # None => Boot(target) \in Int
      BY DEF IInv, TargetOK, Seen
    <3>2. task["terminate"].btime \in Int
      BY DEF IInv, ReadsOK, AllTasks, Read
    <3> QED BY <1>2, <3>1, <3>2, Wider DEF IInv, TargetOK
  <2>3. \A n : n \in 1 .. fall => n \in 1 .. fall'
    BY <1>2
  <2>4. Boot(target)' = Boot(target)
    BY <1>1 DEF Boot
  <2> QED BY <1>1, <2>1, <2>2, <2>3, <2>4 DEF IInv, TargetOK
<1>7. ScanOK'
  <2>1. ASSUME NEW p \in Pids \ moved'
        PROVE  /\ p \notin moved
               /\ table[p] = None <=> table'[p] = None
               /\ table[p] # None =>
                    /\ table'[p].born = table[p].born
                    /\ NormalizeProcExePath(table'[p].exe) = NormalizeProcExePath(table[p].exe)
                    /\ table'[p].exe \in {"stray", "other"} <=> table[p].exe \in {"stray", "other"}
    <3>1. CASE \E q \in Pids : Spawn(q) \/ Die(q)
      BY <2>1, <3>1 DEF Spawn, Die, Disturb, IInv, KernelOK
    <3>2. CASE Upgrade
      <4>1. p \notin moved
        BY <2>1, <3>2 DEF Upgrade
      <4>2. CASE table[p] = None \/ table[p].exe \notin {"real", "stock"}
        <5>1. table'[p] = table[p]
          BY <2>1, <3>2, <4>2 DEF Upgrade
        <5> QED BY <4>1, <5>1
      <4>3. CASE ~(table[p] = None \/ table[p].exe \notin {"real", "stock"})
        <5>1. /\ table[p] \in Proc
              /\ table'[p] = [table[p] EXCEPT !.exe = IF @ = "real" THEN "real (deleted)"
                                                      ELSE "stock (deleted)"]
          BY <2>1, <3>2, <4>3 DEF Upgrade, IInv, KernelOK
        <5>2. table'[p] \in Proc
          BY <1>1, <5>1 DEF Proc, AllExes
        <5>3. table'[p] # None
          BY <5>2 DEF Proc, None
        <5> QED BY <4>1, <4>3, <5>1, <5>3 DEF Proc, NormalizeProcExePath
      <4> QED BY <4>2, <4>3
    <3>3. CASE CorrectClock
      BY <2>1, <3>3 DEF CorrectClock
    <3> QED BY <3>1, <3>2, <3>3 DEF Env
  <2>2. ASSUME NEW p \in Pids \ moved', task["scan"].step # "idle"
        PROVE  ScanPidOK(p)'
    <3>1. ScanPidOK(p)
      BY <2>1, <2>2 DEF IInv, ScanOK
    <3>2. FoundAt(p)' = FoundAt(p) /\ Visiting(p)' = Visiting(p) /\ Expected(p)' = Expected(p)
      BY <1>1, <2>1 DEF FoundAt, Visiting, Expected
    <3> QED BY <1>1, <2>1, <3>1, <3>2 DEF ScanPidOK, Visiting
  <2> QED BY <1>1, <2>2 DEF IInv, ScanOK
<1>8. AttributedWithinDrift' /\ StaleTargetNeverSignalled'
  BY <1>1, AttributedLater, SignalsLater
<1> QED BY <1>1, <1>3, <1>4, <1>5, <1>6, <1>7, <1>8 DEF IInv

-----------------------------------------------------------------------------
(* The reads *)

(* What a task found in the kernel stays what it was while the kernel does  *)
(* not move.                                                                *)
LEMMA Quiet ==
  ASSUME IInv, UNCHANGED kernelVars
  PROVE  /\ KernelOK' /\ Later
         /\ \A s : Seen(s)' <=> Seen(s)
         /\ \A s : NotYounger(s)' <=> NotYounger(s)
<1>1. KernelOK' /\ Later
  BY DEF IInv, KernelOK, ClockOK, Later, kernelVars, clockVars, WallBoot
<1>2. \A s : NotYounger(s)' <=> NotYounger(s)
  BY DEF kernelVars, NotYounger
<1> QED BY <1>1, <1>2 DEF Seen, kernelVars, clockVars

(* The other tasks' reads do not change either.                             *)
LEMMA OneReads ==
  ASSUME IInv, UNCHANGED kernelVars, NEW t \in AllTasks, NEW r,
         task' = [task EXCEPT ![t] = r], r \in Read, r.btime <= high,
         r.step \in Steps => r.pid \in Pids,
         r.step = "cmdline" => Boot(r) = r.btime /\ r.born <= uptime /\ NotYounger(r)
  PROVE  /\ ReadsOK' /\ task'[t] = r
         /\ \A u \in AllTasks \ {t} : task'[u] = task[u]
<1>1. task \in [AllTasks -> Read] /\ \A u \in AllTasks : ReadOK(u)
  BY DEF IInv, ReadsOK
<1>2. task' \in [AllTasks -> Read] /\ task'[t] = r /\ \A u \in AllTasks \ {t} : task'[u] = task[u]
  BY <1>1
<1>3. ASSUME NEW u \in AllTasks
      PROVE  ReadOK(u)'
  <2>1. CASE u = t
    BY <1>2, <2>1, Quiet DEF ReadOK, kernelVars, clockVars
  <2>2. CASE u # t
    BY <1>1, <1>2, <2>2, Quiet DEF ReadOK, kernelVars, clockVars
  <2> QED BY <2>1, <2>2
<1> QED BY <1>2, <1>3 DEF ReadsOK

(* The parts that a step leaves alone with their variables.                 *)
LEMMA KnownKept ==
  ASSUME IInv, UNCHANGED <<kernelVars, found, listed, applied>>
  PROVE  KnownOK'
<1>1. Known' = Known
  BY DEF Known
<1> QED BY <1>1, Quiet DEF IInv, KnownOK

LEMMA ConnKept ==
  ASSUME IInv, UNCHANGED <<kernelVars, conn, peer>>, task'["verify"] = task["verify"]
  PROVE  ConnOK'
<1>1. /\ Seen(peer)' <=> Seen(peer)
      /\ NotYounger(conn)' <=> NotYounger(conn)
  BY DEF Seen, NotYounger, kernelVars, clockVars
<1>2. /\ WallBoot(conn)' = WallBoot(conn) /\ Boot(peer)' = Boot(peer)
      /\ UNCHANGED <<uptime, high, fall, conn, peer>>
  BY DEF WallBoot, Boot, kernelVars, clockVars
<1> QED BY <1>1, <1>2 DEF IInv, ConnOK

LEMMA TargetKept ==
  ASSUME IInv, UNCHANGED <<kernelVars, target>>, task'["terminate"] = task["terminate"]
  PROVE  TargetOK'
<1>1. Seen(target)' <=> Seen(target)
  BY DEF Seen, NotYounger, kernelVars, clockVars
<1> QED BY <1>1 DEF IInv, TargetOK, kernelVars, clockVars

LEMMA ScanKept ==
  ASSUME IInv, UNCHANGED <<kernelVars, todo, found, moved>>, task'["scan"] = task["scan"]
  PROVE  ScanOK'
<1>1. \A p : ScanPidOK(p)' <=> ScanPidOK(p)
  BY DEF ScanPidOK, FoundAt, Visiting, Expected, kernelVars, clockVars
<1> QED BY <1>1 DEF IInv, ScanOK, kernelVars, clockVars

LEMMA ReadStep ==
  ASSUME IInv, NEW t \in Tasks, ReadExe(t) \/ ReadStart(t)
  PROVE  IInv'
<1>1. /\ UNCHANGED kernelVars
      /\ UNCHANGED <<todo, found, listed, conn, peer, applied, target, signalled, moved>>
      /\ t \in AllTasks /\ t \in Tasks
  BY IdentityAssumption DEF ReadExe, ReadStart
<1>2. /\ task \in [AllTasks -> Read] /\ task[t] \in Read /\ ReadOK(t)
      /\ task[t].step \in {"exe", "start"} /\ task[t].pid \in Pids
      /\ table[task[t].pid] # None /\ table[task[t].pid] \in Proc
      /\ table[task[t].pid].born <= uptime
      /\ uptime \in Nat /\ ClockOK
  BY <1>1 DEF ReadExe, ReadStart, Reading, IInv, ReadsOK, ReadOK, KernelOK, Steps
<1> DEFINE old == task[t]
           now == table[old.pid]
<1>3. PICK r : /\ task' = [task EXCEPT ![t] = r] /\ r \in Read
               /\ r.pid = old.pid /\ r.btime = old.btime
               /\ \/ /\ old.step = "exe" /\ r.step = "start"
                     /\ r.exe = NormalizeProcExePath(now.exe)
                  \/ /\ old.step = "start" /\ r.step = "cmdline" /\ r.exe = old.exe
                     /\ r.born = now.born /\ r.start = r.btime + r.born
  <2>1. CASE ReadExe(t)
    <3> DEFINE r == [old EXCEPT !.step = "start", !.exe = NormalizeProcExePath(now.exe)]
    <3>1. task' = [task EXCEPT ![t] = r] /\ old.step = "exe"
      BY <1>2, <2>1 DEF ReadExe, Reading
    <3>2. NormalizeProcExePath(now.exe) \in AllExes
      BY <1>2 DEF Proc, AllExes, NormalizeProcExePath
    <3>3. /\ r \in Read /\ r.pid = old.pid /\ r.btime = old.btime /\ r.step = "start"
          /\ r.exe = NormalizeProcExePath(now.exe)
      BY <1>2, <3>2 DEF Read, Steps
    <3> HIDE DEF r
    <3> QED BY <3>1, <3>3
  <2>2. CASE ReadStart(t)
    <3> DEFINE r == [old EXCEPT !.step = "cmdline", !.born = now.born,
                                !.start = old.btime + now.born]
    <3>1. task' = [task EXCEPT ![t] = r] /\ old.step = "start"
      BY <1>2, <2>2 DEF ReadStart, Reading
    <3>2. now.born \in Nat /\ old.btime + now.born \in Nat
      BY <1>2 DEF Proc, Read
    <3>3. /\ r \in Read /\ r.pid = old.pid /\ r.btime = old.btime /\ r.step = "cmdline"
          /\ r.exe = old.exe /\ r.born = now.born /\ r.start = r.btime + r.born
      BY <1>2, <3>2 DEF Read, Steps
    <3> HIDE DEF r
    <3> QED BY <3>1, <3>3
  <2> QED BY <2>1, <2>2
<1>4. /\ r.btime <= high
      /\ r.step = "cmdline" => Boot(r) = r.btime /\ r.born <= uptime /\ NotYounger(r)
  <2>1. r.born \in Nat /\ r.btime \in Nat /\ now.born \in Nat
    BY <1>2, <1>3 DEF Read, Proc
  <2> QED BY <1>2, <1>3, <2>1 DEF ReadOK, Boot, NotYounger
<1>5. ReadsOK' /\ task'[t] = r /\ \A u \in AllTasks \ {t} : task'[u] = task[u]
  BY <1>1, <1>2, <1>3, <1>4, OneReads
<1>6. KnownOK'
  BY <1>1, KnownKept
<1>7. ConnOK'
  <2>1. CASE t # "verify"
    BY <1>1, <1>5, <2>1, ConnKept DEF AllTasks
  <2>2. CASE t = "verify"
    <3>1. /\ task'["verify"].step \in Steps /\ task["verify"].step \in Steps
          /\ task'["verify"].pid = task["verify"].pid
          /\ task'["verify"].btime = task["verify"].btime
          /\ task'["verify"].step = "cmdline" =>
               task'["verify"].born = table[task["verify"].pid].born
          /\ table[task["verify"].pid] # None
      BY <1>2, <1>3, <1>5, <2>2 DEF Steps
    <3>2. /\ Seen(peer)' <=> Seen(peer)
          /\ NotYounger(conn)' <=> NotYounger(conn)
      BY <1>1 DEF Seen, NotYounger, kernelVars, clockVars
    <3>3. /\ WallBoot(conn)' = WallBoot(conn) /\ Boot(peer)' = Boot(peer)
          /\ UNCHANGED <<uptime, high, fall, conn, peer>>
      BY <1>1 DEF WallBoot, Boot, kernelVars, clockVars
    <3>4. task'["verify"].step = "cmdline" => conn.born <= task'["verify"].born
      BY <3>1 DEF IInv, ConnOK, NotYounger
    <3> QED BY <3>1, <3>2, <3>3, <3>4 DEF IInv, ConnOK
  <2> QED BY <2>1, <2>2
<1>8. TargetOK'
  <2>1. CASE t # "terminate"
    BY <1>1, <1>5, <2>1, TargetKept DEF AllTasks
  <2>2. CASE t = "terminate"
    <3>1. /\ task'["terminate"].step \in {"start", "cmdline"}
          /\ task["terminate"].step \in {"exe", "start"}
          /\ task'["terminate"].pid = task["terminate"].pid
          /\ task'["terminate"].btime = task["terminate"].btime
          /\ task'["terminate"].step = "cmdline" =>
               task'["terminate"].born = table[task["terminate"].pid].born
          /\ table[task["terminate"].pid] # None
      BY <1>2, <1>3, <1>5, <2>2
    <3>2. Seen(target)' <=> Seen(target)
      BY <1>1 DEF Seen, NotYounger, kernelVars, clockVars
    <3> QED BY <1>1, <3>1, <3>2 DEF IInv, TargetOK, kernelVars, clockVars, Steps
  <2> QED BY <2>1, <2>2
<1>9. ScanOK'
  <2>1. CASE t # "scan"
    BY <1>1, <1>5, <2>1, ScanKept DEF AllTasks
  <2>2. CASE t = "scan"
    <3>1. ASSUME NEW p \in Pids \ moved
          PROVE  ScanPidOK(p)'
      <4>1. ScanPidOK(p) /\ task["scan"].step \in {"exe", "start"}
            /\ task["scan"].pid \in Pids
        BY <1>2, <2>2 DEF IInv, ScanOK
      <4>2. /\ task'["scan"] = r /\ task["scan"] = old
        BY <1>5, <2>2
      <4>3. /\ Visiting(p)' <=> Visiting(p)
            /\ FoundAt(p)' = FoundAt(p) /\ Expected(p)' = Expected(p)
        BY <1>1, <1>3, <4>1, <4>2 DEF Visiting, FoundAt, Expected, Steps, kernelVars, clockVars
      <4> todo' = todo /\ table' = table
        BY <1>1 DEF kernelVars, clockVars
      <4>4. CASE ~Visiting(p)
        BY <4>1, <4>3, <4>4 DEF ScanPidOK, Visiting
      <4>5. CASE Visiting(p)
        <5>1. old.pid = p
          BY <4>2, <4>5 DEF Visiting
        <5>2. task'["scan"].step \in {"start", "cmdline"} =>
                task'["scan"].exe = NormalizeProcExePath(table[p].exe)
          BY <1>3, <4>1, <4>2, <4>5, <5>1 DEF ScanPidOK
        <5>3. task'["scan"].step = "cmdline" => task'["scan"].born = table[p].born
          BY <1>3, <4>1, <4>2, <4>5, <5>1 DEF ScanPidOK
        <5> QED BY <4>1, <4>3, <4>5, <5>2, <5>3 DEF ScanPidOK, Visiting
      <4> QED BY <4>4, <4>5
    <3>2. task'["scan"].step \in Steps
      BY <1>3, <1>5, <2>2 DEF Steps
    <3> QED BY <1>1, <3>1, <3>2 DEF ScanOK
  <2> QED BY <2>1, <2>2
<1>10. AttributedWithinDrift' /\ StaleTargetNeverSignalled'
  BY <1>1, Quiet, AttributedLater, SignalsLater
<1> QED BY <1>1, <1>5, <1>6, <1>7, <1>8, <1>9, <1>10, Quiet DEF IInv

-----------------------------------------------------------------------------
(* discover_mosh_sessions *)

(* A task that reads nothing. *)
LEMMA IdleIsRead == Idle \in Read /\ Idle.step = "idle" /\ Idle.btime = 0
BY DEF Idle, Read, Steps, AllExes

LEMMA NextIsRead ==
  \A b \in Nat : LET r == [Idle EXCEPT !.step = "next", !.btime = b]
                 IN r \in Read /\ r.step = "next" /\ r.btime = b
BY DEF Idle, Read, Steps, AllExes

LEMMA StartReadIsRead ==
  ASSUME IInv, NEW p \in Pids
  PROVE  /\ StartRead(p) \in Read /\ StartRead(p).step = "exe" /\ StartRead(p).pid = p
         /\ StartRead(p).btime = btime
BY DEF IInv, KernelOK, ClockOK, StartRead, Idle, Read, Steps, AllExes

LEMMA ScanStep ==
  ASSUME IInv, StartScan \/ (\E p \in Pids : NextPid(p)) \/ ScanPid \/ FinishScan
  PROVE  IInv'
<1>1. /\ UNCHANGED kernelVars
      /\ UNCHANGED <<conn, peer, applied, target, signalled>>
  BY DEF StartScan, NextPid, ScanPid, FinishScan
<1>2. /\ task \in [AllTasks -> Read] /\ task["scan"] \in Read /\ ReadOK("scan")
      /\ uptime \in Nat /\ ClockOK /\ "scan" \in AllTasks
      /\ \A p \in Pids : table[p] # None => table[p] \in Proc
  BY DEF IInv, ReadsOK, KernelOK, AllTasks
<1>3. ASSUME NEW r, task' = [task EXCEPT !["scan"] = r], r \in Read, r.btime <= high,
             r.step \in {"idle", "next", "exe"}, r.step = "exe" => r.pid \in Pids,
             KnownOK', ScanOK'
      PROVE  IInv'
  <2>1. ReadsOK' /\ task'["verify"] = task["verify"] /\ task'["terminate"] = task["terminate"]
    <3>1. ReadsOK' /\ \A u \in AllTasks \ {"scan"} : task'[u] = task[u]
      BY <1>1, <1>2, <1>3, OneReads DEF Steps
    <3> QED BY <3>1 DEF AllTasks
  <2>2. AttributedWithinDrift' /\ StaleTargetNeverSignalled'
    BY <1>1, Quiet, AttributedLater, SignalsLater
  <2> QED BY <1>1, <1>3, <2>1, <2>2, ConnKept, TargetKept, Quiet DEF IInv
<1> DEFINE s == task["scan"]
<1>4. CASE StartScan
  <2> DEFINE r == [Idle EXCEPT !.step = "next", !.btime = btime]
  <2>1. /\ task' = [task EXCEPT !["scan"] = r]
        /\ todo' = Pids /\ found' = {} /\ moved' = {} /\ UNCHANGED listed
    BY <1>4 DEF StartScan
  <2>2. r \in Read /\ r.step = "next" /\ r.btime = btime
    BY <1>2, NextIsRead DEF ClockOK
  <2> HIDE DEF r
  <2>3. task'["scan"] = r
    BY <1>2, <2>1
  <2>4. KnownOK'
    <3>1. Known' = Known
      BY <1>1, <2>1 DEF Known
    <3> QED BY <1>1, <2>1, <3>1, Quiet DEF IInv, KnownOK
  <2>5. ScanOK'
    BY <2>1, <2>2, <2>3 DEF ScanOK, ScanPidOK, FoundAt, Visiting, Steps
  <2>6. r.btime <= high
    BY <1>2, <2>2 DEF ClockOK
  <2> QED BY <1>3, <2>1, <2>2, <2>4, <2>5, <2>6
<1>5. CASE \E p \in Pids : NextPid(p)
  <2>1. PICK p \in Pids : NextPid(p)
    BY <1>5
  <2>2. /\ s.step = "next" /\ p \in todo /\ todo' = todo \ {p}
        /\ UNCHANGED <<found, listed, moved>>
    BY <2>1 DEF NextPid
  <2>3. KnownOK'
    BY <1>1, <2>2, KnownKept
  <2>4. ASSUME NEW q \in Pids \ moved
        PROVE  /\ ScanPidOK(q) /\ ~Visiting(q)
               /\ FoundAt(q)' = FoundAt(q)
    BY <2>2, <2>4 DEF IInv, ScanOK, Visiting, Steps, FoundAt
  <2>5. CASE table[p] = None
    <3>1. task' = task
      BY <2>1, <2>5 DEF NextPid
    <3>2. \A q \in Pids \ moved : ScanPidOK(q)'
      BY <1>1, <2>2, <2>4, <2>5, <3>1 DEF ScanPidOK, Visiting, Expected, kernelVars, clockVars
    <3>3. ScanOK'
      BY <2>2, <3>1, <3>2 DEF ScanOK
    <3>4. ReadsOK' /\ AttributedWithinDrift' /\ StaleTargetNeverSignalled'
      BY <1>1, <3>1, Quiet
         DEF IInv, ReadsOK, ReadOK, AttributedWithinDrift, StaleTargetNeverSignalled, kernelVars, clockVars
    <3> QED BY <1>1, <2>3, <3>1, <3>3, <3>4, ConnKept, TargetKept, Quiet DEF IInv
  <2>6. CASE table[p] # None
    <3> DEFINE r == [s EXCEPT !.step = "exe", !.pid = p]
    <3>1. task' = [task EXCEPT !["scan"] = r]
      BY <2>1, <2>6 DEF NextPid
    <3>2. r \in Read /\ r.step = "exe" /\ r.pid = p /\ r.btime = s.btime /\ s.btime <= high
      BY <1>2 DEF Read, Steps, ReadOK
    <3> HIDE DEF r
    <3>3. task'["scan"] = r
      BY <1>2, <3>1
    <3>4. ASSUME NEW q \in Pids \ moved
          PROVE  ScanPidOK(q)'
      <4>1. Visiting(q)' <=> q = p
        BY <3>2, <3>3 DEF Visiting, Steps
      <4>2. Expected(q)' = Expected(q)
        BY <1>1, <3>2, <3>3 DEF Expected, kernelVars, clockVars
      <4> QED BY <1>1, <2>2, <2>4, <2>6, <3>2, <3>3, <4>1, <4>2 DEF ScanPidOK, kernelVars, clockVars
    <3>5. ScanOK'
      BY <2>2, <3>2, <3>3, <3>4 DEF ScanOK, Steps
    <3> QED BY <1>2, <1>3, <2>3, <3>1, <3>2, <3>5
  <2> QED BY <2>5, <2>6
<1>6. CASE ScanPid
  <2> DEFINE r == [Idle EXCEPT !.step = "next", !.btime = s.btime]
             good == Complete("scan") /\ IsSupportedMoshServer(s.exe)
             id == Identity("scan")
  <2>1. /\ task' = [task EXCEPT !["scan"] = r]
        /\ found' = IF good THEN found \cup {id} ELSE found
        /\ UNCHANGED <<todo, listed, moved>>
    BY <1>6 DEF ScanPid
  <2>2. r \in Read /\ r.step = "next" /\ r.btime = s.btime /\ s.btime <= high
    BY <1>2, NextIsRead DEF Read, ReadOK
  <2>3. s.step \in Steps /\ s.pid \in Pids
    BY <1>2, <1>6 DEF ScanPid, Complete, Vanished, Reading, Steps, ReadOK
  <2>4. id.pid = s.pid /\ id.start = s.start /\ id.born = s.born /\ id \in Id
    BY <1>2, <2>3 DEF Identity, Id, Read
  <2>5. Complete("scan") => Seen(id)
    BY <1>2, <2>3, <2>4 DEF Complete, Reading, ReadOK, Seen, Boot, NotYounger, Read
  <2>6. Complete("scan") <=> s.step = "cmdline" /\ table[s.pid] # None
    <3>1. "scan" \in Tasks
      BY <1>6 DEF ScanPid, Complete, Reading
    <3> QED BY <3>1 DEF Complete, Reading
  <2>7. Complete("scan") \/ table[s.pid] = None
    BY <1>6 DEF ScanPid, Vanished
  <2>8. task'["scan"] = r
    BY <1>2, <2>1
  <2>9. id = [pid |-> s.pid, start |-> s.start, born |-> s.born]
    BY DEF Identity
  <2>10. Complete("scan") => s.start = s.btime + s.born
    BY <1>2, <2>6 DEF ReadOK, Boot, Read
  <2> HIDE DEF r, good, id
  <2>11. KnownOK'
    <3>1. Known' = Known
      BY <1>1, <2>1 DEF Known
    <3>2. found' \subseteq found \cup {id} /\ (id \in found' => id \in found \/ Seen(id))
      BY <2>1, <2>5 DEF good
    <3> QED BY <1>1, <2>1, <2>4, <3>1, <3>2, Quiet DEF IInv, KnownOK
  <2>12. ASSUME NEW q \in Pids \ moved
         PROVE  ScanPidOK(q)'
    <3>1. ScanPidOK(q) /\ ~Visiting(q)' /\ Expected(q)' = Expected(q)
      BY <1>1, <2>2, <2>3, <2>8, <2>12
         DEF IInv, ScanOK, Visiting, Expected, Steps, kernelVars, clockVars
    <3>2. CASE q # s.pid
      <4>1. ~Visiting(q) /\ FoundAt(q)' = FoundAt(q)
        BY <2>1, <2>4, <3>2 DEF Visiting, FoundAt
      <4> QED BY <2>1, <3>1, <4>1 DEF ScanPidOK
    <3>3. CASE q = s.pid
      <4>1. Visiting(q) /\ q \notin todo /\ table[q] # None /\ FoundAt(q) = {}
        BY <2>3, <3>1, <3>3 DEF Visiting, ScanPidOK
      <4>2. Complete("scan") /\ s.exe = NormalizeProcExePath(table[q].exe)
            /\ s.born = table[q].born
        BY <2>6, <2>7, <3>1, <3>3, <4>1 DEF ScanPidOK
      <4>3. good <=> table[q].exe \notin {"stray", "other"}
        BY <1>2, <4>1, <4>2
           DEF good, IsSupportedMoshServer, NormalizeProcExePath, Proc, AllExes
      <4>4. FoundAt(q)' = IF good THEN {id} ELSE {}
        BY <2>1, <2>4, <3>3, <4>1 DEF FoundAt
      <4>5. Expected(q) = IF good THEN {id} ELSE {}
        BY <2>9, <2>10, <3>3, <4>1, <4>2, <4>3 DEF Expected
      <4> QED BY <2>1, <3>1, <4>1, <4>4, <4>5 DEF ScanPidOK
    <3> QED BY <3>2, <3>3
  <2>13. ScanOK'
    BY <2>1, <2>2, <2>8, <2>12 DEF ScanOK
  <2> QED BY <1>2, <1>3, <2>1, <2>2, <2>11, <2>13
<1>7. CASE FinishScan
  <2>1. /\ task' = [task EXCEPT !["scan"] = Idle] /\ listed' \subseteq listed \cup found
        /\ UNCHANGED <<todo, found, moved>>
    BY <1>7 DEF FinishScan
  <2>2. task'["scan"] = Idle
    BY <1>2, <2>1
  <2>3. KnownOK'
    <3>1. Known' \subseteq found \cup Known
      BY <1>1, <2>1 DEF Known
    <3> QED BY <1>1, <2>1, <3>1, Quiet DEF IInv, KnownOK
  <2>4. ScanOK'
    BY <2>2, IdleIsRead DEF ScanOK
  <2>5. Idle \in Read /\ Idle.step = "idle" /\ Idle.btime <= high
    BY <1>2, IdleIsRead DEF ClockOK
  <2> QED BY <1>3, <2>1, <2>3, <2>4, <2>5
<1> QED BY <1>4, <1>5, <1>6, <1>7

-----------------------------------------------------------------------------
(* Telemetry peers *)

LEMMA PeerStep ==
  ASSUME IInv,
         (\E p \in Pids : Connect(p)) \/ VerifyPeer \/ CloseConnection \/ HandleEvent
  PROVE  IInv'
<1>1. /\ UNCHANGED kernelVars
      /\ UNCHANGED <<todo, found, listed, target, signalled, moved>>
  BY DEF Connect, VerifyPeer, CloseConnection, HandleEvent
<1>2. /\ task \in [AllTasks -> Read] /\ task["verify"] \in Read /\ ReadOK("verify")
      /\ uptime \in Nat /\ ClockOK /\ "verify" \in AllTasks
      /\ \A p \in Pids : table[p] # None =>
           /\ table[p] \in Proc /\ table[p].pid = p /\ table[p].born <= uptime
           /\ WallBoot(table[p]) \in 0..high
  BY DEF IInv, ReadsOK, KernelOK, AllTasks
<1>3. ASSUME NEW r, task' = [task EXCEPT !["verify"] = r], r \in Read, r.btime <= high,
             r.step \in {"idle", "exe"}, r.step = "exe" => r.pid \in Pids,
             ConnOK', UNCHANGED applied
      PROVE  IInv'
  <2>1. ReadsOK' /\ task'["scan"] = task["scan"] /\ task'["terminate"] = task["terminate"]
    <3>1. ReadsOK' /\ \A u \in AllTasks \ {"verify"} : task'[u] = task[u]
      BY <1>1, <1>2, <1>3, OneReads DEF Steps
    <3> QED BY <3>1 DEF AllTasks
  <2>2. AttributedWithinDrift' /\ StaleTargetNeverSignalled'
    BY <1>1, <1>3, Quiet, AttributedLater, SignalsLater
  <2> QED BY <1>1, <1>3, <2>1, <2>2, KnownKept, ScanKept, TargetKept, Quiet DEF IInv
<1>4. Idle \in Read /\ Idle.step = "idle" /\ Idle.btime <= high
  BY <1>2, IdleIsRead DEF ClockOK
<1>5. CASE \E p \in Pids : Connect(p)
  <2>1. PICK p \in Pids : Connect(p)
    BY <1>5
  <2>2. /\ conn = None /\ table[p] # None /\ conn' = table[p] /\ UNCHANGED <<peer, applied>>
        /\ task' = [task EXCEPT !["verify"] = StartRead(p)]
    BY <2>1 DEF Connect
  <2>3. peer = None
    BY <2>2 DEF IInv, ConnOK
  <2>4. task'["verify"] = StartRead(p)
    BY <1>2, <2>2
  <2>5. /\ StartRead(p) \in Read /\ StartRead(p).step = "exe" /\ StartRead(p).pid = p
        /\ StartRead(p).btime = btime
    BY StartReadIsRead
  <2>6. /\ conn' \in Proc /\ conn'.pid = p /\ WallBoot(conn') \in 0..high
        /\ conn'.born <= uptime /\ NotYounger(conn')
    BY <1>2, <2>2 DEF NotYounger, Proc
  <2>7. ConnOK'
    <3>1. /\ WallBoot(conn)' \in 0..high' /\ conn'.born <= uptime' /\ NotYounger(conn)'
          /\ WallBoot(conn)' - fall' <= StartRead(p).btime
      BY <1>1, <1>2, <2>5, <2>6 DEF WallBoot, NotYounger, ClockOK, kernelVars, clockVars
    <3>2. task'["verify"].step = "exe" /\ task'["verify"].pid = p
          /\ task'["verify"].btime = StartRead(p).btime
      BY <2>4, <2>5
    <3> QED BY <2>2, <2>3, <2>6, <3>1, <3>2 DEF ConnOK, Steps
  <2>8. StartRead(p).btime <= high
    BY <1>2, <2>5 DEF ClockOK
  <2> QED BY <1>3, <2>2, <2>5, <2>7, <2>8
<1>6. CASE VerifyPeer
  <2>1. /\ task' = [task EXCEPT !["verify"] = Idle] /\ UNCHANGED applied
        /\ task["verify"].step = "cmdline" /\ table[task["verify"].pid] # None
    BY <1>6 DEF VerifyPeer, Complete, Reading
  <2>2. task'["verify"].step = "idle"
    BY <1>2, <1>4, <2>1
  <2>3. ConnOK'
    <3>1. CASE peer' = None /\ conn' = None
      BY <2>2, <3>1 DEF ConnOK, Steps
    <3>2. CASE peer' = Identity("verify") /\ conn' = conn
      <4> DEFINE id == Identity("verify")
      <4>1. /\ id \in Id /\ id.pid = task["verify"].pid /\ id.start = task["verify"].start
            /\ id.born = task["verify"].born
        BY <1>2, <2>1 DEF Identity, Id, Read, ReadOK, Steps
      <4>2. Seen(id) /\ Boot(id) = task["verify"].btime
        BY <1>2, <2>1, <4>1 DEF ReadOK, Seen, Boot, NotYounger, Read
      <4>3. /\ conn # None /\ conn \in Proc /\ WallBoot(conn) \in 0..high
            /\ conn.born <= uptime /\ NotYounger(conn)
            /\ WallBoot(conn) - fall <= task["verify"].btime /\ conn.pid = task["verify"].pid
            /\ conn.born <= task["verify"].born
        BY <2>1 DEF IInv, ConnOK, Steps
      <4> HIDE DEF id
      <4>4. peer' = id
        BY <3>2 DEF id
      <4>5. /\ Seen(peer)' /\ peer' \in Id /\ peer'.pid = task["verify"].pid
            /\ peer'.born = task["verify"].born /\ Boot(peer)' = Boot(id)
        BY <1>1, <4>1, <4>2, <4>4 DEF Seen, NotYounger, Boot, kernelVars, clockVars
      <4>6. /\ WallBoot(conn)' = WallBoot(conn) /\ conn' = conn
            /\ NotYounger(conn)' <=> NotYounger(conn)
            /\ UNCHANGED <<uptime, high, fall>>
        BY <1>1, <3>2 DEF WallBoot, NotYounger, kernelVars, clockVars
      <4> QED BY <2>2, <4>2, <4>3, <4>5, <4>6 DEF ConnOK, Steps
    <3> QED BY <1>6, <3>1, <3>2 DEF VerifyPeer
  <2> QED BY <1>3, <1>4, <2>1, <2>3
<1>7. CASE CloseConnection
  <2>1. /\ task' = [task EXCEPT !["verify"] = Idle] /\ UNCHANGED applied
        /\ conn' = None /\ peer' = None
    BY <1>7 DEF CloseConnection
  <2>2. task'["verify"].step = "idle"
    BY <1>2, <1>4, <2>1
  <2>3. ConnOK'
    BY <2>1, <2>2 DEF ConnOK, Steps
  <2> QED BY <1>3, <1>4, <2>1, <2>3
<1>8. CASE HandleEvent
  <2>1. PICK event \in EventsOf(conn) :
          /\ TelemetryEventMatchesPeer(event, peer)
          /\ applied' = applied \cup {[from |-> conn, as |-> peer, start |-> event.start]}
    BY <1>8 DEF HandleEvent
  <2>2. /\ conn # None /\ peer # None /\ conn \in Proc /\ peer \in Id /\ Seen(peer)
        /\ WallBoot(conn) - fall <= Boot(peer) /\ conn.born <= peer.born
        /\ UNCHANGED <<task, conn, peer>>
    BY <1>8 DEF HandleEvent, IInv, ConnOK
  <2>3. /\ event.pid = conn.pid /\ event.start \subseteq {conn.wall}
        /\ conn.wall \in Nat
    BY <2>1, <2>2 DEF EventsOf, Proc
  <2> DEFINE e == [from |-> conn, as |-> peer, start |-> event.start]
  <2>4. e \in [from: Proc, as: Id, start: SUBSET Nat] /\ e.from = conn /\ e.as = peer
        /\ e.start = event.start /\ applied' = applied \cup {e}
    BY <2>1, <2>2, <2>3
  <2> HIDE DEF e
  <2>5. KnownOK'
    <3>1. \A s \in Known' : s \in Known \/ s = peer
      <4>1. \A a \in applied' : a.as \in {b.as : b \in applied} \/ a.as = peer
        BY <2>4
      <4> QED BY <1>1, <4>1 DEF Known
    <3>2. applied' \subseteq [from: Proc, as: Id, start: SUBSET Nat]
      BY <2>4 DEF IInv, KnownOK
    <3> QED BY <1>1, <2>2, <3>1, <3>2, Quiet DEF IInv, KnownOK
  <2>6. AttributedWithinDrift'
    <3>1. conn.pid = peer.pid
      BY <2>1, <2>3 DEF TelemetryEventMatchesPeer
    <3>2. event.start # {} => peer.born - conn.born <= MaxDrift + fall
      <4> SUFFICES ASSUME event.start # {} PROVE peer.born - conn.born <= MaxDrift + fall
        OBVIOUS
      <4>1. Distance(peer.start, conn.wall) <= MaxDrift
        BY <2>1, <2>3 DEF TelemetryEventMatchesPeer
      <4>2. /\ conn.wall \in Nat /\ conn.born \in Nat /\ peer.start \in Nat
            /\ peer.born \in Nat /\ fall \in Nat /\ MaxDrift \in Nat
            /\ conn.wall - conn.born - fall <= peer.start - peer.born
        BY <1>2, <2>2, IdentityAssumption DEF WallBoot, Boot, Proc, Id, ClockOK
      <4> QED BY <4>1, <4>2 DEF Distance
    <3>3. fall' = fall
      BY <1>1 DEF kernelVars, clockVars
    <3>4. \A a \in applied' : a \in applied \/ a = e
      BY <2>4
    <3> QED BY <2>2, <2>4, <3>1, <3>2, <3>3, <3>4 DEF IInv, AttributedWithinDrift
  <2>7. ReadsOK' /\ StaleTargetNeverSignalled'
    BY <1>1, <2>2, Quiet, SignalsLater DEF IInv, ReadsOK, ReadOK, kernelVars, clockVars
  <2> QED BY <1>1, <2>2, <2>5, <2>6, <2>7, ConnKept, ScanKept, TargetKept, Quiet DEF IInv
<1> QED BY <1>5, <1>6, <1>7, <1>8

-----------------------------------------------------------------------------
(* terminate_session *)

LEMMA TerminateStep ==
  ASSUME IInv, RequestTerminate \/ CheckTarget \/ Kill
  PROVE  IInv'
<1>1. /\ UNCHANGED kernelVars
      /\ UNCHANGED <<todo, found, listed, conn, peer, applied, moved>>
  BY DEF RequestTerminate, CheckTarget, Kill
<1>2. /\ task \in [AllTasks -> Read] /\ task["terminate"] \in Read /\ ReadOK("terminate")
      /\ uptime \in Nat /\ ClockOK /\ "terminate" \in AllTasks
      /\ \A p \in Pids : table[p] # None => table[p] \in Proc
  BY DEF IInv, ReadsOK, KernelOK, AllTasks
<1>3. ASSUME NEW r, task' = [task EXCEPT !["terminate"] = r], r \in Read, r.btime <= high,
             r.step \in {"idle", "exe", "kill"}, r.step = "exe" => r.pid \in Pids,
             TargetOK', StaleTargetNeverSignalled'
      PROVE  IInv'
  <2>1. ReadsOK' /\ task'["scan"] = task["scan"] /\ task'["verify"] = task["verify"]
    <3>1. ReadsOK' /\ \A u \in AllTasks \ {"terminate"} : task'[u] = task[u]
      BY <1>1, <1>2, <1>3, OneReads DEF Steps
    <3> QED BY <3>1 DEF AllTasks
  <2>2. AttributedWithinDrift'
    BY <1>1, Quiet, AttributedLater
  <2> QED BY <1>1, <1>3, <2>1, <2>2, KnownKept, ScanKept, ConnKept, Quiet DEF IInv
<1>4. Idle \in Read /\ Idle.step = "idle" /\ Idle.btime <= high
  BY <1>2, IdleIsRead DEF ClockOK
<1>5. CASE RequestTerminate
  <2>1. PICK s \in Known :
          /\ target' = [pid |-> s.pid, start |-> s.start, born |-> s.born,
                        gone |-> table[s.pid] = None \/ table[s.pid].born # s.born]
          /\ task' = [task EXCEPT !["terminate"] = StartRead(s.pid)]
    BY <1>5 DEF RequestTerminate
  <2>2. UNCHANGED signalled
    BY <1>5 DEF RequestTerminate
  <2>3. s \in Id /\ Seen(s)
    BY <2>1 DEF IInv, KnownOK, Known
  <2> DEFINE new == [pid |-> s.pid, start |-> s.start, born |-> s.born,
                     gone |-> table[s.pid] = None \/ table[s.pid].born # s.born]
  <2>4. /\ new \in Target /\ new.pid = s.pid /\ new.start = s.start /\ new.born = s.born
        /\ new.gone <=> table[s.pid] = None \/ table[s.pid].born # s.born
    BY <2>3 DEF Target, Id
  <2>5. target' = new
    BY <2>1
  <2> HIDE DEF new
  <2>6. s.pid \in Pids /\ s.born \in Nat /\ s.start \in Nat
    BY <2>3 DEF Id
  <2>7. Seen(new) /\ (new.gone => table[new.pid] = None \/ table[new.pid].born > new.born)
    BY <1>2, <2>3, <2>4, <2>6 DEF Seen, NotYounger, Boot, Proc
  <2>8. /\ StartRead(s.pid) \in Read /\ StartRead(s.pid).step = "exe"
        /\ StartRead(s.pid).pid = s.pid /\ StartRead(s.pid).btime = btime
    BY <2>6, StartReadIsRead
  <2>9. task'["terminate"] = StartRead(s.pid)
    BY <1>2, <2>1
  <2>10. new # None
    BY <2>4 DEF Target, None
  <2>11. TargetOK'
    <3>1. Seen(target)'
      BY <1>1, <2>5, <2>7 DEF Seen, NotYounger, Boot, kernelVars, clockVars
    <3>2. Boot(target)' - fall' <= task'["terminate"].btime
      BY <1>1, <1>2, <2>5, <2>7, <2>8, <2>9 DEF Seen, Boot, ClockOK, kernelVars, clockVars
    <3>3. target'.gone => table'[target'.pid] = None \/ table'[target'.pid].born > target'.born
      BY <1>1, <2>5, <2>7 DEF kernelVars, clockVars
    <3> QED BY <2>4, <2>5, <2>8, <2>9, <2>10, <3>1, <3>2, <3>3 DEF TargetOK, Steps
  <2>12. StaleTargetNeverSignalled'
    BY <1>1, <2>2, Quiet, SignalsLater
  <2>13. StartRead(s.pid).btime <= high
    BY <1>2, <2>8 DEF ClockOK
  <2> QED BY <1>3, <2>1, <2>6, <2>8, <2>11, <2>12, <2>13
<1>6. CASE CheckTarget
  <2>1. UNCHANGED signalled
    BY <1>6 DEF CheckTarget
  <2>2. StaleTargetNeverSignalled'
    BY <1>1, <2>1, Quiet, SignalsLater
  <2>3. CASE task' = [task EXCEPT !["terminate"] = Idle] /\ target' = None
    <3>1. task'["terminate"].step = "idle"
      BY <1>2, <1>4, <2>3
    <3>2. TargetOK'
      BY <2>3, <3>1 DEF TargetOK, Steps
    <3> QED BY <1>3, <1>4, <2>2, <2>3, <3>2
  <2>4. CASE /\ Complete("terminate") /\ StillTheSession("terminate")
             /\ task' = [task EXCEPT !["terminate"].step = "kill"] /\ target' = target
    <3> DEFINE old == task["terminate"]
               r == [old EXCEPT !.step = "kill"]
    <3>1. task' = [task EXCEPT !["terminate"] = r]
      BY <2>4
    <3>2. r \in Read /\ r.step = "kill" /\ r.btime = old.btime /\ old.btime <= high
          /\ r.born = old.born
      BY <1>2 DEF Read, Steps, ReadOK
    <3> HIDE DEF r
    <3>3. old.step = "cmdline" /\ old.start = target.start
      BY <2>4 DEF Complete, Reading, StillTheSession
    <3>4. /\ target # None /\ target \in Target /\ Boot(target) - fall <= old.btime
          /\ target.gone => old.born > target.born
      BY <3>3 DEF IInv, TargetOK, Steps
    <3>5. target.gone => r.born - target.born \in 1 .. fall
      <4>1. old.start \in Nat /\ old.born \in Nat /\ old.btime \in Nat
            /\ old.start - old.born = old.btime /\ r.born = old.born
        BY <1>2, <3>2, <3>3 DEF ReadOK, Boot, Read
      <4>2. target.start \in Nat /\ target.born \in Nat /\ fall \in Nat
        BY <1>2, <3>4 DEF Target, ClockOK
      <4> QED BY <3>3, <3>4, <4>1, <4>2 DEF Boot
    <3>6. task'["terminate"] = r
      BY <1>2, <3>1
    <3>7. Seen(target)'
      BY <1>1, <2>4, <3>4 DEF IInv, TargetOK, Seen, NotYounger, kernelVars, clockVars
    <3>8. TargetOK'
      <4>1. target' = target /\ UNCHANGED <<table, fall>>
        BY <1>1, <2>4 DEF kernelVars, clockVars
      <4>2. target.gone => table[target.pid] = None \/ table[target.pid].born > target.born
        BY <3>4 DEF IInv, TargetOK
      <4>3. task'["terminate"].step = "kill" /\ task'["terminate"].born = r.born
        BY <3>2, <3>6
      <4> QED BY <3>4, <3>5, <3>7, <4>1, <4>2, <4>3 DEF TargetOK, Steps
    <3> QED BY <1>3, <2>2, <3>1, <3>2, <3>8
  <2> QED BY <1>6, <2>3, <2>4 DEF CheckTarget
<1>7. CASE Kill
  <2>1. /\ task["terminate"].step = "kill"
        /\ task' = [task EXCEPT !["terminate"] = Idle] /\ target' = None
        /\ signalled' = IF table[target.pid] = None THEN signalled
                        ELSE signalled \cup {[asked |-> target, checked |-> task["terminate"].born,
                                              hit |-> table[target.pid].born]}
    BY <1>7 DEF Kill
  <2>2. target.gone => task["terminate"].born - target.born \in 1 .. fall
    BY <2>1 DEF IInv, TargetOK
  <2>3. StaleTargetNeverSignalled'
    <3>1. fall' = fall
      BY <1>1 DEF kernelVars, clockVars
    <3>2. \A k \in signalled' :
            k \in signalled \/ (k.asked = target /\ k.checked = task["terminate"].born)
      BY <2>1
    <3> QED BY <2>2, <3>1, <3>2 DEF IInv, StaleTargetNeverSignalled
  <2>4. task'["terminate"].step = "idle"
    BY <1>2, <1>4, <2>1
  <2>5. TargetOK'
    BY <2>1, <2>4 DEF TargetOK, Steps
  <2> QED BY <1>3, <1>4, <2>1, <2>3, <2>5
<1> QED BY <1>5, <1>6, <1>7

-----------------------------------------------------------------------------
(* The theorems *)

LEMMA InitOK == Init => IInv
<1> SUFFICES ASSUME Init PROVE IInv
  OBVIOUS
<1>1. task = [t \in AllTasks |-> Idle] /\ \A t \in AllTasks : task[t] = Idle
  BY DEF Init
<1>2. KernelOK
  BY IdentityAssumption DEF Init, KernelOK, ClockOK
<1>3. ReadsOK
  BY <1>1, IdleIsRead DEF Init, ReadsOK, ReadOK, Steps
<1>4. KnownOK
  BY DEF Init, KnownOK, Known
<1>5. \A t \in AllTasks : task[t].step = "idle"
  BY <1>1, IdleIsRead
<1>6. ConnOK /\ TargetOK /\ ScanOK
  BY <1>5 DEF Init, ConnOK, TargetOK, ScanOK, Steps, AllTasks
<1>7. AttributedWithinDrift /\ StaleTargetNeverSignalled
  BY DEF Init, AttributedWithinDrift, StaleTargetNeverSignalled
<1> QED BY <1>2, <1>3, <1>4, <1>6, <1>7 DEF IInv

LEMMA NextOK == IInv /\ [Next]_vars => IInv'
<1> SUFFICES ASSUME IInv, [Next]_vars PROVE IInv'
  OBVIOUS
<1>1. CASE Env
  BY <1>1, EnvStep
<1>2. CASE \E t \in Tasks : ReadExe(t) \/ ReadStart(t)
  BY <1>2, ReadStep
<1>3. CASE StartScan \/ (\E p \in Pids : NextPid(p)) \/ ScanPid \/ FinishScan
  BY <1>3, ScanStep
<1>4. CASE (\E p \in Pids : Connect(p)) \/ VerifyPeer \/ CloseConnection \/ HandleEvent
  BY <1>4, PeerStep
<1>5. CASE RequestTerminate \/ CheckTarget \/ Kill
  BY <1>5, TerminateStep
<1>6. CASE UNCHANGED vars
  <2>1. /\ UNCHANGED <<kernelVars, todo, found, listed, conn, peer, applied, target,
                       signalled, moved>>
        /\ task' = task
    BY <1>6 DEF vars, kernelVars, clockVars
  <2>2. ReadsOK' /\ AttributedWithinDrift' /\ StaleTargetNeverSignalled'
    BY <2>1, Quiet
       DEF IInv, ReadsOK, ReadOK, AttributedWithinDrift, StaleTargetNeverSignalled, kernelVars, clockVars
  <2> QED BY <2>1, <2>2, KnownKept, ConnKept, TargetKept, ScanKept, Quiet DEF IInv
<1> QED BY <1>1, <1>2, <1>3, <1>4, <1>5, <1>6 DEF Next, Env

LEMMA Invariant == Spec => []IInv
BY InitOK, NextOK, PTL DEF Spec

(* discover_mosh_sessions: a finished scan has found exactly the supported  *)
(* mosh servers of the pids whose process did not change while it ran.      *)
THEOREM ScansAreExact == Spec => []ScanExactWhereUndisturbed
<1>1. IInv => ScanExactWhereUndisturbed
  <2> SUFFICES ASSUME IInv, task["scan"].step = "next", todo = {}, NEW p \in Pids \ moved
               PROVE  {s \in found : s.pid = p} = Expected(p)
    BY DEF ScanExactWhereUndisturbed, Expected
  <2>1. ScanPidOK(p) /\ ~Visiting(p)
    BY DEF IInv, ScanOK, Visiting, Steps
  <2> QED BY <2>1 DEF ScanPidOK, FoundAt
<1> QED BY <1>1, Invariant, PTL

(* telemetry_event_matches_peer: an event is never stored under an older    *)
(* process, and one that gives its start time under a younger one only      *)
(* within the tolerated drift and what the clock was set back; settings of  *)
(* the clock that are tolerated make no process lose its events.            *)
THEOREM EventsBelongToTheirProcess == Spec => []EventsAttributed
<1>1. IInv => EventsAttributed
  <2> SUFFICES ASSUME IInv PROVE HonestEventsAccepted
    BY DEF EventsAttributed, IInv
  <2> SUFFICES ASSUME peer # None, peer.born = conn.born, MaxStep <= MaxDrift,
                       NEW event \in EventsOf(conn)
               PROVE  TelemetryEventMatchesPeer(event, peer)
    BY DEF HonestEventsAccepted
  <2>1. /\ conn # None /\ conn \in Proc /\ peer \in Id /\ conn.pid = peer.pid
        /\ WallBoot(conn) \in 0..high /\ Boot(peer) \in 0..high
        /\ high \in Nat /\ high <= MaxStep /\ MaxStep \in Nat /\ MaxDrift \in Nat
    BY IdentityAssumption DEF IInv, ConnOK, KernelOK, ClockOK, Seen
  <2>2. Distance(peer.start, conn.wall) <= MaxDrift
    <3>1. /\ peer.start \in Nat /\ peer.born \in Nat /\ conn.wall \in Nat
          /\ peer.born = conn.born
      BY <2>1 DEF Proc, Id
    <3>2. /\ conn.wall - conn.born >= 0 /\ conn.wall - conn.born <= high
          /\ peer.start - peer.born >= 0 /\ peer.start - peer.born <= high
      BY <2>1 DEF WallBoot, Boot
    <3> QED BY <2>1, <3>1, <3>2 DEF Distance
  <2> QED BY <2>1, <2>2 DEF TelemetryEventMatchesPeer, EventsOf
<1> QED BY <1>1, Invariant, PTL

(* terminate_session: the start time tells the session's process from a     *)
(* later one with its pid, unless the clock was set back by at least their  *)
(* difference in age.                                                       *)
THEOREM StaleTargetsAreSafe == Spec => []StaleTargetNeverSignalled
<1>1. IInv => StaleTargetNeverSignalled
  BY DEF IInv
<1> QED BY <1>1, Invariant, PTL
=============================================================================
