-------------------------- MODULE ProcessIdentity --------------------------
(***************************************************************************)
(* How moshwatchd tells processes apart: the /proc scan of discovery.rs,   *)
(* the verification of telemetry peers (main.rs) and the check before a    *)
(* session is terminated (api.rs). All three call read_process_metadata,   *)
(* which reads the executable, the start time and the command line of a    *)
(* pid one after the other while processes exit, pids are used again,      *)
(* programs are upgraded and the wall clock is set, forward or back.       *)
(*                                                                         *)
(* A process is told from the next one with its pid by `born`, the kernel's *)
(* start time in ticks since boot. The daemon does not see it: it adds the *)
(* boot time of /proc/stat, which moves with the clock. A process keeps its *)
(* program (no exec) but for the upgrades that replace it on disk.         *)
(***************************************************************************)
EXTENDS Integers, FiniteSets

CONSTANTS Pids,
          Tasks,      \* which of "scan", "verify", "terminate" run
          Exes,       \* programs that processes run
          MaxDrift,   \* MAX_START_DRIFT_MS
          MaxUptime,  \* bound: processes started
          MaxStep     \* bound: the boot time stays in 0 .. MaxStep

(* "real" is the mosh-server-real installed beside the daemon, "stray" one  *)
(* elsewhere, "stock" a system or Nix mosh-server; a program replaced while *)
(* it runs shows a " (deleted)" suffix.                                     *)
AllExes == {"real", "real (deleted)", "stock", "stock (deleted)", "stray", "other"}
AllTasks == {"scan", "verify", "terminate"}

ASSUME IdentityAssumption ==
  /\ Tasks \subseteq AllTasks /\ Exes \subseteq AllExes
  /\ MaxDrift \in Nat /\ MaxUptime \in Nat /\ MaxStep \in Nat

VARIABLES table,     \* the kernel's process table
          uptime, btime,
          task,      \* per task, the metadata read it is in
          todo,      \* pids the scan has still to visit
          found,     \* processes the scan has found
          listed,    \* sessions that are tracked because a scan found them
          conn,      \* the process behind the telemetry connection
          peer,      \* VerifiedTelemetryPeer of that connection, or none
          applied,   \* events applied: by whom, stored under what, with
                     \* which start time
          target,    \* summary the terminate request is about
          signalled, \* what SIGTERM was meant for and what it hit
          moved,     \* observer: pids whose process changed in this scan
          high, fall \* observers: the highest boot time so far, and the most
                     \* that it was below an earlier one

clockVars == <<btime, high, fall>>
kernelVars == <<table, uptime, clockVars>>
vars == <<kernelVars, task, todo, found, listed, conn, peer,
          applied, target, signalled, moved>>

None == [pid |-> "none"]
Idle == [step |-> "idle", pid |-> "none", btime |-> 0, exe |-> "other",
         start |-> 0, born |-> 0]

-----------------------------------------------------------------------------
(* The kernel and the users of the machine *)

Disturb(pids) == moved' = moved \cup pids

Spawn(p) ==
  /\ table[p] = None /\ uptime < MaxUptime
  /\ uptime' = uptime + 1
  /\ \E e \in Exes :
       table' = [table EXCEPT ![p] = [pid |-> p, born |-> uptime + 1, exe |-> e,
                                      wall |-> btime + uptime + 1]]
  /\ Disturb({p})
  /\ UNCHANGED <<clockVars, task, todo, found, listed, conn, peer, applied, target, signalled>>

Die(p) ==
  /\ table[p] # None
  /\ table' = [table EXCEPT ![p] = None]
  /\ Disturb({p})
  /\ UNCHANGED <<uptime, clockVars, task, todo, found, listed, conn, peer, applied,
                 target, signalled>>

(* An upgrade replaces the files of the programs that run.                  *)
Upgrade ==
  /\ table' = [p \in Pids |->
       IF table[p] = None \/ table[p].exe \notin {"real", "stock"} THEN table[p]
       ELSE [table[p] EXCEPT !.exe = IF @ = "real" THEN "real (deleted)"
                                     ELSE "stock (deleted)"]]
  /\ table' # table
  /\ UNCHANGED <<uptime, clockVars, task, todo, found, listed, conn, peer, applied,
                 target, signalled, moved>>

(* The clock is set, and /proc/stat shows another boot time.                *)
CorrectClock ==
  /\ btime' \in (0 .. MaxStep) \ {btime}
  /\ high' = IF high < btime' THEN btime' ELSE high
  /\ fall' = IF fall < high' - btime' THEN high' - btime' ELSE fall
  /\ UNCHANGED <<table, uptime, task, todo, found, listed, conn, peer, applied,
                 target, signalled, moved>>

-----------------------------------------------------------------------------
(* read_process_metadata *)

NormalizeProcExePath(exe) ==
  CASE exe = "real (deleted)" -> "real"
    [] exe = "stock (deleted)" -> "stock"
    [] OTHER -> exe

(* Error: any program called mosh-server-real will do. *)
AnyPathSupported(exe) == exe \in {"real", "stock", "stray"}

IsSupportedMoshServer(exe) == exe \in {"real", "stock"}

(* read_boot_time_seconds comes first, then the executable ... *)
StartRead(pid) == [Idle EXCEPT !.step = "exe", !.pid = pid, !.btime = btime]

Reading(t, step) == t \in Tasks /\ task[t].step = step /\ table[task[t].pid] # None

ReadExe(t) ==
  /\ Reading(t, "exe")
  /\ task' = [task EXCEPT ![t].step = "start",
                          ![t].exe = NormalizeProcExePath(table[task[t].pid].exe)]
  /\ UNCHANGED <<kernelVars, todo, found, listed, conn, peer, applied, target,
                 signalled, moved>>

(* ... then read_started_at_unix_ms ... *)
ReadStart(t) ==
  /\ Reading(t, "start")
  /\ LET born == table[task[t].pid].born
     IN task' = [task EXCEPT ![t].step = "cmdline", ![t].born = born,
                             ![t].start = task[t].btime + born]
  /\ UNCHANGED <<kernelVars, todo, found, listed, conn, peer, applied, target,
                 signalled, moved>>

Vanished(t) == task[t].step \in {"exe", "start", "cmdline"} /\ table[task[t].pid] = None
Complete(t) == Reading(t, "cmdline")
Identity(t) == [pid |-> task[t].pid, start |-> task[t].start, born |-> task[t].born]

-----------------------------------------------------------------------------
(* discover_mosh_sessions *)

StartScan ==
  /\ "scan" \in Tasks /\ task["scan"].step = "idle"
  /\ task' = [task EXCEPT !["scan"] = [Idle EXCEPT !.step = "next", !.btime = btime]]
  /\ todo' = Pids
  /\ found' = {}
  /\ moved' = {}
  /\ UNCHANGED <<kernelVars, listed, conn, peer, applied, target, signalled>>

(* read_dir yields the pids that exist when it gets to them.                *)
NextPid(p) ==
  /\ "scan" \in Tasks /\ task["scan"].step = "next" /\ p \in todo
  /\ todo' = todo \ {p}
  /\ task' = IF table[p] = None THEN task
             ELSE [task EXCEPT !["scan"].step = "exe", !["scan"].pid = p]
  /\ UNCHANGED <<kernelVars, found, listed, conn, peer, applied, target, signalled, moved>>

(* The command line is the last read; a pid that fails one is skipped.      *)
ScanPid ==
  /\ Complete("scan") \/ (("scan" \in Tasks) /\ Vanished("scan"))
  /\ found' = IF Complete("scan") /\ IsSupportedMoshServer(task["scan"].exe)
              THEN found \cup {Identity("scan")} ELSE found
  /\ task' = [task EXCEPT !["scan"] = [Idle EXCEPT !.step = "next",
                                                   !.btime = task["scan"].btime]]
  /\ UNCHANGED <<kernelVars, todo, listed, conn, peer, applied, target, signalled, moved>>

(* The registry takes over what was found and keeps what earlier scans      *)
(* found, each until it expires or is evicted.                              *)
FinishScan ==
  /\ "scan" \in Tasks /\ task["scan"].step = "next" /\ todo = {}
  /\ \E kept \in SUBSET (listed \cup found) : listed' = kept
  /\ task' = [task EXCEPT !["scan"] = Idle]
  /\ UNCHANGED <<kernelVars, todo, found, conn, peer, applied, target, signalled, moved>>

-----------------------------------------------------------------------------
(* Telemetry peers: a process of the user connects, the daemon looks at its *)
(* pid later, and the events it has written stay readable after it died.    *)

Connect(p) ==
  /\ "verify" \in Tasks /\ conn = None
  /\ table[p] # None
  /\ conn' = table[p]
  /\ task' = [task EXCEPT !["verify"] = StartRead(p)]
  /\ UNCHANGED <<kernelVars, todo, found, listed, peer, applied, target, signalled, moved>>

(* verified_telemetry_peer: only the program at expected_instrumented_server_path *)
VerifyPeer ==
  /\ Complete("verify")
  /\ IF task["verify"].exe = "real"
     THEN peer' = Identity("verify") /\ conn' = conn
     ELSE peer' = None /\ conn' = None
  /\ task' = [task EXCEPT !["verify"] = Idle]
  /\ UNCHANGED <<kernelVars, todo, found, listed, applied, target, signalled, moved>>

(* The connection ends: its verification failed, or end of stream.          *)
CloseConnection ==
  /\ conn # None
  /\ task["verify"].step = "idle" \/ Vanished("verify")
  /\ conn' = None /\ peer' = None
  /\ task' = [task EXCEPT !["verify"] = Idle]
  /\ UNCHANGED <<kernelVars, todo, found, listed, applied, target, signalled, moved>>

Distance(a, b) == IF a < b THEN b - a ELSE a - b

(* An event names its sender's pid and, unless it leaves it out, the start  *)
(* time that the sender took from its own clock; the emitter of the bundled *)
(* server always gives it.                                                  *)
EventsOf(sender) == {[pid |-> sender.pid, start |-> s] : s \in {{}, {sender.wall}}}

(* Error: only the pid is compared. *)
PidMatches(event, verified) == event.pid = verified.pid

(* Error: no drift is tolerated. *)
NoDrift(event, verified) ==
  event.pid = verified.pid /\ \A s \in event.start : verified.start = s

(* telemetry_event_matches_peer: the pid is the same, and a start time that *)
(* is given is close to the verified one.                                   *)
TelemetryEventMatchesPeer(event, verified) ==
  /\ event.pid = verified.pid
  /\ \A s \in event.start : Distance(verified.start, s) <= MaxDrift

(* An accepted event is stored under the identity of the verified peer.     *)
HandleEvent ==
  /\ conn # None /\ peer # None
  /\ \E event \in EventsOf(conn) :
       /\ TelemetryEventMatchesPeer(event, peer)
       /\ applied' = applied \cup {[from |-> conn, as |-> peer, start |-> event.start]}
  /\ UNCHANGED <<kernelVars, task, todo, found, listed, conn, peer, target, signalled, moved>>

-----------------------------------------------------------------------------
(* terminate_session *)

Known == listed \cup {a.as : a \in applied}

(* `gone` is an observer: the process the summary is about is not there.    *)
RequestTerminate ==
  /\ "terminate" \in Tasks /\ target = None
  /\ \E s \in Known :
       /\ target' = [pid |-> s.pid, start |-> s.start, born |-> s.born,
                     gone |-> table[s.pid] = None \/ table[s.pid].born # s.born]
       /\ task' = [task EXCEPT !["terminate"] = StartRead(s.pid)]
  /\ UNCHANGED <<kernelVars, todo, found, listed, conn, peer, applied, signalled, moved>>

(* Error: the start time is not compared. *)
PidOnly(t) == IsSupportedMoshServer(task[t].exe)

(* The checks after the metadata was read. *)
StillTheSession(t) ==
  task[t].start = target.start /\ IsSupportedMoshServer(task[t].exe)

CheckTarget ==
  /\ "terminate" \in Tasks /\ target # None
  /\ Complete("terminate") \/ Vanished("terminate")
  /\ IF Complete("terminate") /\ StillTheSession("terminate")
     THEN task' = [task EXCEPT !["terminate"].step = "kill"] /\ target' = target
     ELSE task' = [task EXCEPT !["terminate"] = Idle] /\ target' = None
  /\ UNCHANGED <<kernelVars, todo, found, listed, conn, peer, applied, signalled, moved>>

(* kill(2): whatever has the pid now; ESRCH if nothing has. `checked` is an *)
(* observer: the process whose metadata passed the checks.                  *)
Kill ==
  /\ "terminate" \in Tasks /\ task["terminate"].step = "kill"
  /\ signalled' = IF table[target.pid] = None THEN signalled
                  ELSE signalled \cup {[asked |-> target, checked |-> task["terminate"].born,
                                         hit |-> table[target.pid].born]}
  /\ task' = [task EXCEPT !["terminate"] = Idle]
  /\ target' = None
  /\ UNCHANGED <<kernelVars, todo, found, listed, conn, peer, applied, moved>>

-----------------------------------------------------------------------------
Init ==
  /\ table = [p \in Pids |-> None]
  /\ uptime = 0 /\ btime \in 0 .. MaxStep /\ high = btime /\ fall = 0
  /\ task = [t \in AllTasks |-> Idle]
  /\ todo = {} /\ found = {} /\ listed = {}
  /\ conn = None /\ peer = None /\ applied = {}
  /\ target = None /\ signalled = {} /\ moved = {}

Next ==
  \/ \E p \in Pids : Spawn(p) \/ Die(p) \/ NextPid(p) \/ Connect(p)
  \/ Upgrade \/ CorrectClock
  \/ \E t \in Tasks : ReadExe(t) \/ ReadStart(t)
  \/ StartScan \/ ScanPid \/ FinishScan
  \/ VerifyPeer \/ CloseConnection \/ HandleEvent
  \/ RequestTerminate \/ CheckTarget \/ Kill

Spec == Init /\ [][Next]_vars

-----------------------------------------------------------------------------

(* When a scan ends, it has found exactly the supported mosh servers, under *)
(* the start times of its beginning, of all pids whose process did not      *)
(* change meanwhile: programs replaced by an upgrade included.              *)
ScanExactWhereUndisturbed ==
  task["scan"].step = "next" /\ todo = {} =>
    \A p \in Pids \ moved :
      {s \in found : s.pid = p} =
        IF table[p] = None \/ table[p].exe \in {"stray", "other"} THEN {}
        ELSE {[pid |-> p, start |-> task["scan"].btime + table[p].born,
               born |-> table[p].born]}

(* A telemetry event is never stored under an older process than the one    *)
(* that sent it, and if it gives its start time, under a younger one only   *)
(* if that took over the pid within the tolerated drift, or within as much  *)
(* more as the clock was ever set back.                                     *)
AttributedWithinDrift ==
  \A a \in applied :
    /\ a.from.pid = a.as.pid /\ a.from.born <= a.as.born
    /\ a.start # {} => a.as.born - a.from.born <= MaxDrift + fall

(* As long as the boot time moves by no more than the tolerated drift, the  *)
(* events of a process that runs are accepted under its own identity.       *)
HonestEventsAccepted ==
  peer # None /\ peer.born = conn.born /\ MaxStep <= MaxDrift
    => \A event \in EventsOf(conn) : TelemetryEventMatchesPeer(event, peer)

(* What telemetry tells of a process is stored under that process.          *)
EventsAttributed == AttributedWithinDrift /\ HonestEventsAccepted

(* A request about a session whose process had ended before it came signals *)
(* another one only if the clock was set back, and by at least as much as   *)
(* the process that passed the checks is younger; without such a step it    *)
(* never signals anybody, whoever has the pid now.                          *)
StaleTargetNeverSignalled ==
  \A k \in signalled : k.asked.gone => k.checked - k.asked.born \in 1 .. fall

(* "Revalidate the process start time before signaling so a recycled PID    *)
(* cannot target the wrong process."                                        *)
OnlyTheSessionIsSignalled ==
  \A k \in signalled : k.hit = k.asked.born

(* README.md: session_id is the "canonical daemon identity", "derived from  *)
(* verified process identity and start time": a process has one.            *)
OneIdentityPerProcess ==
  \A s, t \in Known : s.pid = t.pid /\ s.born = t.born => s.start = t.start
=============================================================================
