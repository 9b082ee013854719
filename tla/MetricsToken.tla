---------------------------- MODULE MetricsToken ----------------------------
(***************************************************************************)
(* The bearer token of the metrics endpoint and the file that hands it to  *)
(* scrapers (crates/moshwatch-core/src/config.rs).  A starting daemon      *)
(* adopts the token it finds, rotates one it cannot use, or creates one;   *)
(* a reconciler then keeps restoring the file to the token the daemon      *)
(* serves with.  Every file-system call is a step: operators edit, delete  *)
(* and chmod the file in between, a daemon may be killed at any step, and  *)
(* a second daemon may run, which lives until it fails to bind the port.   *)
(***************************************************************************)
EXTENDS Integers, FiniteSets

CONSTANTS
  Daemons,         \* processes running moshwatchd for the same user
  Supervised,      \* those that systemd starts again whenever they end
  OperatorWrites,  \* kinds of contents an operator puts into the file
  FirstFile,       \* kinds of contents the file may have before the first start
  MaxEdits,        \* bound: edits by operators
  MaxCrashes,      \* bound: daemons killed
  MaxStarts        \* bound: starts of a daemon that is not supervised

\* "torn": created and not written yet.  "text": readable and not a token.
\* "unreadable": longer than 256 bytes or not UTF-8.  "symlink": also any
\* other path that is not a regular file.
Kinds == {"missing", "symlink", "unreadable", "text", "torn", "lower", "upper"}
ValidKinds == {"lower", "upper"}

Operators == 1                                  \* the token operators write
Tokens == 1 .. (2 + 2 * Cardinality(Daemons))   \* enough to be pairwise distinct
None == 0
Nobody == "nobody"

VARIABLES
  file,       \* [kind, value] at metrics_token_path; value None unless valid
  ownerOnly,  \* whether its mode is 0600
  pc,         \* per daemon: the next file-system call of its current pass
  booted,     \* per daemon: whether the pass is the reconciler's
  mem,        \* per daemon: the token it serves with
  pend,       \* per daemon: the token it is about to write
  mine,       \* per daemon: whether the path still names the file it created
  listener,   \* per daemon: "no", "binding", "bound" or "exiting"
  port,       \* the daemon that holds the metrics port
  edits, crashes, starts

vars == <<file, ownerOnly, pc, booted, mem, pend, mine, listener, port, edits, crashes, starts>>
disk == <<file, ownerOnly>>
env == <<edits, crashes, starts>>

PassSteps == {"check", "normalize", "read", "replace", "rename", "open", "write"}

Content(kind, value) == [kind |-> kind, value |-> IF kind \in ValidKinds THEN value ELSE None]

Init ==
  /\ file \in {Content(k, Operators) : k \in FirstFile}
  /\ ownerOnly \in BOOLEAN
  /\ pc = [d \in Daemons |-> "down"] /\ booted = [d \in Daemons |-> FALSE]
  /\ mem = [d \in Daemons |-> None] /\ pend = [d \in Daemons |-> None]
  /\ mine = [d \in Daemons |-> FALSE] /\ listener = [d \in Daemons |-> "no"]
  /\ port = Nobody
  /\ edits = 0 /\ crashes = 0 /\ starts = [d \in Daemons |-> 0]

-----------------------------------------------------------------------------
\* A random token: different from every token in use.
generate_metrics_auth_token ==
  LET used == {file.value, Operators} \cup {mem[d] : d \in Daemons} \cup {pend[d] : d \in Daemons}
  IN CHOOSE t \in Tokens : t \notin used

\* validate_metrics_auth_token: 64 hex digits; the result is in lower case,
\* so it does not tell which case the file has.
ValidatedToken == file.value

\* The process ends: its port is free, its memory gone, its open file closed.
Gone(d) ==
  /\ pc' = [pc EXCEPT ![d] = "down"] /\ booted' = [booted EXCEPT ![d] = FALSE]
  /\ mem' = [mem EXCEPT ![d] = None] /\ pend' = [pend EXCEPT ![d] = None]
  /\ listener' = [listener EXCEPT ![d] = "no"]
  /\ port' = IF port = d THEN Nobody ELSE port

\* A pass ends with the active token, whether read or written.  A start goes
\* on to the listener and the reconciler; an exiting daemon waits for a pass
\* in progress, because the runtime joins its blocking threads.
Finish(d, token) ==
  IF listener[d] = "exiting"
  THEN Gone(d)
  ELSE /\ pc' = [pc EXCEPT ![d] = "idle"]
       /\ pend' = [pend EXCEPT ![d] = None]
       /\ mem' = [mem EXCEPT ![d] = token]
       /\ booted' = [booted EXCEPT ![d] = TRUE]
       /\ listener' = IF booted[d] THEN listener ELSE [listener EXCEPT ![d] = "binding"]
       /\ UNCHANGED port

\* An error ends a start, and with it the daemon; the reconciler logs it.
Fail(d) == IF booted[d] THEN Finish(d, mem[d]) ELSE Gone(d)

\* The next call of the pass, with the token that call will write.
Continue(d, step, token) ==
  /\ pc' = [pc EXCEPT ![d] = step]
  /\ pend' = [pend EXCEPT ![d] = token]
  /\ UNCHANGED <<booted, mem, listener, port>>

TokenToWrite(d) == IF booted[d] THEN mem[d] ELSE generate_metrics_auth_token

Start(d) ==
  /\ pc[d] = "down"
  /\ d \notin Supervised => starts[d] < MaxStarts
  /\ starts' = IF d \in Supervised THEN starts ELSE [starts EXCEPT ![d] = @ + 1]
  /\ pc' = [pc EXCEPT ![d] = "check"]
  /\ UNCHANGED <<disk, booted, mem, pend, mine, listener, port, edits, crashes>>

\* spawn_metrics_token_reconciler: the first tick is immediate, the others
\* every 30 seconds.
Tick(d) ==
  /\ pc[d] = "idle" /\ listener[d] # "exiting"
  /\ Continue(d, "check", None)
  /\ UNCHANGED <<disk, mine, env>>

\* path_exists; a missing file is created with its contents' first open.
PathExists(d) ==
  /\ pc[d] = "check"
  /\ IF file.kind = "missing"
     THEN Continue(d, "open", TokenToWrite(d))
     ELSE Continue(d, "normalize", None)
  /\ UNCHANGED <<disk, mine, env>>

NormalizeOwnerOnly(d) ==
  /\ pc[d] = "normalize"
  /\ IF file.kind \in {"missing", "symlink"}
     THEN Fail(d) /\ UNCHANGED ownerOnly
     ELSE Continue(d, "read", None) /\ ownerOnly' = TRUE
  /\ UNCHANGED <<file, mine, env>>

\* Variants of the calls below that the runs must tell from them.

\* The file is rewritten in place: truncated first, then written.
RenameInPlace(d) ==
  /\ pc[d] = "rename"
  /\ file' = Content("torn", None) /\ ownerOnly' = TRUE
  /\ mine' = [e \in Daemons |-> e = d]
  /\ Continue(d, "write", pend[d])
  /\ UNCHANGED env

\* The reconciler accepts any valid token.
ReadWithoutComparing(d) ==
  /\ pc[d] = "read"
  /\ CASE file.kind \in {"missing", "symlink", "unreadable"} -> Fail(d)
       [] file.kind \in ValidKinds -> Finish(d, IF booted[d] THEN mem[d] ELSE ValidatedToken)
       [] OTHER -> Continue(d, IF booted[d] THEN "rename" ELSE "replace", TokenToWrite(d))
  /\ UNCHANGED <<disk, mine, env>>

\* A file that is no token is an error, as in a start without rotation.
ReadWithoutRotation(d) ==
  /\ pc[d] = "read"
  /\ CASE file.kind \in ValidKinds /\ (booted[d] => ValidatedToken = mem[d]) ->
            Finish(d, ValidatedToken)
       [] file.kind \in ValidKinds -> Continue(d, "rename", mem[d])
       [] OTHER -> Fail(d)
  /\ UNCHANGED <<disk, mine, env>>

\* The token in a readable file is adopted at a start and compared by the
\* reconciler; anything else readable is replaced.
ReadFile(d) ==
  /\ pc[d] = "read"
  /\ CASE file.kind \in {"missing", "symlink", "unreadable"} -> Fail(d)
       [] file.kind \in ValidKinds /\ (booted[d] => ValidatedToken = mem[d]) ->
            Finish(d, ValidatedToken)
       [] OTHER -> Continue(d, IF booted[d] THEN "rename" ELSE "replace", TokenToWrite(d))
  /\ UNCHANGED <<disk, mine, env>>

\* replace_text_file_securely looks at the path once more before it writes.
CheckReplace(d) ==
  /\ pc[d] = "replace"
  /\ IF file.kind \in {"missing", "symlink"} THEN Fail(d) ELSE Continue(d, "rename", pend[d])
  /\ UNCHANGED <<disk, mine, env>>

\* The temporary file is complete before it takes the place of the path.
RenameTemporary(d) ==
  /\ pc[d] = "rename"
  /\ file' = Content("lower", pend[d]) /\ ownerOnly' = TRUE
  /\ mine' = [e \in Daemons |-> FALSE]
  /\ Finish(d, pend[d])
  /\ UNCHANGED env

\* write_new_text_file_securely: create_new fails on an existing path, and
\* the new file is empty until it is written.
OpenNew(d) ==
  /\ pc[d] = "open"
  /\ IF file.kind = "missing"
     THEN /\ file' = Content("torn", None) /\ ownerOnly' = TRUE
          /\ mine' = [mine EXCEPT ![d] = TRUE]
          /\ Continue(d, "write", pend[d])
     ELSE Fail(d) /\ UNCHANGED <<disk, mine>>
  /\ UNCHANGED env

\* The contents go to the file that was opened, wherever the path leads now.
WriteNew(d) ==
  /\ pc[d] = "write"
  /\ file' = IF mine[d] THEN Content("lower", pend[d]) ELSE file
  /\ ownerOnly' = (ownerOnly \/ mine[d])
  /\ mine' = [mine EXCEPT ![d] = FALSE]
  /\ Finish(d, pend[d])
  /\ UNCHANGED env

\* run_metrics_server binds in a task of its own; when that fails the task
\* ends and main shuts the daemon down.
BindPort(d) ==
  /\ listener[d] = "binding"
  /\ IF port = Nobody
     THEN /\ port' = d /\ listener' = [listener EXCEPT ![d] = "bound"]
          /\ UNCHANGED <<pc, booted, mem, pend>>
     ELSE IF pc[d] = "idle"
          THEN Gone(d)
          ELSE /\ listener' = [listener EXCEPT ![d] = "exiting"]
               /\ UNCHANGED <<pc, booted, mem, pend, port>>
  /\ UNCHANGED <<disk, mine, env>>

-----------------------------------------------------------------------------
Kill(d) ==
  /\ pc[d] # "down" /\ crashes < MaxCrashes
  /\ Gone(d)
  /\ mine' = [mine EXCEPT ![d] = FALSE]
  /\ crashes' = crashes + 1
  /\ UNCHANGED <<disk, edits, starts>>

OperatorEdit ==
  /\ edits < MaxEdits /\ edits' = edits + 1
  /\ \/ \E k \in OperatorWrites : file' = Content(k, Operators)
     \/ file.kind # "missing" /\ file' = Content("missing", None)
     \/ ownerOnly /\ file.kind # "missing" /\ UNCHANGED file
  /\ ownerOnly' = FALSE
  /\ mine' = IF file' = file THEN mine ELSE [d \in Daemons |-> FALSE]
  /\ UNCHANGED <<pc, booted, mem, pend, listener, port, crashes, starts>>

Pass(d) ==
  \/ Tick(d) \/ PathExists(d) \/ NormalizeOwnerOnly(d) \/ ReadFile(d)
  \/ CheckReplace(d) \/ RenameTemporary(d) \/ OpenNew(d) \/ WriteNew(d)

Next ==
  \/ OperatorEdit
  \/ \E d \in Daemons : Start(d) \/ Pass(d) \/ BindPort(d) \/ Kill(d)

Spec == Init /\ [][Next]_vars

\* A pass, the binding and a restart by systemd go on; operators and kills
\* owe nothing.
FairSpec ==
  /\ Spec
  /\ \A d \in Daemons : WF_vars(Pass(d)) /\ WF_vars(BindPort(d))
  /\ \A d \in Supervised : WF_vars(Start(d))

-----------------------------------------------------------------------------
\* handle_metrics_connection compares the bytes a scraper took from the file
\* with the token, after a daemon whose file only its owner can read.
ScrapersAgree(d) == file = Content("lower", mem[d]) /\ ownerOnly

\* A path that held a complete file never shows a half-written one: rotation
\* and reconciliation go through a temporary file, and only a path that was
\* missing is written in place.  Kills at every step do not change that.
CompleteFileNotTorn == file'.kind = "torn" => file.kind \in {"missing", "torn"}

\* Contents the reconciler leaves as they are: it fails before it can replace
\* them, or takes the token in upper case for its own.
LeftAsItIs(d) ==
  \/ file.kind \in {"unreadable", "symlink"}
  \/ file.kind = "upper" /\ file.value = mem[d]

\* Whatever was done to the file, by operators, by a killed daemon or by a
\* second one that fought over it until it failed to bind, the file ends up
\* with the token of the daemon that keeps the port, and its owner's alone,
\* unless it stays as the reconciler leaves it.
FileConverges ==
  \A d \in Daemons : <>[](port = d /\ ~LeftAsItIs(d)) => <>[]ScrapersAgree(d)

\* The same of any contents, which does not hold.
AnyFileConverges == \A d \in Daemons : <>[](port = d) => <>[]ScrapersAgree(d)

\* Contents the daemon cannot use never keep a supervised daemon from serving
\* for good.
AlwaysServesAgain == []<>(port # Nobody)
=============================================================================
