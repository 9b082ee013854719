------------------------------ MODULE MCMetrics ------------------------------
(***************************************************************************)
(* Instances of the modules of the metrics endpoint and exporter for TLC.  *)
(* The modules share no state, and neither do the scenes, of which a       *)
(* behaviour plays in one:                                                 *)
(*   rivals   a service, a second daemon and operators write the token     *)
(*   serves   the service alone, and contents of every usable kind         *)
(*   series   exports of a session that counts, is reset, goes and comes   *)
(*            again, beside one that takes its place in the list           *)
(*   tiers    exports that leave sessions out, and every collector answer  *)
(*   accept   Accept headers, item by item                                 *)
(*   server   connections that stall, beside a limit of one                *)
(***************************************************************************)
EXTENDS MetricsEndpoint

VARIABLES scene,
          file, ownerOnly, pc, booted, mem, pend, mine, listener, port, edits, crashes, starts

tokenVars == <<file, ownerOnly, pc, booted, mem, pend, mine, listener, port, edits, crashes, starts>>
mcVars == <<scene, tokenVars, exportVars, acceptVars, vars>>

Rivals == INSTANCE MetricsToken WITH
  Daemons <- {"unit", "manual"}, Supervised <- {},
  OperatorWrites <- {"text", "lower", "upper", "unreadable", "symlink"},
  FirstFile <- {"missing", "torn", "upper"}, MaxEdits <- 1, MaxCrashes <- 1, MaxStarts <- 2
Serves == INSTANCE MetricsToken WITH
  Daemons <- {"unit"}, Supervised <- {"unit"}, OperatorWrites <- {"text", "lower", "upper"},
  FirstFile <- {"missing", "torn", "text", "lower", "upper"},
  MaxEdits <- 3, MaxCrashes <- 3, MaxStarts <- 0
Tiers == INSTANCE MetricsExport WITH
  PrometheusTier <- "per_session", OtlpTier <- "aggregate_only", HistoryEnabled <- FALSE,
  MaxRendered <- 1, MaxCount <- 0, MaxTime <- 1, MaxCycles <- 2, Sids <- {"s1", "s2"},
  ReportedHealths <- {"ok", "critical"},
  CollectorDoes <- {"refused", "timed_out", "redirect", "error_status", "oversized_body",
                    "undecodable_body", "rejected_points", "warning_only", "empty_body", "accepted"}

(* One request for each answer.                                              *)
Ask(method, path, bearer, acceptable) ==
  [method |-> method, path |-> path, bearer |-> bearer, acceptable |-> acceptable]
OneOfEach ==
  {Ask("POST", "/metrics", "right", TRUE), Ask("GET", "/", "right", TRUE),
   Ask("GET", "/metrics", "none", FALSE), Ask("GET", "/metrics", "wrong", TRUE),
   Ask("GET", "/metrics", "right", FALSE), Ask("GET", "/metrics", "right", TRUE)}

-----------------------------------------------------------------------------
(* What does not play is 0, and nothing where a property looks at it.        *)
NoToken ==
  /\ file = 0 /\ ownerOnly = 0 /\ pc = 0 /\ booted = 0 /\ mem = 0 /\ pend = 0
  /\ mine = 0 /\ listener = 0 /\ port = 0 /\ edits = 0 /\ crashes = 0 /\ starts = 0
NoExport == now = 0 /\ sessions = 0 /\ phase = 0 /\ stats = 0 /\ accepted = 0 /\ sent = <<>>
NoHeaders == Headers!Init
NoServer == loop = 0 /\ conn = 0 /\ request = 0 /\ stalls = 0 /\ answer = 0

MCInit ==
  \/ scene = "rivals" /\ Rivals!Init /\ NoExport /\ NoHeaders /\ NoServer
  \/ scene = "serves" /\ Serves!Init /\ NoExport /\ NoHeaders /\ NoServer
  \/ scene = "series" /\ Exporter!Init /\ NoToken /\ NoHeaders /\ NoServer
  \/ scene = "tiers" /\ Tiers!Init /\ NoToken /\ NoHeaders /\ NoServer
  \/ scene = "accept" /\ Headers!Init /\ NoToken /\ NoExport /\ NoServer
  \/ scene = "server" /\ Init /\ NoToken /\ NoExport /\ NoHeaders

MCNext ==
  /\ \/ scene = "rivals" /\ Rivals!Next /\ UNCHANGED <<exportVars, acceptVars, vars>>
     \/ scene = "serves" /\ Serves!Next /\ UNCHANGED <<exportVars, acceptVars, vars>>
     \/ /\ scene = "series" /\ Exporter!Next /\ UNCHANGED <<tokenVars, acceptVars, vars>>
        /\ sessions'["s2"].kind # "instrumented"
     \/ scene = "tiers" /\ Tiers!Next /\ UNCHANGED <<tokenVars, acceptVars, vars>>
     \/ scene = "accept" /\ Headers!Next /\ UNCHANGED <<tokenVars, exportVars, vars>>
     \/ scene = "server" /\ Next /\ UNCHANGED <<tokenVars, exportVars, acceptVars>>
  /\ UNCHANGED scene

(* The fairness of the modules, in the scenes it is for.                     *)
MCFairness ==
  /\ \A d \in {"unit", "manual"} : /\ WF_tokenVars(scene = "rivals" /\ Rivals!Pass(d))
                                   /\ WF_tokenVars(scene = "rivals" /\ Rivals!BindPort(d))
  /\ WF_tokenVars(scene = "serves" /\ Serves!Pass("unit"))
  /\ WF_tokenVars(scene = "serves" /\ Serves!BindPort("unit"))
  /\ WF_tokenVars(scene = "serves" /\ Serves!Start("unit"))
  /\ \A c \in Clients :
       /\ SF_vars(scene = "server" /\ Accept(c))
       /\ WF_vars(scene = "server" /\ Refused(c))
       /\ WF_vars(scene = "server" /\ ReadFails(c))
       /\ WF_vars(scene = "server" /\ WriteEnds(c))

MCSpec == MCInit /\ [][MCNext]_mcVars /\ MCFairness

-----------------------------------------------------------------------------
(* Properties: those of the modules, each in the scene made for it; the    *)
(* remaining two are those of MetricsEndpoint.                             *)

(* Whatever contents the token file is given, by operators, kills and a     *)
(* rival, it ends up with the token of the daemon that keeps the port,      *)
(* unless it stays unreadable, a symbolic link or that token in upper case; *)
(* and on the way no complete file is replaced by a torn one                *)
(* (ensure_metrics_auth_token_file_matches, the reconciler).                *)
Holds(d) == scene = "rivals" /\ port = d /\ ~Rivals!LeftAsItIs(d)
Agree(d) == scene = "rivals" => Rivals!ScrapersAgree(d)
TokenFileSound ==
  /\ [][scene = "rivals" => Rivals!CompleteFileNotTorn]_mcVars
  /\ \A d \in {"unit", "manual"} : <>[]Holds(d) => <>[]Agree(d)

(* Contents the daemon can use or replace never end the service for good.   *)
AlwaysServesAgain == []<>(scene = "serves" => port # "nobody")

(* Every export keeps to the catalogue and to its tier, says how many       *)
(* sessions it leaves out, and counts as a success only if the collector    *)
(* took every point of it.                                                  *)
ExportsSound ==
  scene = "tiers" => /\ Tiers!EveryExportKeepsTheContract
                     /\ Tiers!TruncationIsExplicit
                     /\ Tiers!SuccessIsConfirmed

(* However many clients stall, every connection ends.                       *)
EveryConnectionEnds ==
  \A c \in Clients : (scene = "server" /\ Waits(c)) ~> (scene = "server" => ~Waits(c))
=============================================================================
