---------------------------- MODULE MCApiServer ----------------------------
(***************************************************************************)
(* ApiServer, and its interactive client TerminalUi, for TLC. A behaviour  *)
(* plays in one of four scenes and keeps to the part of the state space    *)
(* that the scene is about; the rest stays as it was in the beginning:     *)
(*   routes   one client, a request of each kind that is answered apart    *)
(*   history  two clients, two connection slots and one query slot         *)
(*   live     one client that terminates the session and one that looks at *)
(*            it, for the connection slot that the stream of a third leaves *)
(*   ui       three sessions, of which at most two are listed: the UI was  *)
(*            started by s2 with the display id of s1; the tmux client, if *)
(*            any, belongs to s3 or cannot be traced                       *)
(***************************************************************************)
EXTENDS ApiClients

CONSTANTS c1, c2, c3    \* model values

VARIABLE scene

Ask(method, path) == [method |-> method, path |-> path, about |-> "known",
                      query |-> "ok", accept |-> TRUE]
StreamRequest == Ask("GET", "stream")

RouteRequests ==
  {Ask("GET", "session/"), Ask("GET", "terminate"), Ask("POST", "terminate"),
   Ask("PUT", "sessions"), StreamRequest, Ask("GET", "history/"),
   [Ask("GET", "history/") EXCEPT !.query = "bad"],
   [Ask("GET", "metrics") EXCEPT !.accept = FALSE]}

Routes == INSTANCE ApiServer WITH Requests <- RouteRequests
History == INSTANCE ApiServer WITH Requests <- {Ask("GET", "history/")}
Live == INSTANCE ApiServer WITH
  Requests <- {Ask("POST", "terminate"), Ask("GET", "session/"), StreamRequest}

UiOwnChain == <<"other", "s2">>
UiTmuxChains == {<<>>, <<"other", "s3">>, <<"gone", "s3">>}

mcVars == <<scene, vars, uiVars>>

-----------------------------------------------------------------------------

Still(cs) == \A c \in cs : client'[c] = client[c]

(* What each client of the live scene asks for.                             *)
Role == [c \in Clients |-> CASE c = c1 -> "terminate" [] c = c2 -> "session/"
                             [] c = c3 -> "stream"]
InRole == \A c \in Clients : client'[c].phase = "queued" =>
                              client'[c].request.path = Role[c]

(* The third client of the live scene opens its stream before anything      *)
(* else happens, and stays.                                                 *)
Parked == client[c3].phase = "stream"
Park ==
  /\ ~Parked
  /\ \/ Live!Connect(c3) \/ Live!Send(c3) \/ Live!Accept(c3) \/ Live!ReadHead(c3)
     \/ Live!Stream(c3)
  /\ InRole /\ client'[c3].reads
  /\ client'[c3].head # "huge" /\ ~client'[c3].eof

MCInit == scene \in {"routes", "history", "live", "ui"} /\ Init /\ Ui!Init

MCNext ==
  /\ \/ /\ \/ scene = "routes" /\ Routes!Next /\ Still({c2, c3})
           \/ scene = "history" /\ History!Next /\ Still({c3})
           \/ scene = "live" /\ Park
           \/ scene = "live" /\ Parked /\ Live!Next /\ Still({c3}) /\ InRole
        /\ UNCHANGED uiVars
     \/ scene = "ui" /\ Ui!Next /\ UNCHANGED vars
  /\ UNCHANGED scene

(* The fairness of ApiServer, in the scene it is for.                       *)
IsLive == scene = "live" /\ Parked
MCFairness ==
  /\ WF_vars(IsLive /\ Live!Tick)
  /\ \A c \in {c1, c2} : WF_vars(IsLive /\ Live!Serve(c))

MCSpec == MCInit /\ [][MCNext]_mcVars /\ MCFairness

-----------------------------------------------------------------------------
(* Properties, beside those of ApiServer and ApiClients *)

(* No client keeps a connection slot for good, event streams apart.         *)
Busy(c) == IsLive /\ client[c].phase \notin {"closed", "stream"}
LiveConnectionsEnd == \A c \in {c1, c2} : Busy(c) ~> ~Busy(c)

(* The detail the UI shows is that of the highlighted session. Not so: see  *)
(* the README.                                                              *)
DetailIsOfSelection == scene = "ui" => Ui!DetailIsOfSelection
=============================================================================
