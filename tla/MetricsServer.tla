---------------------------- MODULE MetricsServer ----------------------------
(***************************************************************************)
(* The TCP listener of the metrics endpoint (metrics.rs): one accept loop, *)
(* METRICS_CONNECTION_SLOTS handlers, a deadline on reading the request    *)
(* and one on writing the answer.  A connection beyond the slots is told   *)
(* 503 by the accept loop itself.  Clients send what they like, stall at   *)
(* any point or go away.                                                   *)
(***************************************************************************)
EXTENDS Integers, FiniteSets

CONSTANTS Clients,       \* connections
          Slots,         \* METRICS_CONNECTION_SLOTS
          AcceptErrors,  \* whether accept(2) may fail (out of descriptors)
          Requests       \* what clients ask

\* The parts of a request the handler looks at, in its order.
Request == [method : {"GET", "POST"}, path : {"/metrics", "/"},
            bearer : {"none", "wrong", "right"}, acceptable : BOOLEAN]

ASSUME ServerAssumption ==
  /\ IsFiniteSet(Clients) /\ {"accepting", "ended"} \cap Clients = {}
  /\ Slots \in Nat \ {0}
  /\ AcceptErrors \in BOOLEAN /\ Requests \subseteq Request

NoAnswer == 0

VARIABLES
  loop,      \* "accepting", the client being refused, or "ended"
  conn,      \* per client: "away", "queued", "reading", "writing", "refusing", "closed"
  request,   \* per client: what it asks, fixed when it connects
  stalls,    \* per client: whether it stopped sending or reading for good
  answer     \* per client: the status decided, NoAnswer until then

vars == <<loop, conn, request, stalls, answer>>

Phases == {"away", "queued", "reading", "writing", "refusing", "closed"}
TypeOK ==
  /\ loop \in {"accepting", "ended"} \cup Clients
  /\ conn \in [Clients -> Phases]
  /\ request \in [Clients -> Requests]
  /\ stalls \in [Clients -> BOOLEAN]
  /\ answer \in [Clients -> {NoAnswer, 200, 401, 404, 405, 406, 503}]

Init ==
  /\ loop = "accepting"
  /\ conn = [c \in Clients |-> "away"]
  /\ request \in [Clients -> Requests]
  /\ stalls = [c \in Clients |-> FALSE]
  /\ answer = [c \in Clients |-> NoAnswer]

-----------------------------------------------------------------------------
Handled == {c \in Clients : conn[c] \in {"reading", "writing"}}

Connect(c) ==
  /\ conn[c] = "away" /\ loop # "ended"
  /\ conn' = [conn EXCEPT ![c] = "queued"]
  /\ UNCHANGED <<loop, request, stalls, answer>>

Stall(c) ==
  /\ conn[c] \in {"queued", "reading", "writing", "refusing"} /\ ~stalls[c]
  /\ stalls' = [stalls EXCEPT ![c] = TRUE]
  /\ UNCHANGED <<loop, conn, request, answer>>

\* A client that goes away ends its handler with an error.
Disconnect(c) ==
  /\ conn[c] \in {"reading", "writing"}
  /\ conn' = [conn EXCEPT ![c] = "closed"]
  /\ UNCHANGED <<loop, request, stalls, answer>>

\* run_metrics_server: a free slot, or the loop answers 503 before it accepts
\* the next connection.
Accept(c) ==
  /\ loop = "accepting" /\ conn[c] = "queued"
  /\ IF Cardinality(Handled) < Slots
     THEN /\ conn' = [conn EXCEPT ![c] = "reading"]
          /\ UNCHANGED <<loop, answer>>
     ELSE /\ conn' = [conn EXCEPT ![c] = "refusing"]
          /\ loop' = c
          /\ answer' = [answer EXCEPT ![c] = 503]
  /\ UNCHANGED <<request, stalls>>

\* The 503 is written, or METRICS_WRITE_TIMEOUT passes; the outcome is ignored.
Refused(c) ==
  /\ loop = c
  /\ loop' = "accepting"
  /\ conn' = [conn EXCEPT ![c] = "closed"]
  /\ UNCHANGED <<request, stalls, answer>>

\* An error of accept ends the server, and main ends the daemon.
AcceptFails ==
  /\ AcceptErrors /\ loop = "accepting"
  /\ loop' = "ended"
  /\ conn' = [c \in Clients |-> IF conn[c] = "away" THEN "away" ELSE "closed"]
  /\ UNCHANGED <<request, stalls, answer>>

\* metrics_request_is_authorized: the first bearer credential counts.
Authorized(r) == r.bearer = "right"

\* handle_metrics_connection after the head was read.
Status(r) ==
  CASE r.method # "GET" -> 405
    [] r.method = "GET" /\ r.path # "/metrics" -> 404
    [] r.method = "GET" /\ r.path = "/metrics" ->
         IF ~Authorized(r) THEN 401 ELSE IF ~r.acceptable THEN 406 ELSE 200

ReadRequest(c) ==
  /\ conn[c] = "reading" /\ ~stalls[c]
  /\ answer' = [answer EXCEPT ![c] = Status(request[c])]
  /\ conn' = [conn EXCEPT ![c] = "writing"]
  /\ UNCHANGED <<loop, request, stalls>>

\* Error: no deadline, only a broken or overlong head ends the reading.
NoReadDeadline(c) ==
  /\ conn[c] = "reading" /\ ~stalls[c]
  /\ conn' = [conn EXCEPT ![c] = "closed"]
  /\ UNCHANGED <<loop, request, stalls, answer>>

\* The head did not arrive in two seconds, is too long or breaks off.
ReadFails(c) ==
  /\ conn[c] = "reading"
  /\ conn' = [conn EXCEPT ![c] = "closed"]
  /\ UNCHANGED <<loop, request, stalls, answer>>

\* The answer is written or METRICS_WRITE_TIMEOUT passes.
WriteEnds(c) ==
  /\ conn[c] = "writing"
  /\ conn' = [conn EXCEPT ![c] = "closed"]
  /\ UNCHANGED <<loop, request, stalls, answer>>

Next ==
  \/ AcceptFails
  \/ \E c \in Clients :
       \/ Connect(c) \/ Stall(c) \/ Disconnect(c)
       \/ Accept(c) \/ Refused(c) \/ ReadRequest(c) \/ ReadFails(c) \/ WriteEnds(c)

\* The accept loop runs, and each deadline passes; the queue of the listener
\* is served in order.
Spec == Init /\ [][Next]_vars
FairSpec ==
  /\ Spec
  /\ \A c \in Clients :
       /\ SF_vars(Accept(c)) /\ WF_vars(Refused(c))
       /\ WF_vars(ReadFails(c)) /\ WF_vars(WriteEnds(c))

-----------------------------------------------------------------------------
\* Never more handlers than slots; the loop writes one refusal at a time.
SlotsHold ==
  /\ Cardinality(Handled) <= Slots
  /\ \A c \in Clients : loop = c <=> conn[c] = "refusing"

\* Whoever lacks the token learns nothing but whether the method and the path
\* exist and whether the server is busy.
OnlyTokenHoldersGetPast401 ==
  \A c \in Clients : answer[c] \in {200, 406} => Authorized(request[c])

\* A client between its connect and the end of its connection, whether it waits
\* for the accept loop, for its own request or for the answer.
Waits(c) == conn[c] \notin {"away", "closed"}
=============================================================================
