----------------------------- MODULE ApiServer -----------------------------
(***************************************************************************)
(* The local HTTP API (api.rs): accept loop and connection slots, the      *)
(* request head with its limit and deadline, routing, the history query    *)
(* slots and the write deadline. The event stream is in EventFeed, the     *)
(* query's own steps in HistoryStore, the steps of the terminate check in  *)
(* ProcessIdentity; here each of them is one step.                         *)
(*                                                                         *)
(* One session is enough to tell the answers apart. Bodies are abstracted  *)
(* to whether they fit the socket buffer: a larger one is written as fast  *)
(* as the client reads.                                                    *)
(***************************************************************************)
EXTENDS Integers, FiniteSets

CONSTANTS Clients,
          ApiSlots,      \* API_CONNECTION_SLOTS
          HistorySlots,  \* HISTORY_QUERY_SLOTS
          HeadTimeout,   \* 2 s, in ticks
          WriteTimeout,  \* RESPONSE_WRITE_TIMEOUT
          Requests,      \* what clients ask for
          HasHistory,    \* persistence is enabled
          MaxSignals     \* bound: terminate requests served

(* `about` says whether the path names the session's id or another one,     *)
(* `query` whether the query string parses, `accept` whether a metrics      *)
(* format is acceptable.                                                    *)
Request == [method: {"GET", "POST", "PUT"},
            path: {"sessions", "coherence", "capabilities", "config", "metrics",
                   "coherence/", "exports/", "session/", "terminate",
                   "history/", "stream", "unknown"},
            about: {"known", "other"},
            query: {"ok", "bad"}, accept: BOOLEAN]

ASSUME ApiAssumption ==
  /\ IsFiniteSet(Clients)
  /\ ApiSlots \in Nat /\ HistorySlots \in Nat /\ MaxSignals \in Nat
  /\ HeadTimeout \in Nat /\ WriteTimeout \in Nat
  /\ Requests \subseteq Request

VARIABLES client,   \* each client's connection
          slots,    \* connection_slots: free permits
          queries,  \* history_query_slots: free permits
          tracked,  \* the session is in ServiceState
          process,  \* its process: "same", "recycled" or "gone"
          signals   \* SIGTERMs sent

vars == <<client, slots, queries, tracked, process, signals>>
envVars == <<tracked, process>>

Closed == [phase |-> "closed", request |-> [method |-> "none"], head |-> "none",
           eof |-> FALSE, reads |-> FALSE, timer |-> 0, status |-> 0,
           killed |-> FALSE]

-----------------------------------------------------------------------------
(* Clients connect, send a head in pieces or not at all, and read or not.   *)

Connect(c) ==
  /\ client[c].phase = "closed"
  /\ \E r \in Requests, reads \in BOOLEAN :
       client' = [client EXCEPT ![c] = [Closed EXCEPT !.phase = "queued",
                                          !.request = r, !.reads = reads]]
  /\ UNCHANGED <<slots, queries, signals, envVars>>

(* A head grows from nothing over a part to a whole one or one that is too  *)
(* long; the client may shut down its side at any point.                    *)
Send(c) ==
  /\ client[c].phase \in {"queued", "reading"} /\ ~client[c].eof
  /\ \/ /\ client[c].head \in {"none", "part"}
        /\ \E h \in {"part", "whole", "huge"} : client' = [client EXCEPT ![c].head = h]
     \/ client' = [client EXCEPT ![c].eof = TRUE]
  /\ UNCHANGED <<slots, queries, signals, envVars>>

(* The state changes between requests, by telemetry and discovery, and the  *)
(* process behind it by itself.                                             *)
Change ==
  /\ tracked' \in BOOLEAN
  /\ process' \in {"same", "recycled", "gone"}
  /\ UNCHANGED <<client, slots, queries, signals>>

-----------------------------------------------------------------------------
(* run_api and handle_connection *)

(* The acceptor answers 503 itself; so short an answer always fits.         *)
Accept(c) ==
  /\ client[c].phase = "queued"
  /\ IF slots > 0
     THEN /\ slots' = slots - 1
          /\ client' = [client EXCEPT ![c].phase = "reading", ![c].timer = HeadTimeout]
     ELSE /\ client' = [client EXCEPT ![c] = [Closed EXCEPT !.status = 503]]
          /\ UNCHANGED slots
  /\ UNCHANGED <<queries, signals, envVars>>

Writing(r, status) == [r EXCEPT !.phase = "writing", !.status = status,
                                !.timer = WriteTimeout]

(* The task ends: the stream is closed and its permit returned.             *)
Finish(c, r) ==
  /\ client' = [client EXCEPT ![c] = [Closed EXCEPT !.request = r.request,
                                         !.status = r.status, !.killed = r.killed]]
  /\ slots' = slots + 1

(* read_request_head: the terminator is looked for first, then the limit,   *)
(* then the end of the stream. No request line, no answer.                  *)
ReadHead(c) ==
  /\ client[c].phase = "reading"
  /\ \/ /\ client[c].head = "whole"
        /\ client' = [client EXCEPT ![c].phase = "routing"]
        /\ UNCHANGED slots
     \/ /\ client[c].head = "huge" \/ (client[c].head = "part" /\ client[c].eof)
        /\ client' = [client EXCEPT ![c] = Writing(@, 400)]
        /\ UNCHANGED slots
     \/ /\ client[c].head = "none" /\ client[c].eof
        /\ Finish(c, client[c])
  /\ UNCHANGED <<queries, signals, envVars>>

(* Error: the head is awaited without a deadline. *)
NoDeadline(c) == FALSE /\ UNCHANGED vars

HeadTimesOut(c) ==
  /\ client[c].phase = "reading" /\ client[c].timer = 0
  /\ client' = [client EXCEPT ![c] = Writing(@, 408)]
  /\ UNCHANGED <<slots, queries, signals, envVars>>

-----------------------------------------------------------------------------
(* build_response *)

Found(r) == tracked /\ r.about = "known"

(* The lists, the catalogue of surfaces and the configuration.              *)
Listing(r) == r.method = "GET" /\ r.path \in {"sessions", "coherence", "capabilities", "config"}

(* One session: its detail, its coherence report, its export. A GET of a    *)
(* terminate path asks for the detail of a session that does not exist.     *)
ById(r) == r.method = "GET" /\ r.path \in {"session/", "coherence/", "exports/", "terminate"}
ByIdStatus(r) == IF Found(r) /\ r.path # "terminate" THEN 200 ELSE 404

Metrics(r) == r.method = "GET" /\ r.path = "metrics"
MetricsStatus(r) == IF r.accept THEN 200 ELSE 406

(* Error: the method is not part of the route. *)
AnyMethodTerminates(r) == r.path = "terminate"

Terminates(r) == r.method = "POST" /\ r.path = "terminate"

AsksHistory(r) == r.method = "GET" /\ r.path = "history/"

Unrouted(r) == ~(Listing(r) \/ ById(r) \/ Metrics(r) \/ Terminates(r) \/ AsksHistory(r))

(* handle_connection up to the routes: other methods are refused before the *)
(* path is looked at.                                                       *)
Answer(c, statuses) ==
  /\ \E s \in statuses : client' = [client EXCEPT ![c] = Writing(@, s)]
  /\ UNCHANGED <<slots, queries, signals, envVars>>

Routed(c) == client[c].phase = "routing" /\ client[c].request.method \in {"GET", "POST"}

RefuseMethod(c) ==
  /\ client[c].phase = "routing" /\ client[c].request.method \notin {"GET", "POST"}
  /\ Answer(c, {405})

ServeState(c) ==
  LET r == client[c].request
  IN /\ Routed(c) /\ r.path # "stream"
     /\ Answer(c, CASE Listing(r) -> {200}
                    [] ById(r) /\ ~Terminates(r) -> {ByIdStatus(r)}
                    [] Metrics(r) -> {MetricsStatus(r)}
                    [] Unrouted(r) -> {404}
                    [] OTHER -> {})

(* terminate_session; kill can fail for other reasons than a process that   *)
(* is gone, which is an error of the request.                               *)
Terminate(c) ==
  LET r == client[c].request
  IN /\ Routed(c) /\ Terminates(r)
     /\ \/ /\ ~Found(r)
           /\ Answer(c, {404})
        \/ /\ Found(r) /\ process # "same"
           /\ Answer(c, {409})
        \/ /\ Found(r) /\ process = "same" /\ signals < MaxSignals
           /\ signals' = signals + 1
           /\ client' = [client EXCEPT ![c] = [Writing(@, 200) EXCEPT !.killed = TRUE]]
           /\ UNCHANGED <<slots, queries, envVars>>
        \/ /\ Found(r) /\ process = "same"
           /\ Answer(c, {409, 500})

(* The permit is taken before the query string is parsed.                   *)
StartQuery(c) ==
  LET r == client[c].request
  IN /\ Routed(c) /\ AsksHistory(r)
     /\ IF ~HasHistory THEN Answer(c, {501})
        ELSE IF queries = 0 THEN Answer(c, {503})
        ELSE IF r.query = "bad" THEN Answer(c, {400})
        ELSE /\ queries' = queries - 1
             /\ client' = [client EXCEPT ![c].phase = "query"]
             /\ UNCHANGED <<slots, signals, envVars>>

(* Error: the permit is not returned with the samples. *)
KeepQueryPermit(c) ==
  /\ client[c].phase = "query"
  /\ \E s \in {200, 500} : client' = [client EXCEPT ![c] = Writing(@, s)]
  /\ UNCHANGED <<slots, queries, signals, envVars>>

(* The permit is returned with the samples, before they are written.        *)
FinishQuery(c) ==
  /\ client[c].phase = "query"
  /\ queries' = queries + 1
  /\ \E s \in {200, 500} : client' = [client EXCEPT ![c] = Writing(@, s)]
  /\ UNCHANGED <<slots, signals, envVars>>

(* stream_events, for any of the two methods, until its client leaves.      *)
Stream(c) ==
  /\ Routed(c) /\ client[c].request.path = "stream"
  /\ client' = [client EXCEPT ![c].phase = "stream"]
  /\ UNCHANGED <<slots, queries, signals, envVars>>

LeaveStream(c) ==
  /\ client[c].phase = "stream"
  /\ Finish(c, client[c])
  /\ UNCHANGED <<queries, signals, envVars>>

-----------------------------------------------------------------------------
(* write_response_with_timeout: a large body waits for the client; what is  *)
(* not written in time is given up, with the answer.                        *)
Large(r) == r.status = 200 /\ r.request.path # "terminate"

Write(c) ==
  /\ client[c].phase = "writing"
  /\ client[c].reads \/ ~Large(client[c])
  /\ Finish(c, client[c])
  /\ UNCHANGED <<queries, signals, envVars>>

WriteTimesOut(c) ==
  /\ client[c].phase = "writing" /\ client[c].timer = 0
  /\ Finish(c, [client[c] EXCEPT !.status = 0])
  /\ UNCHANGED <<queries, signals, envVars>>

Timed(c) == client[c].phase \in {"reading", "writing"}

Tick ==
  /\ \A c \in Clients : Timed(c) => client[c].timer > 0
  /\ client' = [c \in Clients |-> IF Timed(c) THEN [client[c] EXCEPT !.timer = @ - 1]
                                  ELSE client[c]]
  /\ UNCHANGED <<slots, queries, signals, envVars>>

Init ==
  /\ client = [c \in Clients |-> Closed]
  /\ slots = ApiSlots /\ queries = HistorySlots
  /\ tracked = FALSE /\ process = "same"
  /\ signals = 0

Serve(c) == \/ Accept(c) \/ ReadHead(c) \/ HeadTimesOut(c) \/ RefuseMethod(c)
            \/ ServeState(c) \/ Terminate(c) \/ StartQuery(c) \/ FinishQuery(c)
            \/ Stream(c) \/ Write(c) \/ WriteTimesOut(c)

Next ==
  \/ \E c \in Clients : Connect(c) \/ Send(c) \/ LeaveStream(c) \/ Serve(c)
  \/ Change \/ Tick

Spec == Init /\ [][Next]_vars

(* The connection tasks run and the clock advances.                         *)
FairSpec == Spec /\ WF_vars(Tick) /\ \A c \in Clients : WF_vars(Serve(c))

-----------------------------------------------------------------------------

(* A connection slot belongs to a connection that is handled, and a query   *)
(* slot to a query that runs: refused, broken and timed out requests, and   *)
(* clients that read their history slowly, do not keep one.                 *)
Handled == {c \in Clients : client[c].phase \notin {"closed", "queued"}}
Querying == {c \in Clients : client[c].phase = "query"}
SlotsAccountedFor ==
  /\ slots + Cardinality(Handled) = ApiSlots
  /\ queries + Cardinality(Querying) = HistorySlots

(* A signal is sent for a POST on a terminate path, and its answer says so: *)
(* no refusal and no error follows a signal, and no 200 comes without one.  *)
TerminateAnswersAreTrue ==
  \A c \in Clients :
    LET r == client[c]
    IN /\ r.killed => /\ r.request.method = "POST" /\ r.request.path = "terminate"
                      /\ r.status \in {200, 0}
       /\ r.phase = "writing" /\ r.status = 200 /\ r.request.path = "terminate"
            => r.killed

(* No client, however it sends its head or reads its answer, keeps a        *)
(* connection slot for good, event streams apart.                           *)
ConnectionsEnd ==
  \A c \in Clients :
    client[c].phase \notin {"closed", "stream"} ~> client[c].phase \in {"closed", "stream"}

=============================================================================
