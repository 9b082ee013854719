--------------------------- MODULE ApiServerProofs ---------------------------
(***************************************************************************)
(* Permits and terminate answers of the local API, for every number of     *)
(* clients and slots, every set of requests and all deadlines.             *)
(*                                                                         *)
(* Every step but Change and Tick replaces the record of one client, so    *)
(* the steps are reduced to that: what the record was and is decides what  *)
(* the step must do to the permits (Balanced) and what may be said of the  *)
(* answer (RecOK).  At the end, what the interactive client keeps.         *)
(***************************************************************************)
EXTENDS ApiClients, FiniteSetTheorems, TLAPS

Phases == {"closed", "queued", "reading", "routing", "query", "stream", "writing"}
Conn == [phase: Phases, request: Request \cup {Closed.request},
         head: {"none", "part", "whole", "huge"}, eof: BOOLEAN, reads: BOOLEAN,
         timer: Nat, status: Nat, killed: BOOLEAN]

(* TerminateAnswersAreTrue for one record, and why: no signal is sent       *)
(* before the answer is written, and a query is never about a terminate     *)
(* path.                                                                    *)
RecOK(r) ==
  /\ r.phase # "closed" => r.request \in Request
  /\ r.phase \in Phases \ {"closed", "writing"} => ~r.killed
  /\ r.phase = "query" => AsksHistory(r.request)
  /\ r.killed => /\ r.request.method = "POST" /\ r.request.path = "terminate"
                 /\ r.status \in {200, 0}
  /\ r.phase = "writing" /\ r.status = 200 /\ r.request.path = "terminate" => r.killed

TypeOK ==
  /\ client \in [Clients -> Conn]
  /\ slots \in Nat /\ queries \in Nat /\ signals \in Nat
  /\ tracked \in BOOLEAN /\ process \in {"same", "recycled", "gone"}

RecordsOK == \A c \in Clients : RecOK(client[c])

IInv == TypeOK /\ RecordsOK /\ SlotsAccountedFor

(* The permits a connection holds. *)
Slot(r) == IF r.phase \in {"closed", "queued"} THEN 0 ELSE 1
Query(r) == IF r.phase = "query" THEN 1 ELSE 0

(* A step that makes r of the record of c, and moves the permits with it.   *)
Balanced(c, r) ==
  /\ client' = [client EXCEPT ![c] = r]
  /\ slots' \in Nat /\ slots' + Slot(r) = slots + Slot(client[c])
  /\ queries' \in Nat /\ queries' + Query(r) = queries + Query(client[c])
  /\ signals' \in Nat /\ UNCHANGED envVars

-----------------------------------------------------------------------------
(* Permits *)

(* The size of a set of clients after one of them came, went or stayed.     *)
LEMMA OneChanges ==
  ASSUME NEW S, NEW T, NEW x, IsFiniteSet(S), T \ {x} = S \ {x}
  PROVE  /\ IsFiniteSet(T)
         /\ Cardinality(T) + (IF x \in S THEN 1 ELSE 0)
              = Cardinality(S) + (IF x \in T THEN 1 ELSE 0)
<1>1. /\ IsFiniteSet(S \ {x}) /\ Cardinality(S \ {x}) \in Nat /\ Cardinality(S) \in Nat
      /\ Cardinality(S \ {x}) = IF x \in S THEN Cardinality(S) - 1 ELSE Cardinality(S)
  BY FS_RemoveElement, FS_CardinalityType
<1>2. T = IF x \in T THEN (S \ {x}) \cup {x} ELSE S \ {x}
  OBVIOUS
<1>3. CASE x \in T
  <2>1. IsFiniteSet(T) /\ Cardinality(T) = Cardinality(S \ {x}) + 1
    BY <1>1, <1>2, <1>3, FS_AddElement
  <2> QED BY <1>1, <1>3, <2>1
<1>4. CASE x \notin T
  <2>1. T = S \ {x}
    BY <1>4
  <2> QED BY <1>1, <1>4, <2>1
<1> QED BY <1>3, <1>4

LEMMA ClientSetsFinite == IsFiniteSet(Handled) /\ IsFiniteSet(Querying)
<1>1. Handled \in SUBSET Clients /\ Querying \in SUBSET Clients
  BY DEF Handled, Querying
<1> QED BY <1>1, FS_Subset, ApiAssumption

(* What is free and what is held add up to the same before and after.       *)
LEMMA Exchange ==
  ASSUME NEW free \in Nat, NEW held \in Nat, NEW free2 \in Nat, NEW held2 \in Nat,
         NEW before \in {0, 1}, NEW behind \in {0, 1},
         free2 + behind = free + before, held2 + before = held + behind
  PROVE  free2 + held2 = free + held
OBVIOUS

(* A balanced step keeps the accounts.                                      *)
LEMMA BalancedStep ==
  ASSUME IInv, NEW c \in Clients, NEW r \in Conn, RecOK(r), Balanced(c, r)
  PROVE  IInv'
<1>1. /\ client'[c] = r
      /\ \A d \in Clients \ {c} : client'[d] = client[d]
      /\ client' \in [Clients -> Conn]
  BY DEF IInv, TypeOK, Balanced
<1>2. TypeOK'
  BY <1>1 DEF IInv, TypeOK, Balanced, envVars
<1>3. RecordsOK'
  BY <1>1 DEF IInv, RecordsOK, RecOK
<1>4. /\ Handled' \ {c} = Handled \ {c} /\ (c \in Handled' <=> Slot(r) = 1)
      /\ (c \in Handled <=> Slot(client[c]) = 1)
  BY <1>1 DEF Handled, Slot
<1>5. /\ Querying' \ {c} = Querying \ {c} /\ (c \in Querying' <=> Query(r) = 1)
      /\ (c \in Querying <=> Query(client[c]) = 1)
  BY <1>1 DEF Querying, Query
<1>6. /\ Slot(r) \in {0, 1} /\ Slot(client[c]) \in {0, 1}
      /\ Query(r) \in {0, 1} /\ Query(client[c]) \in {0, 1}
  BY DEF Slot, Query
<1>7. /\ Cardinality(Handled') + Slot(client[c]) = Cardinality(Handled) + Slot(r)
      /\ Cardinality(Handled) \in Nat /\ Cardinality(Handled') \in Nat
  BY <1>4, <1>6, ClientSetsFinite, OneChanges, FS_CardinalityType
<1>8. /\ Cardinality(Querying') + Query(client[c]) = Cardinality(Querying) + Query(r)
      /\ Cardinality(Querying) \in Nat /\ Cardinality(Querying') \in Nat
  BY <1>5, <1>6, ClientSetsFinite, OneChanges, FS_CardinalityType
<1>9. SlotsAccountedFor'
  <2>1. /\ slots \in Nat /\ slots + Cardinality(Handled) = ApiSlots
        /\ queries \in Nat /\ queries + Cardinality(Querying) = HistorySlots
    BY DEF IInv, TypeOK, SlotsAccountedFor
  <2>2. /\ slots' \in Nat /\ slots' + Slot(r) = slots + Slot(client[c])
        /\ queries' \in Nat /\ queries' + Query(r) = queries + Query(client[c])
    BY DEF Balanced
  <2>3. slots' + Cardinality(Handled') = ApiSlots
    <3>1. /\ Slot(r) \in {0, 1} /\ Slot(client[c]) \in {0, 1}
          /\ slots \in Nat /\ slots' \in Nat /\ slots' + Slot(r) = slots + Slot(client[c])
      BY <1>6, <2>1, <2>2
    <3>2. slots' + Cardinality(Handled') = slots + Cardinality(Handled)
      BY <1>7, <3>1, Exchange
    <3> QED BY <2>1, <3>2
  <2>4. queries' + Cardinality(Querying') = HistorySlots
    <3>1. /\ Query(r) \in {0, 1} /\ Query(client[c]) \in {0, 1}
          /\ queries \in Nat /\ queries' \in Nat /\ queries' + Query(r) = queries + Query(client[c])
      BY <1>6, <2>1, <2>2
    <3>2. queries' + Cardinality(Querying') = queries + Cardinality(Querying)
      BY <1>8, <3>1, Exchange
    <3> QED BY <2>1, <3>2
  <2> QED BY <2>3, <2>4 DEF SlotsAccountedFor
<1> QED BY <1>2, <1>3, <1>9 DEF IInv

-----------------------------------------------------------------------------
(* The actions *)

LEMMA ClosedIsConn == Closed \in Conn /\ Closed.phase = "closed" /\ ~Closed.killed
BY DEF Closed, Conn, Phases

(* Every step of a client or of its connection task is balanced, and leaves *)
(* a record that may be written.                                            *)
LEMMA ClientStep ==
  ASSUME IInv, NEW c \in Clients, Connect(c) \/ Send(c)
  PROVE  \E r \in Conn : RecOK(r) /\ Balanced(c, r)
<1>1. /\ client \in [Clients -> Conn] /\ client[c] \in Conn /\ RecOK(client[c])
      /\ slots \in Nat /\ queries \in Nat /\ signals \in Nat
  BY DEF IInv, TypeOK, RecordsOK
<1>2. CASE Connect(c)
  <2>1. PICK q \in Requests, reads \in BOOLEAN :
          client' = [client EXCEPT ![c] = [Closed EXCEPT !.phase = "queued",
                                             !.request = q, !.reads = reads]]
    BY <1>2 DEF Connect
  <2> DEFINE r == [Closed EXCEPT !.phase = "queued", !.request = q, !.reads = reads]
  <2>2. /\ r \in Conn /\ r.phase = "queued" /\ r.request = q /\ ~r.killed
    BY ApiAssumption DEF Closed, Conn, Phases
  <2>3. RecOK(r)
    BY <2>2, ApiAssumption DEF RecOK
  <2>4. Balanced(c, r)
    BY <1>1, <1>2, <2>1, <2>2 DEF Connect, Balanced, Slot, Query
  <2> QED BY <2>2, <2>3, <2>4
<1>3. CASE Send(c)
  <2>1. PICK r \in Conn : /\ client' = [client EXCEPT ![c] = r]
                          /\ r.phase = client[c].phase /\ r.request = client[c].request
                          /\ r.killed = client[c].killed /\ r.status = client[c].status
    <3>1. CASE \E h \in {"part", "whole", "huge"} : client' = [client EXCEPT ![c].head = h]
      <4>1. PICK h \in {"part", "whole", "huge"} : client' = [client EXCEPT ![c].head = h]
        BY <3>1
      <4> DEFINE s == [client[c] EXCEPT !.head = h]
      <4>2. /\ s \in Conn /\ s.phase = client[c].phase /\ s.request = client[c].request
            /\ s.killed = client[c].killed /\ s.status = client[c].status
        BY <1>1 DEF Conn
      <4>3. client' = [client EXCEPT ![c] = s]
        BY <4>1
      <4> HIDE DEF s
      <4> QED BY <4>2, <4>3
    <3>2. CASE client' = [client EXCEPT ![c].eof = TRUE]
      <4> DEFINE s == [client[c] EXCEPT !.eof = TRUE]
      <4>2. /\ s \in Conn /\ s.phase = client[c].phase /\ s.request = client[c].request
            /\ s.killed = client[c].killed /\ s.status = client[c].status
        BY <1>1 DEF Conn
      <4>3. client' = [client EXCEPT ![c] = s]
        BY <3>2
      <4> HIDE DEF s
      <4> QED BY <4>2, <4>3
    <3> QED BY <1>3, <3>1, <3>2 DEF Send
  <2>2. RecOK(r)
    BY <1>1, <2>1 DEF RecOK
  <2>3. Balanced(c, r)
    BY <1>1, <1>3, <2>1 DEF Send, Balanced, Slot, Query
  <2> QED BY <2>2, <2>3
<1> QED BY <1>2, <1>3

(* The record that starts to write an answer.                               *)
LEMMA WritingFacts ==
  ASSUME NEW r \in Conn, NEW s \in Nat
  PROVE  /\ Writing(r, s) \in Conn /\ Writing(r, s).phase = "writing"
         /\ Writing(r, s).status = s /\ Writing(r, s).request = r.request
         /\ Writing(r, s).killed = r.killed
BY ApiAssumption DEF Writing, Conn, Phases

(* An answer that follows no signal.                                        *)
LEMMA Answered ==
  ASSUME IInv, NEW c \in Clients, NEW s \in Nat,
         client[c].phase \in {"reading", "routing", "query"},
         s = 200 => client[c].request.path # "terminate"
  PROVE  Writing(client[c], s) \in Conn /\ RecOK(Writing(client[c], s))
<1>1. client[c] \in Conn /\ RecOK(client[c])
  BY DEF IInv, TypeOK, RecordsOK
<1>2. ~client[c].killed /\ client[c].request \in Request
  BY <1>1 DEF RecOK, Phases
<1> QED BY <1>1, <1>2, WritingFacts DEF RecOK, Phases

(* The end of a connection task, with the status that reached its client.   *)
LEMMA FinishStep ==
  ASSUME IInv, NEW c \in Clients, NEW old \in Conn, RecOK(old),
         Slot(client[c]) = 1, Query(client[c]) = 0,
         Finish(c, old), UNCHANGED <<queries, signals, envVars>>
  PROVE  \E r \in Conn : RecOK(r) /\ Balanced(c, r)
<1> DEFINE r == [Closed EXCEPT !.request = old.request, !.status = old.status,
                               !.killed = old.killed]
<1>1. /\ r \in Conn /\ r.phase = "closed" /\ r.request = old.request
      /\ r.status = old.status /\ r.killed = old.killed
  BY DEF Closed, Conn, Phases
<1>2. RecOK(r)
  BY <1>1 DEF RecOK
<1>3. Balanced(c, r)
  BY <1>1 DEF Finish, Balanced, Slot, Query, IInv, TypeOK
<1> QED BY <1>1, <1>2, <1>3

LEMMA ConnectionStep ==
  ASSUME IInv, NEW c \in Clients,
         Accept(c) \/ ReadHead(c) \/ HeadTimesOut(c) \/ Stream(c) \/ LeaveStream(c)
           \/ Write(c) \/ WriteTimesOut(c)
  PROVE  \E r \in Conn : RecOK(r) /\ Balanced(c, r)
<1>1. /\ client \in [Clients -> Conn] /\ client[c] \in Conn /\ RecOK(client[c])
      /\ slots \in Nat /\ queries \in Nat /\ signals \in Nat
  BY DEF IInv, TypeOK, RecordsOK
<1>2. CASE Accept(c)
  <2>1. CASE slots > 0
    <3> DEFINE r == [client[c] EXCEPT !.phase = "reading", !.timer = HeadTimeout]
    <3>1. /\ client' = [client EXCEPT ![c] = r] /\ slots' = slots - 1
      BY <1>1, <1>2, <2>1 DEF Accept
    <3>2. /\ r \in Conn /\ r.phase = "reading" /\ r.request = client[c].request
          /\ r.killed = client[c].killed
      BY <1>1, ApiAssumption DEF Conn, Phases
    <3>3. client[c].phase = "queued" /\ UNCHANGED <<queries, signals, envVars>>
      BY <1>2 DEF Accept
    <3>4. RecOK(r)
      BY <1>1, <3>2, <3>3 DEF RecOK, Phases
    <3>5. Balanced(c, r)
      BY <1>1, <2>1, <3>1, <3>2, <3>3 DEF Balanced, Slot, Query
    <3> QED BY <3>2, <3>4, <3>5
  <2>2. CASE ~(slots > 0)
    <3> DEFINE r == [Closed EXCEPT !.status = 503]
    <3>1. /\ r \in Conn /\ r.phase = "closed" /\ ~r.killed
      BY ClosedIsConn DEF Conn
    <3> HIDE DEF r
    <3>2. RecOK(r)
      BY <3>1 DEF RecOK, Phases
    <3>4. client' = [client EXCEPT ![c] = r]
      BY <1>2, <2>2 DEF Accept, r
    <3>3. Balanced(c, r)
      BY <1>1, <1>2, <2>2, <3>1, <3>4 DEF Accept, Balanced, Slot, Query
    <3> QED BY <3>1, <3>2, <3>3
  <2> QED BY <2>1, <2>2
<1>3. CASE ReadHead(c)
  <2>1. client[c].phase = "reading" /\ UNCHANGED <<queries, signals, envVars>>
    BY <1>3 DEF ReadHead
  <2>2. CASE client' = [client EXCEPT ![c].phase = "routing"] /\ UNCHANGED slots
    <3> DEFINE r == [client[c] EXCEPT !.phase = "routing"]
    <3>1. /\ r \in Conn /\ r.phase = "routing" /\ r.request = client[c].request
          /\ r.killed = client[c].killed
      BY <1>1 DEF Conn, Phases
    <3>2. RecOK(r)
      BY <1>1, <2>1, <3>1 DEF RecOK, Phases
    <3>3. Balanced(c, r)
      BY <1>1, <2>1, <2>2, <3>1 DEF Balanced, Slot, Query
    <3> QED BY <3>1, <3>2, <3>3
  <2>3. CASE client' = [client EXCEPT ![c] = Writing(@, 400)] /\ UNCHANGED slots
    <3>1. Balanced(c, Writing(client[c], 400))
      BY <1>1, <2>1, <2>3, WritingFacts DEF Balanced, Slot, Query
    <3> QED BY <2>1, <3>1, Answered
  <2>4. CASE Finish(c, client[c])
    <3>1. Slot(client[c]) = 1 /\ Query(client[c]) = 0
      BY <2>1 DEF Slot, Query
    <3> QED BY <1>1, <2>1, <2>4, <3>1, FinishStep
  <2> QED BY <1>3, <2>2, <2>3, <2>4 DEF ReadHead
<1>4. CASE HeadTimesOut(c)
  <2>1. Balanced(c, Writing(client[c], 408))
    BY <1>1, <1>4, WritingFacts DEF HeadTimesOut, Balanced, Slot, Query
  <2> QED BY <1>4, <2>1, Answered DEF HeadTimesOut
<1>5. CASE Stream(c)
  <2> DEFINE r == [client[c] EXCEPT !.phase = "stream"]
  <2>1. client[c].phase = "routing" /\ UNCHANGED <<slots, queries, signals, envVars>>
    BY <1>5 DEF Stream, Routed
  <2>2. /\ r \in Conn /\ r.phase = "stream" /\ r.request = client[c].request
        /\ r.killed = client[c].killed
    BY <1>1 DEF Conn, Phases
  <2>3. RecOK(r)
    BY <1>1, <2>1, <2>2 DEF RecOK, Phases
  <2>4. Balanced(c, r)
    BY <1>1, <1>5, <2>1, <2>2 DEF Stream, Balanced, Slot, Query
  <2> QED BY <2>2, <2>3, <2>4
<1>6. CASE LeaveStream(c)
  <2>1. Slot(client[c]) = 1 /\ Query(client[c]) = 0
    BY <1>6 DEF LeaveStream, Slot, Query
  <2> QED BY <1>1, <1>6, <2>1, FinishStep DEF LeaveStream
<1>7. CASE Write(c)
  <2>1. Slot(client[c]) = 1 /\ Query(client[c]) = 0
    BY <1>7 DEF Write, Slot, Query
  <2> QED BY <1>1, <1>7, <2>1, FinishStep DEF Write
<1>8. CASE WriteTimesOut(c)
  <2> DEFINE old == [client[c] EXCEPT !.status = 0]
  <2>1. Slot(client[c]) = 1 /\ Query(client[c]) = 0
    BY <1>8 DEF WriteTimesOut, Slot, Query
  <2>2. /\ old \in Conn /\ old.status = 0 /\ old.phase = client[c].phase
        /\ old.request = client[c].request /\ old.killed = client[c].killed
    BY <1>1 DEF Conn
  <2>3. RecOK(old)
    BY <1>1, <2>2 DEF RecOK
  <2>4. Finish(c, old) /\ UNCHANGED <<queries, signals, envVars>>
    BY <1>8 DEF WriteTimesOut
  <2> HIDE DEF old
  <2> QED BY <2>1, <2>2, <2>3, <2>4, FinishStep
<1> QED BY <1>2, <1>3, <1>4, <1>5, <1>6, <1>7, <1>8

(* The answers to requests. Only a signal makes the answer to a terminate   *)
(* request a 200; whatever a GET of that path asks for does not exist.      *)
LEMMA RequestStep ==
  ASSUME IInv, NEW c \in Clients,
         RefuseMethod(c) \/ ServeState(c) \/ Terminate(c) \/ StartQuery(c) \/ FinishQuery(c)
  PROVE  \E r \in Conn : RecOK(r) /\ Balanced(c, r)
<1>1. /\ client \in [Clients -> Conn] /\ client[c] \in Conn /\ RecOK(client[c])
      /\ slots \in Nat /\ queries \in Nat /\ signals \in Nat
  BY DEF IInv, TypeOK, RecordsOK
<1> DEFINE q == client[c].request
<1>2. ASSUME client[c].phase \in {"reading", "routing"},
             NEW S \in SUBSET Nat, Answer(c, S), 200 \in S => q.path # "terminate"
      PROVE  \E r \in Conn : RecOK(r) /\ Balanced(c, r)
  <2>1. PICK s \in S : client' = [client EXCEPT ![c] = Writing(@, s)]
    BY <1>2 DEF Answer
  <2>2. Balanced(c, Writing(client[c], s))
    BY <1>1, <1>2, <2>1, WritingFacts DEF Answer, Balanced, Slot, Query
  <2> QED BY <1>2, <2>1, <2>2, Answered
<1>3. CASE RefuseMethod(c)
  BY <1>2, <1>3 DEF RefuseMethod
<1>4. CASE ServeState(c)
  <2>1. client[c].phase = "routing"
    BY <1>4 DEF ServeState, Routed
  <2>2. CASE Listing(q)
    <3>1. Answer(c, {200}) /\ q.path # "terminate"
      BY <1>4, <2>2 DEF ServeState, Listing, ById, Metrics, Unrouted, Terminates
    <3> QED BY <1>2, <2>1, <3>1
  <2>3. CASE ~Listing(q) /\ ById(q) /\ ~Terminates(q)
    <3>1. Answer(c, {ByIdStatus(q)})
      BY <1>4, <2>3 DEF ServeState, Listing, ById, Metrics, Unrouted, Terminates
    <3>2. ByIdStatus(q) \in Nat /\ (ByIdStatus(q) = 200 => q.path # "terminate")
      BY DEF ByIdStatus
    <3> QED BY <1>2, <2>1, <3>1, <3>2
  <2>4. CASE ~Listing(q) /\ ~ById(q) /\ Metrics(q)
    <3>1. Answer(c, {MetricsStatus(q)})
      BY <1>4, <2>4 DEF ServeState, Listing, ById, Metrics, Unrouted, Terminates
    <3>2. MetricsStatus(q) \in Nat /\ q.path # "terminate"
      BY <2>4 DEF MetricsStatus, Metrics
    <3> QED BY <1>2, <2>1, <3>1, <3>2
  <2>5. CASE Unrouted(q)
    <3>1. Answer(c, {404})
      BY <1>4, <2>5 DEF ServeState, Unrouted
    <3> QED BY <1>2, <2>1, <3>1
  <2>6. CASE ~Unrouted(q) /\ ~Listing(q) /\ ~(ById(q) /\ ~Terminates(q)) /\ ~Metrics(q)
    <3>1. Answer(c, {})
      BY <1>4, <2>6 DEF ServeState
    <3> QED BY <1>2, <2>1, <3>1
  <2> QED BY <2>2, <2>3, <2>4, <2>5, <2>6 DEF Listing, ById, Metrics, Terminates
<1>5. CASE Terminate(c)
  <2>1. client[c].phase = "routing" /\ Terminates(q)
    BY <1>5 DEF Terminate, Routed
  <2>2. CASE signals' = signals + 1
    <3> DEFINE w == Writing(client[c], 200)
               r == [w EXCEPT !.killed = TRUE]
    <3>1. /\ w \in Conn /\ w.phase = "writing" /\ w.status = 200 /\ w.request = q
      BY <1>1, WritingFacts
    <3>2. client' = [client EXCEPT ![c] = r] /\ UNCHANGED <<slots, queries, envVars>>
      BY <1>1, <1>5, <2>2 DEF Terminate, Answer
    <3> HIDE DEF w
    <3>3. /\ r \in Conn /\ r.phase = "writing" /\ r.status = 200 /\ r.request = q
          /\ r.killed
      BY <3>1 DEF Conn
    <3> HIDE DEF r
    <3>4. RecOK(r)
      BY <1>1, <2>1, <3>3 DEF RecOK, Terminates, Phases
    <3>5. Balanced(c, r)
      BY <1>1, <2>1, <2>2, <3>2, <3>3 DEF Balanced, Slot, Query
    <3> QED BY <3>3, <3>4, <3>5
  <2>3. CASE signals' # signals + 1
    <3>1. Answer(c, {404}) \/ Answer(c, {409}) \/ Answer(c, {409, 500})
      BY <1>5, <2>3 DEF Terminate
    <3> QED BY <1>2, <2>1, <3>1
  <2> QED BY <2>2, <2>3
<1>6. CASE StartQuery(c)
  <2>1. client[c].phase = "routing" /\ AsksHistory(q)
    BY <1>6 DEF StartQuery, Routed
  <2>2. CASE Answer(c, {501}) \/ Answer(c, {503}) \/ Answer(c, {400})
    BY <1>2, <2>1, <2>2
  <2>3. CASE /\ queries # 0 /\ queries' = queries - 1
             /\ client' = [client EXCEPT ![c].phase = "query"]
             /\ UNCHANGED <<slots, signals, envVars>>
    <3> DEFINE r == [client[c] EXCEPT !.phase = "query"]
    <3>1. /\ r \in Conn /\ r.phase = "query" /\ r.request = q
          /\ r.killed = client[c].killed
      BY <1>1 DEF Conn, Phases
    <3>2. client' = [client EXCEPT ![c] = r]
      BY <2>3
    <3> HIDE DEF r
    <3>3. RecOK(r)
      BY <1>1, <2>1, <3>1 DEF RecOK, Phases
    <3>4. queries' \in Nat /\ queries' + 1 = queries + 0
      BY <1>1, <2>3
    <3>5. Slot(r) = Slot(client[c]) /\ Query(r) = 1 /\ Query(client[c]) = 0
      BY <2>1, <3>1 DEF Slot, Query
    <3>6. /\ slots' \in Nat /\ slots' + Slot(r) = slots + Slot(client[c])
          /\ signals' \in Nat /\ UNCHANGED envVars
      BY <1>1, <2>3, <3>5
    <3>7. queries' + Query(r) = queries + Query(client[c])
      BY <3>4, <3>5
    <3>8. Balanced(c, r)
      BY <3>2, <3>4, <3>6, <3>7 DEF Balanced
    <3> QED BY <3>1, <3>3, <3>8
  <2> QED BY <1>6, <2>2, <2>3 DEF StartQuery
<1>7. CASE FinishQuery(c)
  <2>1. client[c].phase = "query" /\ queries' = queries + 1
        /\ UNCHANGED <<slots, signals, envVars>>
    BY <1>7 DEF FinishQuery
  <2>2. PICK s \in {200, 500} : client' = [client EXCEPT ![c] = Writing(@, s)]
    BY <1>7 DEF FinishQuery
  <2>3. q.path # "terminate"
    BY <1>1, <2>1 DEF RecOK, AsksHistory
  <2> DEFINE w == Writing(client[c], s)
  <2>4. client' = [client EXCEPT ![c] = w] /\ w.phase = "writing"
    BY <1>1, <2>2, WritingFacts
  <2> HIDE DEF w
  <2>5. Balanced(c, w)
    BY <1>1, <2>1, <2>4 DEF Balanced, Slot, Query
  <2>6. w \in Conn /\ RecOK(w)
    <3>1. s \in Nat /\ client[c].phase \in {"reading", "routing", "query"}
          /\ (s = 200 => client[c].request.path # "terminate")
      BY <2>1, <2>3
    <3>2. Writing(client[c], s) \in Conn /\ RecOK(Writing(client[c], s))
      BY <3>1, Answered
    <3> QED BY <3>2 DEF w
  <2> QED BY <2>5, <2>6
<1> QED BY <1>3, <1>4, <1>5, <1>6, <1>7

(* The clock only counts the deadlines down.                                *)
LEMMA TickStep == IInv /\ Tick => IInv'
<1> SUFFICES ASSUME IInv, Tick PROVE IInv'
  OBVIOUS
<1> DEFINE ticked(c) == IF Timed(c) THEN [client[c] EXCEPT !.timer = @ - 1] ELSE client[c]
<1>1. /\ client' = [c \in Clients |-> ticked(c)]
      /\ UNCHANGED <<slots, queries, signals, envVars>>
      /\ \A c \in Clients : Timed(c) => client[c].timer > 0
  BY DEF Tick
<1>2. \A c \in Clients : /\ client[c] \in Conn /\ RecOK(client[c])
  BY DEF IInv, TypeOK, RecordsOK
<1>3. ASSUME NEW c \in Clients
      PROVE  /\ ticked(c) \in Conn /\ ticked(c).phase = client[c].phase
             /\ ticked(c).request = client[c].request
             /\ ticked(c).killed = client[c].killed /\ ticked(c).status = client[c].status
  BY <1>1, <1>2 DEF Conn
<1> HIDE DEF ticked
<1>4. TypeOK'
  BY <1>1, <1>3 DEF IInv, TypeOK, envVars
<1>5. RecordsOK'
  BY <1>1, <1>2, <1>3 DEF RecordsOK, RecOK
<1>6. Handled' = Handled /\ Querying' = Querying
  BY <1>1, <1>3 DEF Handled, Querying
<1>7. SlotsAccountedFor'
  BY <1>1, <1>6 DEF IInv, SlotsAccountedFor
<1> QED BY <1>4, <1>5, <1>7 DEF IInv

-----------------------------------------------------------------------------
(* The theorems *)

LEMMA InitOK == Init => IInv
<1> SUFFICES ASSUME Init PROVE IInv
  OBVIOUS
<1>1. client \in [Clients -> Conn] /\ \A c \in Clients : client[c] = Closed
  BY ClosedIsConn DEF Init
<1>2. TypeOK
  BY <1>1, ApiAssumption DEF Init, TypeOK
<1>3. RecordsOK
  BY <1>1, ClosedIsConn DEF RecordsOK, RecOK, Phases
<1>4. Handled = {} /\ Querying = {}
  BY <1>1, ClosedIsConn DEF Handled, Querying
<1>5. SlotsAccountedFor
  BY <1>4, FS_EmptySet, ApiAssumption DEF Init, SlotsAccountedFor
<1> QED BY <1>2, <1>3, <1>5 DEF IInv

LEMMA NextOK == IInv /\ [Next]_vars => IInv'
<1> SUFFICES ASSUME IInv, [Next]_vars PROVE IInv'
  OBVIOUS
<1>1. CASE \E c \in Clients : Connect(c) \/ Send(c) \/ LeaveStream(c) \/ Serve(c)
  <2>1. PICK c \in Clients : Connect(c) \/ Send(c) \/ LeaveStream(c) \/ Serve(c)
    BY <1>1
  <2>2. \E r \in Conn : RecOK(r) /\ Balanced(c, r)
    BY <2>1, ClientStep, ConnectionStep, RequestStep DEF Serve
  <2> QED BY <2>2, BalancedStep
<1>2. CASE Change
  BY <1>2 DEF Change, IInv, TypeOK, RecordsOK, RecOK, SlotsAccountedFor, Handled, Querying
<1>3. CASE UNCHANGED vars
  BY <1>3 DEF vars, IInv, TypeOK, RecordsOK, RecOK, SlotsAccountedFor, Handled, Querying
<1> QED BY <1>1, <1>2, <1>3, TickStep DEF Next

LEMMA Invariant == Spec => []IInv
BY InitOK, NextOK, PTL DEF Spec

(* API_CONNECTION_SLOTS and HISTORY_QUERY_SLOTS: in every state the free    *)
(* permits and the connections, respectively the queries, that hold one add *)
(* up to the limit: none is lost on a way out, none is given back twice.    *)
THEOREM PermitsAccounted == Spec => []SlotsAccountedFor
<1>1. IInv => SlotsAccountedFor
  BY DEF IInv
<1> QED BY <1>1, Invariant, PTL

(* terminate_session: a signal is sent only for a POST on a terminate path, *)
(* and its answer is 200, or does not arrive; no other answer to such a     *)
(* request is a 200.                                                        *)
THEOREM AnswersTellTheTruth == Spec => []TerminateAnswersAreTrue
<1>1. IInv => TerminateAnswersAreTrue
  BY DEF IInv, RecordsOK, RecOK, TerminateAnswersAreTrue
<1> QED BY <1>1, Invariant, PTL

-----------------------------------------------------------------------------
(* The interactive client                                                   *)

(* Until the first sessions are listed there is no selection, and what the  *)
(* operator answers is what was drawn: the prompt does not change between   *)
(* a draw and the key after it, with a refresh in between or without.       *)
UiInv ==
  /\ ~resolved => rows = <<>>
  /\ phase = "poll" \/ (phase \in {"sessions", "detail"} /\ after = "poll") => screen.prompt = pending
  /\ after \in {"poll", "draw"}

LEMMA UiStart == Ui!Init => UiInv
BY DEF Ui!Init, UiInv

LEMMA UiStep == UiInv /\ [Ui!Next]_uiVars => UiInv'
<1> SUFFICES ASSUME UiInv, [Ui!Next]_uiVars
             PROVE  UiInv'
  OBVIOUS
<1> USE DEF UiInv, Ui!Refresh
<1>1. CASE Ui!SessionsAnswer
  <2>1. PICK list \in Ui!Listings :
          /\ rows' = list /\ resolved' = (resolved \/ list # <<>>)
          /\ phase' = IF list = <<>> THEN after ELSE "detail"
    BY <1>1 DEF Ui!SessionsAnswer
  <2>2. phase = "sessions" /\ UNCHANGED <<pending, after, screen>>
    BY <1>1 DEF Ui!SessionsAnswer
  <2> QED BY <2>1, <2>2
<1>2. CASE Ui!SessionsFail
  BY <1>2 DEF Ui!SessionsFail
<1>3. CASE Ui!DetailAnswer
  BY <1>3 DEF Ui!DetailAnswer
<1>4. CASE Ui!Draw
  <2>1. screen'.prompt = pending /\ UNCHANGED <<rows, resolved, pending>> /\ after' = "poll"
    BY <1>4 DEF Ui!Draw
  <2> QED BY <2>1
<1>5. CASE Ui!NoKey
  BY <1>5 DEF Ui!NoKey
<1>6. CASE Ui!ConfirmTerminate
  BY <1>6 DEF Ui!ConfirmTerminate
<1>7. CASE Ui!CancelTerminate
  BY <1>7 DEF Ui!CancelTerminate
<1>8. CASE Ui!ArmTerminate
  BY <1>8 DEF Ui!ArmTerminate
<1>9. CASE Ui!MoveSelection
  BY <1>9 DEF Ui!MoveSelection
<1>10. CASE Ui!Quit
  BY <1>10 DEF Ui!Quit
<1>11. CASE UNCHANGED uiVars
  BY <1>11 DEF uiVars
<1> QED BY <1>1, <1>2, <1>3, <1>4, <1>5, <1>6, <1>7, <1>8, <1>9, <1>10, <1>11 DEF Ui!Next

(* A session that is selected when there has been a listing is found again  *)
(* wherever it went.                                                        *)
LEMMA SelectionFollows ==
  ASSUME UiInv, NEW list, NEW own, Ui!SelectedId # None, Ui!Lists(list, Ui!SelectedId)
  PROVE  list[Ui!NextSelectedIndex(list, Ui!SelectedId, own)] = Ui!SelectedId
<1> DEFINE id == Ui!SelectedId
<1>1. resolved
  BY DEF UiInv, Ui!SelectedId
<1>2. PICK i \in DOMAIN list : list[i] = id
  BY DEF Ui!Lists
<1>3. list[Ui!PositionIn(list, id)] = id
  BY <1>2 DEF Ui!PositionIn
<1>4. list # <<>>
  BY <1>2
<1> HIDE DEF id
<1>5. Ui!NextSelectedIndex(list, id, own) = Ui!PositionIn(list, id)
  BY <1>1, <1>4, Zenon DEF Ui!NextSelectedIndex, id
<1> QED BY <1>3, <1>5 DEF id

LEMMA UiStepKeepsChoice ==
  UiInv /\ [Ui!Next]_uiVars => [Ui!PromptStep /\ Ui!FollowStep]_uiVars
<1> SUFFICES ASSUME UiInv, Ui!Next
             PROVE  Ui!PromptStep /\ Ui!FollowStep
  OBVIOUS
<1>1. CASE Ui!SessionsAnswer
  <2>1. PICK list \in Ui!Listings, own \in {Ui!ResolveCurrent(l, t) : l \in Ui!Listings, t \in TmuxChains} \cup {None} :
          rows' = list /\ selected' = Ui!NextSelectedIndex(list, Ui!SelectedId, own)
    BY <1>1 DEF Ui!SessionsAnswer
  <2>2. posted' = posted
    BY <1>1 DEF Ui!SessionsAnswer
  <2> QED BY <2>1, <2>2, SelectionFollows DEF Ui!PromptStep, Ui!FollowStep
<1>2. CASE Ui!SessionsFail
  <2>1. UNCHANGED <<rows, selected, posted>>
    BY <1>2 DEF Ui!SessionsFail
  <2> QED BY <2>1 DEF Ui!PromptStep, Ui!FollowStep, Ui!SelectedId
<1>3. ASSUME phase # "sessions" PROVE Ui!FollowStep
  BY <1>3 DEF Ui!FollowStep
<1>4. ASSUME posted' \in {posted, None} PROVE Ui!PromptStep
  BY <1>4 DEF Ui!PromptStep
<1>5. CASE Ui!DetailAnswer
  BY <1>3, <1>4, <1>5 DEF Ui!DetailAnswer
<1>6. CASE Ui!Draw
  BY <1>3, <1>4, <1>6 DEF Ui!Draw
<1>7. CASE Ui!NoKey
  BY <1>3, <1>4, <1>7 DEF Ui!NoKey
<1>8. CASE Ui!ConfirmTerminate
  <2>1. posted' = pending /\ screen.prompt = pending
    BY <1>8 DEF Ui!ConfirmTerminate, Ui!RequestTarget, UiInv
  <2> QED BY <1>3, <1>8, <2>1 DEF Ui!ConfirmTerminate, Ui!PromptStep
<1>9. CASE Ui!CancelTerminate
  BY <1>3, <1>4, <1>9 DEF Ui!CancelTerminate
<1>10. CASE Ui!ArmTerminate
  BY <1>3, <1>4, <1>10 DEF Ui!ArmTerminate
<1>11. CASE Ui!MoveSelection
  BY <1>3, <1>4, <1>11 DEF Ui!MoveSelection
<1>12. CASE Ui!Quit
  BY <1>3, <1>4, <1>12 DEF Ui!Quit
<1> QED BY <1>1, <1>2, <1>5, <1>6, <1>7, <1>8, <1>9, <1>10, <1>11, <1>12 DEF Ui!Next

(* Whatever the daemon lists, in whatever order, and whichever requests     *)
(* fail: a confirmed terminate is for the session the prompt on the screen  *)
(* named, and a refresh does not move the selection off a listed session    *)
(* (App::confirm_terminate, next_selected_index).                           *)
THEOREM ChoiceIsKept == Ui!Spec => OperatorsChoiceKept
<1>1. Ui!Spec <=> Ui!Init /\ [][Ui!Next]_uiVars
  BY DEF Ui!Spec, Ui!vars, uiVars
<1> QED BY <1>1, UiStart, UiStep, UiStepKeepsChoice, PTL DEF OperatorsChoiceKept
=============================================================================
