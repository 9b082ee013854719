------------------------ MODULE MetricsEndpointProofs ------------------------
(***************************************************************************)
(* What the metrics listener keeps for any number of connections and slots *)
(* and whatever clients ask: its types, the slot limit, and the token as   *)
(* the way past 401.  Then the format it serves, for any Accept headers,   *)
(* and what a collector can rely on: cumulative series of the session      *)
(* counters, and successes that are confirmed.                             *)
(***************************************************************************)
EXTENDS MetricsEndpoint, FiniteSetTheorems, TLAPS

(* A change of the connections keeps the handlers within the slots if it    *)
(* makes no new one, or makes one while a slot is free.                     *)
LEMMA HandlersShrink ==
  ASSUME Cardinality(Handled) <= Slots, Handled' \subseteq Handled
  PROVE  Cardinality(Handled') <= Slots
<1>1. IsFiniteSet(Handled)
  BY ServerAssumption, FS_Subset DEF ServerAssumption, Handled
<1>2. IsFiniteSet(Handled') /\ Cardinality(Handled') <= Cardinality(Handled)
  BY <1>1, FS_Subset
<1>3. Cardinality(Handled) \in Nat /\ Cardinality(Handled') \in Nat
  BY <1>1, <1>2, FS_CardinalityType
<1> QED BY <1>2, <1>3, ServerAssumption DEF ServerAssumption

LEMMA HandlerAdded ==
  ASSUME NEW c \in Clients, Cardinality(Handled) < Slots, Handled' \subseteq Handled \cup {c}
  PROVE  Cardinality(Handled') <= Slots
<1>1. IsFiniteSet(Handled)
  BY ServerAssumption, FS_Subset DEF ServerAssumption, Handled
<1>2. /\ IsFiniteSet(Handled \cup {c})
      /\ Cardinality(Handled \cup {c}) \in {Cardinality(Handled), Cardinality(Handled) + 1}
  BY <1>1, FS_AddElement
<1>3. IsFiniteSet(Handled') /\ Cardinality(Handled') <= Cardinality(Handled \cup {c})
  BY <1>2, FS_Subset
<1>4. Cardinality(Handled) \in Nat /\ Cardinality(Handled') \in Nat
  BY <1>1, <1>3, FS_CardinalityType
<1> QED BY <1>2, <1>3, <1>4, ServerAssumption DEF ServerAssumption

-----------------------------------------------------------------------------
LEMMA StatusType ==
  ASSUME NEW r \in Request
  PROVE  /\ Status(r) \in {200, 401, 404, 405, 406}
         /\ Status(r) \in {200, 406} => Authorized(r)
<1> USE DEF Status, Authorized, Request
<1>1. CASE r.method # "GET"
  BY <1>1
<1>2. CASE r.method = "GET" /\ r.path # "/metrics"
  BY <1>2
<1>3. CASE r.method = "GET" /\ r.path = "/metrics"
  BY <1>3
<1> QED BY <1>1, <1>2, <1>3

(* The connections, requests, stalls and answers stay in their ranges       *)
(* (metrics.rs, run_metrics_server and handle_metrics_connection).          *)
LEMMA TypeStep == TypeOK /\ [Next]_vars => TypeOK'
<1> SUFFICES ASSUME TypeOK, [Next]_vars PROVE TypeOK'
  OBVIOUS
<1> USE DEF TypeOK, Phases
<1>1. CASE AcceptFails
  BY <1>1 DEF AcceptFails
<1>2. ASSUME NEW c \in Clients, Connect(c) PROVE TypeOK'
  BY <1>2 DEF Connect
<1>3. ASSUME NEW c \in Clients, Stall(c) PROVE TypeOK'
  BY <1>3 DEF Stall
<1>4. ASSUME NEW c \in Clients, Disconnect(c) PROVE TypeOK'
  BY <1>4 DEF Disconnect
<1>5. ASSUME NEW c \in Clients, Accept(c) PROVE TypeOK'
  <2>1. CASE Cardinality(Handled) < Slots
    BY <1>5, <2>1 DEF Accept
  <2>2. CASE ~(Cardinality(Handled) < Slots)
    BY <1>5, <2>2 DEF Accept
  <2> QED BY <2>1, <2>2
<1>6. ASSUME NEW c \in Clients, Refused(c) PROVE TypeOK'
  BY <1>6 DEF Refused
<1>7. ASSUME NEW c \in Clients, ReadRequest(c) PROVE TypeOK'
  <2>1. request[c] \in Request
    BY ServerAssumption DEF ServerAssumption
  <2> QED BY <1>7, <2>1, StatusType DEF ReadRequest
<1>8. ASSUME NEW c \in Clients, ReadFails(c) PROVE TypeOK'
  BY <1>8 DEF ReadFails
<1>9. ASSUME NEW c \in Clients, WriteEnds(c) PROVE TypeOK'
  BY <1>9 DEF WriteEnds
<1>10. CASE UNCHANGED vars
  BY <1>10 DEF vars
<1> QED
  BY <1>1, <1>2, <1>3, <1>4, <1>5, <1>6, <1>7, <1>8, <1>9, <1>10 DEF Next

(* Every reachable state is well typed.                                     *)
THEOREM ServerTypes == Spec => []TypeOK
<1>1. Init => TypeOK
  BY DEF Init, TypeOK, Phases
<1> QED BY <1>1, TypeStep, PTL DEF Spec

-----------------------------------------------------------------------------
(* The slot limit survives every step: only Accept makes a handler, and the *)
(* loop is with the one client it refuses.                                  *)
LEMMA SlotsStep == TypeOK /\ SlotsHold /\ [Next]_vars => SlotsHold'
<1> SUFFICES ASSUME TypeOK, SlotsHold, [Next]_vars PROVE SlotsHold'
  OBVIOUS
<1>0. /\ Cardinality(Handled) <= Slots
      /\ \A c \in Clients : loop = c <=> conn[c] = "refusing"
      /\ "accepting" \notin Clients /\ "ended" \notin Clients
      /\ conn \in [Clients -> Phases]
  BY ServerAssumption DEF SlotsHold, ServerAssumption, TypeOK
<1>1. CASE AcceptFails
  <2>1. Handled' \subseteq Handled
    BY <1>1 DEF AcceptFails, Handled
  <2>2. \A c \in Clients : loop' = c <=> conn'[c] = "refusing"
    BY <1>0, <1>1 DEF AcceptFails
  <2> QED BY <1>0, <2>1, <2>2, HandlersShrink DEF SlotsHold
<1>2. ASSUME NEW c \in Clients, Connect(c) PROVE SlotsHold'
  <2>1. Handled' \subseteq Handled
    BY <1>0, <1>2 DEF Connect, Handled
  <2>2. \A d \in Clients : loop' = d <=> conn'[d] = "refusing"
    BY <1>0, <1>2 DEF Connect
  <2> QED BY <1>0, <2>1, <2>2, HandlersShrink DEF SlotsHold
<1>3. ASSUME NEW c \in Clients, Disconnect(c) \/ ReadFails(c) \/ WriteEnds(c) PROVE SlotsHold'
  <2>1. Handled' \subseteq Handled
    BY <1>0, <1>3 DEF Disconnect, ReadFails, WriteEnds, Handled
  <2>2. \A d \in Clients : loop' = d <=> conn'[d] = "refusing"
    BY <1>0, <1>3 DEF Disconnect, ReadFails, WriteEnds
  <2> QED BY <1>0, <2>1, <2>2, HandlersShrink DEF SlotsHold
<1>4. ASSUME NEW c \in Clients, Accept(c), Cardinality(Handled) < Slots PROVE SlotsHold'
  <2>1. Handled' \subseteq Handled \cup {c}
    BY <1>0, <1>4 DEF Accept, Handled
  <2>2. \A d \in Clients : loop' = d <=> conn'[d] = "refusing"
    BY <1>0, <1>4 DEF Accept
  <2> QED BY <1>4, <2>1, <2>2, HandlerAdded DEF SlotsHold
<1>5. ASSUME NEW c \in Clients, Accept(c), ~(Cardinality(Handled) < Slots) PROVE SlotsHold'
  <2>1. Handled' \subseteq Handled
    BY <1>0, <1>5 DEF Accept, Handled
  <2>2. \A d \in Clients : loop' = d <=> conn'[d] = "refusing"
    BY <1>0, <1>5 DEF Accept
  <2> QED BY <1>0, <2>1, <2>2, HandlersShrink DEF SlotsHold
<1>6. ASSUME NEW c \in Clients, Refused(c) PROVE SlotsHold'
  <2>1. Handled' \subseteq Handled
    BY <1>0, <1>6 DEF Refused, Handled
  <2>2. \A d \in Clients : loop' = d <=> conn'[d] = "refusing"
    BY <1>0, <1>6 DEF Refused
  <2> QED BY <1>0, <2>1, <2>2, HandlersShrink DEF SlotsHold
<1>7. ASSUME NEW c \in Clients, ReadRequest(c) PROVE SlotsHold'
  <2>1. Handled' \subseteq Handled
    BY <1>0, <1>7 DEF ReadRequest, Handled
  <2>2. \A d \in Clients : loop' = d <=> conn'[d] = "refusing"
    BY <1>0, <1>7 DEF ReadRequest
  <2> QED BY <1>0, <2>1, <2>2, HandlersShrink DEF SlotsHold
<1>8. CASE UNCHANGED <<loop, conn>>
  BY <1>0, <1>8 DEF SlotsHold, Handled
<1> QED
  BY <1>1, <1>2, <1>3, <1>4, <1>5, <1>6, <1>7, <1>8 DEF Next, Stall, vars

(* Never more handlers than slots, and the loop is with exactly the client  *)
(* it is refusing (METRICS_CONNECTION_SLOTS in run_metrics_server).         *)
THEOREM SlotLimit == Spec => []SlotsHold
<1>1. Init => SlotsHold
  <2> SUFFICES ASSUME Init PROVE SlotsHold
    OBVIOUS
  <2>1. Handled = {}
    BY DEF Init, Handled
  <2>2. Cardinality(Handled) <= Slots
    BY <2>1, FS_EmptySet, ServerAssumption DEF ServerAssumption
  <2>3. \A c \in Clients : loop = c <=> conn[c] = "refusing"
    BY ServerAssumption DEF Init, ServerAssumption
  <2> QED BY <2>2, <2>3 DEF SlotsHold
<1> QED BY <1>1, SlotsStep, ServerTypes, PTL DEF Spec

-----------------------------------------------------------------------------
(* Only a request with the token is answered with the samples or told that  *)
(* its format is not there (handle_metrics_connection checks the token      *)
(* before it negotiates).                                                   *)
THEOREM TokenFirst == Spec => []OnlyTokenHoldersGetPast401
<1>1. Init => OnlyTokenHoldersGetPast401
  BY DEF Init, OnlyTokenHoldersGetPast401, NoAnswer
<1>2. TypeOK /\ OnlyTokenHoldersGetPast401 /\ [Next]_vars => OnlyTokenHoldersGetPast401'
  <2> SUFFICES ASSUME TypeOK, OnlyTokenHoldersGetPast401, [Next]_vars
               PROVE  OnlyTokenHoldersGetPast401'
    OBVIOUS
  <2>0. answer \in [Clients -> {NoAnswer, 200, 401, 404, 405, 406, 503}]
    BY DEF TypeOK
  <2>1. ASSUME NEW c \in Clients, ReadRequest(c) PROVE OnlyTokenHoldersGetPast401'
    <3>1. request[c] \in Request
      BY ServerAssumption DEF ServerAssumption, TypeOK
    <3> QED BY <2>0, <2>1, <3>1, StatusType DEF ReadRequest, OnlyTokenHoldersGetPast401, Authorized
  <2>2. ASSUME NEW c \in Clients, Accept(c) PROVE OnlyTokenHoldersGetPast401'
    BY <2>0, <2>2 DEF Accept, OnlyTokenHoldersGetPast401
  <2>3. CASE UNCHANGED <<request, answer>>
    BY <2>3 DEF OnlyTokenHoldersGetPast401
  <2> QED
    BY <2>1, <2>2, <2>3
    DEF Next, vars, AcceptFails, Connect, Stall, Disconnect, Refused, ReadFails, WriteEnds
<1> QED BY <1>1, <1>2, ServerTypes, PTL DEF Spec

-----------------------------------------------------------------------------
(* The format served *)

(* The match kept of a format is the best of the items that cover it: none  *)
(* is closer, and none as close has a better quality.                       *)
Match == [quality : Nat, specificity : 0..2]
BestKept(f) ==
  /\ preference[f] \in Headers!Covering(f) \cup {Headers!NoMatch}
  /\ \A m \in Headers!Covering(f) : ~Headers!CandidatePreferred(m, preference[f])
PreferenceOK ==
  /\ items \subseteq Headers!Items
  /\ preference \in [Headers!Formats -> Match \cup {Headers!NoMatch}]
  /\ \A f \in Headers!Formats : BestKept(f)

(* What an item says of a format is a match or nothing                      *)
(* (accept_item_quality).                                                   *)
LEMMA ItemMatchType ==
  ASSUME NEW item \in Headers!Items, NEW f \in Headers!Formats
  PROVE  Headers!ItemMatch(item, f) \in Match \cup {Headers!NoMatch}
<1>1. item.q \in Nat
  BY EndpointAssumption DEF EndpointAssumption, Headers!Items
<1>2. Headers!MediaTypeSpecificity(item.range, f) \in {-1, 0, 1, 2}
  BY DEF Headers!MediaTypeSpecificity, Headers!Formats
<1> QED BY <1>1, <1>2 DEF Headers!ItemMatch, Match

(* Matches are ordered by closeness, then by quality (MergeAcceptMatch).    *)
LEMMA AnyMatchIsBetter ==
  ASSUME NEW m \in Match
  PROVE  m # Headers!NoMatch /\ Headers!CandidatePreferred(m, Headers!NoMatch)
         /\ ~Headers!CandidatePreferred(m, m)
BY DEF Match, Headers!NoMatch, Headers!CandidatePreferred

LEMMA PreferredTransitive ==
  ASSUME NEW a \in Match \cup {Headers!NoMatch}, NEW b \in Match \cup {Headers!NoMatch},
         NEW c \in Match \cup {Headers!NoMatch},
         ~Headers!CandidatePreferred(a, b), ~Headers!CandidatePreferred(b, c)
  PROVE  ~Headers!CandidatePreferred(a, c)
BY DEF Match, Headers!NoMatch, Headers!CandidatePreferred

LEMMA NotBoth ==
  ASSUME NEW a \in Match \cup {Headers!NoMatch}, NEW b \in Match \cup {Headers!NoMatch},
         Headers!CandidatePreferred(a, b)
  PROVE  ~Headers!CandidatePreferred(b, a)
BY DEF Match, Headers!NoMatch, Headers!CandidatePreferred

LEMMA CoveringType ==
  ASSUME PreferenceOK, NEW f \in Headers!Formats
  PROVE  Headers!Covering(f) \subseteq Match
BY ItemMatchType DEF PreferenceOK, Headers!Covering

(* Reading an item keeps the best match (MergeAcceptMatch).                 *)
LEMMA ReadItemStep == PreferenceOK /\ [Headers!Next]_acceptVars => PreferenceOK'
<1> SUFFICES ASSUME PreferenceOK, [Headers!Next]_acceptVars PROVE PreferenceOK'
  OBVIOUS
<1>1. CASE UNCHANGED acceptVars
  BY <1>1 DEF acceptVars, PreferenceOK, BestKept, Headers!Covering
<1>2. CASE Headers!ReadItem
  <2>1. PICK item \in Headers!Items :
          /\ items' = items \cup {item}
          /\ preference' = [f \in Headers!Formats |->
                              Headers!MergeAcceptMatch(preference[f], Headers!ItemMatch(item, f))]
    BY <1>2 DEF Headers!ReadItem
  <2>2. items' \subseteq Headers!Items
    BY <2>1 DEF PreferenceOK
  <2>3. preference' \in [Headers!Formats -> Match \cup {Headers!NoMatch}]
    BY <2>1, ItemMatchType DEF PreferenceOK, Headers!MergeAcceptMatch
  <2>4. ASSUME NEW f \in Headers!Formats PROVE BestKept(f)'
    <3> DEFINE new == Headers!ItemMatch(item, f)
               old == preference[f]
    <3>1. new \in Match \cup {Headers!NoMatch} /\ old \in Match \cup {Headers!NoMatch}
      BY ItemMatchType DEF PreferenceOK
    <3>2. Headers!Covering(f)' = Headers!Covering(f) \cup ({new} \ {Headers!NoMatch})
      BY <2>1 DEF Headers!Covering
    <3>3. preference'[f] = IF Headers!CandidatePreferred(new, old) THEN new ELSE old
      BY <2>1 DEF Headers!MergeAcceptMatch
    <3>4. /\ old \in Headers!Covering(f) \cup {Headers!NoMatch}
          /\ \A m \in Headers!Covering(f) : ~Headers!CandidatePreferred(m, old)
      BY DEF PreferenceOK, BestKept
    <3>5. Headers!Covering(f) \subseteq Match
      BY CoveringType
    <3> HIDE DEF new, old
    <3>6. CASE Headers!CandidatePreferred(new, old)
      <4>1. preference'[f] = new /\ ~Headers!CandidatePreferred(old, new)
        BY <3>1, <3>3, <3>6, NotBoth
      <4>2. \A m \in Headers!Covering(f) : ~Headers!CandidatePreferred(m, new)
        BY <3>1, <3>4, <3>5, <4>1, PreferredTransitive
      <4>3. ~Headers!CandidatePreferred(new, new)
        BY <3>1 DEF Headers!CandidatePreferred, Headers!NoMatch, Match
      <4> QED BY <3>2, <4>1, <4>2, <4>3 DEF BestKept
    <3>7. CASE ~Headers!CandidatePreferred(new, old)
      BY <3>2, <3>3, <3>4, <3>7 DEF BestKept
    <3> QED BY <3>6, <3>7
  <2> QED BY <2>2, <2>3, <2>4 DEF PreferenceOK
<1> QED BY <1>1, <1>2 DEF Headers!Next

(* The client's quality of a format is that of the match kept.              *)
LEMMA KeptIsWhatTheClientSaid ==
  ASSUME PreferenceOK, NEW f \in Headers!Formats
  PROVE  Headers!ClientQuality(f) =
           IF preference[f] = Headers!NoMatch THEN 0 ELSE preference[f].quality
<1> DEFINE covering == Headers!Covering(f)
           closest == {m \in covering : \A n \in covering : n.specificity <= m.specificity}
           best == CHOOSE m \in closest : \A n \in closest : n.quality <= m.quality
           kept == preference[f]
<1>1. Headers!ClientQuality(f) = IF closest = {} THEN 0 ELSE best.quality
  BY DEF Headers!ClientQuality
<1>2. covering \subseteq Match
  BY CoveringType
<1>3. /\ kept \in covering \cup {Headers!NoMatch}
      /\ \A m \in covering : ~Headers!CandidatePreferred(m, kept)
  BY DEF PreferenceOK, BestKept
<1> HIDE DEF covering, kept
<1>4. CASE kept = Headers!NoMatch
  <2>1. covering = {}
    BY <1>2, <1>3, <1>4, AnyMatchIsBetter
  <2> QED BY <1>1, <1>4, <2>1 DEF kept
<1>5. CASE kept # Headers!NoMatch
  <2>1. kept \in covering /\ kept \in Match
    BY <1>2, <1>3, <1>5
  <2>2. \A m \in covering : /\ m.specificity <= kept.specificity
                            /\ m.specificity = kept.specificity => m.quality <= kept.quality
    BY <1>2, <1>3, <2>1 DEF Headers!CandidatePreferred, Match
  <2>3. kept \in closest /\ \A m \in closest : m \in Match /\ m.quality <= kept.quality
    <3>1. kept \in closest
      BY <2>1, <2>2
    <3>2. ASSUME NEW m \in closest PROVE m \in Match /\ m.quality <= kept.quality
      <4>1. m \in covering /\ kept.specificity <= m.specificity
        BY <2>1
      <4>2. m \in Match
        BY <4>1, <1>2
      <4> QED BY <2>1, <2>2, <4>1, <4>2 DEF Match
    <3> QED BY <3>1, <3>2
  <2> HIDE DEF closest
  <2>4. best \in closest /\ \A n \in closest : n.quality <= best.quality
    BY <2>3
  <2>5. best.quality = kept.quality
    BY <2>1, <2>3, <2>4 DEF Match
  <2> QED BY <1>1, <1>5, <2>3, <2>5 DEF kept
<1> QED BY <1>4, <1>5

(* A client that accepts a format is served one, and none it likes less,    *)
(* whatever its Accept headers are and however many items they have         *)
(* (accept_header_preference and requested_metrics_format).                 *)
THEOREM BestFormatServed == Headers!Spec => []BestAcceptableServed
<1>1. Headers!Init => PreferenceOK
  <2> SUFFICES ASSUME Headers!Init PROVE PreferenceOK
    OBVIOUS
  <2>1. \A f \in Headers!Formats : preference[f] = Headers!NoMatch /\ Headers!Covering(f) = {}
    BY DEF Headers!Init, Headers!Covering
  <2> QED BY <2>1 DEF Headers!Init, PreferenceOK, BestKept
<1>2. PreferenceOK => BestAcceptableServed
  <2> SUFFICES ASSUME PreferenceOK, NEW f \in Headers!Formats, Headers!ClientQuality(f) > 0
               PROVE  /\ Headers!RequestedFormat \in Headers!Formats
                      /\ \A g \in Headers!Formats :
                           Headers!ClientQuality(g) <= Headers!ClientQuality(Headers!RequestedFormat)
    BY DEF BestAcceptableServed, Headers!BestAcceptableServed
  <2> DEFINE om == preference["openmetrics"]
             text == preference["prometheus"]
  <2>1. /\ om \in Match \cup {Headers!NoMatch} /\ text \in Match \cup {Headers!NoMatch}
        /\ Headers!ClientQuality("openmetrics") = IF om = Headers!NoMatch THEN 0 ELSE om.quality
        /\ Headers!ClientQuality("prometheus") = IF text = Headers!NoMatch THEN 0 ELSE text.quality
    BY KeptIsWhatTheClientSaid DEF PreferenceOK, Headers!Formats
  <2>2. Headers!ClientQuality("openmetrics") > 0 \/ Headers!ClientQuality("prometheus") > 0
    BY DEF Headers!Formats
  <2>3. Headers!RequestedFormat =
          CASE Headers!PrefersOpenMetrics(preference) -> "openmetrics"
            [] ~Headers!PrefersOpenMetrics(preference) /\ text.quality > 0 -> "prometheus"
            [] ~Headers!PrefersOpenMetrics(preference) /\ text.quality <= 0 ->
                 IF items = {} THEN "prometheus" ELSE "not acceptable"
    BY DEF Headers!RequestedFormat
  <2>4. Headers!PrefersOpenMetrics(preference) <=>
          /\ om # Headers!NoMatch
          /\ IF text = Headers!NoMatch THEN om.quality > 0 ELSE Headers!FinallyPreferred(om, text)
    BY DEF Headers!PrefersOpenMetrics
  <2> HIDE DEF om, text
  <2>5. CASE Headers!PrefersOpenMetrics(preference)
    <3>1. Headers!RequestedFormat = "openmetrics"
      BY <2>3, <2>5
    <3>2. Headers!ClientQuality("prometheus") <= Headers!ClientQuality("openmetrics")
      BY <2>1, <2>4, <2>5 DEF Headers!FinallyPreferred, Match
    <3>3. Headers!ClientQuality("openmetrics") <= Headers!ClientQuality("openmetrics")
      BY <2>1 DEF Match
    <3> QED BY <3>1, <3>2, <3>3 DEF Headers!Formats
  <2>6. CASE ~Headers!PrefersOpenMetrics(preference)
    <3>1. /\ text # Headers!NoMatch /\ text.quality > 0
          /\ Headers!ClientQuality("openmetrics") <= Headers!ClientQuality("prometheus")
      BY <2>1, <2>2, <2>4, <2>6 DEF Headers!FinallyPreferred, Match
    <3>2. Headers!RequestedFormat = "prometheus"
      <4>1. text.quality \in Nat /\ ~(text.quality <= 0)
        BY <2>1, <3>1 DEF Match
      <4> QED BY <2>3, <2>6, <3>1, <4>1
    <3>3. Headers!ClientQuality("prometheus") <= Headers!ClientQuality("prometheus")
      BY <2>1 DEF Match
    <3> QED BY <3>1, <3>2, <3>3 DEF Headers!Formats
  <2> QED BY <2>5, <2>6
<1>3. PreferenceOK /\ [Headers!Next]_(Headers!vars) => PreferenceOK'
  BY ReadItemStep DEF Headers!vars, acceptVars
<1> QED BY <1>1, <1>2, <1>3, PTL DEF Headers!Spec

-----------------------------------------------------------------------------
(* The series of a session counter *)

(* A sample that is not a point of a session counter.                       *)
Plain(x) == "id" \in DOMAIN x /\ x.id \notin Exporter!SessionCounters

LEMMA PlainSample ==
  ASSUME NEW id, id \notin Exporter!SessionCounters, NEW labels, NEW value
  PROVE  Plain(Exporter!Sample(id, labels, value))
BY DEF Plain, Exporter!Sample

LEMMA PlainIdentity ==
  ASSUME NEW tier PROVE \A x \in Exporter!IdentitySamples(tier) : Plain(x)
<1> SUFFICES ASSUME NEW x \in Exporter!IdentitySamples(tier) PROVE Plain(x)
  OBVIOUS
<1>1. PICK labels, value : \/ x = Exporter!Sample("BuildInfo", labels, value)
                           \/ x = Exporter!Sample("ObserverInfo", labels, value)
  BY DEF Exporter!IdentitySamples
<1> QED BY <1>1, PlainSample DEF Exporter!SessionCounters

LEMMA PlainCounts ==
  ASSUME NEW rendered, NEW tier, NEW x \in Exporter!CountSamples(rendered, tier)
  PROVE  Plain(x)
<1>1. CASE \E k \in Exporter!Kinds :
             x = Exporter!Sample("Sessions", [kind |-> k], Exporter!OfKind(k))
  BY <1>1, PlainSample DEF Exporter!SessionCounters
<1>2. CASE \E k \in Exporter!Kinds, h \in Exporter!Healths :
             x = Exporter!Sample("SessionsByHealth", [kind |-> k, health |-> h], Exporter!OfHealth(k, h))
  BY <1>2, PlainSample DEF Exporter!SessionCounters
<1>3. CASE \/ x = Exporter!Sample("MetricsRenderedSessions", Exporter!NoLabels, Exporter!Listed(rendered, tier))
           \/ x = Exporter!Sample("MetricsTruncatedSessions", Exporter!NoLabels, Exporter!LeftOut(rendered, tier))
           \/ x = Exporter!Sample("RuntimeDroppedSessionsTotal", Exporter!NoLabels, 0)
  BY <1>3, PlainSample DEF Exporter!SessionCounters
<1> QED BY <1>1, <1>2, <1>3 DEF Exporter!CountSamples

LEMMA PlainDaemon ==
  ASSUME NEW x \in Exporter!DaemonSamples
  PROVE  Plain(x)
<1>1. CASE x = Exporter!Sample("RuntimeWorkerThreads", Exporter!NoLabels, 2)
  BY <1>1, PlainSample DEF Exporter!SessionCounters
<1>2. CASE \E l \in Exporter!Loops,
             id \in {"RuntimeLoopIntervalMs", "RuntimeLoopLastDurationMs", "RuntimeLoopOverrunsTotal"} :
               x = Exporter!Sample(id, [loop |-> l], 0)
  BY <1>2, PlainSample DEF Exporter!SessionCounters
<1>3. CASE \E id \in {"HistoryCurrentBytes", "HistoryWrittenBytesTotal", "HistoryWriteFailuresTotal",
                      "HistoryPruneFailuresTotal", "HistoryDroppedSamplesTotal"} :
               x = Exporter!Sample(id, Exporter!NoLabels, 0)
  BY <1>3, PlainSample DEF Exporter!SessionCounters
<1>4. CASE \E sev \in {"warn", "critical"},
             id \in {"ThresholdRttMs", "ThresholdRetransmitPct", "ThresholdSilenceMs"} :
               x = Exporter!Sample(id, [severity |-> sev], 0)
  BY <1>4, PlainSample DEF Exporter!SessionCounters
<1> QED BY <1>1, <1>2, <1>3, <1>4 DEF Exporter!DaemonSamples

LEMMA PlainExporter == \A x \in Exporter!ExporterSamples : Plain(x)
<1> SUFFICES ASSUME NEW x \in Exporter!ExporterSamples PROVE Plain(x)
  OBVIOUS
<1>1. PICK id \in {"OtlpExportEnabled", "OtlpExportsTotal", "OtlpExportLastDurationMs",
                   "OtlpExportLastSuccessUnixMs", "OtlpExportLastFailureUnixMs",
                   "OtlpExportLastPayloadBytes"} :
        \E labels, value : x = Exporter!Sample(id, labels, value)
  BY DEF Exporter!ExporterSamples, Exporter!OptionalSample
<1> QED BY <1>1, PlainSample DEF Exporter!SessionCounters

LEMMA PlainGauges ==
  ASSUME NEW s PROVE \A x \in Exporter!SessionGauges(s) \cup Exporter!WindowSamples(s) : Plain(x)
<1> SUFFICES ASSUME NEW x \in Exporter!SessionGauges(s) \cup Exporter!WindowSamples(s) PROVE Plain(x)
  OBVIOUS
<1>1. CASE x \in Exporter!SessionGauges(s)
  <2>1. PICK id \in {"SessionInfo", "SessionHealthLevel", "SessionSrttMs", "SessionRttvarMs",
                     "SessionLastRttMs", "SessionLastHeardAgeMs", "SessionRemoteStateAgeMs",
                     "SessionRetransmitPct10s", "SessionRetransmitPct60s"} :
          \E labels, value : x = Exporter!Sample(id, labels, value)
    BY <1>1 DEF Exporter!SessionGauges
  <2> QED BY <2>1, PlainSample DEF Exporter!SessionCounters
<1>2. CASE x \in Exporter!WindowSamples(s)
  <2>1. PICK id \in {"SessionRetransmitWindowComplete", "SessionRetransmitWindowTransmissions",
                     "SessionRetransmitWindowRetransmits", "SessionRetransmitWindowStateUpdates",
                     "SessionRetransmitWindowEmptyAcks"} :
          \E labels, value : x = Exporter!Sample(id, labels, value)
    BY <1>2 DEF Exporter!WindowSamples
  <2> QED BY <2>1, PlainSample DEF Exporter!SessionCounters
<1> QED BY <1>1, <1>2

-----------------------------------------------------------------------------
(* The value of a session counter, NONE if it is not there.                 *)
Count(s, id) == IF id = "SessionRetransmitsTotal" THEN sessions[s].rt ELSE sessions[s].tx

(* A point of a session counter is the counter as it stands, since its last *)
(* reset (session_counter_sample, encode_otlp_metrics).                     *)
CounterPoint(x, s) ==
  /\ x.id \in Exporter!SessionCounters
  /\ Exporter!SeriesOf(x) = <<x.id, s>>
  /\ Count(s, x.id) # Exporter!NONE
  /\ x.start = Exporter!CounterStart(s) /\ x.value = Count(s, x.id)

LEMMA SessionPoint ==
  ASSUME NEW s, NEW x \in Exporter!SessionSamples(s)
  PROVE  Plain(x) \/ CounterPoint(x, s)
<1>1. CASE x \in Exporter!SessionGauges(s) \cup Exporter!WindowSamples(s)
  BY <1>1, PlainGauges
<1>2. ASSUME NEW id \in Exporter!SessionCounters, NEW total, total = Count(s, id),
             x \in Exporter!CounterSample(s, id, total)
      PROVE  CounterPoint(x, s)
  <2>1. /\ total # Exporter!NONE
        /\ x = [id |-> id, labels |-> Exporter!ValueLabels(s), value |-> total,
                start |-> Exporter!CounterStart(s)]
    BY <1>2 DEF Exporter!CounterSample
  <2>2. Exporter!SeriesOf(x) = <<id, s>>
    BY <2>1 DEF Exporter!SeriesOf, Exporter!ValueLabels
  <2> QED BY <1>2, <2>1, <2>2 DEF CounterPoint
<1>3. \/ x \in Exporter!SessionGauges(s) \cup Exporter!WindowSamples(s)
      \/ x \in Exporter!CounterSample(s, "SessionPacketsTxTotal", sessions[s].tx)
      \/ x \in Exporter!CounterSample(s, "SessionPacketsRxTotal", sessions[s].tx)
      \/ x \in Exporter!CounterSample(s, "SessionRetransmitsTotal", sessions[s].rt)
  BY DEF Exporter!SessionSamples
<1>4. /\ Count(s, "SessionPacketsTxTotal") = sessions[s].tx
      /\ Count(s, "SessionPacketsRxTotal") = sessions[s].tx
      /\ Count(s, "SessionRetransmitsTotal") = sessions[s].rt
  BY DEF Count
<1>5. {"SessionPacketsTxTotal", "SessionPacketsRxTotal", "SessionRetransmitsTotal"}
        \subseteq Exporter!SessionCounters
  BY DEF Exporter!SessionCounters
<1> QED BY <1>1, <1>2, <1>3, <1>4, <1>5

(* Of everything collected, the points of session counters are those of the *)
(* sessions listed (collect_metric_samples).                                *)
LEMMA PointsOfSessions ==
  ASSUME NEW rendered, NEW tier,
         \A s \in rendered : Exporter!CounterStart(s) # Exporter!NONE,
         NEW x \in Exporter!SessionPoints(Exporter!MetricsToOtlp(
                     Exporter!CollectMetricSamples(rendered, tier)))
  PROVE  \E s \in rendered : CounterPoint(x, s)
<1>1. /\ x.id \in Exporter!SessionCounters
      /\ x \in Exporter!MetricsToOtlp(Exporter!CollectMetricSamples(rendered, tier))
  BY DEF Exporter!SessionPoints
<1>2. PICK y \in Exporter!CollectMetricSamples(rendered, tier) :
        \/ x = y
        \/ y.start = Exporter!NONE /\ x = [y EXCEPT !.start = Exporter!ExportStarted]
  BY <1>1 DEF Exporter!MetricsToOtlp
<1>3. CASE Plain(y)
  BY <1>1, <1>2, <1>3 DEF Plain
<1>4. ASSUME NEW s \in rendered, y \in Exporter!SessionSamples(s), ~Plain(y)
      PROVE  CounterPoint(x, s)
  BY <1>2, <1>4, SessionPoint DEF CounterPoint
<1>5. \/ y \in Exporter!IdentitySamples(tier)
      \/ y \in Exporter!CountSamples(rendered, tier)
      \/ y \in Exporter!DaemonSamples \/ y \in Exporter!ExporterSamples
      \/ \E s \in rendered : y \in Exporter!SessionSamples(s)
  BY DEF Exporter!CollectMetricSamples
<1> QED BY <1>3, <1>4, <1>5, PlainIdentity, PlainCounts, PlainDaemon, PlainExporter

-----------------------------------------------------------------------------
(* A session as the export knows it: when it was reset is not after it was  *)
(* seen, and without telemetry nothing is counted.                          *)
Record ==
  [kind : Exporter!Kinds, health : ReportedHealths \cup {"legacy"},
   reset : {Exporter!NONE} \cup Nat, seen : Nat,
   tx : {Exporter!NONE} \cup Nat, rt : {Exporter!NONE} \cup Nat]
Followed(record) ==
  /\ record.reset <= record.seen
  /\ record.kind = "legacy" =>
       record.reset = Exporter!NONE /\ record.tx = Exporter!NONE /\ record.rt = Exporter!NONE
SessionsOK ==
  /\ now \in Nat
  /\ sessions \in [Sids -> {Exporter!Untracked} \cup Record]
  /\ \A s \in Exporter!Live : Followed(sessions[s])

(* A point that the counter of the session can follow: it started before    *)
(* the last reset, or with it and counts no more than the session does.     *)
CanFollow(p, s, id) ==
  /\ p.start \in Nat /\ p.value \in Nat /\ Count(s, id) # Exporter!NONE
  /\ \/ p.start < Exporter!CounterStart(s)
     \/ p.start = Exporter!CounterStart(s) /\ p.value <= Count(s, id)
SentOK ==
  \A k \in DOMAIN sent :
    \E id \in Exporter!SessionCounters, s \in Exporter!Live : k = <<id, s>> /\ CanFollow(sent[k], s, id)
SeriesInv == SessionsOK /\ SentOK

LEMMA LiveRecord ==
  ASSUME SessionsOK, NEW s \in Exporter!Live
  PROVE  /\ s \in Sids /\ sessions[s] \in Record
         /\ Exporter!CounterStart(s) \in Nat /\ Exporter!CounterStart(s) <= sessions[s].seen
         /\ \A id : Count(s, id) \in {Exporter!NONE} \cup Nat
<1>1. s \in Sids /\ sessions[s] \in Record
  BY DEF SessionsOK, Exporter!Live
<1>2. sessions[s].reset \in {Exporter!NONE} \cup Nat /\ sessions[s].seen \in Nat
  BY <1>1 DEF Record
<1>3. sessions[s].reset <= sessions[s].seen
  BY DEF SessionsOK, Followed
<1>4. Exporter!CounterStart(s) \in Nat /\ Exporter!CounterStart(s) <= sessions[s].seen
  BY <1>2, <1>3 DEF Exporter!CounterStart, Exporter!StartedAt, Exporter!NONE
<1>5. \A id : Count(s, id) \in {Exporter!NONE} \cup Nat
  BY <1>1 DEF Count, Record
<1> QED BY <1>1, <1>4, <1>5

(* A step of one session: it gets a sound record or none, and of its series *)
(* those are kept that the new record can follow.                           *)
LEMMA SessionStep ==
  ASSUME SeriesInv, NEW s \in Sids, NEW record, NEW kept \in SUBSET DOMAIN sent,
         now' = now, sessions' = [sessions EXCEPT ![s] = record],
         \/ record = Exporter!Untracked
         \/ record \in Record /\ record # Exporter!Untracked /\ Followed(record),
         DOMAIN sent' = kept, \A k \in kept : sent'[k] = sent[k],
         \A k \in kept : \A id \in Exporter!SessionCounters :
           k = <<id, s>> /\ s \in Exporter!Live /\ CanFollow(sent[k], s, id)
             => s \in Exporter!Live' /\ CanFollow(sent[k], s, id)'
  PROVE  SeriesInv' /\ Exporter!SeriesStep
<1>1. sessions \in [Sids -> {Exporter!Untracked} \cup Record] /\ now \in Nat
  BY DEF SeriesInv, SessionsOK
<1>2. sessions'[s] = record /\ \A r \in Sids \ {s} : sessions'[r] = sessions[r]
  BY <1>1
<1>3. sessions' \in [Sids -> {Exporter!Untracked} \cup Record]
  BY <1>1
<1>4. ASSUME NEW r \in Sids, r # s
      PROVE  sessions'[r] = sessions[r] /\ (r \in Exporter!Live' <=> r \in Exporter!Live)
  BY <1>2, <1>4 DEF Exporter!Live
<1>5. SessionsOK'
  <2>1. ASSUME NEW r \in Exporter!Live' PROVE Followed(sessions'[r])
    <3>1. r \in Sids /\ sessions'[r] # Exporter!Untracked
      BY <2>1 DEF Exporter!Live
    <3>2. CASE r = s
      BY <1>2, <3>1, <3>2
    <3>3. CASE r # s
      BY <1>4, <3>1, <3>3 DEF SeriesInv, SessionsOK
    <3> QED BY <3>2, <3>3
  <2> QED BY <1>1, <1>3, <2>1 DEF SessionsOK, Followed
<1>6. ASSUME NEW k \in DOMAIN sent'
      PROVE  \E id \in Exporter!SessionCounters, r \in Exporter!Live' :
               k = <<id, r>> /\ CanFollow(sent[k], r, id)'
  <2>1. k \in kept /\ k \in DOMAIN sent
    BY <1>6
  <2>2. PICK id \in Exporter!SessionCounters, r \in Exporter!Live : k = <<id, r>> /\ CanFollow(sent[k], r, id)
    BY <2>1 DEF SeriesInv, SentOK
  <2>3. CASE r = s
    BY <2>1, <2>2, <2>3
  <2>4. CASE r # s
    <3>1. r \in Sids
      BY DEF Exporter!Live
    <3>2. sessions'[r] = sessions[r] /\ r \in Exporter!Live'
      BY <1>4, <2>4, <3>1
    <3>3. Count(r, id)' = Count(r, id) /\ Exporter!CounterStart(r)' = Exporter!CounterStart(r)
      BY <3>2 DEF Count, Exporter!CounterStart, Exporter!StartedAt
    <3>4. sent'[k] = sent[k]
      BY <2>1
    <3>5. CanFollow(sent[k], r, id)'
      BY <2>2, <3>3, <3>4 DEF CanFollow
    <3> QED BY <2>2, <3>2, <3>5
  <2> QED BY <2>3, <2>4
<1>7. SeriesInv'
  BY <1>5, <1>6 DEF SeriesInv, SentOK
<1>8. ASSUME NEW k \in DOMAIN sent \cap DOMAIN sent' PROVE Exporter!PointBefore(sent[k], sent'[k])
  <2>1. sent'[k] = sent[k]
    BY <1>8
  <2>2. sent[k].start \in Nat /\ sent[k].value \in Nat
    BY <1>8 DEF SeriesInv, SentOK, CanFollow
  <2> QED BY <2>1, <2>2 DEF Exporter!PointBefore
<1> QED BY <1>7, <1>8 DEF Exporter!SeriesStep

(* Discovery is about a session of which nothing was sent: it has no record *)
(* or one without telemetry.                                                *)
LEMMA DiscoverStep ==
  ASSUME SeriesInv, NEW s \in Sids, Exporter!Discover(s)
  PROVE  SeriesInv' /\ Exporter!SeriesStep
<1> DEFINE record == [Exporter!NewRecord EXCEPT !.seen = now]
<1>1. /\ s \in Exporter!Live => sessions[s].kind = "legacy"
      /\ now' = now /\ sent' = sent /\ sessions' = [sessions EXCEPT ![s] = record]
  BY DEF Exporter!Discover
<1>2. now \in Nat
  BY DEF SeriesInv, SessionsOK
<1>3. record \in Record /\ record # Exporter!Untracked /\ Followed(record)
  BY <1>2 DEF Record, Followed, Exporter!NewRecord, Exporter!Untracked, Exporter!Kinds, Exporter!NONE
<1> HIDE DEF record
<1>5. ASSUME NEW id \in Exporter!SessionCounters, s \in Exporter!Live PROVE Count(s, id) = Exporter!NONE
  BY <1>1, <1>5 DEF SeriesInv, SessionsOK, Followed, Count
<1>6. \A k \in DOMAIN sent : \A id \in Exporter!SessionCounters :
        ~(k = <<id, s>> /\ s \in Exporter!Live /\ CanFollow(sent[k], s, id))
  BY <1>5 DEF CanFollow
<1> QED BY <1>1, <1>3, <1>6, SessionStep

(* A record that is removed takes its series along.                         *)
LEMMA ForgetStep ==
  ASSUME SeriesInv, NEW s \in Sids, Exporter!Forget(s)
  PROVE  SeriesInv' /\ Exporter!SeriesStep
<1> DEFINE kept == DOMAIN sent \ Exporter!SeriesOfSession(s)
<1>1. /\ now' = now /\ sessions' = [sessions EXCEPT ![s] = Exporter!Untracked]
      /\ sent' = [k \in kept |-> sent[k]]
  BY DEF Exporter!Forget, Exporter!Restrict
<1>2. \A k \in kept : \A id : k # <<id, s>>
  BY DEF Exporter!SeriesOfSession
<1>3. kept \in SUBSET DOMAIN sent
  OBVIOUS
<1> HIDE DEF kept
<1> QED BY <1>1, <1>2, <1>3, SessionStep

(* An event that tells a counter moves it on, or moves its start to the     *)
(* time of the event, which is not before any start that was sent.          *)
LEMMA TelemetryStep ==
  ASSUME SeriesInv, NEW s \in Sids, Exporter!Telemetry(s)
  PROVE  SeriesInv' /\ Exporter!SeriesStep
<1> DEFINE old == IF s \in Exporter!Live THEN sessions[s] ELSE Exporter!NewRecord
<1> DEFINE Back(tx, rt) == Exporter!Regressed(old.tx, tx) \/ Exporter!Regressed(old.rt, rt)
<1> DEFINE Updated(h, tx, rt, at) ==
             [kind |-> "instrumented", health |-> h, seen |-> at, tx |-> tx, rt |-> rt,
              reset |-> IF Back(tx, rt) THEN at ELSE old.reset]
<1>1. PICK h \in ReportedHealths, tx \in {Exporter!NONE} \cup (0..MaxCount),
           rt \in {Exporter!NONE} \cup (0..MaxCount), at \in Exporter!EventTimes(old) :
        /\ sessions' = [sessions EXCEPT ![s] = Updated(h, tx, rt, at)]
        /\ sent' = [k \in Exporter!StillFollowed(s, tx, rt, Back(tx, rt), at) |-> sent[k]]
        /\ now' = now
  <2>1. PICK o \in {IF s \in Exporter!Live THEN sessions[s] ELSE Exporter!NewRecord},
             h \in ReportedHealths, tx, rt \in {Exporter!NONE} \cup (0..MaxCount) :
        \E at \in Exporter!EventTimes(o),
           b \in {Exporter!Regressed(o.tx, tx) \/ Exporter!Regressed(o.rt, rt)} :
          /\ sessions' = [sessions EXCEPT ![s] =
               [kind |-> "instrumented", health |-> h, seen |-> at, tx |-> tx, rt |-> rt,
                reset |-> IF b THEN at ELSE o.reset]]
          /\ sent' = [k \in Exporter!StillFollowed(s, tx, rt, b, at) |-> sent[k]]
          /\ UNCHANGED <<now, phase, stats, accepted>>
    BY Zenon DEF Exporter!Telemetry, Exporter!Restrict
  <2>2. o = old
    OBVIOUS
  <2>3. PICK at \in Exporter!EventTimes(old) :
          /\ sessions' = [sessions EXCEPT ![s] = Updated(h, tx, rt, at)]
          /\ sent' = [k \in Exporter!StillFollowed(s, tx, rt, Back(tx, rt), at) |-> sent[k]]
          /\ now' = now
    BY <2>1, <2>2
  <2> QED BY <2>3
<1>2. /\ tx \in {Exporter!NONE} \cup Nat /\ rt \in {Exporter!NONE} \cup Nat
      /\ now \in Nat
  BY EndpointAssumption DEF EndpointAssumption, SeriesInv, SessionsOK
<1>3. /\ old.reset \in {Exporter!NONE} \cup Nat /\ old.seen \in Nat /\ old.reset <= old.seen
      /\ old.tx \in {Exporter!NONE} \cup Nat /\ old.rt \in {Exporter!NONE} \cup Nat
  <2>1. CASE s \in Exporter!Live
    BY <2>1, LiveRecord DEF SeriesInv, SessionsOK, Followed, Record
  <2>2. CASE s \notin Exporter!Live
    BY <2>2 DEF Exporter!NewRecord, Exporter!NONE
  <2> QED BY <2>1, <2>2
<1>4. s \in Exporter!Live => old = sessions[s]
  OBVIOUS
<1> HIDE DEF old
<1>5. at \in Nat /\ at >= old.seen
  BY <1>2, <1>3 DEF Exporter!EventTimes
<1> DEFINE record == Updated(h, tx, rt, at)
<1> DEFINE back == Back(tx, rt)
<1>6. /\ record.seen = at /\ record.tx = tx /\ record.rt = rt /\ record.kind = "instrumented"
      /\ record.health = h /\ record.reset = IF back THEN at ELSE old.reset
  OBVIOUS
<1>7. record \in Record
  BY <1>2, <1>3, <1>5 DEF Record, Exporter!Kinds
<1>8. record # Exporter!Untracked
  BY DEF Exporter!Untracked
<1>9. Followed(record)
  <2>1. record.reset <= record.seen
    BY <1>3, <1>5, <1>6 DEF Exporter!NONE
  <2> QED BY <1>6, <2>1 DEF Followed
<1> DEFINE kept == Exporter!StillFollowed(s, tx, rt, Back(tx, rt), at)
<1>10. kept \in SUBSET DOMAIN sent
  BY DEF Exporter!StillFollowed
<1>11. ASSUME NEW k \in kept, NEW id \in Exporter!SessionCounters, k = <<id, s>>,
              s \in Exporter!Live, CanFollow(sent[k], s, id)
       PROVE  s \in Exporter!Live' /\ CanFollow(sent[k], s, id)'
  <2>1. sessions'[s] = record
    BY <1>1 DEF SeriesInv, SessionsOK
  <2>2. s \in Exporter!Live'
    BY <1>8, <2>1 DEF Exporter!Live
  <2>3. k[1] = id /\ k[2] = s
    BY <1>11
  <2>4. /\ (IF id = "SessionRetransmitsTotal" THEN rt ELSE tx) # Exporter!NONE
        /\ back => sent[k].start # at
        /\ sent'[k] = sent[k]
    BY <1>1, <1>11, <2>3 DEF Exporter!StillFollowed
  <2>5. /\ Count(s, id) = IF id = "SessionRetransmitsTotal" THEN old.rt ELSE old.tx
        /\ Count(s, id)' = IF id = "SessionRetransmitsTotal" THEN rt ELSE tx
    BY <1>4, <1>6, <1>11, <2>1 DEF Count
  <2>6. Count(s, id)' \in Nat /\ Count(s, id)' # Exporter!NONE
    BY <1>2, <2>3, <2>4, <2>5
  <2>7. /\ sent[k].start \in Nat /\ sent[k].value \in Nat /\ Count(s, id) # Exporter!NONE
        /\ \/ sent[k].start < Exporter!CounterStart(s)
           \/ sent[k].start = Exporter!CounterStart(s) /\ sent[k].value <= Count(s, id)
    BY <1>11 DEF CanFollow
  <2>8. /\ Exporter!CounterStart(s) \in Nat /\ Exporter!CounterStart(s) <= old.seen
        /\ Exporter!CounterStart(s) = IF old.reset = Exporter!NONE THEN 0 ELSE old.reset
    BY <1>4, <1>11, LiveRecord DEF SeriesInv, Exporter!CounterStart, Exporter!StartedAt
  <2>9. Exporter!CounterStart(s)' = IF record.reset = Exporter!NONE THEN 0 ELSE record.reset
    BY <2>1 DEF Exporter!CounterStart, Exporter!StartedAt
  <2> HIDE DEF record, back, kept
  <2>10. CASE back
    <3>1. Exporter!CounterStart(s)' = at
      BY <1>5, <1>6, <2>9, <2>10 DEF Exporter!NONE
    <3>2. sent[k].start < at
      BY <1>3, <1>5, <2>4, <2>7, <2>8, <2>10
    <3> QED BY <2>2, <2>4, <2>6, <2>7, <3>1, <3>2 DEF CanFollow
  <2>11. CASE ~back
    <3>1. Exporter!CounterStart(s)' = Exporter!CounterStart(s)
      BY <1>6, <2>8, <2>9, <2>11
    <3>2. Count(s, id) <= Count(s, id)'
      BY <1>2, <1>3, <2>5, <2>6, <2>7, <2>11 DEF Exporter!Regressed, Exporter!NONE, back
    <3>3. Count(s, id) \in Nat
      BY <1>3, <2>5, <2>7
    <3>4. \/ sent[k].start < Exporter!CounterStart(s)'
          \/ sent[k].start = Exporter!CounterStart(s)' /\ sent[k].value <= Count(s, id)'
      BY <2>6, <2>7, <3>1, <3>2, <3>3
    <3> QED BY <2>2, <2>4, <2>6, <2>7, <3>4 DEF CanFollow
  <2> QED BY <2>10, <2>11
<1>12. sessions' = [sessions EXCEPT ![s] = record] /\ sent' = [k \in kept |-> sent[k]] /\ now' = now
  BY <1>1
<1> HIDE DEF record, kept
<1> QED BY <1>7, <1>8, <1>9, <1>10, <1>11, <1>12, SessionStep

(* A request sends each counter as it stands, which follows what was sent.  *)
LEMMA GatherStep ==
  ASSUME SeriesInv, Exporter!Gather
  PROVE  SeriesInv' /\ Exporter!SeriesStep
<1>1. PICK points \in {Exporter!SessionPoints(Exporter!MetricsToOtlp(
                         Exporter!CollectMetricSamples(r, OtlpTier))) : r \in Exporter!RenderedSets} :
        LET series == {Exporter!SeriesOf(x) : x \in points}
        IN sent' = [k \in series \cup DOMAIN sent |->
                      IF k \in series
                      THEN Exporter!PointOf(CHOOSE x \in points : Exporter!SeriesOf(x) = k) ELSE sent[k]]
  BY DEF Exporter!Gather
<1> DEFINE series == {Exporter!SeriesOf(x) : x \in points}
<1>2. sent' = [k \in series \cup DOMAIN sent |->
                 IF k \in series
                 THEN Exporter!PointOf(CHOOSE x \in points : Exporter!SeriesOf(x) = k) ELSE sent[k]]
  BY <1>1
<1>3. PICK rendered \in SUBSET Exporter!Live :
        points = Exporter!SessionPoints(Exporter!MetricsToOtlp(
                   Exporter!CollectMetricSamples(rendered, OtlpTier)))
  BY DEF Exporter!RenderedSets, Exporter!kSubset
<1>4. now' = now /\ sessions' = sessions
  BY DEF Exporter!Gather
<1>5. ASSUME NEW x \in points
      PROVE  \E s \in rendered : CounterPoint(x, s)
  <2>1. \A s \in rendered : Exporter!CounterStart(s) # Exporter!NONE
    BY <1>3, LiveRecord DEF SeriesInv, Exporter!NONE
  <2> QED BY <1>3, <2>1, PointsOfSessions
<1>6. ASSUME NEW k \in series
      PROVE  \E id \in Exporter!SessionCounters, s \in Exporter!Live :
               /\ k = <<id, s>>
               /\ sent'[k].start = Exporter!CounterStart(s) /\ sent'[k].value = Count(s, id)
               /\ Count(s, id) # Exporter!NONE
  <2> DEFINE x == CHOOSE y \in points : Exporter!SeriesOf(y) = k
  <2>1. x \in points /\ Exporter!SeriesOf(x) = k
    OBVIOUS
  <2>2. sent'[k] = Exporter!PointOf(x)
    BY <1>2
  <2> HIDE DEF x
  <2>3. PICK s \in rendered : CounterPoint(x, s)
    BY <1>5, <2>1
  <2> QED BY <1>3, <2>1, <2>2, <2>3 DEF CounterPoint, Exporter!PointOf
<1>7. ASSUME NEW k \in DOMAIN sent, k \notin series PROVE sent'[k] = sent[k]
  BY <1>2, <1>7
<1>8. DOMAIN sent' = series \cup DOMAIN sent
  BY <1>2
<1> HIDE DEF series
<1>9. ASSUME NEW k \in DOMAIN sent'
      PROVE  \E id \in Exporter!SessionCounters, s \in Exporter!Live :
               k = <<id, s>> /\ CanFollow(sent'[k], s, id)
  <2>1. CASE k \in series
    <3>1. PICK id \in Exporter!SessionCounters, s \in Exporter!Live :
            /\ k = <<id, s>>
            /\ sent'[k].start = Exporter!CounterStart(s) /\ sent'[k].value = Count(s, id)
            /\ Count(s, id) # Exporter!NONE
      BY <1>6, <2>1
    <3>2. /\ Exporter!CounterStart(s) \in Nat /\ Count(s, id) \in {Exporter!NONE} \cup Nat
      BY LiveRecord DEF SeriesInv
    <3>3. CanFollow(sent'[k], s, id)
      BY <3>1, <3>2 DEF CanFollow
    <3> QED BY <3>1, <3>3
  <2>2. CASE k \notin series
    BY <1>7, <1>8, <1>9, <2>2 DEF SeriesInv, SentOK
  <2> QED BY <2>1, <2>2
<1>10. SeriesInv'
  <2>1. SessionsOK'
    BY <1>4 DEF SeriesInv, SessionsOK, Exporter!Live
  <2>2. ASSUME NEW k \in DOMAIN sent'
        PROVE  \E id \in Exporter!SessionCounters, s \in Exporter!Live' :
                 k = <<id, s>> /\ CanFollow(sent[k], s, id)'
    <3>1. PICK id \in Exporter!SessionCounters, s \in Exporter!Live :
            k = <<id, s>> /\ CanFollow(sent'[k], s, id)
      BY <1>9, <2>2
    <3>2. CanFollow(sent[k], s, id)' /\ s \in Exporter!Live'
      BY <1>4, <3>1 DEF CanFollow, Exporter!Live, Count, Exporter!CounterStart, Exporter!StartedAt
    <3> QED BY <3>1, <3>2
  <2> QED BY <2>1, <2>2 DEF SeriesInv, SentOK
<1>11. ASSUME NEW k \in DOMAIN sent PROVE Exporter!PointBefore(sent[k], sent'[k])
  <2>1. PICK id \in Exporter!SessionCounters, s \in Exporter!Live : k = <<id, s>> /\ CanFollow(sent[k], s, id)
    BY <1>11 DEF SeriesInv, SentOK
  <2>2. CASE k \in series
    <3>1. sent'[k].start = Exporter!CounterStart(s) /\ sent'[k].value = Count(s, id)
      BY <1>6, <2>1, <2>2
    <3> QED BY <2>1, <3>1 DEF CanFollow, Exporter!PointBefore
  <2>3. CASE k \notin series
    BY <1>7, <1>11, <2>1, <2>3 DEF CanFollow, Exporter!PointBefore
  <2> QED BY <2>2, <2>3
<1> QED BY <1>10, <1>11 DEF Exporter!SeriesStep

LEMMA SeriesInvStep ==
  ASSUME SeriesInv, [Exporter!Next]_exportVars
  PROVE  SeriesInv' /\ Exporter!SeriesStep
<1>1. ASSUME sent' = sent PROVE Exporter!SeriesStep
  <2> SUFFICES ASSUME NEW k \in DOMAIN sent PROVE Exporter!PointBefore(sent[k], sent[k])
    BY <1>1 DEF Exporter!SeriesStep
  <2> QED BY DEF SeriesInv, SentOK, CanFollow, Exporter!PointBefore
<1>2. ASSUME now' \in Nat, sessions' = sessions, sent' = sent PROVE SeriesInv'
  <2>1. SessionsOK'
    BY <1>2 DEF SeriesInv, SessionsOK, Exporter!Live, Followed
  <2>2. SentOK'
    BY <1>2 DEF SeriesInv, SentOK, CanFollow, Exporter!Live, Count, Exporter!CounterStart, Exporter!StartedAt
  <2> QED BY <2>1, <2>2 DEF SeriesInv
<1>3. CASE Exporter!Tock
  BY <1>1, <1>2, <1>3, EndpointAssumption DEF EndpointAssumption, Exporter!Tock
<1>4. CASE Exporter!Gather
  BY <1>4, GatherStep
<1>5. CASE Exporter!HandleResponse \/ UNCHANGED exportVars
  BY <1>1, <1>2, <1>5 DEF Exporter!HandleResponse, exportVars, SeriesInv, SessionsOK
<1>6. ASSUME NEW s \in Sids, Exporter!Discover(s) PROVE SeriesInv' /\ Exporter!SeriesStep
  BY <1>6, DiscoverStep
<1>7. ASSUME NEW s \in Sids, Exporter!Telemetry(s) PROVE SeriesInv' /\ Exporter!SeriesStep
  BY <1>7, TelemetryStep
<1>8. ASSUME NEW s \in Sids, Exporter!Forget(s) PROVE SeriesInv' /\ Exporter!SeriesStep
  BY <1>8, ForgetStep
<1> QED BY <1>3, <1>4, <1>5, <1>6, <1>7, <1>8 DEF Exporter!Next

(* The points of a session counter are one cumulative series for a          *)
(* collector: a later one starts later or counts at least as much           *)
(* (encode_otlp_metrics, session_counter_start_unix_ms), for any number of  *)
(* sessions, of which any are forgotten and tracked anew, resets, clock     *)
(* steps, failed requests and cycles that leave the session out.  It is a   *)
(* new series once the record was removed, an event did not tell the        *)
(* counter, or the counter was reset in the millisecond it counted from.    *)
THEOREM PointsAreCumulative == Exporter!Spec => SeriesStayCumulative
<1>1. Exporter!Init => SeriesInv
  <2> SUFFICES ASSUME Exporter!Init PROVE SeriesInv
    OBVIOUS
  <2>1. Exporter!Live = {} /\ DOMAIN sent = {}
    BY DEF Exporter!Init, Exporter!Live
  <2> QED BY <2>1 DEF Exporter!Init, SeriesInv, SessionsOK, SentOK
<1>2. SeriesInv /\ [Exporter!Next]_exportVars => SeriesInv' /\ Exporter!SeriesStep
  BY SeriesInvStep
<1>3. Exporter!Spec <=> Exporter!Init /\ [][Exporter!Next]_exportVars
  BY DEF Exporter!Spec, Exporter!vars, exportVars
<1>4. SeriesStayCumulative <=> [][Exporter!SeriesStep]_exportVars
  BY DEF SeriesStayCumulative
<1> QED BY <1>1, <1>2, <1>3, <1>4, PTL

(* A success of the exporter is a request of which the collector took every *)
(* point (handle_otlp_response), whatever collectors answer.                *)
THEOREM SuccessMeansTaken == Exporter!Spec => []Exporter!SuccessIsConfirmed
<1> DEFINE Inv == /\ accepted \in Nat /\ stats.success \in Nat /\ "success" \in DOMAIN stats
                  /\ stats.success <= accepted
<1>1. Exporter!Init => Inv
  BY DEF Exporter!Init, Exporter!NoStats
<1>2. Inv /\ [Exporter!Next]_exportVars => Inv'
  <2> SUFFICES ASSUME Inv, [Exporter!Next]_exportVars PROVE Inv'
    OBVIOUS
  <2>1. CASE Exporter!HandleResponse
    <3>1. PICK outcome \in CollectorDoes, took \in BOOLEAN :
            /\ stats' = IF Exporter!ExportFails(outcome) THEN Exporter!RecordFailure ELSE Exporter!RecordSuccess
            /\ took \in Exporter!MayHaveAccepted(outcome)
            /\ accepted' = accepted + IF took THEN 1 ELSE 0
      BY <2>1 DEF Exporter!HandleResponse, Exporter!MayHaveAccepted
    <3>2. CASE Exporter!ExportFails(outcome)
      <4>1. stats'.success = stats.success /\ "success" \in DOMAIN stats'
        BY <3>1, <3>2 DEF Exporter!RecordFailure
      <4> QED BY <3>1, <4>1
    <3>3. CASE ~Exporter!ExportFails(outcome)
      <4>1. took
        BY <3>1, <3>3 DEF Exporter!ExportFails, Exporter!MayHaveAccepted
      <4>2. stats'.success = stats.success + 1 /\ "success" \in DOMAIN stats'
        BY <3>1, <3>3 DEF Exporter!RecordSuccess
      <4> QED BY <3>1, <4>1, <4>2
    <3> QED BY <3>2, <3>3
  <2>2. CASE UNCHANGED <<stats, accepted>>
    BY <2>2
  <2>3. ASSUME NEW s \in Sids, Exporter!Telemetry(s) PROVE UNCHANGED <<stats, accepted>>
    BY <2>3 DEF Exporter!Telemetry
  <2>4. ASSUME Exporter!Tock \/ Exporter!Gather PROVE UNCHANGED <<stats, accepted>>
    BY <2>4 DEF Exporter!Tock, Exporter!Gather
  <2>5. ASSUME NEW s \in Sids, Exporter!Discover(s) \/ Exporter!Forget(s) PROVE UNCHANGED <<stats, accepted>>
    BY <2>5 DEF Exporter!Discover, Exporter!Forget
  <2>6. UNCHANGED exportVars => UNCHANGED <<stats, accepted>>
    BY DEF exportVars
  <2> QED BY <2>1, <2>2, <2>3, <2>4, <2>5, <2>6 DEF Exporter!Next
<1>3. Inv => Exporter!SuccessIsConfirmed
  BY DEF Exporter!SuccessIsConfirmed
<1>4. Exporter!Spec <=> Exporter!Init /\ [][Exporter!Next]_exportVars
  BY DEF Exporter!Spec, Exporter!vars, exportVars
<1> QED BY <1>1, <1>2, <1>3, <1>4, PTL
=============================================================================
