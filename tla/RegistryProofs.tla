--------------------------- MODULE RegistryProofs ---------------------------
(***************************************************************************)
(* Proofs about Registry for every set of processes, every cap, every      *)
(* grace period and every event: the type invariant, the cap, one record   *)
(* per process, no record fresher than the clock, the eviction order; then *)
(* what each record keeps of its client and of its counters, and what a    *)
(* step may never do.                                                      *)
(***************************************************************************)
EXTENDS Registry, FiniteSetTheorems, SequenceTheorems, TLAPS

-----------------------------------------------------------------------------
(* Facts about naturals and indices *)

(* A nonempty set of naturals has a least element. *)
LEMMA LeastNatural ==
  ASSUME NEW T \in SUBSET Nat, T # {}
  PROVE  \E m \in T : \A k \in T : m <= k
<1>1. PICK m \in T : \A k \in T : ~(<<k, m>> \in OpToRel(<, Nat))
  BY NatLessThanWellFounded, WFMin
<1>2. \A k \in T : ~(k < m)
  BY <1>1 DEF OpToRel
<1> QED BY <1>2

(* A nonempty set of indices has a greatest element. *)
LEMMA GreatestIndex ==
  ASSUME NEW n \in Nat, NEW T \in SUBSET (1..n), T # {}
  PROVE  \E m \in T : \A k \in T : k <= m
<1> DEFINE U == {d \in Nat : \E k \in T : d = n - k}
<1>1. \A k \in T : n - k \in U
  OBVIOUS
<1>2. U \in SUBSET Nat /\ U # {}
  BY <1>1
<1>3. PICK d \in U : \A e \in U : d <= e
  BY <1>2, LeastNatural
<1>4. PICK m \in T : d = n - m
  OBVIOUS
<1> QED BY <1>1, <1>3, <1>4

-----------------------------------------------------------------------------
(* Facts about sequences *)

(* Upsert keeps a sequence well typed and ends it with the new point. *)
LEMMA UpsertType ==
  ASSUME NEW S, NEW s \in Seq(S), NEW pt \in S
  PROVE  /\ Upsert(s, pt) \in Seq(S)
         /\ Upsert(s, pt) # <<>>
         /\ Last(Upsert(s, pt)) = pt
<1>1. CASE s # <<>> /\ Last(s).unix_ms = pt.unix_ms
  <2>1. Upsert(s, pt) = [s EXCEPT ![Len(s)] = pt]
    BY <1>1 DEF Upsert
  <2>2. Len(s) \in 1..Len(s)
    BY <1>1, EmptySeq
  <2> QED BY <2>1, <2>2, ExceptSeq DEF Last
<1>2. CASE ~(s # <<>> /\ Last(s).unix_ms = pt.unix_ms)
  <2>1. Upsert(s, pt) = Append(s, pt)
    BY <1>2 DEF Upsert
  <2> QED BY <2>1, AppendProperties DEF Last
<1> QED BY <1>1, <1>2

(* TrimHistory drops a prefix: what stays is a suffix of the sequence, all  *)
(* of it at most HistoryMs older than its newest entry if times increase.   *)
LEMMA TrimIsSuffix ==
  ASSUME NEW S, \A x \in S : x.unix_ms \in Nat,
         NEW s \in Seq(S), s # <<>>
  PROVE  \E f \in 1..Len(s) :
           /\ TrimHistory(s) = SubSeq(s, f, Len(s))
           /\ s[f].unix_ms >= Last(s).unix_ms - HistoryMs
           /\ \A j \in 1..(f - 1) : s[j].unix_ms < Last(s).unix_ms - HistoryMs
<1> DEFINE cutoff == Last(s).unix_ms - HistoryMs
           T == {i \in 1..Len(s) : s[i].unix_ms >= cutoff}
           Good(i) == /\ s[i].unix_ms >= cutoff
                      /\ \A j \in 1..(i - 1) : s[j].unix_ms < cutoff
<1>1. Len(s) \in Nat \ {0} /\ \A i \in 1..Len(s) : s[i].unix_ms \in Nat
  BY EmptySeq, ElementOfSeq
<1>2. cutoff \in Int /\ Len(s) \in T
  BY <1>1, RecordAssumption DEF Last
<1>3. PICK f \in T : \A k \in T : f <= k
  <2>1. T \in SUBSET Nat /\ T # {}
    BY <1>2
  <2> QED BY <2>1, LeastNatural
<1>4. f \in 1..Len(s) /\ Good(f)
  BY <1>1, <1>2, <1>3
<1> HIDE DEF Good
<1>5. PICK g \in 1..Len(s) : g = (CHOOSE i \in 1..Len(s) : Good(i)) /\ Good(g)
  BY <1>4
<1>6. TrimHistory(s) = SubSeq(s, g, Len(s))
  BY <1>5 DEF TrimHistory, Good
<1> QED BY <1>5, <1>6 DEF Good

LEMMA TrimType ==
  ASSUME NEW S, \A x \in S : x.unix_ms \in Nat,
         NEW s \in Seq(S), s # <<>>
  PROVE  TrimHistory(s) \in Seq(S) /\ TrimHistory(s) # <<>>
<1>1. PICK f \in 1..Len(s) : TrimHistory(s) = SubSeq(s, f, Len(s))
  BY TrimIsSuffix
<1>2. \A i \in f..Len(s) : s[i] \in S
  BY ElementOfSeq
<1>3. Len(s) \in Nat /\ f \in Int /\ f <= Len(s)
  BY LenProperties
<1>4. SubSeq(s, f, Len(s)) \in Seq(S) /\ Len(SubSeq(s, f, Len(s))) = Len(s) - f + 1
  BY <1>2, <1>3, SubSeqProperties
<1>5. Len(SubSeq(s, f, Len(s))) # 0
  BY <1>3, <1>4
<1>6. Len(<<>>) = 0
  OBVIOUS
<1> QED BY <1>1, <1>4, <1>5, <1>6

(* The look-back computation returns a well-formed window. *)
LEMMA RetransmitPctType ==
  ASSUME NEW s \in Seq(CounterSample), s # <<>>, NEW window \in Nat
  PROVE  RetransmitPct(s, window) \in Window
<1> DEFINE B == Baselines(s, window)
           Newest(i) == \A j \in B : j <= i
<1>1. \A v, w \in Nat : SaturatingSub(v, w) \in Nat
  BY DEF SaturatingSub
<1>2. \A v \in OptNat : OrZero(v) \in Nat
  BY DEF OrZero, OptNat
<1>3. NoWindow(TRUE) \in Window /\ NoWindow(FALSE) \in Window
  BY DEF NoWindow, Window, OptNat
<1>4. CASE B = {}
  BY <1>3, <1>4 DEF RetransmitPct
<1>5. CASE B # {}
  <2>1. Len(s) \in Nat /\ B \in SUBSET (1..Len(s))
    BY LenProperties DEF Baselines
  <2>2. \E i \in B : Newest(i)
    BY <1>5, <2>1, GreatestIndex
  <2> DEFINE base == CHOOSE i \in B : Newest(i)
             old == s[base].totals
             new == Last(s).totals
  <2>3. base \in 1..Len(s)
    BY <2>1, <2>2
  <2>4. Len(s) \in 1..Len(s)
    BY EmptySeq
  <2>5. s[base] \in CounterSample /\ Last(s) \in CounterSample
    BY <2>3, <2>4, ElementOfSeq DEF Last
  <2>6. \A c \in CounterNames : old[c] \in OptNat /\ new[c] \in OptNat
    BY <2>5 DEF CounterSample, Totals
  <2> HIDE DEF base, old, new
  <2>7. \A c \in {"state_updates_tx", "retransmits", "empty_acks_tx"} : c \in CounterNames
    BY DEF CounterNames
  <2> DEFINE missing == \E c \in {"state_updates_tx", "retransmits"} :
                          old[c] = NONE \/ new[c] = NONE
             full == [complete |-> TRUE,
                      updates |-> SaturatingSub(new["state_updates_tx"],
                                                old["state_updates_tx"]),
                      retransmits |-> SaturatingSub(new["retransmits"],
                                                    old["retransmits"]),
                      empty_acks |-> SaturatingSub(OrZero(new["empty_acks_tx"]),
                                                   OrZero(old["empty_acks_tx"]))]
  <2>8. RetransmitPct(s, window) = IF missing THEN NoWindow(TRUE) ELSE full
    BY <1>5 DEF RetransmitPct, base, old, new
  <2>9. CASE missing
    BY <1>3, <2>8, <2>9
  <2>10. CASE ~missing
    <3>1. /\ new["state_updates_tx"] \in Nat /\ old["state_updates_tx"] \in Nat
          /\ new["retransmits"] \in Nat /\ old["retransmits"] \in Nat
      BY <2>6, <2>7, <2>10 DEF OptNat
    <3>2. /\ OrZero(new["empty_acks_tx"]) \in Nat
          /\ OrZero(old["empty_acks_tx"]) \in Nat
      BY <1>2, <2>6, <2>7
    <3>3. full \in Window
      BY <1>1, <3>1, <3>2 DEF Window, OptNat
    <3> QED BY <2>8, <2>10, <3>3
  <2> QED BY <2>9, <2>10
<1> QED BY <1>4, <1>5

(* Recording the endpoint of an event keeps the peer well typed. *)
LEMMA ApplyClientPeerType ==
  ASSUME NEW peer \in Peer, NEW addr \in OptAddr, NEW at \in Nat
  PROVE  ApplyClientPeer(peer, addr, at) \in Peer
<1>1. CASE addr = NONE
  BY <1>1 DEF ApplyClientPeer, Peer, OptAddr
<1>2. CASE addr # NONE
  BY <1>2 DEF ApplyClientPeer, Peer, OptAddr, OptNat
<1> QED BY <1>1, <1>2

(* A normalised event time is a natural: never before the last observation  *)
(* and never after both the clock and the last observation.                 *)
LEMMA NormalizeBounds ==
  ASSUME NEW rec, rec.last_observed \in Nat, NEW t \in Nat, NEW received \in Nat
  PROVE  /\ NormalizeEventMs(rec, t, received) \in Nat
         /\ NormalizeEventMs(rec, t, received) >= rec.last_observed
         /\ \/ NormalizeEventMs(rec, t, received) <= received
            \/ NormalizeEventMs(rec, t, received) = rec.last_observed
BY DEF NormalizeEventMs, Earlier, Later

LEMMA NewRecordType ==
  ASSUME NEW kind \in {"legacy", "instrumented"}, NEW t \in Nat
  PROVE  NewRecord(kind, t) \in Record
<1>1. NoTotals \in Totals
  BY DEF NoTotals, Totals, OptNat
<1>2. DefaultPeer \in Peer /\ NoWindow(FALSE) \in Window
  BY DEF DefaultPeer, Peer, NoWindow, Window, OptNat, OptAddr
<1>3. <<>> \in Seq(MetricPoint) /\ <<>> \in Seq(CounterSample)
  OBVIOUS
<1> QED BY <1>1, <1>2, <1>3 DEF NewRecord, Record, OptNat

(* Applying an event to a record gives a well-formed instrumented record.   *)
LEMMA ApplyEventType ==
  ASSUME NEW rec \in Record, NEW ev \in Event, NEW received \in Nat
  PROVE  /\ ApplyEvent(rec, ev, received) \in Record
         /\ ApplyEvent(rec, ev, received).kind = "instrumented"
         /\ ApplyEvent(rec, ev, received).last_observed
              = NormalizeEventMs(rec, ev.unix_ms, received)
<1> DEFINE at == NormalizeEventMs(rec, ev.unix_ms, received)
           peer == ApplyClientPeer(rec.peer, ev.addr, at)
           pt == [unix_ms |-> at, addr |-> peer.current]
           sample == [unix_ms |-> at, totals |-> ev.totals]
           h == Upsert(Kept(rec.history, rec, ev, at), pt)
           c == Upsert(Kept(rec.counters, rec, ev, at), sample)
           reset == IF MetricsRegressed(rec.totals, ev.totals)
                      THEN at ELSE rec.counter_reset
<1>1. at \in Nat
  BY NormalizeBounds DEF Record, Event
<1>2. peer \in Peer
  BY <1>1, ApplyClientPeerType DEF Record, Event
<1>3. pt \in MetricPoint /\ sample \in CounterSample
  BY <1>1, <1>2 DEF MetricPoint, CounterSample, Peer, Event
<1>4. /\ Kept(rec.history, rec, ev, at) \in Seq(MetricPoint)
      /\ Kept(rec.counters, rec, ev, at) \in Seq(CounterSample)
  BY DEF Kept, Record
<1>5. h \in Seq(MetricPoint) /\ h # <<>> /\ c \in Seq(CounterSample) /\ c # <<>>
  BY <1>3, <1>4, UpsertType
<1>6. /\ TrimHistory(h) \in Seq(MetricPoint)
      /\ TrimHistory(c) \in Seq(CounterSample) /\ TrimHistory(c) # <<>>
  <2>1. \A x \in MetricPoint : x.unix_ms \in Nat
    BY DEF MetricPoint
  <2>2. \A x \in CounterSample : x.unix_ms \in Nat
    BY DEF CounterSample
  <2> QED BY <1>5, <2>1, <2>2, TrimType
<1>7. /\ RetransmitPct(TrimHistory(c), ShortMs) \in Window
      /\ RetransmitPct(TrimHistory(c), LongMs) \in Window
  BY <1>6, RetransmitPctType, RecordAssumption
<1>8. ShutdownAfter(ev) \in BOOLEAN
  BY DEF ShutdownAfter, SessionShutdown, Event
<1>9. reset \in OptNat
  BY <1>1 DEF Record, OptNat
<1>10. ApplyEvent(rec, ev, received) =
         [kind |-> "instrumented", last_observed |-> at,
          shutdown |-> ShutdownAfter(ev), counter_reset |-> reset,
          totals |-> ev.totals, peer |-> peer,
          history |-> TrimHistory(h), counters |-> TrimHistory(c),
          window_short |-> RetransmitPct(TrimHistory(c), ShortMs),
          window_long |-> RetransmitPct(TrimHistory(c), LongMs)]
  BY DEF ApplyEvent
<1>11. ev.totals \in Totals
  BY DEF Event
<1> HIDE DEF at, peer, pt, sample, h, c, reset
<1>12. ApplyEvent(rec, ev, received) \in Record
  BY <1>1, <1>2, <1>6, <1>7, <1>8, <1>9, <1>10, <1>11 DEF Record
<1> QED BY <1>10, <1>12 DEF at

-----------------------------------------------------------------------------
(* The cap *)

(* What every map the two operations build satisfies.                       *)
WellFormed(ss) ==
  /\ DOMAIN ss \subseteq SessionIds
  /\ \A i \in DOMAIN ss : ss[i] \in Record /\ ss[i].kind = i[1]

LEMMA ProcsFinite == IsFiniteSet(SessionIds)
<1>1. IsFiniteSet({"instrumented", "legacy"})
  <2>1. IsFiniteSet({"instrumented"})
    BY FS_Singleton
  <2>2. IsFiniteSet({"instrumented"} \cup {"legacy"})
    BY <2>1, FS_AddElement
  <2>3. {"instrumented", "legacy"} = {"instrumented"} \cup {"legacy"}
    OBVIOUS
  <2> QED BY <2>2, <2>3
<1> QED BY <1>1, RegistryAssumption, FS_Product DEF SessionIds

(* The eviction order is a strict total order on the records of a map.      *)
LEMMA EvictionOrder ==
  ASSUME NEW ss, WellFormed(ss)
  PROVE  /\ \A i, j \in DOMAIN ss : i # j =>
               EvictedBefore(ss, i, j) \/ EvictedBefore(ss, j, i)
         /\ \A i, j \in DOMAIN ss :
               ~(EvictedBefore(ss, i, j) /\ EvictedBefore(ss, j, i))
         /\ \A i, j, k \in DOMAIN ss :
               EvictedBefore(ss, i, j) /\ EvictedBefore(ss, j, k) =>
                 EvictedBefore(ss, i, k)
<1>1. \A i \in DOMAIN ss : /\ EvictionClass(ss[i]) \in 0..2
                           /\ EvictionClass(ss[i]) = 0 <=> i[1] = "legacy"
                           /\ ss[i].last_observed \in Nat
                           /\ i[2] \in Nat
                           /\ i[1] \in {"instrumented", "legacy"}
                           /\ i = <<i[1], i[2]>>
  <2> SUFFICES ASSUME NEW i \in DOMAIN ss
               PROVE  /\ EvictionClass(ss[i]) \in 0..2
                      /\ EvictionClass(ss[i]) = 0 <=> i[1] = "legacy"
                      /\ ss[i].last_observed \in Nat
                      /\ i[2] \in Nat
                      /\ i[1] \in {"instrumented", "legacy"}
                      /\ i = <<i[1], i[2]>>
    OBVIOUS
  <2>1. i \in SessionIds /\ ss[i] \in Record /\ ss[i].kind = i[1]
    BY DEF WellFormed
  <2>2. /\ i[1] \in {"instrumented", "legacy"} /\ i[2] \in Procs
        /\ i = <<i[1], i[2]>>
    BY <2>1 DEF SessionIds
  <2>3. ss[i].last_observed \in Nat
    BY <2>1 DEF Record
  <2>4. /\ EvictionClass(ss[i]) \in 0..2
        /\ EvictionClass(ss[i]) = 0 <=> i[1] = "legacy"
    BY <2>1, <2>2 DEF EvictionClass
  <2> QED BY <2>2, <2>3, <2>4, RegistryAssumption
<1>2. \A i, j \in DOMAIN ss : i # j =>
        EvictedBefore(ss, i, j) \/ EvictedBefore(ss, j, i)
  <2> SUFFICES ASSUME NEW i \in DOMAIN ss, NEW j \in DOMAIN ss,
                      ~EvictedBefore(ss, i, j), ~EvictedBefore(ss, j, i)
               PROVE  i = j
    OBVIOUS
  <2>1. EvictionClass(ss[i]) = EvictionClass(ss[j]) /\ i[2] = j[2]
    BY <1>1 DEF EvictedBefore
  <2>2. i[1] = j[1]
    <3>1. /\ EvictionClass(ss[i]) # 0 => i[1] = "instrumented"
          /\ EvictionClass(ss[j]) # 0 => j[1] = "instrumented"
      BY <1>1, RegistryAssumption DEF WellFormed, SessionIds, EvictionClass, Record
    <3>2. /\ EvictionClass(ss[i]) = 0 => i[1] = "legacy"
          /\ EvictionClass(ss[j]) = 0 => j[1] = "legacy"
      BY <1>1
    <3> QED BY <2>1, <3>1, <3>2
  <2> QED BY <1>1, <2>1, <2>2
<1>3. \A i, j \in DOMAIN ss :
        ~(EvictedBefore(ss, i, j) /\ EvictedBefore(ss, j, i))
  BY <1>1 DEF EvictedBefore
<1>4. \A i, j, k \in DOMAIN ss :
        EvictedBefore(ss, i, j) /\ EvictedBefore(ss, j, k) =>
          EvictedBefore(ss, i, k)
  BY <1>1 DEF EvictedBefore
<1> QED BY <1>2, <1>3, <1>4

(* Every nonempty set of records has one that is evicted before the others. *)
LEMMA WorstExists ==
  ASSUME NEW ss, WellFormed(ss), NEW S \in SUBSET (DOMAIN ss), S # {}
  PROVE  \E w \in S : \A j \in S \ {w} : EvictedBefore(ss, w, j)
<1> DEFINE Before(i) == {j \in S : EvictedBefore(ss, j, i)}
           Counts == {Cardinality(Before(i)) : i \in S}
<1>1. IsFiniteSet(S)
  BY ProcsFinite, FS_Subset DEF WellFormed
<1>2. \A i \in S : IsFiniteSet(Before(i)) /\ Cardinality(Before(i)) \in Nat
  BY <1>1, FS_Subset, FS_CardinalityType
<1>3. Counts \in SUBSET Nat /\ Counts # {}
  BY <1>2
<1>4. PICK n \in Counts : \A m \in Counts : n <= m
  BY <1>3, LeastNatural
<1>5. PICK w \in S : n = Cardinality(Before(w))
  OBVIOUS
<1>6. ASSUME NEW j \in S, EvictedBefore(ss, j, w) PROVE FALSE
  <2>1. Before(j) \subseteq Before(w) /\ j \in Before(w) /\ j \notin Before(j)
    BY <1>6, EvictionOrder
  <2>2. Cardinality(Before(j)) < Cardinality(Before(w))
    <3> HIDE DEF Before
    <3>1. Before(j) \in SUBSET Before(w) /\ Before(j) # Before(w)
      BY <2>1
    <3>2. /\ Cardinality(Before(j)) <= Cardinality(Before(w))
          /\ Cardinality(Before(j)) # Cardinality(Before(w))
      BY <1>2, <3>1, FS_Subset
    <3> QED BY <1>2, <3>2
  <2>3. n <= Cardinality(Before(j))
    BY <1>4
  <2> QED BY <1>2, <1>5, <2>2, <2>3
<1> QED BY <1>6, EvictionOrder

(* What enforce_session_cap leaves is within the cap, and nothing that it   *)
(* evicts would have outlived anything that it keeps.                       *)
LEMMA CapEnforced ==
  ASSUME NEW ss, WellFormed(ss)
  PROVE  /\ Cardinality(Survivors(ss)) <= MaxTracked
         /\ Cardinality(Survivors(ss)) <= Cardinality(DOMAIN ss)
         /\ Cardinality(Survivors(ss)) \in Nat /\ Cardinality(DOMAIN ss) \in Nat
         /\ \A e \in DOMAIN ss \ Survivors(ss), k \in Survivors(ss) :
              EvictedBefore(ss, e, k)
<1>1. IsFiniteSet(DOMAIN ss) /\ Cardinality(DOMAIN ss) \in Nat
  BY ProcsFinite, FS_Subset, FS_CardinalityType DEF WellFormed
<1> DEFINE S == Survivors(ss)
<1>2. S \in SUBSET (DOMAIN ss)
  BY DEF Survivors
<1>3. /\ IsFiniteSet(S) /\ Cardinality(S) \in Nat
      /\ Cardinality(S) <= Cardinality(DOMAIN ss)
  BY <1>1, <1>2, FS_Subset, FS_CardinalityType
<1>4. \A i \in DOMAIN ss : IsFiniteSet(Above(ss, i)) /\ Cardinality(Above(ss, i)) \in Nat
  BY <1>1, FS_Subset, FS_CardinalityType DEF Above
<1>5. Cardinality(S) <= MaxTracked
  <2>1. CASE S = {}
    BY <2>1, FS_EmptySet, RegistryAssumption
  <2>2. CASE S # {}
    <3>1. PICK w \in S : \A j \in S \ {w} : EvictedBefore(ss, w, j)
      BY <1>2, <2>2, WorstExists
    <3>2. S \ {w} \in SUBSET Above(ss, w)
      BY <1>2, <3>1 DEF Above
    <3>3. Cardinality(S \ {w}) = Cardinality(S) - 1
      BY <1>3, FS_RemoveElement
    <3>4. Cardinality(S \ {w}) <= Cardinality(Above(ss, w))
      BY <1>2, <1>4, <3>2, FS_Subset
    <3>5. Cardinality(Above(ss, w)) < MaxTracked
      BY DEF Survivors
    <3>6. w \in DOMAIN ss
      BY <1>2
    <3> QED BY <1>3, <1>4, <3>3, <3>4, <3>5, <3>6, RegistryAssumption
  <2> QED BY <2>1, <2>2
<1>6. ASSUME NEW e \in DOMAIN ss \ S, NEW k \in S PROVE EvictedBefore(ss, e, k)
  <2> SUFFICES ASSUME ~EvictedBefore(ss, e, k) PROVE FALSE
    OBVIOUS
  <2>1. k \in DOMAIN ss /\ e # k
    BY <1>2
  <2>2. EvictedBefore(ss, k, e)
    BY <2>1, EvictionOrder
  <2>3. Above(ss, e) \in SUBSET Above(ss, k)
    BY <2>1, <2>2, EvictionOrder DEF Above
  <2>4. Cardinality(Above(ss, e)) <= Cardinality(Above(ss, k))
    BY <1>4, <2>1, <2>3, FS_Subset
  <2>5. Cardinality(Above(ss, k)) < MaxTracked /\ ~(Cardinality(Above(ss, e)) < MaxTracked)
    BY DEF Survivors
  <2> QED BY <1>4, <2>1, <2>4, <2>5, RegistryAssumption
<1> QED BY <1>1, <1>3, <1>5, <1>6

-----------------------------------------------------------------------------
(* The invariant *)

(* The conjunction is inductive: the eviction order is total only if the    *)
(* kinds agree with the ids, and one record per process needs the types.    *)
IndInv == TypeOK /\ WithinCap /\ OneRecordPerProcess /\ NotFresherThanClock

(* The part of IndInv that the intermediate maps of an operation keep.      *)
MapOK(ss) ==
  /\ WellFormed(ss)
  /\ \A p \in Procs : ~(Instrumented(p) \in DOMAIN ss /\ Legacy(p) \in DOMAIN ss)
  /\ \A i \in DOMAIN ss : ss[i].last_observed <= peak

LEMMA IdFacts ==
  ASSUME NEW p \in Procs
  PROVE  /\ Instrumented(p) \in SessionIds /\ Instrumented(p)[1] = "instrumented"
         /\ Legacy(p) \in SessionIds /\ Legacy(p)[1] = "legacy"
         /\ Instrumented(p)[2] = p /\ Legacy(p)[2] = p
         /\ \A q \in Procs : /\ Instrumented(p) # Legacy(q)
                             /\ Instrumented(p) = Instrumented(q) => p = q
                             /\ Legacy(p) = Legacy(q) => p = q
BY DEF Instrumented, Legacy, SessionIds

LEMMA EventsAreEvents == Events \subseteq Event
<1>1. TotalsInputs \subseteq Totals /\ CloseFlags \subseteq BOOLEAN \cup {NONE}
      /\ 0..(MaxNow + 1) \subseteq Nat
  BY RegistryAssumption
<1> SUFFICES ASSUME NEW ev \in Events PROVE ev \in Event
  OBVIOUS
<1>2. CASE ev \in [unix_ms: 0..(MaxNow + 1), close: {FALSE},
                  shutdown: BOOLEAN \cup {NONE}, addr: OptAddr, totals: TotalsInputs]
  BY <1>1, <1>2 DEF Event
<1>3. CASE ev \in [unix_ms: 0..(MaxNow + 1), close: {TRUE},
                  shutdown: CloseFlags, addr: OptAddr, totals: TotalsInputs]
  BY <1>1, <1>3 DEF Event
<1> QED BY <1>2, <1>3 DEF Events

LEMMA MapOKHolds == IndInv => MapOK(sessions)
BY DEF IndInv, TypeOK, OneRecordPerProcess, NotFresherThanClock, MapOK, WellFormed, Tracked

(* Enforcing the cap on such a map re-establishes the invariant.            *)
LEMMA CapStep ==
  ASSUME IndInv, NEW ss, MapOK(ss),
         sessions' = EnforceSessionCap(ss),
         dropped' = SaturatingAdd(dropped, Evicted(ss)),
         UNCHANGED <<now, peak>>
  PROVE  IndInv'
<1>1. Tracked' = Survivors(ss) /\ Survivors(ss) \subseteq DOMAIN ss
      /\ \A i \in Survivors(ss) : sessions'[i] = ss[i]
  BY DEF Tracked, EnforceSessionCap, Survivors
<1>2. WithinCap'
  BY <1>1, CapEnforced DEF MapOK, WithinCap
<1>3. dropped' \in 0..MaxDropped
  <2>1. Evicted(ss) \in Nat
    BY CapEnforced DEF MapOK, Evicted
  <2> QED BY <2>1, RegistryAssumption DEF SaturatingAdd, Earlier, IndInv, TypeOK
<1>4. TypeOK'
  BY <1>1, <1>3 DEF TypeOK, IndInv, MapOK, WellFormed
<1>5. OneRecordPerProcess'
  BY <1>1 DEF OneRecordPerProcess, MapOK, WellFormed
<1>6. NotFresherThanClock'
  BY <1>1 DEF NotFresherThanClock, MapOK
<1> QED BY <1>2, <1>4, <1>5, <1>6 DEF IndInv

(* The handoff keeps one record per process and leaves no placeholder.      *)
LEMMA UpgradeOK ==
  ASSUME NEW ss, MapOK(ss), NEW p \in Procs
  PROVE  MapOK(Upgrade(ss, p)) /\ Legacy(p) \notin DOMAIN Upgrade(ss, p)
<1> DEFINE up == [i \in (DOMAIN ss \ {Legacy(p)}) \cup {Instrumented(p)} |->
                    IF i = Instrumented(p)
                      THEN [ss[Legacy(p)] EXCEPT !.kind = "instrumented"]
                      ELSE ss[i]]
<1>1. CASE Instrumented(p) \notin DOMAIN ss /\ Legacy(p) \in DOMAIN ss
  <2>1. Upgrade(ss, p) = up
    BY <1>1 DEF Upgrade
  <2>2. /\ up[Instrumented(p)] \in Record
        /\ up[Instrumented(p)].kind = "instrumented"
        /\ up[Instrumented(p)].last_observed <= peak
    <3> DEFINE old == ss[Legacy(p)]
    <3>1. up[Instrumented(p)] = [old EXCEPT !.kind = "instrumented"]
      OBVIOUS
    <3>2. old \in Record /\ old.last_observed <= peak
      BY <1>1 DEF MapOK, WellFormed
    <3> HIDE DEF old, up
    <3>3. /\ [old EXCEPT !.kind = "instrumented"] \in Record
          /\ [old EXCEPT !.kind = "instrumented"].kind = "instrumented"
          /\ [old EXCEPT !.kind = "instrumented"].last_observed = old.last_observed
      BY <3>2 DEF Record
    <3> QED BY <3>1, <3>2, <3>3
  <2>3. WellFormed(up)
    BY <2>2, IdFacts DEF MapOK, WellFormed
  <2>4. \A i \in DOMAIN up : up[i].last_observed <= peak
    BY <2>2 DEF MapOK
  <2>5. \A q \in Procs : ~(Instrumented(q) \in DOMAIN up /\ Legacy(q) \in DOMAIN up)
    BY <1>1, IdFacts DEF MapOK
  <2>6. Legacy(p) \notin DOMAIN up
    BY IdFacts
  <2> QED BY <2>1, <2>3, <2>4, <2>5, <2>6 DEF MapOK
<1>2. CASE ~(Instrumented(p) \notin DOMAIN ss /\ Legacy(p) \in DOMAIN ss)
  <2>1. Upgrade(ss, p) = ss
    BY <1>2 DEF Upgrade
  <2> QED BY <1>2, <2>1 DEF MapOK
<1> QED BY <1>1, <1>2

(* Inserting or updating the instrumented record keeps the map well formed. *)
LEMMA AdmitOK ==
  ASSUME NEW ss, MapOK(ss), NEW p \in Procs, Legacy(p) \notin DOMAIN ss,
         NEW ev \in Events, now \in Nat, peak \in Nat, now <= peak
  PROVE  MapOK(Admit(ss, p, ev))
<1> DEFINE rec == IF Instrumented(p) \in DOMAIN ss THEN ss[Instrumented(p)]
                  ELSE NewRecord("instrumented", Earlier(ev.unix_ms, now))
           out == Admit(ss, p, ev)
<1>1. ev \in Event /\ ev.unix_ms \in Nat
  BY EventsAreEvents DEF Event
<1>2. Earlier(ev.unix_ms, now) \in Nat /\ Earlier(ev.unix_ms, now) <= now
  BY <1>1 DEF Earlier
<1>3. rec \in Record /\ rec.last_observed \in Nat /\ rec.last_observed <= peak
  <2>1. CASE Instrumented(p) \in DOMAIN ss
    BY <2>1 DEF MapOK, WellFormed, Record
  <2>2. CASE Instrumented(p) \notin DOMAIN ss
    <3>1. NewRecord("instrumented", Earlier(ev.unix_ms, now)) \in Record
      BY <1>2, NewRecordType
    <3>2. NewRecord("instrumented", Earlier(ev.unix_ms, now)).last_observed
            = Earlier(ev.unix_ms, now)
      BY DEF NewRecord
    <3> QED BY <1>2, <2>2, <3>1, <3>2
  <2> QED BY <2>1, <2>2
<1> HIDE DEF rec
<1> DEFINE new == ApplyEvent(rec, ev, now)
<1>4. new \in Record /\ new.kind = "instrumented" /\ new.last_observed <= peak
  <2>1. /\ new \in Record /\ new.kind = "instrumented"
        /\ new.last_observed = NormalizeEventMs(rec, ev.unix_ms, now)
    BY <1>1, <1>3, ApplyEventType
  <2>2. /\ NormalizeEventMs(rec, ev.unix_ms, now) \in Nat
        /\ \/ NormalizeEventMs(rec, ev.unix_ms, now) <= now
           \/ NormalizeEventMs(rec, ev.unix_ms, now) = rec.last_observed
    BY <1>1, <1>3, NormalizeBounds
  <2> QED BY <1>3, <2>1, <2>2
<1>5. DOMAIN out = DOMAIN ss \cup {Instrumented(p)}
  BY DEF Admit
<1>6. out[Instrumented(p)] = new
  BY DEF Admit, rec
<1>7. \A i \in DOMAIN ss : i # Instrumented(p) => out[i] = ss[i]
  BY DEF Admit
<1> HIDE DEF new, out
<1>8. WellFormed(out)
  BY <1>4, <1>5, <1>6, <1>7, IdFacts DEF MapOK, WellFormed
<1>9. \A i \in DOMAIN out : out[i].last_observed <= peak
  BY <1>4, <1>5, <1>6, <1>7 DEF MapOK
<1>10. \A q \in Procs : ~(Instrumented(q) \in DOMAIN out /\ Legacy(q) \in DOMAIN out)
  BY <1>5, IdFacts DEF MapOK
<1> QED BY <1>8, <1>9, <1>10 DEF MapOK, out

(* What discovery makes of the map: every record it keeps was tracked, or   *)
(* is a new placeholder of a process without telemetry.                     *)
LEMMA RetainedOK ==
  ASSUME MapOK(sessions), now \in Nat, peak \in Nat, now <= peak,
         NEW found \in SUBSET Procs
  PROVE  MapOK(Retained(found))
<1> DEFINE ref == Refreshed(found)
           ret == Retained(found)
<1>1. DOMAIN ref = Tracked \cup SeenIds(found)
  BY DEF Refreshed
<1>2. \A i \in SeenIds(found) : i \notin Tracked =>
        \E p \in Procs : i = Legacy(p) /\ Instrumented(p) \notin Tracked
  BY DEF SeenIds, SeenId
<1>3. \A i \in DOMAIN ref : /\ ref[i] \in Record
                           /\ ref[i].kind = i[1]
                           /\ ref[i].last_observed <= peak
  <2> SUFFICES ASSUME NEW i \in DOMAIN ref
               PROVE  /\ ref[i] \in Record
                      /\ ref[i].kind = i[1]
                      /\ ref[i].last_observed <= peak
    OBVIOUS
  <2> DEFINE base == IF i \in Tracked THEN sessions[i] ELSE NewRecord("legacy", now)
  <2>1. base \in Record /\ base.kind = i[1] /\ base.last_observed <= peak
    <3>1. CASE i \in Tracked
      BY <3>1 DEF MapOK, WellFormed, Tracked
    <3>2. CASE i \notin Tracked
      <4>1. i[1] = "legacy"
        BY <1>1, <1>2, <3>2, IdFacts
      <4>2. NewRecord("legacy", now) \in Record
        BY NewRecordType
      <4>3. /\ NewRecord("legacy", now).kind = "legacy"
            /\ NewRecord("legacy", now).last_observed = now
        BY DEF NewRecord
      <4> QED BY <3>2, <4>1, <4>2, <4>3
    <3> QED BY <3>1, <3>2
  <2>2. ref[i] = IF i \in SeenIds(found) THEN Observe(base) ELSE base
    BY <1>1 DEF Refreshed
  <2> HIDE DEF base, ref
  <2>3. /\ Observe(base) \in Record /\ Observe(base).kind = i[1]
        /\ Observe(base).last_observed <= peak
    <3>1. CASE base.kind = "legacy"
      <4>1. Observe(base) = [base EXCEPT !.last_observed = now]
        BY <3>1 DEF Observe
      <4>2. /\ [base EXCEPT !.last_observed = now] \in Record
            /\ [base EXCEPT !.last_observed = now].kind = base.kind
            /\ [base EXCEPT !.last_observed = now].last_observed = now
        BY <2>1 DEF Record
      <4> QED BY <2>1, <4>1, <4>2
    <3>2. CASE base.kind # "legacy"
      BY <2>1, <3>2 DEF Observe
    <3> QED BY <3>1, <3>2
  <2> QED BY <2>1, <2>2, <2>3
<1>4. DOMAIN ret \subseteq DOMAIN ref /\ \A i \in DOMAIN ret : ret[i] = ref[i]
  BY DEF Retained
<1>5. DOMAIN ref \subseteq SessionIds
  BY <1>1, <1>2, IdFacts DEF MapOK, WellFormed, Tracked
<1>6. \A p \in Procs : ~(Instrumented(p) \in DOMAIN ref /\ Legacy(p) \in DOMAIN ref)
  <2> SUFFICES ASSUME NEW p \in Procs, Instrumented(p) \in DOMAIN ref,
                      Legacy(p) \in DOMAIN ref
               PROVE  FALSE
    OBVIOUS
  <2>1. Instrumented(p) \in Tracked
    BY <1>1, <1>2, IdFacts
  <2>2. Legacy(p) \in Tracked
    BY <1>1, <1>2, <2>1, IdFacts
  <2> QED BY <2>1, <2>2 DEF MapOK, Tracked
<1> QED BY <1>3, <1>4, <1>5, <1>6 DEF MapOK, WellFormed

(* One step of the daemon or of its clock preserves the invariant. *)
LEMMA NextPreserves == IndInv /\ [Next]_vars => IndInv'
<1> SUFFICES ASSUME IndInv, [Next]_vars PROVE IndInv'
  OBVIOUS
<1>1. MapOK(sessions)
  BY MapOKHolds
<1>2. now \in Nat /\ peak \in Nat /\ now <= peak /\ peak <= MaxNow /\ dropped \in 0..MaxDropped
  BY RegistryAssumption DEF IndInv, TypeOK
<1>3. ASSUME NEW p \in Procs, NEW ev \in Events, RejectTelemetry(p, ev)
      PROVE  IndInv'
  <2>1. dropped' \in 0..MaxDropped
    BY <1>2, <1>3, RegistryAssumption DEF RejectTelemetry, SaturatingAdd, Earlier
  <2> QED BY <1>3, <2>1 DEF RejectTelemetry, IndInv, TypeOK, WithinCap,
            OneRecordPerProcess, NotFresherThanClock, Tracked
<1>4. ASSUME NEW p \in Procs, NEW ev \in Events, AcceptTelemetry(p, ev)
      PROVE  IndInv'
  <2> DEFINE upgraded == Upgrade(sessions, p)
             admitted == Admit(upgraded, p, ev)
  <2>1. MapOK(upgraded) /\ Legacy(p) \notin DOMAIN upgraded
    BY <1>1, UpgradeOK
  <2>2. MapOK(admitted)
    BY <1>2, <2>1, AdmitOK
  <2>3. /\ sessions' = EnforceSessionCap(admitted)
        /\ dropped' = SaturatingAdd(dropped, Evicted(admitted))
        /\ UNCHANGED <<now, peak>>
    BY <1>4 DEF AcceptTelemetry
  <2> QED BY <2>2, <2>3, CapStep
<1>5. ASSUME NEW found \in SUBSET Procs, RefreshDiscovery(found)
      PROVE  IndInv'
  <2>1. MapOK(Retained(found))
    BY <1>1, <1>2, RetainedOK
  <2> QED BY <1>5, <2>1, CapStep DEF RefreshDiscovery
<1>6. ASSUME Tick PROVE IndInv'
  <2>1. now' \in 0..MaxNow /\ peak' \in now'..MaxNow /\ peak <= peak'
    BY <1>2, <1>6, RegistryAssumption DEF Tick, Later
  <2>2. \A i \in Tracked : sessions[i].last_observed \in Nat
    BY DEF IndInv, TypeOK, Record
  <2> QED BY <1>2, <1>6, <2>1, <2>2 DEF Tick, IndInv, TypeOK, WithinCap,
            OneRecordPerProcess, NotFresherThanClock, Tracked
<1>7. ASSUME StepBack PROVE IndInv'
  <2>1. now' \in 0..MaxNow /\ peak' \in now'..MaxNow
    BY <1>2, <1>7, RegistryAssumption DEF StepBack
  <2> QED BY <1>7, <2>1 DEF StepBack, IndInv, TypeOK, WithinCap,
            OneRecordPerProcess, NotFresherThanClock, Tracked
<1>8. CASE UNCHANGED vars
  BY <1>8 DEF vars, IndInv, TypeOK, WithinCap, OneRecordPerProcess,
             NotFresherThanClock, Tracked
<1> QED BY <1>3, <1>4, <1>5, <1>6, <1>7, <1>8 DEF Next

LEMMA InitEstablishes == Init => IndInv
<1> SUFFICES ASSUME Init PROVE IndInv
  OBVIOUS
<1>1. Tracked = {}
  BY DEF Init, Tracked
<1>2. Cardinality(Tracked) = 0
  BY <1>1, FS_EmptySet
<1> QED BY <1>1, <1>2, RegistryAssumption DEF Init, IndInv, TypeOK, WithinCap,
          OneRecordPerProcess, NotFresherThanClock

LEMMA Invariance == Spec => []IndInv
BY InitEstablishes, NextPreserves, PTL DEF Spec

(* The registry's state is always well typed: telemetry with any content    *)
(* (apply_telemetry_at) and any scan (refresh_discovery) leave well-formed  *)
(* records, and dropped_sessions_total saturates.                           *)
THEOREM TypeCorrect == Spec => []TypeOK
BY Invariance, PTL DEF IndInv

(* enforce_session_cap holds the cap after every operation, for every cap.  *)
THEOREM CapNeverExceeded == Spec => []WithinCap
BY Invariance, PTL DEF IndInv

(* The legacy-to-instrumented handoff never leaves a process listed twice.  *)
THEOREM NoDoubleIdentity == Spec => []OneRecordPerProcess
BY Invariance, PTL DEF IndInv

(* normalize_event_unix_ms never lets an event date a record after the      *)
(* daemon's own clock.                                                      *)
THEOREM FreshnessBounded == Spec => []NotFresherThanClock
BY Invariance, PTL DEF IndInv

-----------------------------------------------------------------------------
(* The peer history of every record. PeerCoherent is not inductive as it    *)
(* stands: discovery dates a legacy record by the daemon's clock, which may *)
(* have been stepped back, behind a sighting of its peer. It has none:      *)
(* endpoints come from telemetry, and telemetry makes its record an         *)
(* instrumented one.                                                        *)

(* PeerCoherent for one record. *)
PeerOK(rec) ==
  LET peer == rec.peer
  IN /\ peer.current \in {NONE, peer.last}
     /\ (peer.last = NONE) = (peer.seen_at = NONE)
     /\ (peer.previous = NONE) = (peer.changed_at = NONE)
     /\ peer.previous # NONE =>
          /\ peer.previous # peer.last
          /\ peer.seen_at # NONE
          /\ peer.changed_at <= peer.seen_at
     /\ peer.seen_at # NONE => peer.seen_at <= rec.last_observed

RecOK(rec) == PeerOK(rec) /\ (rec.kind = "legacy" => rec.peer = DefaultPeer)

PeersOK(ss) == \A i \in DOMAIN ss : RecOK(ss[i])

-----------------------------------------------------------------------------
(* One record *)

LEMMA DefaultIsCoherent == ASSUME NEW rec, rec.peer = DefaultPeer PROVE PeerOK(rec)
BY DEF PeerOK, DefaultPeer

LEMMA NewRecordOK == ASSUME NEW kind, NEW t PROVE RecOK(NewRecord(kind, t))
<1>1. NewRecord(kind, t).peer = DefaultPeer
  BY DEF NewRecord
<1> QED BY <1>1, DefaultIsCoherent DEF RecOK

(* apply_client_peer at a time not before the last observation. *)
LEMMA ClientPeerCoherent ==
  ASSUME NEW rec \in Record, PeerOK(rec), NEW addr \in OptAddr,
         NEW at \in Nat, at >= rec.last_observed,
         NEW out, out.peer = ApplyClientPeer(rec.peer, addr, at), out.last_observed = at
  PROVE  PeerOK(out)
<1> DEFINE old == rec.peer
<1>1. /\ old \in Peer /\ rec.last_observed \in Nat /\ at # NONE
      /\ old.seen_at \in Nat \cup {NONE} /\ old.changed_at \in Nat \cup {NONE}
  BY RecordAssumption DEF Record, Peer, OptNat
<1>2. /\ old.current \in {NONE, old.last}
      /\ (old.last = NONE) = (old.seen_at = NONE)
      /\ (old.previous = NONE) = (old.changed_at = NONE)
      /\ old.previous # NONE =>
           /\ old.previous # old.last
           /\ old.seen_at # NONE
           /\ old.changed_at <= old.seen_at
      /\ old.seen_at # NONE => old.seen_at <= rec.last_observed
  BY DEF PeerOK
<1>3. /\ old.seen_at # NONE => old.seen_at <= at
      /\ old.previous # NONE => old.changed_at <= at
  BY <1>1, <1>2
<1> HIDE DEF old
<1>4. CASE addr = NONE
  <2>1. out.peer = [old EXCEPT !.current = NONE]
    BY <1>4 DEF ApplyClientPeer, old
  <2>2. /\ out.peer.current = NONE /\ out.peer.last = old.last
        /\ out.peer.previous = old.previous
        /\ out.peer.changed_at = old.changed_at /\ out.peer.seen_at = old.seen_at
    BY <1>1, <2>1 DEF Peer
  <2> QED BY <1>2, <1>3, <2>2 DEF PeerOK
<1>5. CASE addr # NONE /\ old.last # addr /\ old.last # NONE
  <2>1. out.peer = [current |-> addr, last |-> addr, previous |-> old.last,
                    changed_at |-> at, seen_at |-> at]
    BY <1>5 DEF ApplyClientPeer, old
  <2> QED BY <1>1, <1>5, <2>1 DEF PeerOK
<1>6. CASE addr # NONE /\ ~(old.last # addr /\ old.last # NONE)
  <2>1. out.peer = [current |-> addr, last |-> addr, previous |-> old.previous,
                    changed_at |-> old.changed_at, seen_at |-> at]
    BY <1>6 DEF ApplyClientPeer, old
  <2>2. old.previous # NONE => old.last = addr
    BY <1>2, <1>6
  <2> QED BY <1>1, <1>2, <1>3, <1>6, <2>1, <2>2 DEF PeerOK
<1> QED BY <1>4, <1>5, <1>6

LEMMA EventKeepsPeer ==
  ASSUME NEW rec \in Record, PeerOK(rec), NEW ev \in Event, NEW received \in Nat
  PROVE  RecOK(ApplyEvent(rec, ev, received))
<1> DEFINE at == NormalizeEventMs(rec, ev.unix_ms, received)
           out == ApplyEvent(rec, ev, received)
<1>1. out.kind = "instrumented" /\ out.last_observed = at
  BY ApplyEventType
<1>2. out.peer = ApplyClientPeer(rec.peer, ev.addr, at)
  BY DEF ApplyEvent
<1>3. rec.last_observed \in Nat /\ ev.unix_ms \in Nat /\ ev.addr \in OptAddr
  BY DEF Record, Event
<1>4. at \in Nat /\ at >= rec.last_observed
  BY <1>3, NormalizeBounds
<1> HIDE DEF at, out
<1>5. PeerOK(out)
  BY <1>1, <1>2, <1>3, <1>4, ClientPeerCoherent
<1> QED BY <1>1, <1>5 DEF RecOK, out

-----------------------------------------------------------------------------
(* The maps of the operations *)

LEMMA UpgradeKeepsPeers ==
  ASSUME MapOK(sessions), PeersOK(sessions), NEW p \in Procs
  PROVE  PeersOK(Upgrade(sessions, p))
<1>1. CASE Instrumented(p) \notin DOMAIN sessions /\ Legacy(p) \in DOMAIN sessions
  <2> DEFINE old == sessions[Legacy(p)]
             new == [old EXCEPT !.kind = "instrumented"]
             up == [i \in (DOMAIN sessions \ {Legacy(p)}) \cup {Instrumented(p)} |->
                      IF i = Instrumented(p) THEN new ELSE sessions[i]]
  <2>1. Upgrade(sessions, p) = up
    BY <1>1 DEF Upgrade
  <2>2. old \in Record /\ old.kind = "legacy" /\ RecOK(old)
    BY <1>1, IdFacts DEF MapOK, WellFormed, PeersOK
  <2> HIDE DEF old
  <2>3. new.kind = "instrumented" /\ new.peer = DefaultPeer
    BY <2>2 DEF Record, RecOK
  <2> HIDE DEF new
  <2>4. RecOK(new)
    BY <2>3, DefaultIsCoherent DEF RecOK
  <2>5. \A i \in DOMAIN up : RecOK(up[i])
    BY <2>4 DEF PeersOK
  <2> QED BY <2>1, <2>5 DEF PeersOK
<1>2. CASE ~(Instrumented(p) \notin DOMAIN sessions /\ Legacy(p) \in DOMAIN sessions)
  BY <1>2 DEF Upgrade
<1> QED BY <1>1, <1>2

LEMMA AdmitKeepsPeers ==
  ASSUME NEW ss, MapOK(ss), PeersOK(ss), NEW p \in Procs, NEW ev \in Events, now \in Nat
  PROVE  PeersOK(Admit(ss, p, ev))
<1> DEFINE fresh == NewRecord("instrumented", Earlier(ev.unix_ms, now))
           rec == IF Instrumented(p) \in DOMAIN ss THEN ss[Instrumented(p)] ELSE fresh
           out == Admit(ss, p, ev)
<1>1. ev \in Event /\ ev.unix_ms \in Nat
  BY EventsAreEvents DEF Event
<1>2. fresh \in Record /\ RecOK(fresh)
  <2>1. Earlier(ev.unix_ms, now) \in Nat
    BY <1>1 DEF Earlier
  <2> QED BY <2>1, NewRecordType, NewRecordOK
<1>3. rec \in Record /\ PeerOK(rec)
  BY <1>2 DEF MapOK, WellFormed, PeersOK, RecOK
<1>4. /\ DOMAIN out = DOMAIN ss \cup {Instrumented(p)}
      /\ out[Instrumented(p)] = ApplyEvent(rec, ev, now)
      /\ \A i \in DOMAIN ss : i # Instrumented(p) => out[i] = ss[i]
  BY DEF Admit
<1> HIDE DEF fresh, rec, out
<1>5. RecOK(out[Instrumented(p)])
  BY <1>1, <1>3, <1>4, EventKeepsPeer
<1>6. \A i \in DOMAIN out : RecOK(out[i])
  BY <1>4, <1>5 DEF PeersOK
<1> QED BY <1>6 DEF PeersOK, out

LEMMA RetainedKeepsPeers ==
  ASSUME MapOK(sessions), PeersOK(sessions), now \in Nat, NEW found \in SUBSET Procs
  PROVE  PeersOK(Retained(found))
<1> DEFINE ref == Refreshed(found)
<1>1. \A i \in DOMAIN ref : RecOK(ref[i])
  <2> SUFFICES ASSUME NEW i \in DOMAIN ref PROVE RecOK(ref[i])
    OBVIOUS
  <2> DEFINE base == IF i \in Tracked THEN sessions[i] ELSE NewRecord("legacy", now)
  <2>1. RecOK(base)
    BY NewRecordOK DEF PeersOK, Tracked
  <2>2. i \in Tracked \cup SeenIds(found)
    BY DEF Refreshed
  <2>3. ref[i] = IF i \in SeenIds(found) THEN Observe(base) ELSE base
    BY <2>2 DEF Refreshed
  <2>4. base \in Record
    BY NewRecordType DEF MapOK, WellFormed, Tracked
  <2> HIDE DEF base, ref
  <2>5. CASE base.kind = "legacy"
    <3> DEFINE seen == [base EXCEPT !.last_observed = now]
    <3>1. seen.peer = base.peer
      BY <2>4 DEF Record
    <3>2. RecOK(seen)
      BY <2>1, <2>5, <3>1, DefaultIsCoherent DEF RecOK
    <3> QED BY <2>1, <2>3, <2>5, <3>2 DEF Observe
  <2>6. CASE base.kind # "legacy"
    BY <2>1, <2>3, <2>6 DEF Observe
  <2> QED BY <2>5, <2>6
<1> QED BY <1>1 DEF Retained, PeersOK

LEMMA CapKeepsPeers ==
  ASSUME NEW ss, PeersOK(ss), sessions' = EnforceSessionCap(ss)
  PROVE  PeersOK(sessions)'
BY DEF PeersOK, EnforceSessionCap, Survivors

LEMMA PeersStep == IndInv /\ PeersOK(sessions) /\ [Next]_vars => PeersOK(sessions)'
<1> SUFFICES ASSUME IndInv, PeersOK(sessions), [Next]_vars PROVE PeersOK(sessions)'
  OBVIOUS
<1>1. MapOK(sessions) /\ now \in Nat
  BY MapOKHolds, RegistryAssumption DEF IndInv, TypeOK
<1>2. ASSUME NEW p \in Procs, NEW ev \in Events, AcceptTelemetry(p, ev)
      PROVE  PeersOK(sessions)'
  <2> DEFINE up == Upgrade(sessions, p)
             admitted == Admit(up, p, ev)
  <2>1. MapOK(up) /\ PeersOK(up)
    BY <1>1, UpgradeOK, UpgradeKeepsPeers
  <2>2. PeersOK(admitted)
    BY <1>1, <2>1, AdmitKeepsPeers
  <2>3. sessions' = EnforceSessionCap(admitted)
    BY <1>2 DEF AcceptTelemetry
  <2> HIDE DEF admitted
  <2> QED BY <2>2, <2>3, CapKeepsPeers
<1>3. ASSUME NEW found \in SUBSET Procs, RefreshDiscovery(found)
      PROVE  PeersOK(sessions)'
  <2> DEFINE ret == Retained(found)
  <2>1. PeersOK(ret)
    BY <1>1, RetainedKeepsPeers
  <2>2. sessions' = EnforceSessionCap(ret)
    BY <1>3 DEF RefreshDiscovery
  <2> HIDE DEF ret
  <2> QED BY <2>1, <2>2, CapKeepsPeers
<1>4. ASSUME sessions' = sessions PROVE PeersOK(sessions)'
  BY <1>4 DEF PeersOK
<1>5. ASSUME NEW p \in Procs, NEW ev \in Events, RejectTelemetry(p, ev)
      PROVE  PeersOK(sessions)'
  BY <1>4, <1>5 DEF RejectTelemetry
<1>6. CASE Tick
  BY <1>4, <1>6 DEF Tick
<1>7. CASE StepBack
  BY <1>4, <1>7 DEF StepBack
<1>8. CASE UNCHANGED vars
  BY <1>4, <1>8 DEF vars
<1> QED BY <1>2, <1>3, <1>5, <1>6, <1>7, <1>8 DEF Next

LEMMA PeersInit == Init => PeersOK(sessions)
BY DEF Init, PeersOK

LEMMA PeersCoherent == PeersOK(sessions) => PeerCoherent
BY DEF PeersOK, RecOK, PeerOK, PeerCoherent, Tracked

(* apply_client_peer: the endpoints that a record keeps of its client tell  *)
(* one story, however often the client roams, events come without an        *)
(* endpoint or out of order, and the clock is stepped back.                 *)
THEOREM PeersTellOneStory == Spec => []PeerCoherent
<1>1. IndInv /\ IndInv' /\ PeersOK(sessions) /\ [Next]_vars => PeersOK(sessions)'
  BY PeersStep
<1> QED BY <1>1, PeersInit, PeersCoherent, Invariance, PTL DEF Spec

-----------------------------------------------------------------------------
(* The history and the counter samples of every record. A record has points *)
(* from its first event on, both sequences are cut at the same place since  *)
(* their times agree, and the last sample holds the totals that the next    *)
(* event is compared with.                                                  *)

(* HistoryCoherent for one record, but for the kind.                        *)
InStep(h, c, last) ==
  /\ Len(c) = Len(h)
  /\ Len(h) > 0 => h[Len(h)].unix_ms = last
  /\ \A k \in 1..Len(h) : c[k].unix_ms = h[k].unix_ms
  /\ \A k, m \in 1..Len(h) : k < m => h[k].unix_ms < h[m].unix_ms

Recent(h, last) == \A k \in 1..Len(h) : last - h[k].unix_ms <= HistoryMs

Timed(rec) == /\ InStep(rec.history, rec.counters, rec.last_observed)
              /\ Recent(rec.history, rec.last_observed)

Filled(rec) == (rec.kind = "legacy") = (Len(rec.history) = 0)

(* The entries of such sequences and their times.                           *)
LEMMA TimesOf ==
  ASSUME NEW S, \A x \in S : x.unix_ms \in Nat, NEW s \in Seq(S)
  PROVE  Len(s) \in Nat /\ \A k \in 1..Len(s) : s[k] \in S /\ s[k].unix_ms \in Nat
BY LenProperties, ElementOfSeq

LEMMA Timestamps == /\ \A x \in MetricPoint : x.unix_ms \in Nat
                    /\ \A x \in CounterSample : x.unix_ms \in Nat
BY DEF MetricPoint, CounterSample

(* The sequence ends with the new point, which replaces the last one or     *)
(* follows it.                                                              *)
LEMMA UpsertShape ==
  ASSUME NEW S, NEW s \in Seq(S), NEW pt \in S,
         NEW n, n = IF Len(s) > 0 /\ s[Len(s)].unix_ms = pt.unix_ms
                      THEN Len(s) ELSE Len(s) + 1
  PROVE  /\ Upsert(s, pt) \in Seq(S)
         /\ Len(Upsert(s, pt)) = n /\ Upsert(s, pt)[n] = pt
         /\ \A k \in 1..(n - 1) : k \in 1..Len(s) /\ Upsert(s, pt)[k] = s[k]
<1>1. Len(s) \in Nat /\ (s = <<>> <=> Len(s) = 0)
  BY EmptySeq, LenProperties
<1>2. CASE Len(s) > 0 /\ s[Len(s)].unix_ms = pt.unix_ms
  <2>1. Upsert(s, pt) = [s EXCEPT ![Len(s)] = pt]
    BY <1>1, <1>2 DEF Upsert, Last
  <2>2. Len(s) \in 1..Len(s)
    BY <1>1, <1>2
  <2> QED BY <1>1, <1>2, <2>1, <2>2, ExceptSeq
<1>3. CASE ~(Len(s) > 0 /\ s[Len(s)].unix_ms = pt.unix_ms)
  <2>1. Upsert(s, pt) = Append(s, pt)
    BY <1>1, <1>3 DEF Upsert, Last
  <2> QED BY <1>1, <1>3, <2>1, AppendProperties
<1> QED BY <1>2, <1>3

LEMMA UpsertInStep ==
  ASSUME NEW h \in Seq(MetricPoint), NEW c \in Seq(CounterSample),
         NEW last \in Nat, InStep(h, c, last),
         NEW pt \in MetricPoint, NEW sample \in CounterSample,
         NEW at \in Nat, at >= last, pt.unix_ms = at, sample.unix_ms = at
  PROVE  InStep(Upsert(h, pt), Upsert(c, sample), at)
<1> DEFINE n == IF Len(h) > 0 /\ h[Len(h)].unix_ms = at THEN Len(h) ELSE Len(h) + 1
           h2 == Upsert(h, pt)
           c2 == Upsert(c, sample)
<1>1. /\ Len(h) \in Nat /\ Len(c) = Len(h)
      /\ \A k \in 1..Len(h) : h[k].unix_ms \in Nat
  BY Timestamps, TimesOf DEF InStep
<1>2. /\ Len(h2) = n /\ h2[n] = pt
      /\ \A k \in 1..(n - 1) : k \in 1..Len(h) /\ h2[k] = h[k]
  <2>1. n = IF Len(h) > 0 /\ h[Len(h)].unix_ms = pt.unix_ms THEN Len(h) ELSE Len(h) + 1
    OBVIOUS
  <2> HIDE DEF n
  <2> QED BY <2>1, UpsertShape
<1>3. Len(c) > 0 => c[Len(c)].unix_ms = h[Len(h)].unix_ms
  BY <1>1 DEF InStep
<1>4. /\ Len(c2) = n /\ c2[n] = sample
      /\ \A k \in 1..(n - 1) : k \in 1..Len(h) /\ c2[k] = c[k]
  BY <1>1, <1>3, UpsertShape
<1>5. n \in Nat \ {0} /\ n \in 1..n /\ \A k \in 1..n : k = n \/ k \in 1..(n - 1)
  BY <1>1
<1>6. \A k \in 1..(n - 1) : h[k].unix_ms < at
  BY <1>1 DEF InStep
<1>7. \A k \in 1..n : c2[k].unix_ms = h2[k].unix_ms
  BY <1>1, <1>2, <1>4, <1>5 DEF InStep
<1>8. \A k, m \in 1..n : k < m => h2[k].unix_ms < h2[m].unix_ms
  <2> SUFFICES ASSUME NEW k \in 1..n, NEW m \in 1..n, k < m
               PROVE  h2[k].unix_ms < h2[m].unix_ms
    OBVIOUS
  <2>1. k \in 1..(n - 1) /\ h2[k] = h[k] /\ k \in 1..Len(h)
    BY <1>2, <1>5
  <2>2. CASE m = n
    BY <1>2, <1>6, <2>1, <2>2
  <2>3. CASE m # n
    BY <1>2, <1>5, <2>1, <2>3 DEF InStep
  <2> QED BY <2>2, <2>3
<1> HIDE DEF n, h2, c2
<1>9. InStep(h2, c2, at)
  BY <1>2, <1>4, <1>5, <1>7, <1>8 DEF InStep
<1> QED BY <1>9 DEF h2, c2

(* Trimming two sequences that are in step cuts both at the same place.     *)
LEMMA TrimTogether ==
  ASSUME NEW h \in Seq(MetricPoint), NEW c \in Seq(CounterSample),
         NEW last \in Nat, InStep(h, c, last), h # <<>>
  PROVE  /\ \E f \in 1..Len(h) : /\ TrimHistory(h) = SubSeq(h, f, Len(h))
                                 /\ TrimHistory(c) = SubSeq(c, f, Len(h))
                                 /\ last - h[f].unix_ms <= HistoryMs
<1>1. /\ Len(h) \in Nat \ {0} /\ Len(c) = Len(h) /\ c # <<>> /\ HistoryMs \in Nat
  BY EmptySeq, LenProperties, RecordAssumption DEF InStep
<1>2. /\ \A k \in 1..Len(h) : h[k].unix_ms \in Nat /\ c[k].unix_ms = h[k].unix_ms
      /\ Last(h).unix_ms = last /\ Last(c).unix_ms = last
  BY <1>1, Timestamps, TimesOf DEF InStep, Last
<1> DEFINE cutoff == last - HistoryMs
<1>3. PICK f \in 1..Len(h) :
        /\ TrimHistory(h) = SubSeq(h, f, Len(h))
        /\ h[f].unix_ms >= cutoff
        /\ \A j \in 1..(f - 1) : h[j].unix_ms < cutoff
  BY <1>1, <1>2, Timestamps, TrimIsSuffix
<1>4. PICK g \in 1..Len(c) :
        /\ TrimHistory(c) = SubSeq(c, g, Len(c))
        /\ c[g].unix_ms >= cutoff
        /\ \A j \in 1..(g - 1) : c[j].unix_ms < cutoff
  BY <1>1, <1>2, Timestamps, TrimIsSuffix
<1>5. cutoff \in Int
  BY <1>1
<1>6. f = g
  <2> HIDE DEF cutoff
  <2>1. f \in Nat /\ g \in Nat /\ g \in 1..Len(h)
    BY <1>1
  <2>2. ASSUME f < g PROVE FALSE
    <3>1. f \in 1..(g - 1)
      BY <1>1, <2>1, <2>2
    <3>2. c[f].unix_ms < cutoff /\ c[f].unix_ms = h[f].unix_ms
      BY <1>2, <1>4, <3>1
    <3> QED BY <1>2, <1>3, <1>5, <3>2
  <2>3. ASSUME g < f PROVE FALSE
    <3>1. g \in 1..(f - 1)
      BY <1>1, <2>1, <2>3
    <3>2. h[g].unix_ms < cutoff /\ c[g].unix_ms = h[g].unix_ms
      BY <1>2, <1>3, <2>1, <3>1
    <3> QED BY <1>2, <1>4, <1>5, <2>1, <3>2
  <2> QED BY <2>1, <2>2, <2>3
<1>7. last - h[f].unix_ms <= HistoryMs
  BY <1>1, <1>2, <1>3
<1> QED BY <1>1, <1>3, <1>4, <1>6, <1>7

(* What SubSeq leaves of a sequence, by place.                              *)
LEMMA Suffix ==
  ASSUME NEW S, NEW s \in Seq(S), NEW f \in 1..Len(s)
  PROVE  /\ Len(SubSeq(s, f, Len(s))) = Len(s) - f + 1
         /\ \A k \in 1..(Len(s) - f + 1) :
              /\ f - 1 + k \in f..Len(s)
              /\ SubSeq(s, f, Len(s))[k] = s[f - 1 + k]
<1>1. Len(s) \in Nat /\ f \in Int /\ f <= Len(s)
  BY LenProperties
<1>2. \A i \in f..Len(s) : s[i] \in S
  BY <1>1, ElementOfSeq
<1> QED BY <1>1, <1>2, SubSeqProperties

LEMMA TrimTimed ==
  ASSUME NEW h \in Seq(MetricPoint), NEW c \in Seq(CounterSample),
         NEW last \in Nat, InStep(h, c, last), h # <<>>
  PROVE  /\ InStep(TrimHistory(h), TrimHistory(c), last)
         /\ Recent(TrimHistory(h), last)
         /\ Len(TrimHistory(h)) > 0
<1>1. PICK f \in 1..Len(h) : /\ TrimHistory(h) = SubSeq(h, f, Len(h))
                             /\ TrimHistory(c) = SubSeq(c, f, Len(h))
                             /\ last - h[f].unix_ms <= HistoryMs
  BY TrimTogether
<1>2. Len(h) \in Nat /\ Len(c) = Len(h) /\ HistoryMs \in Nat
      /\ \A k \in 1..Len(h) : h[k].unix_ms \in Nat
  BY Timestamps, TimesOf, RecordAssumption DEF InStep
<1>a. /\ \A k, m \in 1..Len(h) : k < m => h[k].unix_ms < h[m].unix_ms
      /\ \A k \in 1..Len(h) : c[k].unix_ms = h[k].unix_ms
      /\ Len(h) > 0 => h[Len(h)].unix_ms = last
  BY DEF InStep
<1> DEFINE n == Len(h) - f + 1
           h2 == TrimHistory(h)
           c2 == TrimHistory(c)
<1>3. n \in Nat \ {0} /\ \A k \in 1..n : f - 1 + k \in 1..Len(h)
  BY <1>2
<1>4. Len(h2) = n /\ \A k \in 1..n : h2[k] = h[f - 1 + k]
  BY <1>1, Suffix
<1>5. Len(c2) = n /\ \A k \in 1..n : c2[k] = c[f - 1 + k]
  BY <1>1, <1>2, Suffix
<1>6. f - 1 + n = Len(h) /\ n \in 1..n
  BY <1>2, <1>3
<1>7. h2[n].unix_ms = last
  <2>1. h2[n] = h[f - 1 + n]
    BY <1>4, <1>6
  <2>2. h2[n] = h[Len(h)] /\ Len(h) > 0
    BY <1>2, <1>6, <2>1
  <2> QED BY <1>a, <2>2
<1>8. \A k \in 1..n : c2[k].unix_ms = h2[k].unix_ms
  BY <1>a, <1>3, <1>4, <1>5
<1>9. \A k, m \in 1..n : k < m => h2[k].unix_ms < h2[m].unix_ms
  <2> SUFFICES ASSUME NEW k \in 1..n, NEW m \in 1..n, k < m
               PROVE  h2[k].unix_ms < h2[m].unix_ms
    OBVIOUS
  <2> DEFINE i == f - 1 + k
             j == f - 1 + m
  <2>1. i \in 1..Len(h) /\ j \in 1..Len(h) /\ i < j /\ h2[k] = h[i] /\ h2[m] = h[j]
    BY <1>2, <1>3, <1>4
  <2> HIDE DEF i, j, h2
  <2> QED BY <1>a, <2>1
<1>10. \A k \in 1..n : last - h2[k].unix_ms <= HistoryMs
  <2> SUFFICES ASSUME NEW k \in 1..n PROVE last - h2[k].unix_ms <= HistoryMs
    OBVIOUS
  <2> DEFINE i == f - 1 + k
  <2>1. i \in 1..Len(h) /\ (f = i \/ f < i) /\ h2[k] = h[i]
    BY <1>2, <1>3, <1>4
  <2> HIDE DEF i, h2
  <2>2. h[f].unix_ms <= h[i].unix_ms
    BY <1>a, <1>2, <2>1
  <2>3. h[f].unix_ms \in Nat /\ h[i].unix_ms \in Nat
    BY <1>2, <2>1
  <2>4. last - h[i].unix_ms <= HistoryMs
    <3>1. \A x, y \in Nat : x <= y /\ last - x <= HistoryMs => last - y <= HistoryMs
      BY <1>2
    <3> QED BY <1>1, <2>2, <2>3, <3>1
  <2> QED BY <2>1, <2>4
<1> HIDE DEF n, h2, c2
<1>11. InStep(h2, c2, last) /\ Recent(h2, last) /\ Len(h2) > 0
  BY <1>3, <1>4, <1>5, <1>7, <1>8, <1>9, <1>10 DEF InStep, Recent
<1> QED BY <1>11 DEF h2, c2

(* WindowsSpanNoReset for a sequence of samples that ends with these totals *)
(* and starts after this reset.                                             *)
Grown(c, reset, totals) ==
  /\ Len(c) > 0 => c[Len(c)].totals = totals
  /\ \A k \in 1..Len(c) : reset # NONE => c[k].unix_ms >= reset
  /\ \A k \in 1..Len(c), x \in CounterNames : c[k].totals[x] \in Nat
  /\ \A k, m \in 1..Len(c), x \in CounterNames :
       k <= m => c[k].totals[x] <= c[m].totals[x]

LEMMA UpsertGrown ==
  ASSUME NEW c \in Seq(CounterSample), NEW reset \in OptNat, NEW totals,
         Grown(c, reset, totals), NEW sample \in CounterSample,
         \A x \in CounterNames : sample.totals[x] \in Nat,
         Len(c) > 0 => \A x \in CounterNames : totals[x] <= sample.totals[x],
         reset # NONE => sample.unix_ms >= reset
  PROVE  Grown(Upsert(c, sample), reset, sample.totals)
<1> DEFINE c2 == Upsert(c, sample)
<1>1. Len(c) \in Nat /\ \A k \in 1..Len(c) : c[k].unix_ms \in Nat
  BY Timestamps, TimesOf
<1>2. PICK n : n = IF Len(c) > 0 /\ c[Len(c)].unix_ms = sample.unix_ms
                     THEN Len(c) ELSE Len(c) + 1
  OBVIOUS
<1>3. /\ Len(c2) = n /\ c2[n] = sample
      /\ \A k \in 1..(n - 1) : k \in 1..Len(c) /\ c2[k] = c[k]
  BY <1>2, UpsertShape
<1>4. n \in Nat \ {0} /\ n \in 1..n /\ \A k \in 1..n : k = n \/ k \in 1..(n - 1)
  BY <1>1, <1>2
<1>5. \A k \in 1..n, x \in CounterNames : c2[k].totals[x] \in Nat
  BY <1>3, <1>4 DEF Grown
<1>6. \A k \in 1..n : reset # NONE => c2[k].unix_ms >= reset
  BY <1>3, <1>4 DEF Grown
<1>7. ASSUME NEW k \in 1..(n - 1), NEW x \in CounterNames
      PROVE  c[k].totals[x] <= sample.totals[x]
  <2>1. k \in 1..Len(c) /\ Len(c) \in 1..Len(c) /\ k <= Len(c) /\ Len(c) > 0
    BY <1>1, <1>3
  <2>2. /\ c[k].totals[x] <= c[Len(c)].totals[x] /\ c[Len(c)].totals = totals
        /\ c[k].totals[x] \in Nat /\ c[Len(c)].totals[x] \in Nat
    BY <2>1 DEF Grown
  <2>3. totals[x] <= sample.totals[x] /\ sample.totals[x] \in Nat
    BY <2>1
  <2> QED BY <2>2, <2>3
<1>8. ASSUME NEW k \in 1..n, NEW m \in 1..n, NEW x \in CounterNames, k <= m
      PROVE  c2[k].totals[x] <= c2[m].totals[x]
  <2>1. CASE k = n
    <3>1. m = n
      BY <1>4, <1>8, <2>1
    <3> QED BY <1>5, <2>1, <3>1
  <2>2. CASE k # n /\ m = n
    BY <1>3, <1>4, <1>7, <2>2
  <2>3. CASE k # n /\ m # n
    <3>1. k \in 1..(n - 1) /\ m \in 1..(n - 1)
      BY <1>4, <2>3
    <3>2. c2[k] = c[k] /\ c2[m] = c[m] /\ k \in 1..Len(c) /\ m \in 1..Len(c)
      BY <1>3, <3>1
    <3> QED BY <1>8, <3>2 DEF Grown
  <2> QED BY <2>1, <2>2, <2>3
<1> HIDE DEF c2
<1>9. Grown(c2, reset, sample.totals)
  BY <1>3, <1>4, <1>5, <1>6, <1>8 DEF Grown
<1> QED BY <1>9 DEF c2

LEMMA SuffixGrown ==
  ASSUME NEW c \in Seq(CounterSample), NEW reset, NEW totals, Grown(c, reset, totals),
         NEW f \in 1..Len(c)
  PROVE  Grown(SubSeq(c, f, Len(c)), reset, totals)
<1> DEFINE c2 == SubSeq(c, f, Len(c))
           n == Len(c) - f + 1
<1>1. /\ Len(c2) = n
      /\ \A k \in 1..n : f - 1 + k \in f..Len(c) /\ c2[k] = c[f - 1 + k]
  BY Suffix
<1>2. Len(c) \in Nat /\ n \in Nat \ {0} /\ f - 1 + n = Len(c) /\ n \in 1..n
  BY LenProperties
<1>3. \A k \in 1..n : f - 1 + k \in 1..Len(c)
  BY <1>2
<1>4. c2[n].totals = totals
  <2>1. c2[n] = c[f - 1 + n]
    BY <1>1, <1>2
  <2>2. c2[n] = c[Len(c)] /\ Len(c) > 0
    BY <1>2, <2>1
  <2> QED BY <2>2 DEF Grown
<1>5. \A k \in 1..n : reset # NONE => c2[k].unix_ms >= reset
  BY <1>1, <1>3 DEF Grown
<1>6. \A k \in 1..n, x \in CounterNames : c2[k].totals[x] \in Nat
  BY <1>1, <1>3 DEF Grown
<1>7. ASSUME NEW k \in 1..n, NEW m \in 1..n, NEW x \in CounterNames, k <= m
      PROVE  c2[k].totals[x] <= c2[m].totals[x]
  <2> DEFINE i == f - 1 + k
             j == f - 1 + m
  <2>1. i \in 1..Len(c) /\ j \in 1..Len(c) /\ i <= j /\ c2[k] = c[i] /\ c2[m] = c[j]
    BY <1>1, <1>2, <1>3, <1>7
  <2> HIDE DEF i, j, c2
  <2> QED BY <2>1 DEF Grown
<1> HIDE DEF c2, n
<1>8. Grown(c2, reset, totals)
  BY <1>1, <1>4, <1>5, <1>6, <1>7 DEF Grown
<1> QED BY <1>8 DEF c2

-----------------------------------------------------------------------------
(* One record *)

(* Every event reports every counter, as those of the bundled server do.    *)
AllReported == \A t \in TotalsInputs, x \in CounterNames : t[x] # NONE

Sound(rec) ==
  /\ Timed(rec)
  /\ AllReported => /\ Grown(rec.counters, rec.counter_reset, rec.totals)
                    /\ Len(rec.counters) = 0 => rec.counter_reset = NONE

LEMMA EmptyIsSound ==
  ASSUME NEW rec, Len(rec.history) = 0, Len(rec.counters) = 0,
         AllReported => rec.counter_reset = NONE
  PROVE  Sound(rec)
BY DEF Sound, Timed, InStep, Recent, Grown

LEMMA NewIsSound == ASSUME NEW kind, NEW t PROVE Sound(NewRecord(kind, t))
<1>1. /\ NewRecord(kind, t).history = <<>> /\ NewRecord(kind, t).counters = <<>>
      /\ NewRecord(kind, t).counter_reset = NONE /\ Len(<<>>) = 0
  BY DEF NewRecord
<1> QED BY <1>1, EmptyIsSound

(* The history part of apply_telemetry_at.                                  *)
LEMMA EventKeepsSound ==
  ASSUME NEW rec \in Record, Sound(rec), NEW ev \in Event,
         AllReported => \A x \in CounterNames : ev.totals[x] # NONE,
         NEW received \in Nat
  PROVE  Sound(ApplyEvent(rec, ev, received)) /\ Filled(ApplyEvent(rec, ev, received))
<1> DEFINE at == NormalizeEventMs(rec, ev.unix_ms, received)
           pt == [unix_ms |-> at, addr |-> ApplyClientPeer(rec.peer, ev.addr, at).current]
           sample == [unix_ms |-> at, totals |-> ev.totals]
           regressed == MetricsRegressed(rec.totals, ev.totals)
           h == Kept(rec.history, rec, ev, at)
           c == Kept(rec.counters, rec, ev, at)
           h2 == Upsert(h, pt)
           c2 == Upsert(c, sample)
           reset == IF regressed THEN at ELSE rec.counter_reset
           out == ApplyEvent(rec, ev, received)
<1>1. /\ rec.last_observed \in Nat /\ ev.unix_ms \in Nat /\ ev.addr \in OptAddr
      /\ ev.totals \in Totals /\ rec.totals \in Totals
      /\ rec.peer \in Peer /\ rec.counter_reset \in OptNat
      /\ rec.history \in Seq(MetricPoint) /\ rec.counters \in Seq(CounterSample)
  BY DEF Record, Event
<1>2. at \in Nat /\ at >= rec.last_observed
  BY <1>1, NormalizeBounds
<1>3. /\ pt \in MetricPoint /\ sample \in CounterSample
      /\ pt.unix_ms = at /\ sample.unix_ms = at
  <2>1. ApplyClientPeer(rec.peer, ev.addr, at) \in Peer
    BY <1>1, <1>2, ApplyClientPeerType
  <2> QED BY <1>1, <1>2, <2>1 DEF MetricPoint, CounterSample, Peer
<1>4. /\ out.last_observed = at /\ out.kind = "instrumented"
      /\ out.history = TrimHistory(h2) /\ out.counters = TrimHistory(c2)
      /\ out.totals = ev.totals /\ out.counter_reset = reset
  BY DEF ApplyEvent
<1>5. InStep(rec.history, rec.counters, rec.last_observed)
  BY DEF Sound, Timed
<1>6. /\ h = IF regressed THEN <<>> ELSE rec.history
      /\ c = IF regressed THEN <<>> ELSE rec.counters
  <2>1. ~(rec.history # <<>> /\ at < Last(rec.history).unix_ms)
    <3>1. rec.history # <<>> => Last(rec.history).unix_ms = rec.last_observed
      BY <1>1, <1>5, EmptySeq, LenProperties DEF InStep, Last
    <3> QED BY <1>1, <1>2, <3>1
  <2> QED BY <2>1 DEF Kept
<1>7. h \in Seq(MetricPoint) /\ c \in Seq(CounterSample) /\ InStep(h, c, rec.last_observed)
  <2>1. InStep(<<>>, <<>>, rec.last_observed)
    BY DEF InStep
  <2> QED BY <1>1, <1>5, <1>6, <2>1
<1> HIDE DEF at, pt, h, c, out, reset, regressed
<1>8. InStep(h2, c2, at)
  BY <1>1, <1>2, <1>3, <1>7, UpsertInStep
<1>9. h2 \in Seq(MetricPoint) /\ c2 \in Seq(CounterSample) /\ h2 # <<>>
  BY <1>3, <1>7, UpsertType
<1>10. /\ InStep(TrimHistory(h2), TrimHistory(c2), at)
       /\ Recent(TrimHistory(h2), at) /\ Len(TrimHistory(h2)) > 0
  BY <1>2, <1>8, <1>9, TrimTimed
<1>11. Timed(out) /\ Filled(out) /\ Len(out.counters) > 0
  BY <1>4, <1>10 DEF Timed, Filled, InStep
<1>12. ASSUME AllReported PROVE Grown(out.counters, out.counter_reset, out.totals)
  <2>1. \A x \in CounterNames : sample.totals[x] \in Nat
    BY <1>1, <1>12 DEF Totals, OptNat
  <2>2. Grown(rec.counters, rec.counter_reset, rec.totals)
        /\ (Len(rec.counters) = 0 => rec.counter_reset = NONE)
    BY <1>12 DEF Sound
  <2>3. reset \in OptNat /\ Grown(c, reset, rec.totals)
    BY <1>1, <1>2, <1>6, <2>2 DEF reset, Grown, OptNat
  <2>4. Len(c) > 0 => \A x \in CounterNames : rec.totals[x] <= sample.totals[x]
    <3> SUFFICES ASSUME Len(c) > 0, NEW x \in CounterNames
                 PROVE  rec.totals[x] <= ev.totals[x]
      OBVIOUS
    <3>1. ~regressed /\ c = rec.counters
      BY <1>6
    <3>2. rec.totals[x] \in Nat
      <4>1. Len(c) \in 1..Len(c)
        BY <1>7, LenProperties
      <4> QED BY <2>2, <3>1, <4>1 DEF Grown
    <3>3. ev.totals[x] \in Nat /\ rec.totals[x] # NONE /\ ev.totals[x] # NONE
      BY <2>1, <3>2, RecordAssumption
    <3>4. ~(ev.totals[x] < rec.totals[x])
      BY <3>1, <3>3 DEF regressed, MetricsRegressed, MonotonicCounterRegressed
    <3> QED BY <3>2, <3>3, <3>4
  <2>5. reset # NONE => sample.unix_ms >= reset
    <3>1. CASE regressed
      BY <1>2, <3>1 DEF reset
    <3>2. CASE ~regressed
      <4> SUFFICES ASSUME rec.counter_reset # NONE PROVE at >= rec.counter_reset
        BY <3>2 DEF reset
      <4>1. Len(rec.counters) \in 1..Len(rec.counters) /\ Len(rec.history) = Len(rec.counters)
        BY <1>1, <1>5, <2>2, LenProperties DEF InStep
      <4>2. rec.counters[Len(rec.counters)].unix_ms = rec.last_observed
        BY <1>5, <4>1 DEF InStep
      <4>3. rec.last_observed >= rec.counter_reset
        BY <2>2, <4>1, <4>2 DEF Grown
      <4> QED BY <1>1, <1>2, <4>3 DEF OptNat
    <3> QED BY <3>1, <3>2
  <2>6. Grown(c2, reset, sample.totals)
    BY <1>3, <1>7, <2>1, <2>3, <2>4, <2>5, UpsertGrown
  <2>7. PICK f \in 1..Len(h2) : TrimHistory(c2) = SubSeq(c2, f, Len(h2))
    BY <1>2, <1>8, <1>9, TrimTogether
  <2>8. Len(h2) = Len(c2)
    BY <1>8 DEF InStep
  <2>9. Grown(TrimHistory(c2), reset, sample.totals)
    BY <1>9, <2>6, <2>7, <2>8, SuffixGrown
  <2> QED BY <1>4, <2>9
<1>13. Len(out.counters) # 0
  BY <1>11
<1> QED BY <1>11, <1>12, <1>13 DEF Sound, out

-----------------------------------------------------------------------------
(* The maps of the operations *)

(* Every record is sound and every one but those in S has been filled: only *)
(* the record an event is about to be applied to has no point yet.          *)
SoundMap(ss, S) ==
  \A i \in DOMAIN ss : Sound(ss[i]) /\ (i \notin S => Filled(ss[i]))

LEMMA UpgradeKeepsSound ==
  ASSUME MapOK(sessions), SoundMap(sessions, {}), NEW p \in Procs
  PROVE  SoundMap(Upgrade(sessions, p), {Instrumented(p)})
<1>1. CASE Instrumented(p) \notin DOMAIN sessions /\ Legacy(p) \in DOMAIN sessions
  <2> DEFINE old == sessions[Legacy(p)]
             new == [old EXCEPT !.kind = "instrumented"]
             up == [i \in (DOMAIN sessions \ {Legacy(p)}) \cup {Instrumented(p)} |->
                      IF i = Instrumented(p) THEN new ELSE sessions[i]]
  <2>1. Upgrade(sessions, p) = up
    BY <1>1 DEF Upgrade
  <2>2. old \in Record /\ old.kind = "legacy" /\ Sound(old) /\ Filled(old)
    BY <1>1, IdFacts DEF MapOK, WellFormed, SoundMap
  <2> HIDE DEF old
  <2>3. /\ new.history = old.history /\ new.counters = old.counters
        /\ new.counter_reset = old.counter_reset
    BY <2>2 DEF Record
  <2>4. /\ Len(old.history) = 0 /\ Len(old.counters) = 0
        /\ AllReported => old.counter_reset = NONE
    BY <2>2 DEF Sound, Timed, InStep, Filled
  <2> HIDE DEF new
  <2>5. Sound(new)
    BY <2>3, <2>4, EmptyIsSound
  <2>6. SoundMap(up, {Instrumented(p)})
    BY <2>5 DEF SoundMap
  <2> QED BY <2>1, <2>6
<1>2. CASE ~(Instrumented(p) \notin DOMAIN sessions /\ Legacy(p) \in DOMAIN sessions)
  BY <1>2 DEF Upgrade, SoundMap
<1> QED BY <1>1, <1>2

LEMMA AdmitKeepsSound ==
  ASSUME NEW ss, MapOK(ss), NEW p \in Procs, SoundMap(ss, {Instrumented(p)}),
         NEW ev \in Events, now \in Nat
  PROVE  SoundMap(Admit(ss, p, ev), {})
<1> DEFINE fresh == NewRecord("instrumented", Earlier(ev.unix_ms, now))
           rec == IF Instrumented(p) \in DOMAIN ss THEN ss[Instrumented(p)] ELSE fresh
           out == Admit(ss, p, ev)
<1>1. ev \in Event /\ ev.unix_ms \in Nat
  BY EventsAreEvents DEF Event
<1>2. fresh \in Record /\ Sound(fresh)
  <2>1. Earlier(ev.unix_ms, now) \in Nat
    BY <1>1 DEF Earlier
  <2> QED BY <2>1, NewRecordType, NewIsSound
<1>3. rec \in Record /\ Sound(rec)
  BY <1>2 DEF MapOK, WellFormed, SoundMap
<1>4. /\ DOMAIN out = DOMAIN ss \cup {Instrumented(p)}
      /\ out[Instrumented(p)] = ApplyEvent(rec, ev, now)
      /\ \A i \in DOMAIN ss : i # Instrumented(p) => out[i] = ss[i]
  BY DEF Admit
<1>5. AllReported => \A x \in CounterNames : ev.totals[x] # NONE
  <2>1. ev.totals \in TotalsInputs
    BY DEF Events
  <2> QED BY <2>1 DEF AllReported
<1> HIDE DEF fresh, rec, out
<1>6. Sound(out[Instrumented(p)]) /\ Filled(out[Instrumented(p)])
  BY <1>1, <1>3, <1>4, <1>5, EventKeepsSound
<1>7. SoundMap(out, {})
  BY <1>4, <1>6 DEF SoundMap
<1> QED BY <1>7 DEF out

LEMMA RetainedKeepsSound ==
  ASSUME MapOK(sessions), SoundMap(sessions, {}), now \in Nat, NEW found \in SUBSET Procs
  PROVE  SoundMap(Retained(found), {})
<1> DEFINE ref == Refreshed(found)
<1>1. \A i \in DOMAIN ref : Sound(ref[i]) /\ Filled(ref[i])
  <2> SUFFICES ASSUME NEW i \in DOMAIN ref PROVE Sound(ref[i]) /\ Filled(ref[i])
    OBVIOUS
  <2> DEFINE base == IF i \in Tracked THEN sessions[i] ELSE NewRecord("legacy", now)
  <2>1. Sound(base) /\ Filled(base) /\ base \in Record
    <3>1. Filled(NewRecord("legacy", now))
      BY DEF Filled, NewRecord
    <3>2. NewRecord("legacy", now) \in Record
      BY NewRecordType
    <3> QED BY <3>1, <3>2, NewIsSound DEF SoundMap, Tracked, MapOK, WellFormed
  <2>2. i \in Tracked \cup SeenIds(found)
    BY DEF Refreshed
  <2>3. ref[i] = IF i \in SeenIds(found) THEN Observe(base) ELSE base
    BY <2>2 DEF Refreshed
  <2> HIDE DEF base, ref
  <2>4. CASE base.kind = "legacy"
    <3> DEFINE seen == [base EXCEPT !.last_observed = now]
    <3>1. /\ seen.history = base.history /\ seen.counters = base.counters
          /\ seen.counter_reset = base.counter_reset /\ seen.kind = base.kind
      BY <2>1 DEF Record
    <3>2. /\ Len(base.history) = 0 /\ Len(base.counters) = 0
          /\ AllReported => base.counter_reset = NONE
      BY <2>1, <2>4 DEF Sound, Timed, InStep, Filled
    <3>3. Sound(seen) /\ Filled(seen)
      BY <2>4, <3>1, <3>2, EmptyIsSound DEF Filled
    <3> QED BY <2>1, <2>3, <2>4, <3>3 DEF Observe
  <2>5. CASE base.kind # "legacy"
    BY <2>1, <2>3, <2>5 DEF Observe
  <2> QED BY <2>4, <2>5
<1> QED BY <1>1 DEF Retained, SoundMap

LEMMA CapKeepsSound ==
  ASSUME NEW ss, SoundMap(ss, {}), sessions' = EnforceSessionCap(ss)
  PROVE  SoundMap(sessions, {})'
BY DEF SoundMap, EnforceSessionCap, Survivors

LEMMA SoundStep == IndInv /\ SoundMap(sessions, {}) /\ [Next]_vars => SoundMap(sessions, {})'
<1> SUFFICES ASSUME IndInv, SoundMap(sessions, {}), [Next]_vars
             PROVE  SoundMap(sessions, {})'
  OBVIOUS
<1>1. MapOK(sessions) /\ now \in Nat
  BY MapOKHolds, RegistryAssumption DEF IndInv, TypeOK
<1>2. ASSUME NEW p \in Procs, NEW ev \in Events, AcceptTelemetry(p, ev)
      PROVE  SoundMap(sessions, {})'
  <2> DEFINE up == Upgrade(sessions, p)
             admitted == Admit(up, p, ev)
  <2>1. MapOK(up) /\ SoundMap(up, {Instrumented(p)})
    BY <1>1, UpgradeOK, UpgradeKeepsSound
  <2>2. SoundMap(admitted, {})
    BY <1>1, <2>1, AdmitKeepsSound
  <2>3. sessions' = EnforceSessionCap(admitted)
    BY <1>2 DEF AcceptTelemetry
  <2> HIDE DEF admitted
  <2> QED BY <2>2, <2>3, CapKeepsSound
<1>3. ASSUME NEW found \in SUBSET Procs, RefreshDiscovery(found)
      PROVE  SoundMap(sessions, {})'
  <2> DEFINE ret == Retained(found)
  <2>1. SoundMap(ret, {})
    BY <1>1, RetainedKeepsSound
  <2>2. sessions' = EnforceSessionCap(ret)
    BY <1>3 DEF RefreshDiscovery
  <2> HIDE DEF ret
  <2> QED BY <2>1, <2>2, CapKeepsSound
<1>4. ASSUME sessions' = sessions PROVE SoundMap(sessions, {})'
  BY <1>4 DEF SoundMap
<1>5. ASSUME NEW p \in Procs, NEW ev \in Events, RejectTelemetry(p, ev)
      PROVE  SoundMap(sessions, {})'
  BY <1>4, <1>5 DEF RejectTelemetry
<1>6. CASE Tick
  BY <1>4, <1>6 DEF Tick
<1>7. CASE StepBack
  BY <1>4, <1>7 DEF StepBack
<1>8. CASE UNCHANGED vars
  BY <1>4, <1>8 DEF vars
<1> QED BY <1>2, <1>3, <1>5, <1>6, <1>7, <1>8 DEF Next

LEMMA SoundInit == Init => SoundMap(sessions, {})
BY DEF Init, SoundMap

LEMMA AlwaysSound == Spec => []SoundMap(sessions, {})
<1>1. IndInv /\ IndInv' /\ SoundMap(sessions, {}) /\ [Next]_vars => SoundMap(sessions, {})'
  BY SoundStep
<1> QED BY <1>1, SoundInit, Invariance, PTL DEF Spec

(* What SoundMap says in terms of the properties of Registry.               *)
LEMMA SoundIsCoherent == SoundMap(sessions, {}) => HistoryCoherent
BY DEF SoundMap, Sound, Timed, InStep, Recent, Filled, HistoryCoherent, Tracked

LEMMA SoundSpansNoReset ==
  ASSUME AllReported, IndInv, SoundMap(sessions, {})
  PROVE  WindowsSpanNoReset
<1> SUFFICES ASSUME NEW i \in Tracked, NEW k \in 1..Len(sessions[i].counters)
             PROVE  /\ sessions[i].counter_reset # NONE =>
                         sessions[i].counters[k].unix_ms >= sessions[i].counter_reset
                    /\ \A m \in k..Len(sessions[i].counters), x \in CounterNames :
                         sessions[i].counters[k].totals[x]
                           <= sessions[i].counters[m].totals[x]
  BY DEF WindowsSpanNoReset
<1> DEFINE c == sessions[i].counters
<1>1. Grown(c, sessions[i].counter_reset, sessions[i].totals)
  BY DEF SoundMap, Sound, Tracked
<1>2. Len(c) \in Nat
  BY LenProperties DEF IndInv, TypeOK, Record
<1>3. ASSUME NEW m \in k..Len(c) PROVE m \in 1..Len(c) /\ k <= m
  BY <1>2
<1> QED BY <1>1, <1>3 DEF Grown

(* upsert_history_point, upsert_counter_sample, trim_history: the retained  *)
(* points are in order, in step with the counter samples, and no older than *)
(* history_secs, whatever telemetry says of its own time.                   *)
THEOREM HistoryInOrder == Spec => []HistoryCoherent
BY AlwaysSound, SoundIsCoherent, PTL

(* retransmit_pct: if every event reports every counter, the look-back      *)
(* windows never span a reset and their differences never saturate.         *)
THEOREM WindowsCanBeTrusted ==
  ASSUME AllReported
  PROVE  Spec => []HistorySound
<1>1. IndInv /\ SoundMap(sessions, {}) => HistorySound
  BY SoundIsCoherent, SoundSpansNoReset DEF HistorySound
<1> QED BY <1>1, AlwaysSound, Invariance, PTL

-----------------------------------------------------------------------------
(* Who is evicted *)

(* A map within the cap loses nothing. *)
LEMMA NoEvictionWithinCap ==
  ASSUME NEW ss, WellFormed(ss), Cardinality(DOMAIN ss) <= MaxTracked
  PROVE  Survivors(ss) = DOMAIN ss
<1>1. IsFiniteSet(DOMAIN ss) /\ Cardinality(DOMAIN ss) \in Nat
  BY ProcsFinite, FS_Subset, FS_CardinalityType DEF WellFormed
<1>2. ASSUME NEW i \in DOMAIN ss PROVE Cardinality(Above(ss, i)) < MaxTracked
  <2>1. Above(ss, i) \in SUBSET (DOMAIN ss) /\ i \notin Above(ss, i)
    BY EvictionOrder DEF Above
  <2>2. /\ Cardinality(Above(ss, i)) \in Nat
        /\ Cardinality(Above(ss, i)) <= Cardinality(DOMAIN ss)
        /\ Cardinality(Above(ss, i)) # Cardinality(DOMAIN ss)
    BY <1>1, <2>1, FS_Subset, FS_CardinalityType
  <2> QED BY <1>1, <2>2, RegistryAssumption
<1> QED BY <1>2 DEF Survivors

(* An evicted active session leaves only active sessions behind. *)
LEMMA ActiveEvictedOnlyAmongActive ==
  ASSUME NEW ss, WellFormed(ss), NEW i \in DOMAIN ss \ Survivors(ss),
         EvictionClass(ss[i]) = 2, NEW k \in Survivors(ss)
  PROVE  EvictionClass(ss[k]) = 2
<1>1. EvictedBefore(ss, i, k)
  BY CapEnforced
<1>2. EvictionClass(ss[k]) \in 0..2
  BY DEF EvictionClass
<1> QED BY <1>1, <1>2 DEF EvictedBefore

(* What telemetry of process p does to the domain and the other records. *)
LEMMA UpgradeFacts ==
  ASSUME IndInv, NEW p \in Procs
  PROVE  /\ Cardinality(DOMAIN Upgrade(sessions, p)) <= MaxTracked
         /\ IsFiniteSet(DOMAIN Upgrade(sessions, p))
         /\ \A i \in Tracked : i # Legacy(p) =>
              /\ i \in DOMAIN Upgrade(sessions, p)
              /\ Upgrade(sessions, p)[i] = sessions[i]
         /\ \A i \in DOMAIN Upgrade(sessions, p) : i # Instrumented(p) =>
              i \in Tracked /\ Upgrade(sessions, p)[i] = sessions[i]
         /\ \A i \in {Instrumented(p), Legacy(p)} \cap Tracked :
              /\ Instrumented(p) \in DOMAIN Upgrade(sessions, p)
              /\ Upgrade(sessions, p)[Instrumented(p)].last_observed
                   = sessions[i].last_observed
<1> DEFINE up == Upgrade(sessions, p)
<1>1. MapOK(sessions) /\ Cardinality(Tracked) <= MaxTracked
  BY MapOKHolds DEF IndInv, WithinCap
<1>2. IsFiniteSet(Tracked) /\ Cardinality(Tracked) \in Nat
  BY <1>1, ProcsFinite, FS_Subset, FS_CardinalityType DEF MapOK, WellFormed, Tracked
<1>3. CASE Instrumented(p) \notin Tracked /\ Legacy(p) \in Tracked
  <2>1. up = [i \in (Tracked \ {Legacy(p)}) \cup {Instrumented(p)} |->
                IF i = Instrumented(p)
                  THEN [sessions[Legacy(p)] EXCEPT !.kind = "instrumented"]
                  ELSE sessions[i]]
    BY <1>3 DEF Upgrade, Tracked
  <2>2. DOMAIN up = (Tracked \ {Legacy(p)}) \cup {Instrumented(p)}
    BY <2>1
  <2>3. /\ IsFiniteSet(Tracked \ {Legacy(p)})
        /\ Cardinality(Tracked \ {Legacy(p)}) = Cardinality(Tracked) - 1
    BY <1>2, <1>3, FS_RemoveElement
  <2>4. /\ IsFiniteSet(DOMAIN up)
        /\ Cardinality(DOMAIN up) = Cardinality(Tracked)
    <3> DEFINE rest == Tracked \ {Legacy(p)}
    <3>1. Instrumented(p) \notin rest
      BY <1>3
    <3> HIDE DEF rest
    <3>2. /\ IsFiniteSet(rest \cup {Instrumented(p)})
          /\ Cardinality(rest \cup {Instrumented(p)}) = Cardinality(rest) + 1
      BY <2>3, <3>1, FS_AddElement DEF rest
    <3> QED BY <1>2, <2>2, <2>3, <3>2 DEF rest
  <2>5. /\ sessions[Legacy(p)] \in Record
        /\ [sessions[Legacy(p)] EXCEPT !.kind = "instrumented"].last_observed
             = sessions[Legacy(p)].last_observed
    BY <1>1, <1>3 DEF MapOK, WellFormed, Record, Tracked
  <2> QED BY <1>1, <1>3, <2>1, <2>2, <2>4, <2>5
<1>4. CASE ~(Instrumented(p) \notin Tracked /\ Legacy(p) \in Tracked)
  <2>1. up = sessions
    BY <1>4 DEF Upgrade, Tracked
  <2>2. Legacy(p) \notin Tracked
    BY <1>1, <1>4 DEF MapOK, Tracked
  <2> QED BY <1>1, <1>2, <2>1, <2>2 DEF Tracked
<1> QED BY <1>3, <1>4

(* The map an accepted event leads to, before the cap is enforced. *)
LEMMA AdmitFacts ==
  ASSUME IndInv, NEW p \in Procs, NEW ev \in Events
  PROVE  LET up == Upgrade(sessions, p)
             admitted == Admit(up, p, ev)
         IN /\ MapOK(admitted)
            /\ DOMAIN admitted = DOMAIN up \cup {Instrumented(p)}
            /\ \A i \in DOMAIN up : i # Instrumented(p) => admitted[i] = up[i]
            /\ Instrumented(p) \in DOMAIN up => Survivors(admitted) = DOMAIN admitted
            /\ Cardinality(DOMAIN up) < MaxTracked => Survivors(admitted) = DOMAIN admitted
            /\ IsFiniteSet(DOMAIN admitted)
            /\ Cardinality(DOMAIN admitted) \in Nat
            /\ Cardinality(DOMAIN admitted) <= MaxTracked + 1
            /\ \E rec \in Record :
                 /\ admitted[Instrumented(p)] = ApplyEvent(rec, ev, now)
                 /\ Instrumented(p) \in DOMAIN up => rec = up[Instrumented(p)]
<1> DEFINE up == Upgrade(sessions, p)
           admitted == Admit(up, p, ev)
           rec == IF Instrumented(p) \in DOMAIN up THEN up[Instrumented(p)]
                  ELSE NewRecord("instrumented", Earlier(ev.unix_ms, now))
<1>1. now \in Nat /\ peak \in Nat /\ now <= peak
  BY RegistryAssumption DEF IndInv, TypeOK
<1>2. MapOK(up) /\ Legacy(p) \notin DOMAIN up
  BY MapOKHolds, UpgradeOK
<1>3. MapOK(admitted)
  BY <1>1, <1>2, AdmitOK
<1>4. /\ DOMAIN admitted = DOMAIN up \cup {Instrumented(p)}
      /\ \A i \in DOMAIN up : i # Instrumented(p) => admitted[i] = up[i]
      /\ admitted[Instrumented(p)] = ApplyEvent(rec, ev, now)
  BY DEF Admit
<1>5. rec \in Record
  <2>1. ev.unix_ms \in Nat
    BY EventsAreEvents DEF Event
  <2>2. Earlier(ev.unix_ms, now) \in Nat
    BY <1>1, <2>1 DEF Earlier
  <2>3. NewRecord("instrumented", Earlier(ev.unix_ms, now)) \in Record
    BY <2>2, NewRecordType
  <2> QED BY <1>2, <2>3 DEF MapOK, WellFormed
<1>6. IsFiniteSet(DOMAIN up) /\ Cardinality(DOMAIN up) <= MaxTracked
      /\ Cardinality(DOMAIN up) \in Nat
  BY UpgradeFacts, FS_CardinalityType
<1> HIDE DEF up, admitted, rec
<1>7. /\ IsFiniteSet(DOMAIN admitted)
      /\ Cardinality(DOMAIN admitted) =
           IF Instrumented(p) \in DOMAIN up THEN Cardinality(DOMAIN up)
           ELSE Cardinality(DOMAIN up) + 1
  BY <1>4, <1>6, FS_AddElement
<1>8. WellFormed(admitted)
  BY <1>3 DEF MapOK
<1>9. Instrumented(p) \in DOMAIN up => Survivors(admitted) = DOMAIN admitted
  BY <1>6, <1>7, <1>8, NoEvictionWithinCap
<1>10. Cardinality(DOMAIN up) < MaxTracked => Survivors(admitted) = DOMAIN admitted
  <2>1. Cardinality(DOMAIN up) < MaxTracked => Cardinality(DOMAIN admitted) <= MaxTracked
    BY <1>6, <1>7, RegistryAssumption
  <2> QED BY <1>8, <2>1, NoEvictionWithinCap
<1>11. /\ Cardinality(DOMAIN admitted) \in Nat
       /\ Cardinality(DOMAIN admitted) <= MaxTracked + 1
  BY <1>6, <1>7, RegistryAssumption
<1> QED BY <1>3, <1>4, <1>5, <1>7, <1>9, <1>10, <1>11 DEF up, admitted, rec

-----------------------------------------------------------------------------
(* Eviction takes the weaker first *)

ActiveEvictedLastStep ==
  \A i \in Tracked \ Tracked' :
    EvictionClass(sessions[i]) = 2 /\ Fresh(sessions[i]) =>
      \A j \in Tracked' : EvictionClass(sessions'[j]) = 2

LEMMA ActiveIsInstrumented ==
  ASSUME IndInv, NEW i \in Tracked, EvictionClass(sessions[i]) = 2
  PROVE  /\ \E p \in Procs : i = Instrumented(p)
         /\ \A p \in Procs : i # Legacy(p)
         /\ sessions[i].kind = "instrumented"
<1>1. i \in SessionIds /\ sessions[i].kind = i[1]
  BY DEF IndInv, TypeOK, OneRecordPerProcess
<1>2. sessions[i].kind # "legacy"
  BY DEF EvictionClass
<1>3. i[1] \in {"instrumented", "legacy"} /\ i[2] \in Procs /\ i = <<i[1], i[2]>>
  BY <1>1 DEF SessionIds
<1> QED BY <1>1, <1>2, <1>3 DEF Instrumented, Legacy

LEMMA ActiveEvictedLastInStep == IndInv /\ [Next]_vars => ActiveEvictedLastStep
<1> SUFFICES ASSUME IndInv, [Next]_vars,
                    NEW i \in Tracked \ Tracked',
                    EvictionClass(sessions[i]) = 2, Fresh(sessions[i]),
                    NEW j \in Tracked'
             PROVE  EvictionClass(sessions'[j]) = 2
  BY DEF ActiveEvictedLastStep
<1>1. ASSUME NEW p \in Procs, NEW ev \in Events, AcceptTelemetry(p, ev)
      PROVE  EvictionClass(sessions'[j]) = 2
  <2> DEFINE up == Upgrade(sessions, p)
             admitted == Admit(up, p, ev)
  <2>1. sessions' = [k \in Survivors(admitted) |-> admitted[k]]
    BY <1>1 DEF AcceptTelemetry, EnforceSessionCap
  <2>2. Tracked' = Survivors(admitted) /\ sessions'[j] = admitted[j]
    BY <2>1 DEF Tracked
  <2>3. i # Legacy(p)
    BY ActiveIsInstrumented
  <2>4. i \in DOMAIN up /\ up[i] = sessions[i]
    BY <2>3, UpgradeFacts
  <2>5. i # Instrumented(p)
    BY <2>2, <2>4, AdmitFacts
  <2>6. i \in DOMAIN admitted /\ admitted[i] = sessions[i] /\ WellFormed(admitted)
    BY <2>4, <2>5, AdmitFacts DEF MapOK
  <2> HIDE DEF admitted, up
  <2> QED BY <2>2, <2>6, ActiveEvictedOnlyAmongActive
<1>2. ASSUME NEW found \in SUBSET Procs, RefreshDiscovery(found)
      PROVE  EvictionClass(sessions'[j]) = 2
  <2> DEFINE ret == Retained(found)
  <2>1. sessions' = [k \in Survivors(ret) |-> ret[k]]
    BY <1>2 DEF RefreshDiscovery, EnforceSessionCap
  <2>2. Tracked' = Survivors(ret) /\ sessions'[j] = ret[j]
    BY <2>1 DEF Tracked
  <2>3. i \in DOMAIN Refreshed(found) /\ Refreshed(found)[i] = sessions[i]
    BY ActiveIsInstrumented DEF Refreshed, Observe
  <2>4. i \in DOMAIN ret /\ ret[i] = sessions[i]
    BY <2>3 DEF Retained
  <2>5. WellFormed(ret)
    <3>1. now \in Nat /\ peak \in Nat /\ now <= peak
      BY RegistryAssumption DEF IndInv, TypeOK
    <3> QED BY <3>1, MapOKHolds, RetainedOK DEF MapOK
  <2> HIDE DEF ret
  <2> QED BY <2>2, <2>4, <2>5, ActiveEvictedOnlyAmongActive
<1>3. ASSUME NEW p \in Procs, NEW ev \in Events, RejectTelemetry(p, ev)
      PROVE  FALSE
  BY <1>3 DEF RejectTelemetry, Tracked
<1>4. CASE Tick
  BY <1>4 DEF Tick, Tracked
<1>5. CASE StepBack
  BY <1>5 DEF StepBack, Tracked
<1>6. CASE UNCHANGED vars
  BY <1>6 DEF vars, Tracked
<1> QED BY <1>1, <1>2, <1>3, <1>4, <1>5, <1>6 DEF Next

(* enforce_session_cap and compare_eviction_priority: in every step, if a   *)
(* fresh active instrumented session is evicted, only active ones remain.   *)
THEOREM WeakerEvictedFirst == Spec => ActiveEvictedLast
<1>1. IndInv /\ [Next]_vars => [ActiveEvictedLastStep]_vars
  BY ActiveEvictedLastInStep
<1>2. ActiveEvictedLast <=> [][ActiveEvictedLastStep]_vars
  BY PTL DEF ActiveEvictedLast, ActiveEvictedLastStep
<1> QED BY <1>1, <1>2, Invariance, PTL DEF Spec

-----------------------------------------------------------------------------
(* Admission *)

(* If every session_close reports its shutdown, an event that leaves its    *)
(* session active is one that admission treats as active.                   *)
LEMMA CloseIsShutdown ==
  ASSUME FALSE \notin CloseFlags, NEW ev \in Events, ~ShutdownAfter(ev)
  PROVE  ~SessionShutdown(ev)
<1>1. ev.shutdown \in BOOLEAN \cup {NONE} /\ ev.close \in BOOLEAN
  BY EventsAreEvents DEF Event
<1>2. ev.close = TRUE => ev.shutdown \in CloseFlags
  BY DEF Events
<1>3. CASE ev.shutdown = NONE
  BY <1>3 DEF ShutdownAfter
<1>4. CASE ev.shutdown # NONE
  <2>1. ev.shutdown = FALSE
    BY <1>1, <1>4 DEF ShutdownAfter
  <2>2. ev.close = FALSE
    BY <1>1, <1>2, <2>1
  <2> QED BY <2>1, <2>2 DEF SessionShutdown
<1> QED BY <1>3, <1>4

LEMMA EstablishedSurvivesInStep ==
  ASSUME FALSE \notin CloseFlags
  PROVE  IndInv /\ [Next]_vars => AdmissionStep
<1> SUFFICES ASSUME IndInv, [Next]_vars,
                    NEW q \in Procs, Instrumented(q) \in Tracked' \ Tracked,
                    NEW i \in Tracked, EvictionClass(sessions[i]) = 2,
                    i \notin Tracked'
             PROVE  FALSE
  BY DEF AdmissionStep
<1>1. ASSUME NEW p \in Procs, NEW ev \in Events, AcceptTelemetry(p, ev)
      PROVE  FALSE
  <2> DEFINE up == Upgrade(sessions, p)
             admitted == Admit(up, p, ev)
  <2>1. /\ sessions' = [k \in Survivors(admitted) |-> admitted[k]]
        /\ Instrumented(p) \in DOMAIN up \/ ~RejectNewActive(up, SessionShutdown(ev))
    BY <1>1 DEF AcceptTelemetry, EnforceSessionCap
  <2>2. Tracked' = Survivors(admitted)
    BY <2>1 DEF Tracked
  <2>3. i # Legacy(p)
    BY ActiveIsInstrumented
  <2>4. i \in DOMAIN up /\ up[i] = sessions[i] /\ i \in DOMAIN admitted
    BY <2>3, UpgradeFacts, AdmitFacts
  <2>5. Survivors(admitted) # DOMAIN admitted
    BY <2>2, <2>4
  <2>6. Instrumented(p) \notin DOMAIN up /\ ~(Cardinality(DOMAIN up) < MaxTracked)
    BY <2>5, AdmitFacts
  <2>7. i # Instrumented(p) /\ admitted[i] = sessions[i] /\ WellFormed(admitted)
    BY <2>4, <2>6, AdmitFacts DEF MapOK
  <2>8. \A k \in Survivors(admitted) : EvictionClass(admitted[k]) = 2
    <3> HIDE DEF admitted, up
    <3> QED BY <2>2, <2>4, <2>7, ActiveEvictedOnlyAmongActive
  <2>9. p = q
    <3>1. Instrumented(q) \in DOMAIN admitted
      BY <2>2 DEF Survivors
    <3>2. Instrumented(q) \in DOMAIN up => q = p \/ Instrumented(q) \in Tracked
      BY UpgradeFacts, IdFacts
    <3>3. Instrumented(q) = Instrumented(p) => q = p
      BY IdFacts
    <3> QED BY <3>1, <3>2, <3>3, AdmitFacts
  <2>10. ~SessionShutdown(ev)
    <3>1. EvictionClass(admitted[Instrumented(p)]) = 2
      BY <2>2, <2>8, <2>9
    <3>2. PICK rec \in Record : admitted[Instrumented(p)] = ApplyEvent(rec, ev, now)
      BY AdmitFacts
    <3>3. ApplyEvent(rec, ev, now).shutdown = ShutdownAfter(ev)
      BY DEF ApplyEvent
    <3> HIDE DEF admitted, up
    <3>4. ~ShutdownAfter(ev)
      BY <3>1, <3>2, <3>3 DEF EvictionClass
    <3> QED BY <3>4, CloseIsShutdown
  <2>11. PICK w \in DOMAIN up : EvictionClass(up[w]) # 2
    <3>1. IsFiniteSet(DOMAIN up) /\ Cardinality(DOMAIN up) \in Nat
      BY UpgradeFacts, FS_CardinalityType
    <3> QED BY <2>1, <2>6, <2>10, <3>1, RegistryAssumption DEF RejectNewActive
  <2>12. /\ w \in DOMAIN admitted /\ w # Instrumented(p) /\ w # i
         /\ EvictionClass(admitted[w]) # 2
    BY <2>4, <2>6, <2>11, AdmitFacts
  <2> HIDE DEF admitted
  <2>13. EvictionClass(admitted[w]) < EvictionClass(admitted[i])
    BY <2>7, <2>12 DEF EvictionClass
  <2>14. Above(admitted, i) \in SUBSET ((DOMAIN admitted \ {i}) \ {w})
    BY <2>4, <2>7, <2>12, <2>13, EvictionOrder DEF Above, EvictedBefore
  <2>15. /\ IsFiniteSet(DOMAIN admitted) /\ Cardinality(DOMAIN admitted) \in Nat
         /\ Cardinality(DOMAIN admitted) <= MaxTracked + 1
    BY AdmitFacts DEF admitted
  <2>16. /\ IsFiniteSet(DOMAIN admitted \ {i})
         /\ Cardinality(DOMAIN admitted \ {i}) = Cardinality(DOMAIN admitted) - 1
    BY <2>4, <2>15, FS_RemoveElement
  <2>17. /\ IsFiniteSet((DOMAIN admitted \ {i}) \ {w})
         /\ Cardinality((DOMAIN admitted \ {i}) \ {w}) = Cardinality(DOMAIN admitted) - 2
    <3> DEFINE rest == DOMAIN admitted \ {i}
    <3>1. w \in rest /\ IsFiniteSet(rest)
      BY <2>12, <2>16
    <3>2. Cardinality(rest) = Cardinality(DOMAIN admitted) - 1
      BY <2>16
    <3> HIDE DEF rest
    <3>3. IsFiniteSet(rest \ {w}) /\ Cardinality(rest \ {w}) = Cardinality(rest) - 1
      BY <3>1, FS_RemoveElement
    <3>4. Cardinality(rest \ {w}) = Cardinality(DOMAIN admitted) - 2
      BY <2>15, <3>2, <3>3
    <3> QED BY <3>3, <3>4 DEF rest
  <2>18. /\ Cardinality(Above(admitted, i)) \in Nat
         /\ Cardinality(Above(admitted, i)) <= Cardinality(DOMAIN admitted) - 2
    BY <2>14, <2>17, FS_Subset, FS_CardinalityType
  <2>19. ~(Cardinality(Above(admitted, i)) < MaxTracked)
    BY <2>2, <2>4 DEF Survivors
  <2> QED BY <2>15, <2>18, <2>19, RegistryAssumption
<1>2. ASSUME NEW found \in SUBSET Procs, RefreshDiscovery(found)
      PROVE  FALSE
  <2>1. Tracked' = Survivors(Retained(found))
    BY <1>2 DEF RefreshDiscovery, EnforceSessionCap, Tracked
  <2>2. Instrumented(q) \in Tracked \cup SeenIds(found)
    BY <2>1 DEF Survivors, Retained, Refreshed
  <2>3. \A id \in SeenIds(found) : id \in Tracked \/ \E p \in Procs : id = Legacy(p)
    BY DEF SeenIds, SeenId
  <2> QED BY <2>2, <2>3, IdFacts
<1>3. ASSUME NEW p \in Procs, NEW ev \in Events, RejectTelemetry(p, ev)
      PROVE  FALSE
  BY <1>3 DEF RejectTelemetry, Tracked
<1>4. CASE Tick
  BY <1>4 DEF Tick, Tracked
<1>5. CASE StepBack
  BY <1>5 DEF StepBack, Tracked
<1>6. CASE UNCHANGED vars
  BY <1>6 DEF vars, Tracked
<1> QED BY <1>1, <1>2, <1>3, <1>4, <1>5, <1>6 DEF Next

(* reject_new_active_instrumented_session does what its comment says, as    *)
(* long as no session_close event carries shutdown = false.                 *)
THEOREM AdmissionProtectsEstablished ==
  ASSUME FALSE \notin CloseFlags
  PROVE  Spec => EstablishedActiveSurvives
<1>1. IndInv /\ [Next]_vars => [AdmissionStep]_vars
  BY EstablishedSurvivesInStep
<1> QED BY <1>1, Invariance, PTL DEF Spec, EstablishedActiveSurvives

-----------------------------------------------------------------------------
(* Time *)

ObservationsNeverRegressStep ==
  \A p \in Procs : Instrumented(p) \in Tracked' =>
    \A i \in {Instrumented(p), Legacy(p)} \cap Tracked :
      sessions'[Instrumented(p)].last_observed >= sessions[i].last_observed

LEMMA ObservationsInStep == IndInv /\ [Next]_vars => ObservationsNeverRegressStep
<1> SUFFICES ASSUME IndInv, [Next]_vars,
                    NEW q \in Procs, Instrumented(q) \in Tracked',
                    NEW i \in {Instrumented(q), Legacy(q)} \cap Tracked
             PROVE  sessions'[Instrumented(q)].last_observed >= sessions[i].last_observed
  BY DEF ObservationsNeverRegressStep
<1>1. /\ sessions[i] \in Record /\ sessions[i].last_observed \in Nat
      /\ ~(Instrumented(q) \in Tracked /\ Legacy(q) \in Tracked)
      /\ now \in Nat
  BY RegistryAssumption DEF IndInv, TypeOK, OneRecordPerProcess, Record
<1>2. ASSUME sessions' = sessions
      PROVE  sessions'[Instrumented(q)].last_observed >= sessions[i].last_observed
  BY <1>1, <1>2 DEF Tracked
<1>3. ASSUME NEW p \in Procs, NEW ev \in Events, AcceptTelemetry(p, ev)
      PROVE  sessions'[Instrumented(q)].last_observed >= sessions[i].last_observed
  <2> DEFINE up == Upgrade(sessions, p)
             admitted == Admit(up, p, ev)
  <2>1. sessions' = [k \in Survivors(admitted) |-> admitted[k]]
    BY <1>3 DEF AcceptTelemetry, EnforceSessionCap
  <2>2. /\ Instrumented(q) \in DOMAIN admitted
        /\ sessions'[Instrumented(q)] = admitted[Instrumented(q)]
    BY <2>1 DEF Tracked, Survivors
  <2>3. CASE q = p
    <3>1. /\ Instrumented(p) \in DOMAIN up
          /\ up[Instrumented(p)].last_observed = sessions[i].last_observed
      BY <2>3, UpgradeFacts
    <3>2. PICK rec \in Record :
            /\ admitted[Instrumented(p)] = ApplyEvent(rec, ev, now)
            /\ rec = up[Instrumented(p)]
      BY <3>1, AdmitFacts
    <3>3. ev \in Event /\ ev.unix_ms \in Nat
      BY EventsAreEvents DEF Event
    <3> HIDE DEF up, admitted
    <3>4. ApplyEvent(rec, ev, now).last_observed >= rec.last_observed
      <4>1. ApplyEvent(rec, ev, now).last_observed
              = NormalizeEventMs(rec, ev.unix_ms, now)
        BY <1>1, <3>3, ApplyEventType
      <4>2. rec.last_observed \in Nat
        BY <1>1, <3>1, <3>2
      <4>3. NormalizeEventMs(rec, ev.unix_ms, now) >= rec.last_observed
        BY <1>1, <3>3, <4>2, NormalizeBounds
      <4> QED BY <4>1, <4>3
    <3> QED BY <2>2, <2>3, <3>1, <3>2, <3>4
  <2>4. CASE q # p
    <3>1. Instrumented(q) # Instrumented(p)
      BY <2>4, IdFacts
    <3>2. Instrumented(q) \in DOMAIN up /\ admitted[Instrumented(q)] = up[Instrumented(q)]
      <4>1. /\ DOMAIN admitted = DOMAIN up \cup {Instrumented(p)}
            /\ \A k \in DOMAIN up : k # Instrumented(p) => admitted[k] = up[k]
        BY AdmitFacts
      <4> HIDE DEF up, admitted
      <4> QED BY <2>2, <3>1, <4>1
    <3>3. Instrumented(q) \in Tracked /\ up[Instrumented(q)] = sessions[Instrumented(q)]
      BY <3>1, <3>2, UpgradeFacts
    <3> QED BY <1>1, <2>2, <3>2, <3>3
  <2> QED BY <2>3, <2>4
<1>4. ASSUME NEW found \in SUBSET Procs, RefreshDiscovery(found)
      PROVE  sessions'[Instrumented(q)].last_observed >= sessions[i].last_observed
  <2> DEFINE ret == Retained(found)
  <2>1. sessions' = [k \in Survivors(ret) |-> ret[k]]
    BY <1>4 DEF RefreshDiscovery, EnforceSessionCap
  <2>2. /\ Instrumented(q) \in DOMAIN Refreshed(found)
        /\ sessions'[Instrumented(q)] = Refreshed(found)[Instrumented(q)]
    BY <2>1 DEF Tracked, Survivors, Retained
  <2>3. \A id \in SeenIds(found) : id \in Tracked \/ \E p \in Procs : id = Legacy(p)
    BY DEF SeenIds, SeenId
  <2>4. Instrumented(q) \in Tracked
    BY <2>2, <2>3, IdFacts DEF Refreshed
  <2>5. i = Instrumented(q) /\ sessions[i].kind = "instrumented"
    BY <1>1, <2>4, IdFacts DEF IndInv, OneRecordPerProcess
  <2>6. Refreshed(found)[i] = sessions[i]
    BY <2>4, <2>5 DEF Refreshed, Observe
  <2> QED BY <1>1, <2>2, <2>5, <2>6
<1>5. ASSUME NEW p \in Procs, NEW ev \in Events, RejectTelemetry(p, ev)
      PROVE  sessions' = sessions
  BY <1>5 DEF RejectTelemetry
<1>6. CASE Tick
  BY <1>2, <1>6 DEF Tick
<1>7. CASE StepBack
  BY <1>2, <1>7 DEF StepBack
<1>8. CASE UNCHANGED vars
  BY <1>2, <1>8 DEF vars
<1> QED BY <1>2, <1>3, <1>4, <1>5, <1>6, <1>7, <1>8 DEF Next

(* normalize_event_unix_ms and the handoff in apply_telemetry_at: the last  *)
(* observation of a process with telemetry never moves back.                *)
THEOREM ObservationTimeMonotone == Spec => ObservationsNeverRegress
<1>1. IndInv /\ [Next]_vars => [ObservationsNeverRegressStep]_vars
  BY ObservationsInStep
<1>2. ObservationsNeverRegress <=> [][ObservationsNeverRegressStep]_vars
  BY PTL DEF ObservationsNeverRegress, ObservationsNeverRegressStep
<1> QED BY <1>1, <1>2, Invariance, PTL DEF Spec

-----------------------------------------------------------------------------
(* Losses *)

(* The sessions that NoSilentLoss is about. *)
Lost == {i \in Tracked : Fresh(sessions[i]) /\ SeenId(i[2])' \notin Tracked'}

NoSilentLossStep ==
  LET lost == {i \in Tracked : Fresh(sessions[i])
                                /\ SeenId(i[2])' \notin Tracked'}
  IN \/ Cardinality(lost) <= dropped' - dropped
     \/ dropped' = MaxDropped

(* The evicted records of a map are counted by Evicted. *)
LEMMA EvictedCount ==
  ASSUME NEW ss, WellFormed(ss)
  PROVE  /\ IsFiniteSet(DOMAIN ss \ Survivors(ss))
         /\ Cardinality(DOMAIN ss \ Survivors(ss)) = Evicted(ss)
         /\ Evicted(ss) \in Nat
<1>1. IsFiniteSet(DOMAIN ss)
  BY ProcsFinite, FS_Subset DEF WellFormed
<1>2. DOMAIN ss \cap Survivors(ss) = Survivors(ss)
  BY DEF Survivors
<1>3. /\ IsFiniteSet(DOMAIN ss \ Survivors(ss))
      /\ Cardinality(DOMAIN ss \ Survivors(ss)) = Evicted(ss)
  BY <1>1, <1>2, FS_Difference DEF Evicted
<1> QED BY <1>3, FS_CardinalityType

(* A process is lost when neither of its ids is tracked any more. *)
LEMMA LostIds ==
  ASSUME Tracked \subseteq SessionIds, NEW i \in Lost
  PROVE  \E p \in Procs : /\ i \in {Instrumented(p), Legacy(p)}
                          /\ i \in Tracked /\ Fresh(sessions[i])
                          /\ Instrumented(p) \notin Tracked'
                          /\ Legacy(p) \notin Tracked'
<1>1. i \in Tracked /\ Fresh(sessions[i]) /\ SeenId(i[2])' \notin Tracked'
  BY DEF Lost
<1>2. PICK p \in Procs : i \in {Instrumented(p), Legacy(p)}
  BY <1>1 DEF SessionIds, Instrumented, Legacy
<1>3. i[2] = p
  BY <1>2, IdFacts
<1>4. Instrumented(p) \notin Tracked' /\ Legacy(p) \notin Tracked'
  BY <1>1, <1>3 DEF SeenId
<1> QED BY <1>1, <1>2, <1>4

(* Nothing is lost where the map stays as it is. *)
LEMMA NothingLostUnchanged ==
  ASSUME Tracked \subseteq SessionIds, sessions' = sessions
  PROVE  Cardinality(Lost) = 0
<1>1. \A i \in Lost : FALSE
  BY LostIds DEF Tracked
<1> QED BY <1>1, FS_EmptySet

(* Counting the evictions covers as many losses as there are evictions. *)
LEMMA LossesCounted ==
  ASSUME IndInv, NEW ss, WellFormed(ss),
         Cardinality(Lost) \in Nat, Cardinality(Lost) <= Evicted(ss),
         dropped' = SaturatingAdd(dropped, Evicted(ss))
  PROVE  Cardinality(Lost) <= dropped' - dropped \/ dropped' = MaxDropped
<1>1. Evicted(ss) \in Nat
  BY EvictedCount
<1>2. dropped \in 0..MaxDropped /\ MaxDropped \in Nat
  BY RegistryAssumption DEF IndInv, TypeOK
<1> QED BY <1>1, <1>2 DEF SaturatingAdd, Earlier

(* An accepted event loses the records it evicts; the placeholder that it   *)
(* hands over counts as the record it becomes.                              *)
LEMMA AcceptLosses ==
  ASSUME IndInv, NEW p \in Procs, NEW ev \in Events, AcceptTelemetry(p, ev)
  PROVE  LET admitted == Admit(Upgrade(sessions, p), p, ev)
         IN /\ WellFormed(admitted)
            /\ Cardinality(Lost) \in Nat /\ Cardinality(Lost) <= Evicted(admitted)
<1> DEFINE up == Upgrade(sessions, p)
           admitted == Admit(up, p, ev)
           out == DOMAIN admitted \ Survivors(admitted)
<1>1. WellFormed(admitted) /\ DOMAIN admitted = DOMAIN up \cup {Instrumented(p)}
  BY AdmitFacts DEF MapOK
<1>2. Tracked' = Survivors(admitted)
  BY DEF AcceptTelemetry, EnforceSessionCap, Tracked
<1>3. Tracked \subseteq SessionIds /\ \A i \in Tracked : i # Legacy(p) => i \in DOMAIN up
  BY UpgradeFacts DEF IndInv, TypeOK
<1>4. IsFiniteSet(Lost) /\ Cardinality(Lost) \in Nat
  BY <1>3, ProcsFinite, FS_Subset, FS_CardinalityType DEF Lost
<1> HIDE DEF up, admitted
<1>5. IsFiniteSet(out) /\ Cardinality(out) = Evicted(admitted) /\ Cardinality(out) \in Nat
  BY <1>1, EvictedCount
<1>6. \A i \in Lost : i # Legacy(p) => i \in out
  <2> SUFFICES ASSUME NEW i \in Lost, i # Legacy(p) PROVE i \in out
    OBVIOUS
  <2>1. i \in Tracked /\ i \notin Tracked'
    BY <1>3, LostIds
  <2> QED BY <1>1, <1>2, <1>3, <2>1
<1>7. CASE Legacy(p) \notin Lost
  <2>1. Lost \in SUBSET out
    BY <1>6, <1>7
  <2>2. Cardinality(Lost) <= Cardinality(out)
    BY <1>5, <2>1, FS_Subset
  <2> QED BY <1>1, <1>4, <1>5, <2>2 DEF up, admitted
<1>8. CASE Legacy(p) \in Lost
  <2> DEFINE others == Lost \ {Legacy(p)}
  <2>1. Legacy(p) \in Tracked /\ Instrumented(p) \notin Tracked'
    <3>1. PICK q \in Procs : /\ Legacy(p) \in {Instrumented(q), Legacy(q)}
                             /\ Legacy(p) \in Tracked /\ Instrumented(q) \notin Tracked'
      BY <1>3, <1>8, LostIds
    <3> QED BY <3>1, IdFacts
  <2>2. Instrumented(p) \notin Tracked
    BY <2>1 DEF IndInv, OneRecordPerProcess
  <2>3. Instrumented(p) \in out /\ Instrumented(p) \notin others
    BY <1>1, <1>2, <2>1, <2>2 DEF Lost
  <2>4. others \cup {Instrumented(p)} \in SUBSET out
    BY <1>6, <2>3
  <2>5. IsFiniteSet(others) /\ Cardinality(others) = Cardinality(Lost) - 1
    BY <1>4, <1>8, FS_RemoveElement
  <2> HIDE DEF others
  <2>6. Cardinality(others \cup {Instrumented(p)}) = Cardinality(others) + 1
    BY <2>3, <2>5, FS_AddElement
  <2>7. Cardinality(others \cup {Instrumented(p)}) <= Cardinality(out)
    BY <1>5, <2>4, FS_Subset
  <2> QED BY <1>1, <1>4, <1>5, <2>5, <2>6, <2>7 DEF up, admitted
<1> QED BY <1>7, <1>8

(* A scan retains what is fresh, so that it loses only what it evicts. *)
LEMMA RefreshLosses ==
  ASSUME IndInv, NEW found \in SUBSET Procs, RefreshDiscovery(found)
  PROVE  /\ WellFormed(Retained(found))
         /\ Cardinality(Lost) \in Nat /\ Cardinality(Lost) <= Evicted(Retained(found))
<1> DEFINE ret == Retained(found)
           out == DOMAIN ret \ Survivors(ret)
<1>1. WellFormed(ret)
  <2>1. now \in Nat /\ peak \in Nat /\ now <= peak
    BY RegistryAssumption DEF IndInv, TypeOK
  <2>2. MapOK(ret)
    BY <2>1, MapOKHolds, RetainedOK
  <2> QED BY <2>2 DEF MapOK
<1>2. Tracked' = Survivors(ret)
  BY DEF RefreshDiscovery, EnforceSessionCap, Tracked
<1>3. Tracked \subseteq SessionIds
  BY DEF IndInv, TypeOK
<1>4. \A i \in Lost : i \in DOMAIN ret
  <2> SUFFICES ASSUME NEW i \in Lost PROVE i \in DOMAIN ret
    OBVIOUS
  <2>1. i \in Tracked /\ Fresh(sessions[i])
    BY DEF Lost
  <2>2. i \in DOMAIN Refreshed(found)
    BY <2>1 DEF Refreshed
  <2>3. i \notin SeenIds(found) => Refreshed(found)[i] = sessions[i]
    BY <2>1 DEF Refreshed
  <2> QED BY <2>1, <2>2, <2>3 DEF Retained
<1> HIDE DEF ret
<1>5. Lost \in SUBSET out
  BY <1>2, <1>3, <1>4, LostIds
<1>6. IsFiniteSet(out) /\ Cardinality(out) = Evicted(ret)
  BY <1>1, EvictedCount
<1>7. IsFiniteSet(Lost) /\ Cardinality(Lost) <= Cardinality(out)
  BY <1>5, <1>6, FS_Subset
<1> QED BY <1>1, <1>6, <1>7, FS_CardinalityType DEF ret

(* A counter that did not fall has counted no less than nothing. *)
LEMMA NotNegative == \A m, n \in Nat : m <= n => 0 <= n - m
OBVIOUS

LEMMA LossInStep == IndInv /\ [Next]_vars => NoSilentLossStep
<1> SUFFICES ASSUME IndInv, [Next]_vars
             PROVE  Cardinality(Lost) <= dropped' - dropped \/ dropped' = MaxDropped
  BY DEF NoSilentLossStep, Lost
<1>1. /\ Tracked \subseteq SessionIds
      /\ dropped \in 0..MaxDropped /\ MaxDropped \in Nat
  BY RegistryAssumption DEF IndInv, TypeOK
<1>2. ASSUME NEW p \in Procs, NEW ev \in Events, AcceptTelemetry(p, ev)
      PROVE  Cardinality(Lost) <= dropped' - dropped \/ dropped' = MaxDropped
  <2> DEFINE admitted == Admit(Upgrade(sessions, p), p, ev)
  <2>1. dropped' = SaturatingAdd(dropped, Evicted(admitted))
    BY <1>2 DEF AcceptTelemetry
  <2>2. /\ WellFormed(admitted)
        /\ Cardinality(Lost) \in Nat /\ Cardinality(Lost) <= Evicted(admitted)
    BY <1>2, AcceptLosses
  <2> HIDE DEF admitted
  <2> QED BY <2>1, <2>2, LossesCounted
<1>3. ASSUME NEW found \in SUBSET Procs, RefreshDiscovery(found)
      PROVE  Cardinality(Lost) <= dropped' - dropped \/ dropped' = MaxDropped
  <2> DEFINE ret == Retained(found)
  <2>1. dropped' = SaturatingAdd(dropped, Evicted(ret))
    BY <1>3 DEF RefreshDiscovery
  <2>2. /\ WellFormed(ret)
        /\ Cardinality(Lost) \in Nat /\ Cardinality(Lost) <= Evicted(ret)
    BY <1>3, RefreshLosses
  <2> HIDE DEF ret
  <2> QED BY <2>1, <2>2, LossesCounted
<1>4. ASSUME sessions' = sessions, dropped' >= dropped, dropped' \in Nat
      PROVE  Cardinality(Lost) <= dropped' - dropped \/ dropped' = MaxDropped
  <2>1. Cardinality(Lost) = 0
    BY <1>1, <1>4, NothingLostUnchanged
  <2>2. dropped \in Nat /\ dropped' \in Nat /\ dropped <= dropped'
    BY <1>1, <1>4
  <2>3. 0 <= dropped' - dropped
    BY <2>2, NotNegative
  <2> QED BY <2>1, <2>3
<1>5. ASSUME NEW p \in Procs, NEW ev \in Events, RejectTelemetry(p, ev)
      PROVE  Cardinality(Lost) <= dropped' - dropped \/ dropped' = MaxDropped
  <2>1. sessions' = sessions /\ dropped' = SaturatingAdd(dropped, 1)
    BY <1>5 DEF RejectTelemetry
  <2>2. dropped' >= dropped /\ dropped' \in Nat
    BY <1>1, <2>1 DEF SaturatingAdd, Earlier
  <2> QED BY <1>4, <2>1, <2>2
<1>6. CASE Tick
  BY <1>1, <1>4, <1>6 DEF Tick
<1>7. CASE StepBack
  BY <1>1, <1>4, <1>7 DEF StepBack
<1>8. CASE UNCHANGED vars
  BY <1>1, <1>4, <1>8 DEF vars
<1> QED BY <1>2, <1>3, <1>5, <1>6, <1>7, <1>8 DEF Next

(* enforce_session_cap, the rejection and the retain of refresh_discovery:  *)
(* a process that had not outlived its grace period leaves the map only     *)
(* with a count in dropped_sessions_total, unless that is saturated.        *)
THEOREM LossesAreCounted == Spec => NoSilentLoss
<1>1. IndInv /\ [Next]_vars => [NoSilentLossStep]_vars
  BY LossInStep
<1>2. NoSilentLoss <=> [][NoSilentLossStep]_vars
  BY PTL DEF NoSilentLoss, NoSilentLossStep
<1> QED BY <1>1, <1>2, Invariance, PTL DEF Spec
=============================================================================
