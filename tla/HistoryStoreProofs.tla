-------------------------- MODULE HistoryStoreProofs --------------------------
(***************************************************************************)
(* The disk budget and the byte count of the persistent history, what is   *)
(* given up for them, what torn writes cost and what queries answer, for   *)
(* every budget, retention and size of samples, any number of faults and   *)
(* any clock.                                                              *)
(*                                                                         *)
(* The size of a directory is the number of its bytes (Stored), so that a  *)
(* removal or an append changes it by the bytes it takes or adds. The      *)
(* invariant says, for each place of the sampler, what its byte count is   *)
(* worth there.                                                            *)
(*                                                                         *)
(* A sample is intact if it is in its file as a line of its own, newline   *)
(* included: no later step but a removal changes that. A write that stops  *)
(* leaves a line unfinished, and the next write to that file spoils its    *)
(* first sample and finishes the line; so spoiled samples and unfinished   *)
(* lines together are at most as many as the writes that stopped.          *)
(*                                                                         *)
(* A query reads files while they grow and go. What makes its answer whole *)
(* is that a file is in the order of the cycles, with no byte twice, and   *)
(* that a sample that could be read once and cannot any more is never      *)
(* readable again: what is still to be written of it is its newline.       *)
(***************************************************************************)
EXTENDS HistoryStore, FiniteSetTheorems, SequenceTheorems, TLAPS

IsSeq(s) == s \in Seq({s[i] : i \in DOMAIN s})

Places == {"idle", "list", "prune", "budget", "evict", "open", "write"}
Counters == {"written_bytes", "write_failures", "prune_failures", "dropped_samples"}

Directory(fs) ==
  /\ DOMAIN fs \subseteq Nat /\ \A d \in DOMAIN fs : IsSeq(fs[d])
  /\ IsFiniteSet(Stored(fs))

TypeOK ==
  /\ Directory(files)
  /\ current_bytes \in Nat /\ bytes \in Nat /\ now \in Nat /\ recorded \in Nat
  /\ cycle \in Nat /\ batch \in Seq(Sessions) /\ IsSeq(rest)
  /\ stats \in [Counters -> Nat]
  /\ sampler \in Places /\ listing \subseteq DOMAIN files /\ blind \in BOOLEAN

(* What the byte count is worth. *)
CountOK ==
  /\ sampler \in {"idle", "list", "budget"} =>
       bytes = 0 /\ (~blind => current_bytes = DirBytes(files))
  /\ sampler = "prune" =>
       /\ ~blind => current_bytes = DirBytes(files) + bytes
       /\ \A d \in listing : d < OldestDay
  /\ sampler \in {"evict", "open"} => bytes = DirBytes(files)
  /\ sampler = "evict" => listing = Evictable
  /\ sampler = "open" => Fits(bytes)
  /\ sampler = "write" =>
       /\ Fits(bytes) /\ Len(rest) <= Len(Payload)
       /\ bytes + Len(Payload) = DirBytes(files) + Len(rest)

IInv == TypeOK /\ CountOK /\ BudgetIsHard

-----------------------------------------------------------------------------
(* Sequences of bytes *)

LEMMA SeqOver ==
  ASSUME NEW S, NEW s \in Seq(S)
  PROVE  IsSeq(s)
<1>1. s \in [1..Len(s) -> S] /\ Len(s) \in Nat
  BY LenProperties
<1>2. s \in [1..Len(s) -> {s[i] : i \in DOMAIN s}]
  BY <1>1
<1> QED BY <1>1, <1>2, SeqDef DEF IsSeq

LEMMA Places1 ==
  ASSUME NEW s, IsSeq(s)
  PROVE  Len(s) \in Nat /\ DOMAIN s = 1..Len(s)
BY LenProperties DEF IsSeq

LEMMA Joined ==
  ASSUME NEW s, NEW t, IsSeq(s), IsSeq(t)
  PROVE  IsSeq(s \o t) /\ Len(s \o t) = Len(s) + Len(t)
<1> DEFINE S == {s[i] : i \in DOMAIN s} \cup {t[i] : i \in DOMAIN t}
<1>1. s \in [1..Len(s) -> S] /\ t \in [1..Len(t) -> S] /\ Len(s) \in Nat /\ Len(t) \in Nat
  BY LenProperties DEF IsSeq
<1>2. s \in Seq(S) /\ t \in Seq(S)
  BY <1>1, SeqDef
<1> HIDE DEF S
<1> QED BY <1>2, SeqOver, ConcatProperties

LEMMA Cut ==
  ASSUME NEW s, IsSeq(s), NEW n \in 1..Len(s)
  PROVE  /\ IsSeq(SubSeq(s, 1, n)) /\ Len(SubSeq(s, 1, n)) = n
         /\ IsSeq(SubSeq(s, n + 1, Len(s))) /\ Len(SubSeq(s, n + 1, Len(s))) = Len(s) - n
<1> DEFINE S == {s[i] : i \in DOMAIN s}
<1>1. s \in Seq(S) /\ Len(s) \in Nat
  BY LenProperties DEF IsSeq
<1> HIDE DEF S
<1>2. SubSeq(s, 1, n) \in Seq(S) /\ Len(SubSeq(s, 1, n)) = n
  BY <1>1, SubSeqProperties
<1>3. SubSeq(s, n + 1, Len(s)) \in Seq(S) /\ Len(SubSeq(s, n + 1, Len(s))) = Len(s) - n
  BY <1>1, SubSeqProperties
<1> QED BY <1>2, <1>3, SeqOver

LEMMA PayloadSize ==
  ASSUME TypeOK
  PROVE  IsSeq(Payload) /\ Len(Payload) = Len(batch) * SampleBytes /\ Len(Payload) \in Nat
<1> DEFINE n == Len(batch) * SampleBytes
<1>1. n \in Nat
  BY HistoryAssumption, LenProperties DEF TypeOK, Directory
<1>2. DOMAIN Payload = 1..n /\ Payload = [k \in 1..n |-> Payload[k]]
  BY DEF Payload, EncodeHistoryPayload
<1> HIDE DEF n
<1>3. Payload \in [1..n -> {Payload[i] : i \in DOMAIN Payload}]
  BY <1>2
<1>4. IsSeq(Payload)
  BY <1>1, <1>3, SeqDef DEF IsSeq
<1>5. Len(Payload) = n
  BY <1>1, <1>2, <1>4, Places1
<1> QED BY <1>1, <1>4, <1>5 DEF n

-----------------------------------------------------------------------------
(* The size of the directory *)

LEMMA SizeType == \A fs : Directory(fs) => DirBytes(fs) \in Nat
BY FS_CardinalityType DEF Directory, DirBytes

(* A block of places in one file. *)
LEMMA Block ==
  ASSUME NEW d, NEW a \in Nat, NEW b \in Nat, a <= b + 1
  PROVE  /\ IsFiniteSet({d} \X (a..b))
         /\ Cardinality({d} \X (a..b)) = b + 1 - a
<1>1. a \in Int /\ b \in Int /\ b + 1 - a \in Nat
  OBVIOUS
<1>2. /\ IsFiniteSet(a..b)
      /\ Cardinality(a..b) = IF a > b THEN 0 ELSE b - a + 1
  BY <1>1, FS_Interval
<1>3. Cardinality(a..b) = b + 1 - a
  BY <1>1, <1>2
<1>4. IsFiniteSet({d}) /\ Cardinality({d}) = 1
  BY FS_Singleton
<1>5. /\ IsFiniteSet({d} \X (a..b))
      /\ Cardinality({d} \X (a..b)) = Cardinality({d}) * Cardinality(a..b)
  BY <1>2, <1>4, FS_Product
<1>6. 1 * (b + 1 - a) = b + 1 - a
  BY <1>1
<1> QED BY <1>3, <1>4, <1>5, <1>6

LEMMA Removed ==
  ASSUME TypeOK, NEW d \in DOMAIN files
  PROVE  /\ DOMAIN Without(d) = DOMAIN files \ {d}
         /\ Directory(Without(d))
         /\ DirBytes(Without(d)) = DirBytes(files) - Len(files[d])
         /\ Len(files[d]) \in Nat
<1>1. Len(files[d]) \in Nat /\ DOMAIN files[d] = 1..Len(files[d])
  BY Places1 DEF TypeOK, Directory
<1>2. /\ DOMAIN Without(d) = DOMAIN files \ {d}
      /\ \A e \in DOMAIN Without(d) : Without(d)[e] = files[e]
  BY DEF Without
<1> DEFINE block == {d} \X (1..Len(files[d]))
<1>3. block \subseteq Stored(files)
  BY <1>1 DEF Stored
<1>4. Stored(Without(d)) = Stored(files) \ block
  BY <1>1, <1>2 DEF Stored
<1>5. Cardinality(block) = Len(files[d])
  <2>1. \A k \in Nat : Cardinality({d} \X (1..k)) = k
    <3>1. ASSUME NEW k \in Nat PROVE Cardinality({d} \X (1..k)) = k
      <4>1. 1 \in Nat /\ 1 <= k + 1 /\ k + 1 - 1 = k
        OBVIOUS
      <4> QED BY <4>1, Block
    <3> QED BY <3>1
  <2> QED BY <1>1, <2>1
<1> HIDE DEF block
<1>6. block \cap Stored(files) = block /\ Stored(files) \cap block = block
  BY <1>3
<1>7. /\ IsFiniteSet(Stored(files) \ block)
      /\ Cardinality(Stored(files) \ block)
           = Cardinality(Stored(files)) - Cardinality(Stored(files) \cap block)
  <2>1. IsFiniteSet(Stored(files))
    BY DEF TypeOK, Directory
  <2> QED BY <2>1, FS_Difference
<1> QED BY <1>1, <1>2, <1>4, <1>5, <1>6, <1>7 DEF TypeOK, Directory, DirBytes

LEMMA Appended ==
  ASSUME TypeOK, NEW d \in Nat, NEW more, IsSeq(more)
  PROVE  LET fs == AppendTo(d, more)
         IN /\ DOMAIN fs = DOMAIN files \cup {d}
            /\ Directory(fs)
            /\ DirBytes(fs) = DirBytes(files) + Len(more)
<1> DEFINE fs == AppendTo(d, more)
           old == IF d \in DOMAIN files THEN files[d] ELSE <<>>
           n == Len(old)
           m == Len(old \o more)
           block == {d} \X ((n + 1)..m)
<1>1. DOMAIN fs = DOMAIN files \cup {d} /\ fs[d] = old \o more
      /\ \A e \in DOMAIN files \ {d} : fs[e] = files[e]
  BY DEF AppendTo
<1>2. IsSeq(old)
  <2>1. IsSeq(<<>>)
    BY EmptySeq, SeqOver
  <2> QED BY <2>1 DEF TypeOK, Directory
<1>3. /\ IsSeq(old \o more) /\ m = n + Len(more) /\ Len(more) \in Nat
      /\ n \in Nat /\ m \in Nat /\ DOMAIN old = 1..n /\ DOMAIN (old \o more) = 1..m
  BY <1>2, Joined, Places1
<1>4. \A e \in DOMAIN fs : IsSeq(fs[e])
  BY <1>1, <1>3 DEF TypeOK, Directory
<1>5. d \in DOMAIN files => DOMAIN files[d] = 1..n
  BY <1>3
<1>6. d \notin DOMAIN files => n = 0
  OBVIOUS
<1>7. IsFiniteSet(block) /\ Cardinality(block) = Len(more)
  <2> HIDE DEF n, m
  <2>1. n + 1 \in Nat /\ n + 1 <= m + 1 /\ m + 1 - (n + 1) = Len(more)
    BY <1>3
  <2> QED BY <1>3, <2>1, Block
<1>8. DOMAIN fs[d] = 1..m
  BY <1>1, <1>3
<1> HIDE DEF fs, n, m, old
<1>9. Stored(fs) = Stored(files) \cup block
  <2>1. ASSUME NEW x \in Stored(fs) PROVE x \in Stored(files) \cup block
    <3>1. PICK e \in DOMAIN fs : x \in {e} \X DOMAIN fs[e]
      BY <2>1 DEF Stored
    <3>2. CASE e # d
      <4>1. e \in DOMAIN files /\ x \in {e} \X DOMAIN files[e]
        BY <1>1, <3>1, <3>2
      <4> QED BY <4>1 DEF Stored
    <3>3. CASE e = d
      <4>1. PICK i \in 1..m : x = <<d, i>>
        BY <1>8, <3>1, <3>3
      <4>2. CASE i > n
        <5>1. i \in (n + 1)..m
          BY <1>3, <4>2
        <5> QED BY <4>1, <5>1
      <4>3. CASE ~(i > n)
        <5>1. i \in 1..n /\ d \in DOMAIN files
          BY <1>3, <1>6, <4>1, <4>3
        <5>2. i \in DOMAIN files[d]
          BY <1>5, <5>1
        <5>3. x \in {d} \X DOMAIN files[d]
          BY <4>1, <5>2
        <5> QED BY <5>1, <5>3 DEF Stored
      <4> QED BY <4>2, <4>3
    <3> QED BY <3>2, <3>3
  <2>2. ASSUME NEW x \in Stored(files) PROVE x \in Stored(fs)
    <3>1. PICK e \in DOMAIN files : x \in {e} \X DOMAIN files[e]
      BY <2>2 DEF Stored
    <3>2. CASE e # d
      BY <1>1, <3>1, <3>2 DEF Stored
    <3>3. CASE e = d
      <4>1. x \in {d} \X (1..m)
        BY <1>3, <1>5, <3>1, <3>3
      <4> QED BY <1>1, <1>8, <4>1 DEF Stored
    <3> QED BY <3>2, <3>3
  <2>3. ASSUME NEW x \in block PROVE x \in Stored(fs)
    <3>1. x \in {d} \X (1..m)
      BY <1>3, <2>3
    <3> QED BY <1>1, <1>8, <3>1 DEF Stored
  <2> QED BY <2>1, <2>2, <2>3
<1>10. Stored(files) \cap block = {}
  <2> SUFFICES ASSUME NEW i \in (n + 1)..m, <<d, i>> \in Stored(files) PROVE FALSE
    OBVIOUS
  <2>1. d \in DOMAIN files /\ i \in DOMAIN files[d]
    BY DEF Stored
  <2> QED BY <1>3, <1>5, <2>1
<1> HIDE DEF block
<1>11. /\ IsFiniteSet(Stored(fs))
       /\ Cardinality(Stored(fs)) = Cardinality(Stored(files)) + Len(more)
  <2>1. Cardinality(Stored(files)) \in Nat /\ Len(more) \in Nat
    BY <1>3, FS_CardinalityType DEF TypeOK, Directory
  <2>2. /\ IsFiniteSet(Stored(files) \cup block)
        /\ Cardinality(Stored(files) \cup block)
             = Cardinality(Stored(files)) + Cardinality(block) - Cardinality({})
    BY <1>7, <1>10, FS_Union DEF TypeOK, Directory
  <2> QED BY <1>7, <1>9, <2>1, <2>2, FS_EmptySet
<1> QED BY <1>1, <1>4, <1>11 DEF fs, TypeOK, Directory, DirBytes

-----------------------------------------------------------------------------
(* What every step shows *)

Fine == IInv' /\ RemovalStep /\ DropStep

(* The payload is that of the cycle. *)
LEMMA SamePayload ==
  ASSUME UNCHANGED <<batch, recorded, cycle>>
  PROVE  Payload' = Payload /\ \A n : Fits(n)' <=> Fits(n)
<1>1. Payload' = Payload
  BY DEF Payload
<1> QED BY <1>1 DEF Fits

(* A step that removes nothing and drops nothing. *)
LEMMA NothingGone ==
  ASSUME IInv, DOMAIN files \subseteq DOMAIN files',
         stats'["dropped_samples"] \in Nat,
         stats'["dropped_samples"] <= stats["dropped_samples"]
  PROVE  RemovalStep /\ DropStep
<1>1. stats["dropped_samples"] \in Nat
  BY DEF IInv, TypeOK, Counters
<1> QED BY <1>1 DEF RemovalStep, DropStep

(* The end of a cycle. *)
LEMMA CycleEnds ==
  ASSUME IInv, EndCycle, Directory(files'), DirBytes(files') <= MaxDiskBytes,
         current_bytes' \in Nat, blind' \in BOOLEAN, now' \in Nat,
         ~blind' => current_bytes' = DirBytes(files'), stats' \in [Counters -> Nat]
  PROVE  IInv'
<1>1. IsSeq(<<>>) /\ <<>> \in Seq(Sessions)
  BY EmptySeq, SeqOver
<1>2. TypeOK'
  BY <1>1 DEF IInv, TypeOK, EndCycle, Places
<1>3. CountOK'
  BY DEF CountOK, EndCycle
<1> QED BY <1>2, <1>3 DEF IInv, BudgetIsHard

LEMMA Counted ==
  ASSUME IInv, NEW k \in Counters, NEW n \in Nat, Count(k, n)
  PROVE  /\ stats' \in [Counters -> Nat] /\ stats'[k] = stats[k] + n
         /\ \A j \in Counters \ {k} : stats'[j] = stats[j]
BY DEF IInv, TypeOK, Count

LEMMA Refreshed ==
  ASSUME IInv, RefreshCurrentBytes, Directory(files')
  PROVE  /\ current_bytes' \in Nat /\ blind' \in BOOLEAN
         /\ ~blind' => current_bytes' = DirBytes(files')
BY SizeType DEF IInv, TypeOK, RefreshCurrentBytes

-----------------------------------------------------------------------------
(* The steps *)

(* Queries, the clock and nothing at all.                                   *)
LEMMA QuietStep ==
  ASSUME IInv, UNCHANGED <<files, current_bytes, stats, sampler, cycleVars, blind>>,
         now' \in Nat
  PROVE  Fine
<1>1. UNCHANGED <<recorded, batch, listing, bytes, rest, cycle>>
  BY DEF cycleVars
<1>2. Payload' = Payload /\ \A n : Fits(n)' <=> Fits(n)
  BY <1>1, SamePayload
<1>3. TypeOK'
  BY <1>1 DEF IInv, TypeOK
<1>4. CountOK'
  BY <1>1, <1>2 DEF IInv, CountOK, OldestDay, Evictable
<1>5. RemovalStep /\ DropStep
  BY NothingGone DEF IInv, TypeOK, Counters
<1> QED BY <1>3, <1>4, <1>5 DEF IInv, BudgetIsHard, Fine

LEMMA ListStep ==
  ASSUME IInv, (\E q \in Batches : StartCycle(q)) \/ ListExpired \/ ListFails
  PROVE  Fine
<1>1. CASE \E q \in Batches : StartCycle(q)
  <2>1. PICK q \in Batches : StartCycle(q)
    BY <1>1
  <2>2. q \in Seq(Sessions)
    <3>1. Cardinality(Sessions) \in Nat
      BY HistoryAssumption, FS_CardinalityType
    <3>2. PICK n \in 0..Cardinality(Sessions) : q \in [1..n -> Sessions]
      BY DEF Batches
    <3> QED BY <3>1, <3>2, SeqDef
  <2>3. TypeOK'
    BY <2>1, <2>2 DEF StartCycle, IInv, TypeOK, Places
  <2>4. CountOK'
    BY <2>1 DEF StartCycle, IInv, CountOK
  <2>5. RemovalStep /\ DropStep
    BY <2>1, NothingGone DEF StartCycle, IInv, TypeOK, Counters
  <2> QED BY <2>1, <2>3, <2>4, <2>5 DEF StartCycle, IInv, BudgetIsHard, Fine
<1>2. CASE ListExpired
  <2>1. TypeOK'
    BY <1>2 DEF ListExpired, IInv, TypeOK, Places
  <2>2. CountOK'
    <3>1. DirBytes(files) \in Nat
      BY SizeType DEF IInv, TypeOK
    <3> QED BY <1>2, <3>1 DEF ListExpired, IInv, TypeOK, CountOK, OldestDay
  <2>3. RemovalStep /\ DropStep
    BY <1>2, NothingGone DEF ListExpired, IInv, TypeOK, Counters
  <2> QED BY <1>2, <2>1, <2>2, <2>3 DEF ListExpired, IInv, BudgetIsHard, Fine
<1>3. CASE ListFails
  <2>1. files' = files /\ EndCycle /\ RefreshCurrentBytes /\ Count("write_failures", 1)
        /\ now' = now
    BY <1>3 DEF ListFails
  <2>2. /\ stats' \in [Counters -> Nat]
        /\ stats'["dropped_samples"] = stats["dropped_samples"]
    BY <2>1, Counted DEF Counters
  <2>3. IInv'
    BY <2>1, <2>2, Refreshed, CycleEnds DEF IInv, TypeOK, BudgetIsHard
  <2>4. RemovalStep /\ DropStep
    BY <2>1, <2>2, NothingGone DEF Counters
  <2> QED BY <2>3, <2>4 DEF Fine
<1> QED BY <1>1, <1>2, <1>3

LEMMA PruneStep ==
  ASSUME IInv, (\E d \in listing : PruneFile(d) \/ PruneFileFails(d)) \/ PruneDone
  PROVE  Fine
<1>1. /\ TypeOK /\ DirBytes(files) \in Nat /\ bytes \in Nat /\ current_bytes \in Nat
      /\ sampler = "prune" /\ listing \subseteq DOMAIN files
      /\ \A d \in listing : d < OldestDay
      /\ ~blind => current_bytes = DirBytes(files) + bytes
  BY SizeType DEF PruneFile, PruneFileFails, PruneDone, IInv, TypeOK, CountOK
<1>2. CASE \E d \in listing : PruneFile(d)
  <2>1. PICK d \in listing : PruneFile(d)
    BY <1>2
  <2>2. /\ files' = Without(d) /\ bytes' = bytes + Len(files[d]) /\ listing' = listing \ {d}
        /\ UNCHANGED <<current_bytes, stats, now, sampler, recorded, batch, rest, cycle, blind>>
    BY <2>1 DEF PruneFile
  <2>3. /\ DOMAIN files' = DOMAIN files \ {d} /\ Directory(files')
        /\ DirBytes(files') = DirBytes(files) - Len(files[d]) /\ Len(files[d]) \in Nat
        /\ DirBytes(files') \in Nat
    BY <1>1, <2>2, Removed, SizeType
  <2>4. TypeOK'
    BY <1>1, <2>2, <2>3 DEF TypeOK
  <2>5. CountOK'
    BY <1>1, <2>2, <2>3 DEF CountOK, OldestDay
  <2>6. BudgetIsHard'
    BY <1>1, <2>3, HistoryAssumption DEF IInv, BudgetIsHard
  <2>7. RemovalStep
    <3>1. d < OldestDay /\ d \in Nat
      BY <1>1 DEF TypeOK, Directory
    <3>2. DayBucket(recorded) \in Nat
      BY <1>1, HistoryAssumption DEF TypeOK, DayBucket
    <3>3. d < DayBucket(recorded)
      BY <3>1, <3>2, HistoryAssumption DEF OldestDay
    <3> QED BY <2>3, <3>1, <3>3 DEF RemovalStep, OldestDay
  <2>8. DropStep
    BY <1>1, <2>2 DEF DropStep, TypeOK, Counters
  <2> QED BY <2>4, <2>5, <2>6, <2>7, <2>8 DEF IInv, Fine
<1>3. CASE \E d \in listing : PruneFileFails(d)
  <2>1. PICK d \in listing : PruneFileFails(d)
    BY <1>3
  <2>2. /\ Count("prune_failures", 1) /\ listing' = listing \ {d}
        /\ UNCHANGED <<files, current_bytes, now, sampler, recorded, batch, bytes, rest,
                       cycle, blind>>
    BY <2>1 DEF PruneFileFails
  <2>3. /\ stats' \in [Counters -> Nat]
        /\ stats'["dropped_samples"] = stats["dropped_samples"]
    BY <2>2, Counted DEF Counters
  <2>4. TypeOK'
    BY <1>1, <2>2, <2>3 DEF TypeOK
  <2>5. CountOK'
    BY <1>1, <2>2 DEF CountOK, OldestDay
  <2>6. RemovalStep /\ DropStep
    BY <2>2, <2>3, NothingGone DEF Counters
  <2> QED BY <2>2, <2>4, <2>5, <2>6 DEF IInv, BudgetIsHard, Fine
<1>4. CASE PruneDone
  <2>1. /\ current_bytes' = IF bytes <= current_bytes THEN current_bytes - bytes ELSE 0
        /\ bytes' = 0 /\ sampler' \in {"idle", "budget"}
        /\ UNCHANGED <<files, stats, now, recorded, batch, listing, rest, cycle, blind>>
    BY <1>4 DEF PruneDone
  <2>2. TypeOK'
    BY <1>1, <2>1 DEF TypeOK, Places
  <2>3. CountOK'
    BY <1>1, <2>1 DEF CountOK
  <2>4. RemovalStep /\ DropStep
    BY <1>1, <2>1, NothingGone DEF TypeOK, Counters
  <2> QED BY <2>1, <2>2, <2>3, <2>4 DEF IInv, BudgetIsHard, Fine
<1> QED BY <1>2, <1>3, <1>4

(* Drop counts the batch, so its guard must justify the loss.               *)
LEMMA Dropped ==
  ASSUME IInv, Drop
  PROVE  EndCycle /\ stats' \in [Counters -> Nat]
<1>1. Len(batch) \in Nat /\ "dropped_samples" \in Counters
  BY LenProperties DEF IInv, TypeOK, Counters
<1> QED BY <1>1, Counted DEF Drop

LEMMA BudgetStep ==
  ASSUME IInv, PayloadTooLarge \/ MeasureDir
  PROVE  Fine
<1>1. /\ TypeOK /\ DirBytes(files) \in Nat /\ sampler = "budget" /\ bytes = 0
      /\ ~blind => current_bytes = DirBytes(files)
  BY SizeType DEF PayloadTooLarge, MeasureDir, IInv, TypeOK, CountOK
<1>2. CASE PayloadTooLarge
  <2>1. /\ Len(Payload) > MaxDiskBytes /\ Drop
        /\ UNCHANGED <<files, current_bytes, now, blind>>
    BY <1>2 DEF PayloadTooLarge
  <2>2. EndCycle /\ stats' \in [Counters -> Nat]
    BY <2>1, Dropped
  <2>3. IInv'
    BY <1>1, <2>1, <2>2, CycleEnds DEF IInv, TypeOK, BudgetIsHard
  <2>4. RemovalStep
    BY <2>1 DEF RemovalStep
  <2>5. DropStep
    BY <1>1, <2>1, PayloadSize DEF DropStep
  <2> QED BY <2>3, <2>4, <2>5 DEF Fine
<1>3. CASE MeasureDir
  <2>1. /\ bytes' = DirBytes(files) /\ current_bytes' = DirBytes(files) /\ blind' = FALSE
        /\ listing' = (IF Fits(DirBytes(files)) THEN {} ELSE Evictable)
        /\ sampler' = (IF Fits(DirBytes(files)) THEN "open" ELSE "evict")
        /\ UNCHANGED <<files, stats, now, recorded, batch, rest, cycle>>
    BY <1>3 DEF MeasureDir
  <2>2. Payload' = Payload /\ \A n : Fits(n)' <=> Fits(n)
    BY <2>1, SamePayload
  <2>3. TypeOK'
    BY <1>1, <2>1 DEF TypeOK, Places, Evictable
  <2>4. CountOK'
    BY <2>1, <2>2 DEF CountOK, Evictable
  <2>5. RemovalStep /\ DropStep
    BY <1>1, <2>1, NothingGone DEF TypeOK, Counters
  <2> QED BY <2>1, <2>3, <2>4, <2>5 DEF IInv, BudgetIsHard, Fine
<1> QED BY <1>2, <1>3

(* The oldest of the files before today goes first. *)
LEMMA Oldest ==
  ASSUME IInv, listing # {}
  PROVE  /\ NextEvicted(listing) \in listing
         /\ \A e \in listing : NextEvicted(listing) <= e
<1>1. listing \in SUBSET Nat
  BY DEF IInv, TypeOK, Directory
<1>2. \E m \in listing : \A e \in listing : m <= e
  <2>1. PICK m \in listing : \A e \in listing : ~(<<e, m>> \in OpToRel(<, Nat))
    BY <1>1, NatLessThanWellFounded, WFMin
  <2>2. \A e \in listing : ~(e < m)
    BY <1>1, <2>1 DEF OpToRel
  <2> QED BY <1>1, <2>2
<1> QED BY <1>2 DEF NextEvicted, Min

LEMMA EvictStep ==
  ASSUME IInv, EvictFile \/ EvictFileFails \/ EvictedEnough \/ BudgetExhausted
  PROVE  Fine
<1>1. /\ TypeOK /\ DirBytes(files) \in Nat /\ sampler = "evict"
      /\ bytes = DirBytes(files) /\ listing = Evictable
      /\ Len(Payload) = Len(batch) * SampleBytes /\ Len(Payload) \in Nat
      /\ DirBytes(files) <= MaxDiskBytes
  BY SizeType, PayloadSize
     DEF EvictFile, EvictFileFails, EvictedEnough, BudgetExhausted, IInv, TypeOK, CountOK,
         BudgetIsHard
<1>2. ~Fits(bytes) => DirBytes(files) + Len(batch) * SampleBytes > MaxDiskBytes
  <2>1. Fits(bytes) <=> bytes + Len(Payload) <= MaxDiskBytes
    BY DEF Fits
  <2>2. bytes + Len(Payload) \in Nat /\ MaxDiskBytes \in Nat
    BY <1>1, HistoryAssumption
  <2> QED BY <1>1, <2>1, <2>2
<1>3. CASE EvictFile
  <2> DEFINE d == NextEvicted(listing)
  <2>1. /\ files' = Without(d) /\ bytes' = bytes - Len(files[d]) /\ listing' = listing \ {d}
        /\ UNCHANGED <<current_bytes, stats, now, sampler, recorded, batch, rest, cycle, blind>>
        /\ ~Fits(bytes) /\ listing # {}
    BY <1>3 DEF EvictFile
  <2>2. d \in listing /\ \A e \in listing : d <= e
    BY <2>1, Oldest
  <2> HIDE DEF d
  <2>3. d \in DOMAIN files /\ d \in Nat /\ d < DayBucket(recorded)
    BY <1>1, <2>2 DEF Evictable, TypeOK, Directory
  <2>4. /\ DOMAIN files' = DOMAIN files \ {d} /\ Directory(files')
        /\ DirBytes(files') = DirBytes(files) - Len(files[d]) /\ Len(files[d]) \in Nat
        /\ DirBytes(files') \in Nat
    BY <1>1, <2>1, <2>3, Removed, SizeType
  <2>5. TypeOK'
    BY <1>1, <2>1, <2>4 DEF TypeOK
  <2>6. CountOK'
    BY <1>1, <2>1, <2>4 DEF CountOK, Evictable
  <2>7. BudgetIsHard'
    BY <1>1, <2>4, HistoryAssumption DEF BudgetIsHard
  <2>8. RemovalStep
    <3>1. \A e \in DOMAIN files' : d < e
      <4>1. DayBucket(recorded) \in Nat
        BY <1>1, HistoryAssumption DEF TypeOK, DayBucket
      <4>2. ASSUME NEW e \in DOMAIN files' PROVE d < e
        <5>1. e \in DOMAIN files /\ e \in Nat /\ e # d
          BY <1>1, <2>4, <4>2 DEF TypeOK, Directory
        <5>2. CASE e < DayBucket(recorded)
          BY <1>1, <2>2, <2>3, <5>1, <5>2 DEF Evictable
        <5>3. CASE ~(e < DayBucket(recorded))
          BY <2>3, <4>1, <5>1, <5>3
        <5> QED BY <5>2, <5>3
      <4> QED BY <4>2
    <3> QED BY <1>2, <2>1, <2>3, <2>4, <3>1 DEF RemovalStep
  <2>9. DropStep
    BY <1>1, <2>1 DEF DropStep, TypeOK, Counters
  <2> QED BY <2>5, <2>6, <2>7, <2>8, <2>9 DEF IInv, Fine
<1>4. CASE EvictFileFails
  <2>1. /\ stats' = [stats EXCEPT !["prune_failures"] = @ + 1,
                                 !["dropped_samples"] = @ + Len(batch)]
        /\ current_bytes' = bytes /\ EndCycle /\ UNCHANGED <<files, now, blind>>
    BY <1>4 DEF EvictFileFails
  <2>2. Len(batch) \in Nat
    BY <1>1, LenProperties DEF TypeOK
  <2>3. stats' \in [Counters -> Nat] /\ stats'["prune_failures"] = stats["prune_failures"] + 1
    BY <1>1, <2>1, <2>2 DEF TypeOK, Counters
  <2>4. IInv'
    BY <1>1, <2>1, <2>3, CycleEnds DEF TypeOK
  <2>5. RemovalStep
    BY <2>1 DEF RemovalStep
  <2>6. DropStep
    BY <1>1, <2>3 DEF DropStep, TypeOK, Counters
  <2> QED BY <2>4, <2>5, <2>6 DEF Fine
<1>5. CASE EvictedEnough
  <2>1. /\ Fits(bytes) /\ current_bytes' \in {bytes, current_bytes} /\ listing' = {}
        /\ sampler' = "open"
        /\ UNCHANGED <<files, stats, now, recorded, batch, bytes, rest, cycle, blind>>
    BY <1>5 DEF EvictedEnough
  <2>2. Payload' = Payload /\ \A n : Fits(n)' <=> Fits(n)
    BY <2>1, SamePayload
  <2>3. TypeOK'
    BY <1>1, <2>1 DEF TypeOK, Places
  <2>4. CountOK'
    BY <1>1, <2>1, <2>2 DEF CountOK
  <2>5. RemovalStep /\ DropStep
    BY <1>1, <2>1, NothingGone DEF TypeOK, Counters
  <2> QED BY <1>1, <2>1, <2>3, <2>4, <2>5 DEF IInv, BudgetIsHard, Fine
<1>6. CASE BudgetExhausted
  <2>1. /\ ~Fits(bytes) /\ listing = {} /\ current_bytes' = bytes /\ Drop
        /\ UNCHANGED <<files, now, blind>>
    BY <1>6 DEF BudgetExhausted
  <2>2. EndCycle /\ stats' \in [Counters -> Nat]
    BY <2>1, Dropped
  <2>3. IInv'
    BY <1>1, <2>1, <2>2, CycleEnds DEF TypeOK
  <2>4. RemovalStep
    BY <2>1 DEF RemovalStep
  <2>5. \A d \in DOMAIN files : d >= DayBucket(recorded)
    <3>1. DayBucket(recorded) \in Nat
      BY <1>1, HistoryAssumption DEF TypeOK, DayBucket
    <3> QED BY <1>1, <2>1, <3>1 DEF Evictable, TypeOK, Directory
  <2>6. DropStep
    BY <1>2, <2>1, <2>5 DEF DropStep
  <2> QED BY <2>3, <2>4, <2>6 DEF Fine
<1> QED BY <1>3, <1>4, <1>5, <1>6

LEMMA WriteStep ==
  ASSUME IInv, OpenFile \/ OpenFails \/ (\E n \in 1..Len(rest) : WriteSome(n))
                 \/ WriteFails \/ WriteDone \/ Crash
  PROVE  Fine
<1>1. /\ TypeOK /\ DirBytes(files) \in Nat /\ CountOK /\ DirBytes(files) <= MaxDiskBytes
      /\ IsSeq(Payload) /\ Len(Payload) \in Nat /\ Len(rest) \in Nat
      /\ bytes \in Nat /\ MaxDiskBytes \in Nat
  BY SizeType, PayloadSize, Places1, HistoryAssumption DEF IInv, TypeOK, BudgetIsHard
<1> DEFINE day == DayBucket(recorded)
<1>2. day \in Nat
  BY HistoryAssumption DEF IInv, TypeOK, DayBucket
<1>3. IsSeq(<<>>) /\ Len(<<>>) = 0
  BY EmptySeq, SeqOver
<1> DEFINE opened == AppendTo(day, <<>>)
<1>4. /\ DOMAIN files \subseteq DOMAIN opened /\ Directory(opened)
      /\ DirBytes(opened) = DirBytes(files)
  <2> HIDE DEF day
  <2>1. /\ DOMAIN opened = DOMAIN files \cup {day} /\ Directory(opened)
        /\ DirBytes(opened) = DirBytes(files) + Len(<<>>)
    BY <1>1, <1>2, <1>3, Appended
  <2> QED BY <1>1, <1>3, <2>1
<1>5. stats["dropped_samples"] \in Nat
  BY <1>1 DEF TypeOK, Counters
<1> HIDE DEF day, opened
<1>6. CASE OpenFile
  <2>1. /\ sampler = "open" /\ files' = opened /\ rest' = Payload /\ sampler' = "write"
        /\ UNCHANGED <<current_bytes, stats, now, recorded, batch, listing, bytes, cycle, blind>>
    BY <1>6 DEF OpenFile, opened, day
  <2>2. Payload' = Payload /\ \A n : Fits(n)' <=> Fits(n)
    BY <2>1, SamePayload
  <2>3. TypeOK'
    BY <1>1, <1>4, <2>1 DEF TypeOK, Places
  <2>4. CountOK'
    BY <1>1, <1>4, <2>1, <2>2 DEF CountOK
  <2>5. RemovalStep /\ DropStep
    BY <1>4, <1>5, <2>1, NothingGone
  <2> QED BY <1>1, <1>4, <2>1, <2>3, <2>4, <2>5 DEF IInv, BudgetIsHard, Fine
<1>7. CASE OpenFails
  <2>1. /\ files' \in {files, opened} /\ Count("write_failures", 1)
        /\ RefreshCurrentBytes /\ EndCycle /\ now' = now
    BY <1>7 DEF OpenFails, opened, day
  <2>2. /\ stats' \in [Counters -> Nat]
        /\ stats'["dropped_samples"] = stats["dropped_samples"]
    BY <2>1, Counted DEF Counters
  <2>3. /\ Directory(files') /\ DirBytes(files') <= MaxDiskBytes
        /\ DOMAIN files \subseteq DOMAIN files'
    BY <1>1, <1>4, <2>1 DEF TypeOK
  <2>4. IInv'
    BY <2>1, <2>2, <2>3, Refreshed, CycleEnds DEF IInv, TypeOK
  <2>5. RemovalStep /\ DropStep
    BY <1>5, <2>2, <2>3, NothingGone
  <2> QED BY <2>4, <2>5 DEF Fine
<1>8. CASE \E n \in 1..Len(rest) : WriteSome(n)
  <2>1. PICK n \in 1..Len(rest) : WriteSome(n)
    BY <1>8
  <2> DEFINE some == SubSeq(rest, 1, n)
  <2>2. /\ sampler = "write" /\ files' = AppendTo(day, some)
        /\ rest' = SubSeq(rest, n + 1, Len(rest))
        /\ UNCHANGED <<current_bytes, stats, now, sampler, recorded, batch, listing, bytes,
                       cycle, blind>>
    BY <2>1 DEF WriteSome, day
  <2>3. /\ IsSeq(some) /\ Len(some) = n
        /\ IsSeq(rest') /\ Len(rest') = Len(rest) - n
    BY <1>1, <2>2, Cut DEF TypeOK
  <2> HIDE DEF some
  <2>4. /\ DOMAIN files' = DOMAIN files \cup {day} /\ Directory(files')
        /\ DirBytes(files') = DirBytes(files) + n
    BY <1>1, <1>2, <2>2, <2>3, Appended
  <2>5. Payload' = Payload /\ \A k : Fits(k)' <=> Fits(k)
    BY <2>2, SamePayload
  <2>6. /\ Fits(bytes) /\ Len(rest) <= Len(Payload)
        /\ bytes + Len(Payload) = DirBytes(files) + Len(rest)
    BY <1>1, <2>2 DEF CountOK
  <2>7. TypeOK'
    BY <1>1, <2>2, <2>3, <2>4 DEF TypeOK
  <2>8. CountOK'
    <3>1. /\ Len(rest') <= Len(Payload)
          /\ bytes + Len(Payload) = DirBytes(files') + Len(rest')
      BY <1>1, <2>3, <2>4, <2>6
    <3> QED BY <2>2, <2>5, <2>6, <3>1 DEF CountOK
  <2>9. BudgetIsHard'
    <3>1. bytes + Len(Payload) <= MaxDiskBytes
      BY <2>6 DEF Fits
    <3> QED BY <1>1, <2>4, <2>6, <3>1 DEF BudgetIsHard
  <2>10. RemovalStep /\ DropStep
    BY <1>5, <2>2, <2>4, NothingGone
  <2> QED BY <2>7, <2>8, <2>9, <2>10 DEF IInv, Fine
<1>9. CASE WriteFails
  <2>1. /\ files' = files /\ Count("write_failures", 1)
        /\ RefreshCurrentBytes /\ EndCycle /\ now' = now
    BY <1>9 DEF WriteFails
  <2>2. /\ stats' \in [Counters -> Nat]
        /\ stats'["dropped_samples"] = stats["dropped_samples"]
    BY <2>1, Counted DEF Counters
  <2>3. IInv'
    BY <1>1, <2>1, <2>2, Refreshed, CycleEnds DEF TypeOK
  <2>4. RemovalStep /\ DropStep
    BY <1>5, <2>1, <2>2, NothingGone
  <2> QED BY <2>3, <2>4 DEF Fine
<1>10. CASE WriteDone
  <2>1. /\ sampler = "write" /\ rest = <<>> /\ current_bytes' = bytes + Len(Payload)
        /\ Count("written_bytes", Len(Payload)) /\ EndCycle
        /\ UNCHANGED <<files, now, blind>>
    BY <1>10 DEF WriteDone
  <2>2. /\ stats' \in [Counters -> Nat]
        /\ stats'["dropped_samples"] = stats["dropped_samples"]
    BY <1>1, <2>1, Counted DEF Counters
  <2>3. current_bytes' = DirBytes(files)
    BY <1>1, <1>3, <2>1 DEF CountOK
  <2>4. IInv'
    BY <1>1, <2>1, <2>2, <2>3, CycleEnds DEF TypeOK
  <2>5. RemovalStep /\ DropStep
    BY <1>5, <2>1, <2>2, NothingGone
  <2> QED BY <2>4, <2>5 DEF Fine
<1>11. CASE Crash
  <2>1. /\ current_bytes' = DirBytes(files) /\ blind' = FALSE /\ stats' = NoStats
        /\ EndCycle /\ UNCHANGED <<files, now>>
    BY <1>11 DEF Crash
  <2>2. NoStats \in [Counters -> Nat] /\ NoStats["dropped_samples"] = 0
    BY DEF NoStats, Counters
  <2>3. IInv'
    BY <1>1, <2>1, <2>2, CycleEnds DEF TypeOK
  <2>4. RemovalStep /\ DropStep
    BY <1>5, <2>1, <2>2, NothingGone
  <2> QED BY <2>3, <2>4 DEF Fine
<1> QED BY <1>6, <1>7, <1>8, <1>9, <1>10, <1>11

-----------------------------------------------------------------------------
(* The theorems *)

LEMMA InitOK == Init => IInv
<1> SUFFICES ASSUME Init PROVE IInv
  OBVIOUS
<1>1. DOMAIN files = {} /\ Stored(files) = {}
  BY DEF Init, Stored
<1>2. IsSeq(<<>>) /\ <<>> \in Seq(Sessions)
  BY EmptySeq, SeqOver
<1>3. Directory(files) /\ DirBytes(files) = 0
  BY <1>1, FS_EmptySet DEF Directory, DirBytes
<1>4. TypeOK
  <2>1. stats \in [Counters -> Nat]
    BY DEF Init, NoStats, Counters
  <2> QED BY <1>2, <1>3, <2>1 DEF Init, TypeOK, Places
<1>5. CountOK /\ BudgetIsHard
  BY <1>3, HistoryAssumption DEF Init, CountOK, BudgetIsHard
<1> QED BY <1>4, <1>5 DEF IInv

LEMMA NextOK == IInv /\ [Next]_vars => Fine
<1> SUFFICES ASSUME IInv, [Next]_vars PROVE Fine
  OBVIOUS
<1>1. now \in Nat
  BY DEF IInv, TypeOK
<1>2. CASE \E r \in Readers, s \in Sessions, seconds \in 0..MaxNow,
              limit \in 1..MaxQuerySamples : Ask(r, s, seconds, limit)
  BY <1>1, <1>2, QuietStep DEF Ask
<1>3. CASE \E r \in Readers : ReadFile(r) \/ FileGone(r) \/ ReadFails(r) \/ Answer(r)
                                \/ Delivered(r)
  BY <1>1, <1>3, QuietStep DEF ReadFile, FileGone, ReadFails, Answer, Delivered
<1>4. CASE Tick \/ StepBack
  BY <1>1, <1>4, QuietStep DEF Tick, StepBack
<1>5. CASE UNCHANGED vars
  BY <1>1, <1>5, QuietStep DEF vars, cycleVars
<1>6. CASE (\E q \in Batches : StartCycle(q)) \/ ListExpired \/ ListFails
  BY <1>6, ListStep
<1>7. CASE (\E d \in listing : PruneFile(d) \/ PruneFileFails(d)) \/ PruneDone
  BY <1>7, PruneStep
<1>8. CASE PayloadTooLarge \/ MeasureDir
  BY <1>8, BudgetStep
<1>9. CASE EvictFile \/ EvictFileFails \/ EvictedEnough \/ BudgetExhausted
  BY <1>9, EvictStep
<1>10. CASE OpenFile \/ OpenFails \/ (\E n \in 1..Len(rest) : WriteSome(n))
              \/ WriteFails \/ WriteDone \/ Crash
  BY <1>10, WriteStep
<1> QED BY <1>2, <1>3, <1>4, <1>5, <1>6, <1>7, <1>8, <1>9, <1>10 DEF Next

LEMMA Invariant == Spec => []IInv
<1>1. IInv /\ [Next]_vars => IInv'
  BY NextOK DEF Fine
<1> QED BY <1>1, InitOK, PTL DEF Spec

(* ensure_disk_budget: max_disk_bytes is never exceeded, whatever fails and *)
(* wherever a write or the daemon stops, and the gauge is the size of the   *)
(* directory between cycles unless the last attempt to measure it failed.   *)
THEOREM BudgetHolds == Spec => []DiskUseSound
<1>1. IInv => DiskUseSound
  BY DEF IInv, CountOK, DiskUseSound, GaugeExact
<1> QED BY <1>1, Invariant, PTL

(* prune_old_files and ensure_disk_budget: only expired files go, or the    *)
(* oldest ones when the payload would not fit; the current day's file and   *)
(* samples that could be kept never.                                        *)
THEOREM OnlyWhatMustGoes == Spec => NothingGivenUpNeedlessly
<1>1. IInv /\ [Next]_vars => [RemovalStep /\ DropStep]_vars
  BY NextOK DEF Fine
<1> QED BY <1>1, Invariant, PTL DEF Spec, NothingGivenUpNeedlessly

-----------------------------------------------------------------------------
(* What a torn write costs *)

(* The file being written, and how much of the payload it has.              *)
Today == DayBucket(recorded)
Written == IF sampler = "write" THEN Len(Payload) - Len(rest) ELSE 0

(* The end of a file without what is being written to it.                   *)
EndOf(d) == IF d = Today THEN Len(files[d]) - Written ELSE Len(files[d])

(* The files whose last line was left unfinished by an earlier write.       *)
OpenEnded == {d \in DOMAIN files : EndOf(d) > 0 /\ files[d][EndOf(d)].byte # SampleBytes}

(* Sample s is in file f from place i on, as a line of its own.             *)
LineAt(f, i, s) ==
  /\ i \in 1..Len(f) /\ i + SampleBytes - 1 <= Len(f)
  /\ i = 1 \/ f[i - 1].byte = SampleBytes
  /\ \A k \in 1..SampleBytes : f[i + k - 1] = [sample |-> s, byte |-> k]

Intact(s) ==
  /\ DayBucket(s.at) \in DOMAIN files
  /\ \E i \in 1..Len(files[DayBucket(s.at)]) : LineAt(files[DayBucket(s.at)], i, s)

Spoiled == {s \in acked : ~Intact(s)}

WritingOK ==
  sampler = "write" =>
    /\ Today \in DOMAIN files /\ EndOf(Today) >= 0
    /\ \A k \in 1..Len(rest) : rest[k] = Payload[Written + k]
    /\ \A k \in 1..Written : files[Today][EndOf(Today) + k] = Payload[k]

(* Each spoiled sample and each unfinished line has a write that stopped.   *)
LossOK ==
  /\ IsFiniteSet(Spoiled) /\ IsFiniteSet(OpenEnded) /\ torn \in Nat
  /\ Cardinality(Spoiled) + Cardinality(OpenEnded) <= torn

(* The files that end in an unfinished line.                                *)
OpenIn(fs) == {d \in DOMAIN fs : Len(fs[d]) > 0 /\ fs[d][Len(fs[d])].byte # SampleBytes}

LossInv == WritingOK /\ LossOK

-----------------------------------------------------------------------------
(* Lines of samples *)

LEMMA JoinedAt ==
  ASSUME NEW s, NEW t, IsSeq(s), IsSeq(t)
  PROVE  /\ \A j \in 1..Len(s) : (s \o t)[j] = s[j]
         /\ \A j \in 1..Len(t) : (s \o t)[Len(s) + j] = t[j]
<1> DEFINE S == {s[i] : i \in DOMAIN s} \cup {t[i] : i \in DOMAIN t}
<1>1. s \in [1..Len(s) -> S] /\ t \in [1..Len(t) -> S] /\ Len(s) \in Nat /\ Len(t) \in Nat
  BY LenProperties DEF IsSeq
<1>2. s \in Seq(S) /\ t \in Seq(S)
  BY <1>1, SeqDef
<1> HIDE DEF S
<1>3. \A i \in 1..(Len(s) + Len(t)) :
        (s \o t)[i] = IF i <= Len(s) THEN s[i] ELSE t[i - Len(s)]
  BY <1>2, ConcatProperties
<1>4. ASSUME NEW j \in 1..Len(s) PROVE (s \o t)[j] = s[j]
  BY <1>1, <1>3
<1>5. ASSUME NEW j \in 1..Len(t) PROVE (s \o t)[Len(s) + j] = t[j]
  <2>1. /\ Len(s) + j \in 1..(Len(s) + Len(t)) /\ ~(Len(s) + j <= Len(s))
        /\ Len(s) + j - Len(s) = j
    BY <1>1
  <2> QED BY <1>3, <2>1
<1> QED BY <1>4, <1>5

LEMMA CutAt ==
  ASSUME NEW s, IsSeq(s), NEW n \in 1..Len(s)
  PROVE  /\ \A j \in 1..n : SubSeq(s, 1, n)[j] = s[j]
         /\ \A j \in 1..(Len(s) - n) : SubSeq(s, n + 1, Len(s))[j] = s[n + j]
<1> DEFINE S == {s[i] : i \in DOMAIN s}
<1>1. s \in Seq(S) /\ Len(s) \in Nat
  BY LenProperties DEF IsSeq
<1> HIDE DEF S
<1>2. \A j \in 1..n : SubSeq(s, 1, n)[j] = s[1 + j - 1]
  BY <1>1, SubSeqProperties
<1>3. \A j \in 1..(Len(s) - n) : SubSeq(s, n + 1, Len(s))[j] = s[(n + 1) + j - 1]
  BY <1>1, SubSeqProperties
<1>4. ASSUME NEW j \in 1..n PROVE SubSeq(s, 1, n)[j] = s[j]
  <2>1. 1 + j - 1 = j
    OBVIOUS
  <2> QED BY <1>2, <2>1
<1>5. ASSUME NEW j \in 1..(Len(s) - n) PROVE SubSeq(s, n + 1, Len(s))[j] = s[n + j]
  <2>1. (n + 1) + j - 1 = n + j
    BY <1>1
  <2> QED BY <1>3, <2>1
<1> QED BY <1>4, <1>5

(* Arithmetic of places: a number in 0..b - 1 is the remainder.             *)
LEMMA SmallMultiple ==
  ASSUME NEW b \in Nat \ {0}, NEW x \in Int, x * b < b, -b < x * b
  PROVE  x = 0
<1>1. CASE x >= 1
  <2>1. (x - 1) \in Nat
    BY <1>1
  <2>2. (x - 1) * b >= 0
    BY <2>1
  <2>3. (x - 1) * b = x * b - b
    OBVIOUS
  <2> QED BY <2>2, <2>3
<1>2. CASE x <= -1
  <2>1. (-1 - x) \in Nat
    BY <1>2
  <2>2. (-1 - x) * b >= 0
    BY <2>1
  <2>3. (-1 - x) * b = -b - x * b
    OBVIOUS
  <2> QED BY <2>2, <2>3
<1> QED BY <1>1, <1>2

LEMMA Divided ==
  ASSUME NEW b \in Nat \ {0}, NEW a \in Nat, NEW r \in 0..(b - 1)
  PROVE  (a * b + r) \div b = a /\ (a * b + r) % b = r
<1> DEFINE n == a * b + r
           q == n \div b
           m == n % b
<1>1. n \in Int
  OBVIOUS
<1> HIDE DEF n
<1>2. q \in Int /\ m \in 0..(b - 1) /\ n = q * b + m
  BY <1>1
<1> HIDE DEF q, m
<1>3. (q - a) * b = r - m
  BY <1>2 DEF n
<1>4. q - a = 0
  <2>1. q - a \in Int /\ (q - a) * b < b /\ -b < (q - a) * b
    BY <1>2, <1>3
  <2> QED BY <2>1, SmallMultiple
<1>5. q = a
  BY <1>2, <1>4
<1>6. m = r
  BY <1>2, <1>5 DEF n
<1> QED BY <1>5, <1>6 DEF q, m, n

(* The samples of the payload, and where their bytes are.                   *)
SampleOf(j) == [session |-> batch[j], at |-> recorded, cycle |-> cycle]
Start(j) == (j - 1) * SampleBytes

LEMMA PayloadAt ==
  ASSUME TypeOK, NEW j \in 1..Len(batch), NEW m \in 1..SampleBytes
  PROVE  /\ Start(j) \in Nat /\ Start(j) + m \in 1..Len(Payload)
         /\ Payload[Start(j) + m] = [sample |-> SampleOf(j), byte |-> m]
<1> DEFINE k == Start(j) + m
<1>1. /\ SampleBytes \in Nat \ {0} /\ Len(batch) \in Nat /\ j - 1 \in Nat
      /\ m - 1 \in 0..(SampleBytes - 1)
  BY HistoryAssumption, LenProperties DEF TypeOK
<1>2. Start(j) \in Nat /\ k - 1 = (j - 1) * SampleBytes + (m - 1)
  BY <1>1 DEF Start
<1>3. (k - 1) \div SampleBytes = j - 1 /\ (k - 1) % SampleBytes = m - 1
  BY <1>1, <1>2, Divided
<1>4. k <= Len(batch) * SampleBytes
  <2>1. (Len(batch) - j) * SampleBytes >= 0
    BY <1>1
  <2>2. (Len(batch) - j) * SampleBytes = Len(batch) * SampleBytes - j * SampleBytes
    BY <1>1
  <2>3. j * SampleBytes = Start(j) + SampleBytes
    BY <1>1 DEF Start
  <2> QED BY <1>1, <1>2, <2>1, <2>2, <2>3
<1>5. k \in 1..(Len(batch) * SampleBytes)
  BY <1>1, <1>2, <1>4
<1> HIDE DEF k
<1>6. Payload[k] = [sample |-> [session |-> batch[((k - 1) \div SampleBytes) + 1],
                                at |-> recorded, cycle |-> cycle],
                    byte |-> ((k - 1) % SampleBytes) + 1]
  BY <1>5 DEF Payload, EncodeHistoryPayload
<1>7. ((k - 1) \div SampleBytes) + 1 = j /\ ((k - 1) % SampleBytes) + 1 = m
  BY <1>1, <1>3
<1>8. Payload[k] = [sample |-> SampleOf(j), byte |-> m]
  BY <1>6, <1>7 DEF SampleOf
<1> QED BY <1>2, <1>5, <1>8, PayloadSize DEF k

(* A place of the payload is a byte of one of its samples. *)
LEMMA PayloadPlace ==
  ASSUME TypeOK, NEW k \in 1..Len(Payload)
  PROVE  \E j \in 1..Len(batch), m \in 1..SampleBytes : k = Start(j) + m
<1> DEFINE q == (k - 1) \div SampleBytes
           m == (k - 1) % SampleBytes
<1>1. /\ SampleBytes \in Nat \ {0} /\ Len(batch) \in Nat
      /\ Len(Payload) = Len(batch) * SampleBytes /\ Len(Payload) \in Nat
  BY HistoryAssumption, LenProperties, PayloadSize DEF TypeOK
<1>2. k \in Int /\ k - 1 >= 0 /\ k - 1 < Len(batch) * SampleBytes
  BY <1>1
<1>3. q \in Int /\ m \in 0..(SampleBytes - 1) /\ k - 1 = q * SampleBytes + m
  BY <1>1, <1>2
<1> HIDE DEF q, m
<1>4. q >= 0
  <2> SUFFICES ASSUME q <= -1 PROVE FALSE
    BY <1>3
  <2>1. -1 - q \in Nat
    BY <1>3
  <2>2. (-1 - q) * SampleBytes >= 0
    BY <1>1, <2>1
  <2>3. (-1 - q) * SampleBytes = -SampleBytes - q * SampleBytes
    BY <1>1, <1>3
  <2> QED BY <1>1, <1>2, <1>3, <2>2, <2>3
<1>5. q < Len(batch)
  <2> SUFFICES ASSUME q >= Len(batch) PROVE FALSE
    BY <1>1, <1>3
  <2>1. q - Len(batch) \in Nat
    BY <1>1, <1>3
  <2>2. (q - Len(batch)) * SampleBytes >= 0
    BY <1>1, <2>1
  <2>3. (q - Len(batch)) * SampleBytes = q * SampleBytes - Len(batch) * SampleBytes
    BY <1>1, <1>3
  <2> QED BY <1>1, <1>2, <1>3, <2>2, <2>3
<1>6. q + 1 \in 1..Len(batch) /\ m + 1 \in 1..SampleBytes /\ k = Start(q + 1) + (m + 1)
  <2>1. Start(q + 1) = q * SampleBytes
    BY <1>3 DEF Start
  <2> QED BY <1>1, <1>2, <1>3, <1>4, <1>5, <2>1
<1> QED BY <1>6

LEMMA PayloadSamples ==
  ASSUME TypeOK, NEW s \in {b.sample : b \in ToSet(Payload)}
  PROVE  \E j \in 1..Len(batch) : s = SampleOf(j)
<1>1. DOMAIN Payload = 1..Len(Payload)
  BY PayloadSize, Places1
<1>2. PICK k \in 1..Len(Payload) : s = Payload[k].sample
  BY <1>1 DEF ToSet
<1>3. PICK j \in 1..Len(batch), m \in 1..SampleBytes : k = Start(j) + m
  BY PayloadPlace
<1>4. Payload[k] = [sample |-> SampleOf(j), byte |-> m]
  BY <1>3, PayloadAt
<1> QED BY <1>2, <1>4

-----------------------------------------------------------------------------
(* The count of spoiled samples and unfinished lines *)

LEMMA FilesAreSeqs ==
  ASSUME TypeOK, NEW d \in DOMAIN files
  PROVE  IsSeq(files[d]) /\ Len(files[d]) \in Nat /\ d \in Nat
BY Places1 DEF TypeOK, Directory

LEMMA SmallerSet ==
  ASSUME NEW S, NEW T, IsFiniteSet(T), S \subseteq T
  PROVE  IsFiniteSet(S) /\ Cardinality(S) \in Nat /\ Cardinality(T) \in Nat
           /\ Cardinality(S) <= Cardinality(T)
BY FS_Subset, FS_CardinalityType

LEMMA OneMore ==
  ASSUME NEW S, NEW T, NEW x, IsFiniteSet(T), S \subseteq T \cup {x}
  PROVE  IsFiniteSet(S) /\ Cardinality(S) \in Nat /\ Cardinality(T) \in Nat
           /\ Cardinality(S) <= Cardinality(T) + 1
<1>1. IsFiniteSet(T \cup {x}) /\ Cardinality(T \cup {x}) <= Cardinality(T) + 1
  <2>1. Cardinality(T) \in Nat
    BY FS_CardinalityType
  <2>2. CASE x \in T
    <3>1. T \cup {x} = T
      BY <2>2
    <3>2. Cardinality(T) <= Cardinality(T) + 1
      BY <2>1
    <3> QED BY <3>1, <3>2
  <2>3. CASE x \notin T
    <3>1. IsFiniteSet(T \cup {x}) /\ Cardinality(T \cup {x}) = Cardinality(T) + 1
      BY <2>3, FS_AddElement
    <3>2. Cardinality(T) + 1 <= Cardinality(T) + 1
      BY <2>1
    <3> QED BY <3>1, <3>2
  <2> QED BY <2>2, <2>3
<1>2. Cardinality(S) \in Nat /\ Cardinality(T \cup {x}) \in Nat /\ IsFiniteSet(S)
      /\ Cardinality(S) <= Cardinality(T \cup {x})
  BY <1>1, SmallerSet
<1> QED BY <1>1, <1>2, FS_CardinalityType

LEMMA OneLess ==
  ASSUME NEW S, NEW T, NEW x \in T, IsFiniteSet(T), S \subseteq T \ {x}
  PROVE  IsFiniteSet(S) /\ Cardinality(S) \in Nat /\ Cardinality(T) \in Nat
           /\ Cardinality(S) + 1 <= Cardinality(T)
<1>1. IsFiniteSet(T \ {x}) /\ Cardinality(T \ {x}) = Cardinality(T) - 1
  BY FS_RemoveElement
<1>2. Cardinality(S) \in Nat /\ Cardinality(T \ {x}) \in Nat /\ IsFiniteSet(S)
      /\ Cardinality(S) <= Cardinality(T \ {x})
  BY <1>1, SmallerSet
<1> QED BY <1>1, <1>2, FS_CardinalityType

(* A step costs nothing, leaves one more line unfinished for a write that   *)
(* stopped, or spoils one sample that finishes such a line.                 *)
LEMMA NothingLost ==
  ASSUME LossOK, Spoiled' \subseteq Spoiled, OpenEnded' \subseteq OpenEnded,
         torn' \in Nat, torn <= torn'
  PROVE  LossOK'
<1>1. /\ IsFiniteSet(Spoiled') /\ Cardinality(Spoiled') <= Cardinality(Spoiled)
      /\ Cardinality(Spoiled') \in Nat /\ Cardinality(Spoiled) \in Nat
  BY SmallerSet DEF LossOK
<1>2. /\ IsFiniteSet(OpenEnded') /\ Cardinality(OpenEnded') <= Cardinality(OpenEnded)
      /\ Cardinality(OpenEnded') \in Nat /\ Cardinality(OpenEnded) \in Nat
  BY SmallerSet DEF LossOK
<1> QED BY <1>1, <1>2 DEF LossOK

LEMMA LineLeftOpen ==
  ASSUME LossOK, Spoiled' \subseteq Spoiled, NEW d, OpenEnded' \subseteq OpenEnded \cup {d},
         torn' = torn + 1
  PROVE  LossOK'
<1>1. /\ IsFiniteSet(Spoiled') /\ Cardinality(Spoiled') <= Cardinality(Spoiled)
      /\ Cardinality(Spoiled') \in Nat /\ Cardinality(Spoiled) \in Nat
  BY SmallerSet DEF LossOK
<1>2. /\ IsFiniteSet(OpenEnded') /\ Cardinality(OpenEnded') <= Cardinality(OpenEnded) + 1
      /\ Cardinality(OpenEnded') \in Nat /\ Cardinality(OpenEnded) \in Nat
  BY OneMore DEF LossOK
<1> QED BY <1>1, <1>2 DEF LossOK

LEMMA SampleSwallowed ==
  ASSUME LossOK, NEW s, Spoiled' \subseteq Spoiled \cup {s},
         NEW d \in OpenEnded, OpenEnded' \subseteq OpenEnded \ {d}, torn' = torn
  PROVE  LossOK'
<1>1. /\ IsFiniteSet(Spoiled') /\ Cardinality(Spoiled') <= Cardinality(Spoiled) + 1
      /\ Cardinality(Spoiled') \in Nat /\ Cardinality(Spoiled) \in Nat
  BY OneMore DEF LossOK
<1>2. /\ IsFiniteSet(OpenEnded') /\ Cardinality(OpenEnded') + 1 <= Cardinality(OpenEnded)
      /\ Cardinality(OpenEnded') \in Nat /\ Cardinality(OpenEnded) \in Nat
  BY OneLess DEF LossOK
<1> QED BY <1>1, <1>2 DEF LossOK

LEMMA TodayType ==
  ASSUME TypeOK
  PROVE  Today \in Nat /\ IsSeq(<<>>)
<1>1. Today \in Nat
  BY HistoryAssumption DEF TypeOK, Today, DayBucket
<1>2. IsSeq(<<>>)
  BY EmptySeq, SeqOver
<1> QED BY <1>1, <1>2

(* Nothing is being written. *)
LEMMA AtRest ==
  ASSUME TypeOK, sampler # "write"
  PROVE  OpenEnded = OpenIn(files) /\ Written = 0
<1>1. Written = 0
  BY DEF Written
<1>2. ASSUME NEW d \in DOMAIN files PROVE EndOf(d) = Len(files[d])
  BY <1>1, FilesAreSeqs DEF EndOf
<1> QED BY <1>1, <1>2 DEF OpenEnded, OpenIn

LEMMA RestAfter ==
  ASSUME TypeOK', sampler' # "write"
  PROVE  OpenEnded' = OpenIn(files')
<1>1. Written' = 0
  BY DEF Written
<1>2. ASSUME NEW d \in DOMAIN files' PROVE EndOf(d)' = Len(files'[d])
  <2>1. Len(files'[d]) \in Nat
    BY Places1 DEF TypeOK, Directory
  <2> QED BY <1>1, <2>1 DEF EndOf
<1> QED BY <1>2 DEF OpenEnded, OpenIn

(* Lines survive an append. *)
LEMMA LineKept ==
  ASSUME NEW f, NEW more, IsSeq(f), IsSeq(more), NEW i, NEW s, LineAt(f, i, s)
  PROVE  LineAt(f \o more, i, s)
<1>1. Len(f) \in Nat /\ Len(more) \in Nat /\ Len(f \o more) = Len(f) + Len(more)
      /\ SampleBytes \in Nat \ {0}
  BY Places1, Joined, HistoryAssumption
<1>2. \A j \in 1..Len(f) : (f \o more)[j] = f[j]
  BY JoinedAt
<1>3. /\ i \in 1..Len(f) /\ i + SampleBytes - 1 <= Len(f)
      /\ i = 1 \/ f[i - 1].byte = SampleBytes
      /\ \A k \in 1..SampleBytes : f[i + k - 1] = [sample |-> s, byte |-> k]
  BY DEF LineAt
<1>4. i \in 1..Len(f \o more) /\ i + SampleBytes - 1 <= Len(f \o more)
  BY <1>1, <1>3
<1>5. i = 1 \/ (f \o more)[i - 1].byte = SampleBytes
  <2>1. i # 1 => i - 1 \in 1..Len(f)
    BY <1>1, <1>3
  <2> QED BY <1>2, <1>3, <2>1
<1>6. ASSUME NEW k \in 1..SampleBytes
      PROVE (f \o more)[i + k - 1] = [sample |-> s, byte |-> k]
  <2>1. i + k - 1 \in 1..Len(f)
    BY <1>1, <1>3
  <2> QED BY <1>2, <1>3, <2>1
<1> QED BY <1>4, <1>5, <1>6 DEF LineAt

LEMMA AppendKeeps ==
  ASSUME TypeOK, NEW d \in Nat, NEW more, IsSeq(more), files' = AppendTo(d, more),
         acked' = acked
  PROVE  Spoiled' \subseteq Spoiled
<1> SUFFICES ASSUME NEW s \in acked, Intact(s) PROVE Intact(s)'
  BY DEF Spoiled
<1> DEFINE e == DayBucket(s.at)
<1>1. PICK i \in 1..Len(files[e]) : e \in DOMAIN files /\ LineAt(files[e], i, s)
  BY DEF Intact
<1>2. CASE e # d
  <2>1. e \in DOMAIN files' /\ files'[e] = files[e]
    BY <1>1, <1>2 DEF AppendTo
  <2> QED BY <1>1, <2>1 DEF Intact
<1>3. CASE e = d
  <2>1. e \in DOMAIN files' /\ files'[e] = files[e] \o more
    BY <1>1, <1>3 DEF AppendTo
  <2> HIDE DEF e
  <2>2. LineAt(files[e] \o more, i, s)
    BY <1>1, FilesAreSeqs, LineKept
  <2>3. i \in 1..Len(files[e] \o more)
    BY <2>2 DEF LineAt
  <2> QED BY <2>1, <2>2, <2>3 DEF Intact, e
<1> QED BY <1>2, <1>3

LEMMA SameLines ==
  ASSUME files' = files, acked' \subseteq acked
  PROVE  Spoiled' \subseteq Spoiled
BY DEF Spoiled, Intact

LEMMA RemovalKeeps ==
  ASSUME NEW d \in DOMAIN files, files' = Without(d), Forget(d)
  PROVE  Spoiled' \subseteq Spoiled /\ OpenIn(files') \subseteq OpenIn(files)
<1>1. /\ DOMAIN files' = DOMAIN files \ {d}
      /\ \A e \in DOMAIN files' : files'[e] = files[e]
  BY DEF Without
<1>2. ASSUME NEW s \in acked', Intact(s) PROVE Intact(s)'
  <2>1. s \in acked /\ DayBucket(s.at) # d
    BY <1>2 DEF Forget
  <2>2. DayBucket(s.at) \in DOMAIN files' /\ files'[DayBucket(s.at)] = files[DayBucket(s.at)]
    BY <1>1, <1>2, <2>1 DEF Intact
  <2> QED BY <1>2, <2>2 DEF Intact
<1>3. acked' \subseteq acked
  BY DEF Forget
<1>4. Spoiled' \subseteq Spoiled
  BY <1>2, <1>3 DEF Spoiled
<1>5. OpenIn(files') \subseteq OpenIn(files)
  BY <1>1 DEF OpenIn
<1> QED BY <1>4, <1>5

(* To open a file leaves no line unfinished. *)
LEMMA OpenKeeps ==
  ASSUME TypeOK, NEW d \in Nat, files' = AppendTo(d, <<>>)
  PROVE  OpenIn(files') \subseteq OpenIn(files)
<1>1. IsSeq(<<>>) /\ Len(<<>>) = 0
  BY EmptySeq, SeqOver
<1> SUFFICES ASSUME NEW e \in OpenIn(files') PROVE e \in OpenIn(files)
  OBVIOUS
<1>2. e \in DOMAIN files' /\ Len(files'[e]) > 0
      /\ files'[e][Len(files'[e])].byte # SampleBytes
  BY DEF OpenIn
<1>3. CASE e # d
  <2>1. e \in DOMAIN files /\ files'[e] = files[e]
    BY <1>2, <1>3 DEF AppendTo
  <2> QED BY <1>2, <2>1 DEF OpenIn
<1>4. CASE e = d /\ d \in DOMAIN files
  <2>1. files'[e] = files[e] \o <<>> /\ IsSeq(files[e]) /\ Len(files[e]) \in Nat
    BY <1>4, FilesAreSeqs DEF AppendTo
  <2>2. Len(files'[e]) = Len(files[e])
    BY <1>1, <2>1, Joined
  <2>3. \A j \in 1..Len(files[e]) : files'[e][j] = files[e][j]
    BY <1>1, <2>1, JoinedAt
  <2> QED BY <1>2, <1>4, <2>1, <2>2, <2>3 DEF OpenIn
<1>5. CASE e = d /\ d \notin DOMAIN files
  <2>1. files'[e] = <<>> \o <<>>
    BY <1>5 DEF AppendTo
  <2>2. Len(files'[e]) = 0
    BY <1>1, <2>1, Joined
  <2> QED BY <1>2, <2>2
<1> QED BY <1>3, <1>4, <1>5

-----------------------------------------------------------------------------
(* The steps of a write, and the others *)

(* Steps outside a write.                                                   *)
LEMMA RestStep ==
  ASSUME TypeOK, TypeOK', LossInv, sampler # "write", sampler' # "write", torn' = torn,
         \/ files' = files /\ acked' = acked
         \/ (\E d \in DOMAIN files : files' = Without(d) /\ Forget(d))
         \/ files' = AppendTo(Today, <<>>) /\ acked' = acked
  PROVE  LossInv'
<1>1. WritingOK'
  BY DEF WritingOK
<1>2. OpenEnded = OpenIn(files)
  BY AtRest
<1>3. OpenEnded' = OpenIn(files')
  BY RestAfter
<1>4. Spoiled' \subseteq Spoiled /\ OpenIn(files') \subseteq OpenIn(files)
  <2>1. CASE files' = files /\ acked' = acked
    BY <2>1, SameLines
  <2>2. CASE \E d \in DOMAIN files : files' = Without(d) /\ Forget(d)
    BY <2>2, RemovalKeeps
  <2>3. CASE files' = AppendTo(Today, <<>>) /\ acked' = acked
    <3>1. IsSeq(<<>>) /\ Today \in Nat
      BY TodayType
    <3> QED BY <2>3, <3>1, AppendKeeps, OpenKeeps
  <2> QED BY <2>1, <2>2, <2>3
<1>5. LossOK /\ torn' \in Nat /\ torn <= torn'
  BY DEF LossInv, LossOK
<1>6. LossOK'
  BY <1>2, <1>3, <1>4, <1>5, NothingLost
<1> QED BY <1>1, <1>6 DEF LossInv

(* Steps of others.                                                         *)
LEMMA AsideStep ==
  ASSUME LossInv, UNCHANGED <<files, sampler, cycleVars, acked, torn>>
  PROVE  LossInv'
<1>1. UNCHANGED <<recorded, batch, listing, bytes, rest, cycle>>
  BY DEF cycleVars
<1>2. Today' = Today /\ Written' = Written /\ Payload' = Payload
  BY <1>1 DEF Today, Written, Payload
<1>3. \A d : EndOf(d)' = EndOf(d)
  BY <1>2 DEF EndOf
<1>4. OpenEnded' = OpenEnded
  BY <1>3 DEF OpenEnded
<1>5. Spoiled' = Spoiled
  BY DEF Spoiled, Intact
<1>6. LossOK'
  BY <1>4, <1>5 DEF LossInv, LossOK
<1>7. WritingOK'
  BY <1>1, <1>2, <1>3 DEF LossInv, WritingOK
<1> QED BY <1>6, <1>7 DEF LossInv

LEMMA OpenStep ==
  ASSUME TypeOK, TypeOK', LossInv, OpenFile
  PROVE  LossInv'
<1>1. /\ sampler = "open" /\ sampler' = "write" /\ files' = AppendTo(Today, <<>>)
      /\ rest' = Payload
      /\ UNCHANGED <<recorded, batch, cycle, acked, torn>>
  BY DEF OpenFile, Today
<1>2. IsSeq(<<>>) /\ Today \in Nat
  BY TodayType
<1>3. Payload' = Payload /\ Today' = Today /\ Len(Payload) \in Nat
  BY <1>1, SamePayload, PayloadSize DEF Today
<1>4. Written' = 0
  BY <1>1, <1>3 DEF Written
<1>5. ASSUME NEW d \in DOMAIN files'
      PROVE EndOf(d)' = Len(files'[d]) /\ Len(files'[d]) \in Nat
  <2>1. Len(files'[d]) \in Nat
    BY Places1 DEF TypeOK, Directory
  <2> QED BY <1>4, <2>1 DEF EndOf
<1>6. OpenEnded' = OpenIn(files') /\ OpenEnded = OpenIn(files)
  BY <1>1, <1>5, AtRest DEF OpenEnded, OpenIn
<1>7. LossOK'
  <2>1. Spoiled' \subseteq Spoiled /\ OpenEnded' \subseteq OpenEnded
    BY <1>1, <1>2, <1>6, AppendKeeps, OpenKeeps
  <2>2. LossOK /\ torn' \in Nat /\ torn <= torn'
    BY <1>1 DEF LossInv, LossOK
  <2> QED BY <2>1, <2>2, NothingLost
<1>8. WritingOK'
  <2>1. Today \in DOMAIN files'
    BY <1>1 DEF AppendTo
  <2>2. EndOf(Today)' >= 0
    BY <1>3, <1>5, <2>1
  <2>3. \A k \in 1..Len(rest') : rest'[k] = Payload'[Written' + k]
    BY <1>1, <1>3, <1>4
  <2>4. 1..Written' = {}
    BY <1>4
  <2> QED BY <1>3, <2>1, <2>2, <2>3, <2>4 DEF WritingOK
<1> QED BY <1>7, <1>8 DEF LossInv

LEMMA WriteSomeStep ==
  ASSUME IInv, TypeOK', LossInv, NEW n \in 1..Len(rest), WriteSome(n)
  PROVE  LossInv'
<1> DEFINE some == SubSeq(rest, 1, n)
           f == files[Today]
           g == files'[Today]
           e == EndOf(Today)
           w == Written
<1>1. /\ sampler = "write" /\ sampler' = "write" /\ files' = AppendTo(Today, some)
      /\ rest' = SubSeq(rest, n + 1, Len(rest))
      /\ UNCHANGED <<recorded, batch, cycle, acked, torn>>
  BY DEF WriteSome, Today
<1>2. /\ TypeOK /\ Today \in Nat /\ Len(Payload) \in Nat /\ Len(rest) \in Nat
      /\ IsSeq(rest) /\ Len(rest) <= Len(Payload)
  <2>1. TypeOK /\ IsSeq(rest) /\ Len(rest) <= Len(Payload)
    BY <1>1 DEF IInv, CountOK, TypeOK
  <2> QED BY <2>1, PayloadSize, Places1, TodayType
<1>3. /\ IsSeq(some) /\ Len(some) = n /\ Len(rest') = Len(rest) - n
      /\ \A j \in 1..n : some[j] = rest[j]
      /\ \A j \in 1..(Len(rest) - n) : rest'[j] = rest[n + j]
  BY <1>1, <1>2, Cut, CutAt
<1> HIDE DEF some
<1>4. Payload' = Payload /\ Today' = Today
  BY <1>1, SamePayload DEF Today
<1>5. w = Len(Payload) - Len(rest) /\ w \in Nat /\ Written' = w + n
  <2>1. w = Len(Payload) - Len(rest) /\ Written' = Len(Payload) - Len(rest')
    BY <1>1, <1>4 DEF Written
  <2> HIDE DEF w
  <2>2. Len(Payload) - (Len(rest) - n) = (Len(Payload) - Len(rest)) + n
    BY <1>2
  <2> QED BY <1>2, <1>3, <2>1, <2>2
<1>6. /\ Today \in DOMAIN files /\ e >= 0
      /\ \A k \in 1..Len(rest) : rest[k] = Payload[w + k]
      /\ \A k \in 1..w : f[e + k] = Payload[k]
  BY <1>1 DEF LossInv, WritingOK
<1>7. IsSeq(f) /\ Len(f) \in Nat /\ e = Len(f) - w
  BY <1>2, <1>6, FilesAreSeqs DEF EndOf
<1>8. g = f \o some /\ DOMAIN files' = DOMAIN files
  BY <1>1, <1>6 DEF AppendTo
<1>9. /\ Len(g) = Len(f) + n
      /\ \A j \in 1..Len(f) : g[j] = f[j]
      /\ \A j \in 1..n : g[Len(f) + j] = some[j]
  <2> HIDE DEF f, g
  <2>1. Len(f \o some) = Len(f) + Len(some)
    BY <1>3, <1>7, Joined
  <2>2. /\ \A j \in 1..Len(f) : (f \o some)[j] = f[j]
        /\ \A j \in 1..Len(some) : (f \o some)[Len(f) + j] = some[j]
    BY <1>3, <1>7, JoinedAt
  <2> QED BY <1>3, <1>8, <2>1, <2>2
<1>10. \A d : d = Today => EndOf(d)' = e
  <2>1. e = Len(f) - w /\ Len(g) - Written' = Len(f) - w
    BY <1>5, <1>7, <1>9
  <2> QED BY <1>4, <2>1 DEF EndOf
<1>11. ASSUME NEW d \in DOMAIN files, d # Today
       PROVE  files'[d] = files[d] /\ EndOf(d)' = EndOf(d)
  BY <1>1, <1>4, <1>11 DEF AppendTo, EndOf
<1> HIDE DEF e, f, g, w
<1>12. OpenEnded' \subseteq OpenEnded
  <2> SUFFICES ASSUME NEW d \in OpenEnded' PROVE d \in OpenEnded
    OBVIOUS
  <2>1. d \in DOMAIN files /\ EndOf(d)' > 0 /\ files'[d][EndOf(d)'].byte # SampleBytes
    BY <1>8 DEF OpenEnded
  <2>2. CASE d # Today
    BY <1>11, <2>1, <2>2 DEF OpenEnded
  <2>3. CASE d = Today
    <3>1. e > 0 /\ g[e].byte # SampleBytes
      BY <1>10, <2>1, <2>3 DEF g
    <3>2. e \in 1..Len(f)
      BY <1>5, <1>7, <3>1
    <3>3. f[e].byte # SampleBytes
      BY <1>9, <3>1, <3>2
    <3> QED BY <2>1, <2>3, <3>1, <3>3 DEF OpenEnded, e, f
  <2> QED BY <2>2, <2>3
<1>13. LossOK'
  <2>1. Spoiled' \subseteq Spoiled
    BY <1>1, <1>2, <1>3, AppendKeeps
  <2>2. LossOK /\ torn' \in Nat /\ torn <= torn'
    BY <1>1 DEF LossInv, LossOK
  <2> QED BY <1>12, <2>1, <2>2, NothingLost
<1>14. WritingOK'
  <2>1. Today \in DOMAIN files' /\ e >= 0
    BY <1>6, <1>8
  <2>2. ASSUME NEW k \in 1..Len(rest') PROVE rest'[k] = Payload[(w + n) + k]
    <3>1. k \in 1..(Len(rest) - n) /\ n + k \in 1..Len(rest) /\ w + (n + k) = (w + n) + k
      BY <1>2, <1>3, <1>5
    <3> QED BY <1>3, <1>6, <3>1
  <2>3. ASSUME NEW k \in 1..(w + n) PROVE g[e + k] = Payload[k]
    <3>1. CASE k <= w
      <4>1. k \in 1..w /\ e + k \in 1..Len(f)
        BY <1>5, <1>6, <1>7, <3>1
      <4> QED BY <1>6, <1>9, <4>1
    <3>2. CASE ~(k <= w)
      <4>1. /\ k - w \in 1..n /\ k - w \in 1..Len(rest) /\ w + (k - w) = k
            /\ e + k = Len(f) + (k - w)
        BY <1>2, <1>5, <1>7, <3>2
      <4>2. g[e + k] = some[k - w] /\ some[k - w] = rest[k - w]
        BY <1>3, <1>9, <4>1
      <4> QED BY <1>6, <4>1, <4>2
    <3> QED BY <3>1, <3>2
  <2>4. files'[Today'] = g /\ EndOf(Today)' = e
    BY <1>4, <1>10 DEF g, EndOf
  <2> QED BY <1>4, <1>5, <2>1, <2>2, <2>3, <2>4 DEF WritingOK
<1> QED BY <1>13, <1>14 DEF LossInv

(* What is known of the file during a write.                                *)
LEMMA Writing ==
  ASSUME IInv, LossInv, sampler = "write"
  PROVE  /\ TypeOK /\ Today \in DOMAIN files /\ Len(files[Today]) \in Nat
         /\ Len(rest) \in Nat /\ Len(Payload) \in Nat
         /\ Written = Len(Payload) - Len(rest) /\ Written \in Nat
         /\ EndOf(Today) = Len(files[Today]) - Written /\ EndOf(Today) \in Nat
         /\ \A k \in 1..Written : files[Today][EndOf(Today) + k] = Payload[k]
<1>1. /\ TypeOK /\ IsSeq(rest) /\ Len(rest) <= Len(Payload)
      /\ Len(rest) \in Nat /\ Len(Payload) \in Nat
  BY PayloadSize, Places1 DEF IInv, CountOK, TypeOK
<1>2. Written = Len(Payload) - Len(rest) /\ Written \in Nat
  BY <1>1 DEF Written
<1>3. /\ Today \in DOMAIN files /\ EndOf(Today) >= 0
      /\ \A k \in 1..Written : files[Today][EndOf(Today) + k] = Payload[k]
  BY DEF LossInv, WritingOK
<1>4. Len(files[Today]) \in Nat /\ EndOf(Today) = Len(files[Today]) - Written
  BY <1>1, <1>3, FilesAreSeqs DEF EndOf
<1> QED BY <1>1, <1>2, <1>3, <1>4

(* The last byte of a payload is a newline.                                 *)
LEMMA PayloadEnd ==
  ASSUME TypeOK, Len(Payload) > 0
  PROVE  Len(batch) \in Nat \ {0} /\ Payload[Len(Payload)].byte = SampleBytes
<1>1. /\ SampleBytes \in Nat \ {0} /\ Len(batch) \in Nat
      /\ Len(Payload) = Len(batch) * SampleBytes
  BY HistoryAssumption, LenProperties, PayloadSize DEF TypeOK
<1>2. Len(batch) # 0
  <2> SUFFICES ASSUME Len(batch) = 0 PROVE FALSE
    OBVIOUS
  <2>1. 0 * SampleBytes = 0
    BY <1>1
  <2> QED BY <1>1, <2>1
<1>3. Len(batch) \in 1..Len(batch) /\ SampleBytes \in 1..SampleBytes
  BY <1>1, <1>2
<1>4. Start(Len(batch)) + SampleBytes = Len(Payload)
  <2>1. (Len(batch) - 1) * SampleBytes + SampleBytes = Len(batch) * SampleBytes
    BY <1>1
  <2> QED BY <1>1, <2>1 DEF Start
<1>5. Payload[Len(Payload)] = [sample |-> SampleOf(Len(batch)), byte |-> SampleBytes]
  BY <1>3, <1>4, PayloadAt
<1> QED BY <1>1, <1>2, <1>5

(* The files when a write is over: only that of today may end differently,  *)
(* and not if the write stopped before its first or after its last byte.    *)
LEMMA AfterWrite ==
  ASSUME IInv, TypeOK', LossInv, sampler = "write", sampler' = "idle", files' = files
  PROVE  /\ OpenEnded' = OpenIn(files)
         /\ OpenIn(files) \subseteq OpenEnded \cup {Today}
         /\ ~Interrupted => OpenIn(files) \subseteq OpenEnded
         /\ rest = <<>> /\ Len(Payload) > 0 => Today \notin OpenIn(files)
<1>1. /\ TypeOK /\ Today \in DOMAIN files /\ Len(files[Today]) \in Nat
      /\ Len(rest) \in Nat /\ Len(Payload) \in Nat
      /\ Written = Len(Payload) - Len(rest) /\ Written \in Nat
      /\ EndOf(Today) = Len(files[Today]) - Written /\ EndOf(Today) \in Nat
      /\ \A k \in 1..Written : files[Today][EndOf(Today) + k] = Payload[k]
  BY Writing
<1>2. OpenEnded' = OpenIn(files)
  <2>1. OpenEnded' = OpenIn(files')
    BY RestAfter
  <2> QED BY <2>1
<1>3. \A d \in DOMAIN files \ {Today} : EndOf(d) = Len(files[d])
  BY DEF EndOf
<1>4. OpenIn(files) \subseteq OpenEnded \cup {Today}
  BY <1>3 DEF OpenIn, OpenEnded
<1>5. Written = 0 => OpenIn(files) \subseteq OpenEnded
  <2> SUFFICES ASSUME Written = 0 PROVE OpenIn(files) \subseteq OpenEnded
    OBVIOUS
  <2>1. EndOf(Today) = Len(files[Today])
    BY <1>1
  <2> QED BY <1>3, <2>1 DEF OpenIn, OpenEnded
<1>6. Len(<<>>) = 0
  BY EmptySeq
<1>7. rest = <<>> /\ Len(Payload) > 0 => Today \notin OpenIn(files)
  <2> SUFFICES ASSUME rest = <<>>, Len(Payload) > 0 PROVE Today \notin OpenIn(files)
    OBVIOUS
  <2>1. Written = Len(Payload) /\ Len(Payload) \in 1..Written
    BY <1>1, <1>6
  <2>2. EndOf(Today) + Len(Payload) = Len(files[Today])
    BY <1>1, <2>1
  <2>3. files[Today][Len(files[Today])] = Payload[Len(Payload)]
    BY <1>1, <2>1, <2>2
  <2>4. files[Today][Len(files[Today])].byte = SampleBytes
    BY <1>1, <2>3, PayloadEnd
  <2> QED BY <2>4 DEF OpenIn
<1>8. ~Interrupted => OpenIn(files) \subseteq OpenEnded
  <2>1. CASE rest = Payload
    <3>1. Written = 0
      BY <1>1, <2>1
    <3> QED BY <1>5, <3>1
  <2>2. CASE rest = <<>> /\ Len(Payload) > 0
    BY <1>4, <1>7, <2>2
  <2>3. CASE rest = <<>> /\ ~(Len(Payload) > 0)
    <3>1. Written = 0
      BY <1>1, <1>6, <2>3
    <3> QED BY <1>5, <3>1
  <2> QED BY <2>1, <2>2, <2>3 DEF Interrupted
<1> QED BY <1>2, <1>4, <1>7, <1>8

(* The write fails, or the daemon is killed in the middle of it.            *)
LEMMA StopStep ==
  ASSUME IInv, TypeOK', LossInv, sampler = "write", sampler' = "idle",
         UNCHANGED <<files, acked>>, torn' = IF Interrupted THEN torn + 1 ELSE torn
  PROVE  LossInv'
<1>1. WritingOK'
  BY DEF WritingOK
<1>2. /\ OpenEnded' = OpenIn(files)
      /\ OpenIn(files) \subseteq OpenEnded \cup {Today}
      /\ ~Interrupted => OpenIn(files) \subseteq OpenEnded
  BY AfterWrite
<1>3. Spoiled' \subseteq Spoiled
  BY SameLines
<1>4. LossOK /\ torn \in Nat
  BY DEF LossInv, LossOK
<1>5. CASE Interrupted
  <2>1. torn' = torn + 1
    BY <1>5
  <2>2. LossOK'
    BY <1>2, <1>3, <1>4, <2>1, LineLeftOpen
  <2> QED BY <1>1, <2>2 DEF LossInv
<1>6. CASE ~Interrupted
  <2>1. torn' \in Nat /\ torn <= torn'
    BY <1>4, <1>6
  <2>2. LossOK'
    BY <1>2, <1>3, <1>4, <1>6, <2>1, NothingLost
  <2> QED BY <1>1, <2>2 DEF LossInv
<1> QED BY <1>5, <1>6

(* The samples of a payload that was written are there, the first one       *)
(* perhaps excepted.                                                        *)
LEMMA WrittenWell ==
  ASSUME IInv, LossInv, sampler = "write", rest = <<>>, NEW j \in 1..Len(batch),
         j > 1 \/ Today \notin OpenEnded
  PROVE  Intact(SampleOf(j))
<1> DEFINE f == files[Today]
           e == EndOf(Today)
           i == e + Start(j) + 1
<1>1. /\ TypeOK /\ Today \in DOMAIN files /\ Len(f) \in Nat /\ Len(rest) \in Nat
      /\ Len(Payload) \in Nat /\ Written = Len(Payload) - Len(rest)
      /\ e = Len(f) - Written /\ e \in Nat
      /\ \A k \in 1..Written : f[e + k] = Payload[k]
  BY Writing
<1>2. Len(f) = e + Len(Payload) /\ Written = Len(Payload)
  <2>1. Len(rest) = 0
    BY EmptySeq
  <2> QED BY <1>1, <2>1
<1>3. SampleBytes \in Nat \ {0} /\ Len(batch) \in Nat
  BY <1>1, HistoryAssumption, LenProperties DEF TypeOK
<1> HIDE DEF f, e
<1>4. ASSUME NEW l \in 1..Len(batch), NEW m \in 1..SampleBytes
      PROVE /\ Start(l) \in Nat /\ Start(l) + m \in 1..Len(Payload)
            /\ f[e + (Start(l) + m)] = [sample |-> SampleOf(l), byte |-> m]
  BY <1>1, <1>2, PayloadAt
<1>5. Start(j) \in Nat /\ Start(j) + SampleBytes <= Len(Payload)
  <2>1. SampleBytes \in 1..SampleBytes
    BY <1>3
  <2>2. Start(j) \in Nat /\ Start(j) + SampleBytes \in 1..Len(Payload)
    BY <1>4, <2>1
  <2> QED BY <1>1, <2>2
<1>6. i \in 1..Len(f) /\ i + SampleBytes - 1 <= Len(f)
  BY <1>1, <1>2, <1>3, <1>5
<1>7. ASSUME NEW m \in 1..SampleBytes
      PROVE f[i + m - 1] = [sample |-> SampleOf(j), byte |-> m]
  <2>1. i + m - 1 = e + (Start(j) + m)
    BY <1>1, <1>3, <1>5
  <2>2. f[e + (Start(j) + m)] = [sample |-> SampleOf(j), byte |-> m]
    BY <1>4
  <2> QED BY <2>1, <2>2
<1>8. i = 1 \/ f[i - 1].byte = SampleBytes
  <2>1. CASE j > 1
    <3>1. j - 1 \in 1..Len(batch) /\ SampleBytes \in 1..SampleBytes
      BY <1>3, <2>1
    <3>2. Start(j - 1) + SampleBytes = Start(j)
      <4>1. ((j - 1) - 1) * SampleBytes + SampleBytes = (j - 1) * SampleBytes
        BY <1>3
      <4> QED BY <4>1 DEF Start
    <3>3. f[e + Start(j)] = [sample |-> SampleOf(j - 1), byte |-> SampleBytes]
      BY <1>4, <3>1, <3>2
    <3>4. i - 1 = e + Start(j)
      BY <1>1, <1>5
    <3> QED BY <3>3, <3>4
  <2>2. CASE ~(j > 1)
    <3>1. j = 1 /\ Today \notin OpenEnded
      BY <2>2
    <3>2. Start(j) = 0
      <4>1. 0 * SampleBytes = 0 /\ j - 1 = 0
        BY <1>3, <3>1
      <4> QED BY <4>1 DEF Start
    <3>3. i = e + 1 /\ i - 1 = e
      BY <1>1, <3>2
    <3>4. ~(e > 0) \/ f[e].byte = SampleBytes
      BY <1>1, <3>1 DEF OpenEnded, e, f
    <3> QED BY <1>1, <3>3, <3>4
  <2> QED BY <2>1, <2>2
<1> HIDE DEF i
<1>9. LineAt(f, i, SampleOf(j))
  BY <1>6, <1>7, <1>8 DEF LineAt
<1>10. DayBucket(SampleOf(j).at) = Today
  BY DEF SampleOf, Today
<1> QED BY <1>1, <1>6, <1>9, <1>10 DEF Intact, f

LEMMA DoneStep ==
  ASSUME IInv, TypeOK', LossInv, WriteDone
  PROVE  LossInv'
<1> DEFINE new == {b.sample : b \in ToSet(Payload)}
<1>1. /\ sampler = "write" /\ sampler' = "idle" /\ rest = <<>>
      /\ files' = files /\ torn' = torn /\ acked' = acked \cup new
  BY DEF WriteDone, EndCycle
<1>2. WritingOK'
  BY <1>1 DEF WritingOK
<1>3. /\ OpenEnded' = OpenIn(files)
      /\ OpenIn(files) \subseteq OpenEnded \cup {Today}
      /\ ~Interrupted => OpenIn(files) \subseteq OpenEnded
      /\ rest = <<>> /\ Len(Payload) > 0 => Today \notin OpenIn(files)
  BY <1>1, AfterWrite
<1>4. TypeOK /\ LossOK /\ torn \in Nat /\ torn <= torn
  BY DEF IInv, LossInv, LossOK
<1>5. OpenEnded' \subseteq OpenEnded
  BY <1>1, <1>3 DEF Interrupted
<1>6. \A s : Intact(s)' <=> Intact(s)
  BY <1>1 DEF Intact
<1>7. \A s \in new : \E j \in 1..Len(batch) : s = SampleOf(j)
  BY <1>4, PayloadSamples
<1> HIDE DEF new
<1>8. CASE Today \notin OpenEnded
  <2>1. \A s \in new : Intact(s)
    BY <1>1, <1>7, <1>8, WrittenWell
  <2>2. Spoiled' \subseteq Spoiled
    BY <1>1, <1>6, <2>1 DEF Spoiled
  <2>3. LossOK'
    BY <1>1, <1>4, <1>5, <2>2, NothingLost
  <2> QED BY <1>2, <2>3 DEF LossInv
<1>9. CASE Today \in OpenEnded /\ new = {}
  <2>1. Spoiled' \subseteq Spoiled
    BY <1>1, <1>6, <1>9 DEF Spoiled
  <2>2. LossOK'
    BY <1>1, <1>4, <1>5, <2>1, NothingLost
  <2> QED BY <1>2, <2>2 DEF LossInv
<1>10. CASE Today \in OpenEnded /\ new # {}
  <2>1. Len(Payload) > 0
    <3>1. Len(Payload) \in Nat /\ DOMAIN Payload = 1..Len(Payload)
      BY <1>4, PayloadSize, Places1
    <3> SUFFICES ASSUME Len(Payload) = 0 PROVE FALSE
      BY <3>1
    <3>2. DOMAIN Payload = {}
      BY <3>1
    <3> QED BY <1>10, <3>2 DEF new, ToSet
  <2>2. OpenEnded' \subseteq OpenEnded \ {Today}
    BY <1>1, <1>3, <1>5, <2>1
  <2>3. \A s \in new : s = SampleOf(1) \/ Intact(s)
    <3> SUFFICES ASSUME NEW s \in new PROVE s = SampleOf(1) \/ Intact(s)
      OBVIOUS
    <3>1. PICK j \in 1..Len(batch) : s = SampleOf(j)
      BY <1>7
    <3>2. CASE j > 1
      BY <1>1, <3>1, <3>2, WrittenWell
    <3>3. CASE ~(j > 1)
      BY <3>1, <3>3
    <3> QED BY <3>2, <3>3
  <2>4. Spoiled' \subseteq Spoiled \cup {SampleOf(1)}
    BY <1>1, <1>6, <2>3 DEF Spoiled
  <2>5. LossOK'
    BY <1>1, <1>4, <1>10, <2>2, <2>4, SampleSwallowed
  <2> QED BY <1>2, <2>5 DEF LossInv
<1> QED BY <1>8, <1>9, <1>10

LEMMA LossStep ==
  ASSUME IInv, TypeOK', LossInv, [Next]_vars
  PROVE  LossInv'
<1>1. TypeOK
  BY DEF IInv
<1>2. CASE \E r \in Readers, s \in Sessions, seconds \in 0..MaxNow,
              limit \in 1..MaxQuerySamples : Ask(r, s, seconds, limit)
  BY <1>2, AsideStep DEF Ask
<1>3. CASE \E r \in Readers : ReadFile(r) \/ FileGone(r) \/ ReadFails(r) \/ Answer(r)
                                \/ Delivered(r)
  BY <1>3, AsideStep DEF ReadFile, FileGone, ReadFails, Answer, Delivered
<1>4. CASE Tick \/ StepBack \/ UNCHANGED vars
  BY <1>4, AsideStep DEF Tick, StepBack, vars, cycleVars
<1>5. CASE (\E q \in Batches : StartCycle(q)) \/ ListExpired \/ ListFails
  BY <1>1, <1>5, RestStep DEF StartCycle, ListExpired, ListFails, EndCycle
<1>6. CASE (\E d \in listing : PruneFile(d) \/ PruneFileFails(d)) \/ PruneDone
  <2>1. listing \subseteq DOMAIN files
    BY <1>1 DEF TypeOK
  <2> QED BY <1>1, <1>6, <2>1, RestStep DEF PruneFile, PruneFileFails, PruneDone
<1>7. CASE PayloadTooLarge \/ MeasureDir
  BY <1>1, <1>7, RestStep DEF PayloadTooLarge, MeasureDir, Drop, EndCycle
<1>8. CASE EvictFile
  <2>1. NextEvicted(listing) \in DOMAIN files
    <3>1. listing \subseteq DOMAIN files /\ DOMAIN files \subseteq Nat
      BY <1>1 DEF TypeOK, Directory
    <3> QED BY <1>8, <3>1, Oldest DEF EvictFile
  <2> QED BY <1>1, <1>8, <2>1, RestStep DEF EvictFile
<1>9. CASE EvictFileFails \/ EvictedEnough \/ BudgetExhausted
  BY <1>1, <1>9, RestStep DEF EvictFileFails, EvictedEnough, BudgetExhausted, Drop, EndCycle
<1>10. CASE OpenFile
  BY <1>1, <1>10, OpenStep
<1>11. CASE OpenFails
  BY <1>1, <1>11, RestStep DEF OpenFails, EndCycle, Today
<1>12. CASE \E n \in 1..Len(rest) : WriteSome(n)
  BY <1>12, WriteSomeStep
<1>13. CASE WriteFails
  BY <1>13, StopStep DEF WriteFails, EndCycle
<1>14. CASE WriteDone
  BY <1>14, DoneStep
<1>15. CASE Crash
  <2>1. CASE sampler = "write"
    BY <1>15, <2>1, StopStep DEF Crash, EndCycle
  <2>2. CASE sampler # "write"
    BY <1>1, <1>15, <2>2, RestStep DEF Crash, EndCycle
  <2> QED BY <2>1, <2>2
<1> QED BY <1>2, <1>3, <1>4, <1>5, <1>6, <1>7, <1>8, <1>9, <1>10, <1>11, <1>12,
           <1>13, <1>14, <1>15 DEF Next

LEMMA LossInit == Init => LossInv
<1> SUFFICES ASSUME Init PROVE LossInv
  OBVIOUS
<1>1. Spoiled = {} /\ OpenEnded = {}
  BY DEF Init, Spoiled, OpenEnded
<1>2. LossOK
  BY <1>1, FS_EmptySet DEF Init, LossOK
<1> QED BY <1>2 DEF Init, LossInv, WritingOK

(* A line of its own can be read. *)
LEMMA IntactIsReadable ==
  ASSUME NEW s, Intact(s)
  PROVE  s \in Readable
<1> DEFINE f == files[DayBucket(s.at)]
<1>1. PICK i \in 1..Len(f) : DayBucket(s.at) \in DOMAIN files /\ LineAt(f, i, s)
  BY DEF Intact
<1>2. SampleBytes \in Nat \ {0}
  BY HistoryAssumption
<1> HIDE DEF f
<1>3. /\ i \in 1..Len(f) /\ i + SampleBytes - 1 <= Len(f)
      /\ i = 1 \/ f[i - 1].byte = SampleBytes
      /\ \A k \in 1..SampleBytes : f[i + k - 1] = [sample |-> s, byte |-> k]
  BY <1>1 DEF LineAt
<1>4. \A j \in i..(i + SampleBytes - 1) : f[j] = [sample |-> s, byte |-> j - i + 1]
  <2> SUFFICES ASSUME NEW j \in i..(i + SampleBytes - 1)
               PROVE f[j] = [sample |-> s, byte |-> j - i + 1]
    OBVIOUS
  <2>1. j - i + 1 \in 1..SampleBytes /\ i + (j - i + 1) - 1 = j
    BY <1>2
  <2> QED BY <1>3, <2>1
<1>5. f[i].sample = s
  <2>1. i \in i..(i + SampleBytes - 1)
    BY <1>2, <1>3
  <2>2. f[i] = [sample |-> s, byte |-> i - i + 1]
    BY <1>4, <2>1
  <2> QED BY <2>2
<1>6. f[i + SampleBytes - 1].byte = SampleBytes
  <2>1. SampleBytes \in 1..SampleBytes
    BY <1>2
  <2>2. f[i + SampleBytes - 1] = [sample |-> s, byte |-> SampleBytes]
    BY <1>3, <2>1
  <2> QED BY <2>2
<1>7. ParsesAt(f, i)
  <2>1. \A k \in i..(i + SampleBytes - 1 - 1) : k \in i..(i + SampleBytes - 1)
    BY <1>2
  <2>2. Len(f) \in Int => i + SampleBytes - 1 - 1 <= Len(f)
    BY <1>2, <1>3
  <2> QED BY <1>2, <1>3, <1>4, <1>5, <1>6, <2>1, <2>2 DEF ParsesAt
<1>8. s \in SamplesIn(f)
  BY <1>5, <1>7 DEF SamplesIn
<1> QED BY <1>1, <1>8 DEF Readable, f

(* record_summaries: a write that stops half-way costs at most one sample   *)
(* that was written with success, namely the one that is appended to its    *)
(* unfinished line. Nothing else is lost, but by removals.                  *)
THEOREM LossesAreBounded == Spec => []LossBounded
<1>1. IInv /\ LossInv /\ [Next]_vars => IInv' /\ LossInv'
  <2> SUFFICES ASSUME IInv, LossInv, [Next]_vars PROVE IInv' /\ LossInv'
    OBVIOUS
  <2>1. IInv' /\ TypeOK'
    BY NextOK DEF Fine, IInv
  <2> QED BY <2>1, LossStep
<1>2. LossInv => LossBounded
  <2> SUFFICES ASSUME LossInv PROVE LossBounded
    OBVIOUS
  <2>1. {s \in acked : s \notin Readable} \subseteq Spoiled
    BY IntactIsReadable DEF Spoiled
  <2>2. /\ IsFiniteSet(Spoiled) /\ IsFiniteSet(OpenEnded) /\ torn \in Nat
        /\ Cardinality(Spoiled) + Cardinality(OpenEnded) <= torn
    BY DEF LossInv, LossOK
  <2>3. Cardinality(OpenEnded) \in Nat
    BY <2>2, FS_CardinalityType
  <2>4. /\ Cardinality({s \in acked : s \notin Readable}) <= Cardinality(Spoiled)
        /\ Cardinality({s \in acked : s \notin Readable}) \in Nat
        /\ Cardinality(Spoiled) \in Nat
    BY <2>1, <2>2, SmallerSet
  <2> QED BY <2>2, <2>3, <2>4 DEF LossBounded
<1> QED BY <1>1, <1>2, InitOK, LossInit, PTL DEF Spec

-----------------------------------------------------------------------------
(* What a query answers *)

(* The bytes of a file are in the order of the cycles that wrote them, none *)
(* twice, and those of a cycle have its time.                               *)
Recorded == [session : Sessions, at : Nat, cycle : Nat]
Piece == [sample : Recorded, byte : 1..SampleBytes]

Earlier(b, c) ==
  \/ b.sample.cycle < c.sample.cycle
  \/ b.sample.cycle = c.sample.cycle /\ b.sample.at = c.sample.at /\ b # c

InOrder(f) == \A i, j \in 1..Len(f) : i < j => Earlier(f[i], f[j])

(* The cycles that can have left something: the one that is going on only   *)
(* once it writes.                                                          *)
Past(n) == n <= cycle /\ (sampler \notin {"idle", "write"} => n < cycle)

FileOK(d, f) ==
  /\ InOrder(f)
  /\ \A i \in 1..Len(f) :
       f[i] \in Piece /\ DayBucket(f[i].sample.at) = d /\ Past(f[i].sample.cycle)

LinesOK ==
  /\ IsFiniteSet(DOMAIN files)
  /\ \A d \in DOMAIN files : FileOK(d, files[d])
  /\ \A i, j \in 1..Len(batch) : batch[i] = batch[j] => i = j

(* What is still to be written is of this cycle and comes after the file.   *)
ComingOK ==
  /\ sampler # "write" => rest = <<>>
  /\ sampler = "write" =>
       /\ Today \in DOMAIN files /\ InOrder(rest)
       /\ \A k \in 1..Len(rest) :
            /\ rest[k] \in Piece
            /\ rest[k].sample.cycle = cycle /\ rest[k].sample.at = recorded
            /\ \A i \in 1..Len(files[Today]) : Earlier(files[Today][i], rest[k])

Query == [at : {"scan", "answered"}, session : Sessions, since : Int,
          limit : Nat \ {0}, todo : SUBSET Nat, samples : Seq(Recorded),
          before : SUBSET Recorded]

(* A query: what could be read when it was asked is there by now but for    *)
(* its newline, and will not come again.                                    *)
SettledBefore(q) ==
  \A s \in q.before :
    /\ s.session = q.session /\ s.at >= q.since /\ Past(s.cycle)
    /\ \A k \in 1..Len(rest) :
         rest[k].sample = s => rest[k].byte = SampleBytes /\ rest[k].byte # 1

Newer(x, y) ==
  \/ DayBucket(y.at) < DayBucket(x.at)
  \/ DayBucket(y.at) = DayBucket(x.at) /\ y.cycle < x.cycle

(* Newest first; what is missing is in a file that is still to be read, or  *)
(* older than everything the limit allows.                                  *)
ScanOK(q) ==
  /\ IsFiniteSet(q.todo)
  /\ q.todo # {} => Len(q.samples) < q.limit
  /\ \A i \in 1..Len(q.samples), d \in q.todo : d < DayBucket(q.samples[i].at)
  /\ \A i, j \in 1..Len(q.samples) : i < j => Newer(q.samples[i], q.samples[j])

MissingOK(q) ==
  \A s \in (q.before \cap Readable) \ ToSet(q.samples) :
    \/ DayBucket(s.at) \in q.todo
    \/ Len(q.samples) = q.limit /\ \A x \in ToSet(q.samples) : Newer(x, s)

AnsweredOK(q) ==
  /\ q.todo = {}
  /\ \A i, j \in 1..Len(q.samples) : i < j => Newer(q.samples[j], q.samples[i])

QueryOK(q) ==
  q = NoQuery \/ /\ q \in Query
                 /\ Len(q.samples) <= q.limit
                 /\ \A i \in 1..Len(q.samples) : q.samples[i].session = q.session
                 /\ SettledBefore(q) /\ MissingOK(q)
                 /\ q.at = "scan" => ScanOK(q)
                 /\ q.at = "answered" => AnsweredOK(q)

QueriesOK ==
  /\ DOMAIN reader = Readers /\ reader = [r \in Readers |-> reader[r]]
  /\ \A r \in Readers : QueryOK(reader[r])

AnswerInv == LinesOK /\ ComingOK /\ QueriesOK

-----------------------------------------------------------------------------
(* Lines listed from the end of a file *)

(* The places of the lines of a file can be listed from its end: the place  *)
(* of x in that list is the number of lines from x on.                      *)
LEMMA ListedFromTheEnd ==
  ASSUME NEW lines \in SUBSET Int, IsFiniteSet(lines)
  PROVE  /\ Cardinality(lines) \in Nat
         /\ FromTheEnd(lines) \in [1..Cardinality(lines) -> lines]
         /\ \A i, j \in 1..Cardinality(lines) :
              i < j => FromTheEnd(lines)[i] > FromTheEnd(lines)[j]
         /\ \A x \in lines : \E i \in 1..Cardinality(lines) : FromTheEnd(lines)[i] = x
<1> DEFINE n == Cardinality(lines)
           From(x) == {y \in lines : y >= x}
           rank == [x \in lines |-> Cardinality(From(x))]
<1>1. n \in Nat
  BY FS_CardinalityType
<1>2. ASSUME NEW x \in lines
      PROVE /\ IsFiniteSet(From(x)) /\ Cardinality(From(x)) \in Nat
            /\ rank[x] = Cardinality(From(x)) /\ rank[x] \in 1..n
  <2>1. /\ IsFiniteSet(From(x)) /\ Cardinality(From(x)) \in Nat
        /\ Cardinality(From(x)) <= n
    BY SmallerSet
  <2>2. Cardinality(From(x)) # 0
    BY <2>1, FS_EmptySet
  <2>3. rank[x] = Cardinality(From(x))
    OBVIOUS
  <2> QED BY <1>1, <2>1, <2>2, <2>3
<1>3. ASSUME NEW x \in lines, NEW y \in lines, x < y PROVE rank[y] < rank[x]
  <2>1. From(y) \subseteq From(x) \ {x} /\ x \in From(x)
    <3>1. x \in Int /\ y \in Int /\ \A z \in lines : z \in Int
      OBVIOUS
    <3>2. ASSUME NEW z \in From(y) PROVE z \in From(x) \ {x}
      BY <1>3, <3>1
    <3>3. x \in From(x)
      BY <3>1
    <3> QED BY <3>2, <3>3
  <2>2. /\ Cardinality(From(y)) \in Nat /\ Cardinality(From(x)) \in Nat
        /\ Cardinality(From(y)) + 1 <= Cardinality(From(x))
    BY <1>2, <2>1, OneLess
  <2> QED BY <1>2, <2>2
<1> HIDE DEF rank
<1>4. rank \in Injection(lines, 1..n)
  <2>1. rank \in [lines -> 1..n]
    <3>1. DOMAIN rank = lines /\ rank = [x \in lines |-> rank[x]]
      BY DEF rank
    <3> QED BY <1>2, <3>1
  <2>2. ASSUME NEW x \in lines, NEW y \in lines, rank[x] = rank[y] PROVE x = y
    <3>1. rank[x] \in Int /\ x \in Int /\ y \in Int
      <4>1. rank[x] \in 1..n
        BY <1>2
      <4>2. x \in Int /\ y \in Int
        OBVIOUS
      <4> HIDE DEF n
      <4> QED BY <4>1, <4>2
    <3> QED BY <1>3, <2>2, <3>1
  <2>3. IsInjective(rank)
    BY <2>1, <2>2 DEF IsInjective
  <2> QED BY <2>1, <2>3 DEF Injection
<1>5. IsFiniteSet(1..n) /\ Cardinality(1..n) = n
  <2>1. Cardinality(1..n) = IF 1 > n THEN 0 ELSE n - 1 + 1
    BY <1>1, FS_Interval
  <2>2. IsFiniteSet(1..n)
    BY <1>1, FS_Interval
  <2> QED BY <1>1, <2>1, <2>2
<1>6. rank \in Surjection(lines, 1..n)
  <2>1. Cardinality(lines) = Cardinality(1..n) <=> rank \in Surjection(lines, 1..n)
    BY <1>4, <1>5, FS_Injection
  <2> QED BY <1>5, <2>1
<1>7. \A i \in 1..n : \E x \in lines : rank[x] = i
  BY <1>6 DEF Surjection
<1> DEFINE order == [i \in 1..n |-> CHOOSE x \in lines : rank[x] = i]
<1>8. ASSUME NEW i \in 1..n PROVE order[i] \in lines /\ rank[order[i]] = i
  BY <1>7
<1>9. order \in [1..n -> lines]
  BY <1>8
<1> HIDE DEF order
<1>10. ASSUME NEW i \in 1..n, NEW j \in 1..n, i < j PROVE order[i] > order[j]
  <2>1. order[i] \in Int /\ order[j] \in Int
    BY <1>8
  <2>2. CASE order[i] < order[j]
    <3>1. rank[order[j]] < rank[order[i]]
      BY <1>3, <1>8, <2>2
    <3> QED BY <1>1, <1>8, <1>10, <3>1
  <2>3. CASE order[i] = order[j]
    BY <1>1, <1>8, <1>10, <2>3
  <2> QED BY <2>1, <2>2, <2>3
<1>11. \E o \in [1..n -> lines] : \A i, j \in 1..n : i < j => o[i] > o[j]
  BY <1>9, <1>10
<1> DEFINE o == FromTheEnd(lines)
<1>12. o \in [1..n -> lines] /\ \A i, j \in 1..n : i < j => o[i] > o[j]
  BY <1>11 DEF FromTheEnd
<1> HIDE DEF o
<1>13. o \in Injection(1..n, lines)
  <2>1. ASSUME NEW i \in 1..n, NEW j \in 1..n, o[i] = o[j] PROVE i = j
    <3>1. o[i] \in Int /\ o[j] \in Int
      BY <1>12
    <3>2. ~(o[i] > o[j]) /\ ~(o[j] > o[i])
      BY <2>1, <3>1
    <3> QED BY <1>1, <1>12, <3>2
  <2>2. IsInjective(o)
    BY <1>12, <2>1 DEF IsInjective
  <2> QED BY <1>12, <2>2 DEF Injection
<1>14. o \in Surjection(1..n, lines)
  <2>1. Cardinality(1..n) = Cardinality(lines) <=> o \in Surjection(1..n, lines)
    BY <1>13, FS_Injection
  <2> QED BY <1>5, <2>1
<1>15. \A x \in lines : \E i \in 1..n : o[i] = x
  BY <1>14 DEF Surjection
<1> QED BY <1>1, <1>12, <1>15 DEF o

(* The newest of the files that are left to a query is the first such place.*)
LEMMA Newest ==
  ASSUME NEW days \in SUBSET Int, IsFiniteSet(days), days # {}
  PROVE  Max(days) \in days /\ \A e \in days : e <= Max(days)
<1> DEFINE m == FromTheEnd(days)[1]
<1>1. Cardinality(days) \in Nat /\ 1 \in 1..Cardinality(days)
  BY FS_EmptySet, FS_CardinalityType
<1>2. m \in days
  BY <1>1, ListedFromTheEnd
<1>3. ASSUME NEW e \in days PROVE e <= m
  <2>1. PICK i \in 1..Cardinality(days) : FromTheEnd(days)[i] = e
    BY ListedFromTheEnd
  <2>2. 1 < i => m > e
    BY <1>1, <2>1, ListedFromTheEnd
  <2>3. m \in Int /\ e \in Int
    BY <1>2
  <2>4. i = 1 \/ 1 < i
    BY <1>1
  <2>5. i = 1 => m = e
    BY <2>1
  <2> QED BY <2>2, <2>3, <2>4, <2>5
<1> HIDE DEF m
<1>4. \E x \in days : \A y \in days : x >= y
  BY <1>2, <1>3
<1> QED BY <1>4 DEF Max

-----------------------------------------------------------------------------
(* The samples of one file *)

(* A line that parses begins with the first byte of its sample, and all of  *)
(* its bytes but the newline follow.                                        *)
LEMMA ParsedLine ==
  ASSUME NEW f, NEW i \in 1..Len(f), Len(f) \in Nat, ParsesAt(f, i), f[i] \in Piece
  PROVE  /\ f[i] = [sample |-> f[i].sample, byte |-> 1]
         /\ \A m \in 1..(SampleBytes - 1) :
              /\ i + m - 1 \in 1..Len(f)
              /\ f[i + m - 1] = [sample |-> f[i].sample, byte |-> m]
<1> DEFINE end == i + SampleBytes - 1
<1>1. SampleBytes \in Nat \ {0} /\ i \in Nat \ {0} /\ end \in Nat
  BY HistoryAssumption
<1>2. /\ end - 1 <= Len(f)
      /\ \A k \in i..(end - 1) : f[k] = [sample |-> f[i].sample, byte |-> k - i + 1]
      /\ end <= Len(f) => f[end].byte = SampleBytes
  BY DEF ParsesAt
<1> HIDE DEF end
<1>3. ASSUME NEW m \in 1..(SampleBytes - 1)
      PROVE /\ i + m - 1 \in 1..Len(f)
            /\ f[i + m - 1] = [sample |-> f[i].sample, byte |-> m]
  <2>1. i + m - 1 \in i..(end - 1) /\ (i + m - 1) - i + 1 = m
    BY <1>1 DEF end
  <2>2. i + m - 1 \in 1..Len(f)
    BY <1>1, <1>2, <2>1
  <2> QED BY <1>2, <2>1, <2>2
<1>4. f[i].byte = 1
  <2>1. CASE SampleBytes = 1
    <3>1. end = i
      BY <1>1, <2>1 DEF end
    <3> QED BY <1>2, <2>1, <3>1
  <2>2. CASE SampleBytes # 1
    <3>1. 1 \in 1..(SampleBytes - 1) /\ i + 1 - 1 = i
      BY <1>1, <2>2
    <3>2. f[i] = [sample |-> f[i].sample, byte |-> 1]
      BY <1>3, <3>1
    <3> QED BY <3>2
  <2> QED BY <2>1, <2>2
<1>5. f[i] = [sample |-> f[i].sample, byte |-> 1]
  BY <1>4 DEF Piece
<1> QED BY <1>3, <1>5

(* Two lines of a file with samples of one session are of different cycles. *)
LEMMA LaterLine ==
  ASSUME NEW d, NEW f, FileOK(d, f), Len(f) \in Nat,
         NEW i \in 1..Len(f), NEW j \in 1..Len(f), i < j,
         ParsesAt(f, i), ParsesAt(f, j), f[i].sample.session = f[j].sample.session
  PROVE  f[i].sample.cycle < f[j].sample.cycle
<1>1. f[i] \in Piece /\ f[j] \in Piece /\ Earlier(f[i], f[j])
  BY DEF FileOK, InOrder
<1>2. /\ f[i] = [sample |-> f[i].sample, byte |-> 1]
      /\ f[j] = [sample |-> f[j].sample, byte |-> 1]
  BY <1>1, ParsedLine
<1>3. CASE f[i].sample.cycle = f[j].sample.cycle /\ f[i].sample.at = f[j].sample.at
             /\ f[i] # f[j]
  <2>1. f[i].sample \in Recorded /\ f[j].sample \in Recorded
    BY <1>1 DEF Piece
  <2>2. f[i].sample = f[j].sample
    BY <1>3, <2>1 DEF Recorded
  <2> QED BY <1>2, <1>3, <2>2
<1> QED BY <1>1, <1>3 DEF Earlier

LEMMA FoundSamples ==
  ASSUME NEW d, NEW f, FileOK(d, f), Len(f) \in Nat, NEW q
  PROVE  /\ Matches(f, q) \in Seq(Recorded) /\ Len(Matches(f, q)) \in Nat
         /\ \A k \in 1..Len(Matches(f, q)) :
              /\ Matches(f, q)[k] \in Recorded /\ Matches(f, q)[k].session = q.session
              /\ DayBucket(Matches(f, q)[k].at) = d
         /\ \A k, l \in 1..Len(Matches(f, q)) :
              k < l => Matches(f, q)[l].cycle < Matches(f, q)[k].cycle
         /\ \A s \in SamplesIn(f) : s.session = q.session /\ s.at >= q.since =>
              \E k \in 1..Len(Matches(f, q)) : Matches(f, q)[k] = s
<1> DEFINE lines == LinesFor(f, q)
           n == Cardinality(lines)
           order == FromTheEnd(lines)
           m == Matches(f, q)
<1>1. lines \in SUBSET Int /\ IsFiniteSet(lines) /\ lines \subseteq 1..Len(f)
  <2>1. lines \subseteq 1..Len(f)
    BY DEF LinesFor
  <2>2. IsFiniteSet(1..Len(f))
    BY FS_Interval
  <2>3. IsFiniteSet(lines)
    BY <2>1, <2>2, FS_Subset
  <2> QED BY <2>1, <2>3
<1>2. /\ n \in Nat /\ order \in [1..n -> lines]
      /\ \A i, j \in 1..n : i < j => order[i] > order[j]
      /\ \A x \in lines : \E i \in 1..n : order[i] = x
  BY <1>1, ListedFromTheEnd
<1>3. m = [k \in 1..n |-> f[order[k]].sample]
  BY DEF Matches
<1>4. \A x \in lines : /\ ParsesAt(f, x) /\ x \in 1..Len(f)
                       /\ f[x].sample.session = q.session
  BY DEF LinesFor
<1>5. \A s \in SamplesIn(f) : s.session = q.session /\ s.at >= q.since =>
        \E x \in lines : s = f[x].sample
  BY DEF SamplesIn, LinesFor
<1> HIDE DEF lines, n, order, m
<1>6. ASSUME NEW k \in 1..n
      PROVE /\ m[k] = f[order[k]].sample /\ order[k] \in lines /\ order[k] \in Int
            /\ m[k] \in Recorded /\ m[k].session = q.session /\ DayBucket(m[k].at) = d
  <2>1. m[k] = f[order[k]].sample /\ order[k] \in lines
    BY <1>2, <1>3
  <2>2. order[k] \in 1..Len(f) /\ m[k].session = q.session
    BY <1>4, <2>1
  <2>3. f[order[k]] \in Piece /\ DayBucket(f[order[k]].sample.at) = d
    BY <2>2 DEF FileOK
  <2> QED BY <2>1, <2>2, <2>3 DEF Piece
<1>7. m \in Seq(Recorded) /\ Len(m) = n
  <2>1. m \in [1..n -> Recorded]
    BY <1>3, <1>6
  <2>2. m \in Seq(Recorded)
    BY <1>2, <2>1, SeqDef
  <2>3. DOMAIN m = 1..n /\ Len(m) \in Nat /\ DOMAIN m = 1..Len(m)
    BY <2>1, <2>2, LenProperties
  <2>4. Len(m) = n
    BY <1>2, <2>3
  <2> QED BY <2>2, <2>4
<1>8. ASSUME NEW k \in 1..n, NEW l \in 1..n, k < l PROVE m[l].cycle < m[k].cycle
  <2>1. /\ order[l] \in lines /\ order[k] \in lines
        /\ m[l] = f[order[l]].sample /\ m[k] = f[order[k]].sample
    BY <1>6
  <2>2. order[l] < order[k]
    BY <1>2, <1>6, <1>8
  <2> QED BY <1>4, <2>1, <2>2, LaterLine
<1>9. ASSUME NEW s \in SamplesIn(f), s.session = q.session, s.at >= q.since
      PROVE \E k \in 1..n : m[k] = s
  <2>1. PICK x \in lines : s = f[x].sample
    BY <1>5, <1>9
  <2>2. PICK k \in 1..n : order[k] = x
    BY <1>2
  <2> QED BY <1>6, <2>1, <2>2
<1> QED BY <1>2, <1>6, <1>7, <1>8, <1>9 DEF m

-----------------------------------------------------------------------------
(* The steps of a query *)

(* What a query knows stays true while the store is not touched. *)
LEMMA SameStore ==
  ASSUME files' = files, rest' = rest, cycle' = cycle, sampler' = sampler,
         DOMAIN reader' = Readers, reader' = [r \in Readers |-> reader'[r]],
         \A r \in Readers : QueryOK(reader'[r])
  PROVE  QueriesOK'
BY DEF QueriesOK, QueryOK, SettledBefore, MissingOK, ScanOK, AnsweredOK, Past, Readable, Newer

(* It also does if nothing a query remembers becomes readable again. *)
LEMMA QueriesKept ==
  ASSUME QueriesOK, \A n \in Nat : Past(n) => Past(n)',
         DOMAIN reader' = Readers, reader' = [r \in Readers |-> reader'[r]],
         \A r \in Readers : reader'[r] = reader[r] \/ reader'[r] = NoQuery,
         \A r \in Readers : reader[r] # NoQuery =>
           \A s \in reader[r].before :
             /\ s \in Readable' => s \in Readable
             /\ \A k \in 1..Len(rest') :
                  rest'[k].sample = s => rest'[k].byte = SampleBytes /\ rest'[k].byte # 1
  PROVE  QueriesOK'
<1> SUFFICES ASSUME NEW r \in Readers, reader'[r] # NoQuery PROVE QueryOK(reader[r])'
  BY DEF QueriesOK, QueryOK
<1> DEFINE q == reader[r]
<1>1. reader'[r] = q /\ q # NoQuery /\ QueryOK(q)
  BY DEF QueriesOK
<1> HIDE DEF q
<1>2. /\ q \in Query /\ Len(q.samples) <= q.limit
      /\ \A i \in 1..Len(q.samples) : q.samples[i].session = q.session
      /\ q.at = "scan" => ScanOK(q)
      /\ q.at = "answered" => AnsweredOK(q)
      /\ SettledBefore(q) /\ MissingOK(q)
  BY <1>1 DEF QueryOK
<1>3. \A s \in q.before :
        /\ s \in Recorded
        /\ s \in Readable' => s \in Readable
        /\ \A k \in 1..Len(rest') :
             rest'[k].sample = s => rest'[k].byte = SampleBytes /\ rest'[k].byte # 1
  <2>1. q.before \subseteq Recorded
    BY <1>2 DEF Query
  <2> QED BY <1>1, <2>1 DEF q
<1>4. SettledBefore(reader[r])'
  <2>1. ASSUME NEW s \in q.before PROVE Past(s.cycle)'
    <3>1. s.cycle \in Nat /\ Past(s.cycle)
      BY <1>2, <1>3 DEF SettledBefore, Recorded
    <3> DEFINE n == s.cycle
    <3>2. n \in Nat /\ Past(n)
      BY <3>1
    <3> HIDE DEF n
    <3>3. Past(n)'
      BY <3>2 DEF Past
    <3> QED BY <3>3 DEF Past, n
  <2> QED BY <1>1, <1>2, <1>3, <2>1 DEF SettledBefore
<1>5. MissingOK(reader[r])'
  BY <1>1, <1>2, <1>3 DEF MissingOK, Newer
<1>6. q.at = "scan" => ScanOK(reader[r])'
  BY <1>1, <1>2 DEF ScanOK
<1>7. q.at = "answered" => AnsweredOK(reader[r])'
  BY <1>1, <1>2 DEF AnsweredOK
<1> QED BY <1>1, <1>2, <1>4, <1>5, <1>6, <1>7 DEF QueryOK

(* min and the newest samples up to the limit *)
LEMMA Lesser ==
  ASSUME NEW a \in Int, NEW b \in Int
  PROVE  Min({a, b}) \in {a, b} /\ Min({a, b}) <= a /\ Min({a, b}) <= b
<1>1. \E x \in {a, b} : \A y \in {a, b} : x <= y
  OBVIOUS
<1> QED BY <1>1 DEF Min

LEMMA Taken ==
  ASSUME NEW S, NEW s \in Seq(S), NEW n \in 0..Len(s)
  PROVE  /\ SubSeq(s, 1, n) \in Seq(S) /\ Len(SubSeq(s, 1, n)) = n
         /\ \A j \in 1..n : SubSeq(s, 1, n)[j] = s[j]
<1>1. Len(s) \in Nat /\ n \in Nat /\ \A i \in 1..n : s[i] \in S
  BY LenProperties
<1>2. SubSeq(s, 1, n) \in Seq(S) /\ Len(SubSeq(s, 1, n)) = IF 1 <= n THEN n - 1 + 1 ELSE 0
  BY <1>1, SubSeqProperties
<1>3. \A j \in 1..(n - 1 + 1) : SubSeq(s, 1, n)[j] = s[1 + j - 1]
  BY <1>1, SubSeqProperties
<1>4. Len(SubSeq(s, 1, n)) = n
  BY <1>1, <1>2
<1>5. ASSUME NEW j \in 1..n PROVE SubSeq(s, 1, n)[j] = s[j]
  <2>1. j \in 1..(n - 1 + 1) /\ 1 + j - 1 = j
    BY <1>1
  <2> QED BY <1>3, <2>1
<1> QED BY <1>2, <1>4, <1>5

(* What a query has after one more file: all it had, then the newest of the *)
(* file's samples, up to the limit.                                         *)
LEMMA CollectedSamples ==
  ASSUME NEW S, NEW q, NEW f, q.samples \in Seq(S), Matches(f, q) \in Seq(S),
         q.limit \in Nat, Len(q.samples) <= q.limit
  PROVE  /\ Collected(q, f) \in Seq(S) /\ Len(Collected(q, f)) \in Nat
         /\ Len(q.samples) <= Len(Collected(q, f)) /\ Len(Collected(q, f)) <= q.limit
         /\ Len(Collected(q, f)) <= Len(q.samples) + Len(Matches(f, q))
         /\ \A i \in 1..Len(q.samples) : Collected(q, f)[i] = q.samples[i]
         /\ \A i \in 1..Len(Collected(q, f)) : i > Len(q.samples) =>
              /\ i - Len(q.samples) \in 1..Len(Matches(f, q))
              /\ Collected(q, f)[i] = Matches(f, q)[i - Len(q.samples)]
         /\ Len(Collected(q, f)) < q.limit =>
              Len(Collected(q, f)) = Len(q.samples) + Len(Matches(f, q))
<1> DEFINE s == q.samples
           m == Matches(f, q)
           all == s \o m
           n == Min({Len(all), q.limit})
<1>1. s \in Seq(S) /\ m \in Seq(S) /\ Len(s) \in Nat /\ Len(m) \in Nat
  BY LenProperties
<1>2. Collected(q, f) = SubSeq(all, 1, n)
  BY DEF Collected
<1> HIDE DEF s, m
<1>3. all \in Seq(S) /\ Len(all) = Len(s) + Len(m)
  BY <1>1, ConcatProperties
<1>4. \A i \in 1..(Len(s) + Len(m)) : all[i] = IF i <= Len(s) THEN s[i] ELSE m[i - Len(s)]
  BY <1>1, ConcatProperties
<1>5. Len(all) \in Int /\ q.limit \in Int /\ Len(s) <= q.limit
  BY <1>1, <1>3 DEF s
<1>6. n \in {Len(all), q.limit} /\ n <= Len(all) /\ n <= q.limit
  BY <1>5, Lesser
<1> HIDE DEF n, all
<1>7. n \in 0..Len(all) /\ Len(s) <= n /\ n \in Nat
  BY <1>1, <1>3, <1>5, <1>6
<1>8. /\ SubSeq(all, 1, n) \in Seq(S) /\ Len(SubSeq(all, 1, n)) = n
      /\ \A j \in 1..n : SubSeq(all, 1, n)[j] = all[j]
  BY <1>3, <1>7, Taken
<1> DEFINE c == Collected(q, f)
<1>9. c \in Seq(S) /\ Len(c) = n /\ \A j \in 1..n : c[j] = all[j]
  BY <1>2, <1>8
<1> HIDE DEF c
<1>10. ASSUME NEW i \in 1..Len(s) PROVE c[i] = s[i]
  BY <1>1, <1>3, <1>4, <1>7, <1>9
<1>11. ASSUME NEW i \in 1..n, i > Len(s)
       PROVE i - Len(s) \in 1..Len(m) /\ c[i] = m[i - Len(s)]
  <2>1. /\ i \in 1..(Len(s) + Len(m)) /\ ~(i <= Len(s))
        /\ i - Len(s) \in 1..Len(m)
    BY <1>1, <1>3, <1>7, <1>11
  <2>2. c[i] = all[i]
    BY <1>9
  <2>3. all[i] = m[i - Len(s)]
    BY <1>4, <2>1
  <2> QED BY <2>1, <2>2, <2>3
<1>12. n < q.limit => n = Len(s) + Len(m)
  BY <1>3, <1>5, <1>6
<1>13. n <= Len(s) + Len(m)
  BY <1>3, <1>6
<1> QED BY <1>6, <1>7, <1>9, <1>10, <1>11, <1>12, <1>13 DEF c, s, m

(* One more file: its samples are older than all the query has.             *)
LEMMA ReadStep ==
  ASSUME TypeOK, AnswerInv, NEW r \in Readers, ReadFile(r)
  PROVE  QueriesOK'
<1> DEFINE q == reader[r]
           d == Max(q.todo)
           f == files[d]
           c == Collected(q, f)
           m == Matches(f, q)
           l == Len(q.samples)
           left == IF Len(c) >= q.limit THEN {} ELSE q.todo \ {d}
           p == reader'[r]
<1>1. /\ q.at = "scan" /\ q.todo # {} /\ d \in DOMAIN files
      /\ reader' = [reader EXCEPT ![r].samples = c, ![r].todo = left]
      /\ files' = files /\ rest' = rest /\ cycle' = cycle /\ sampler' = sampler
  BY DEF ReadFile, cycleVars
<1>2. /\ LinesOK /\ DOMAIN reader = Readers /\ reader = [x \in Readers |-> reader[x]]
      /\ \A x \in Readers : QueryOK(reader[x])
  BY DEF AnswerInv, QueriesOK
<1>3. q # NoQuery
  BY <1>1 DEF NoQuery
<1>4. /\ q \in Query /\ l <= q.limit
      /\ \A i \in 1..l : q.samples[i].session = q.session
      /\ SettledBefore(q) /\ MissingOK(q) /\ ScanOK(q)
  BY <1>1, <1>2, <1>3 DEF QueryOK
<1>5. FileOK(d, f) /\ Len(f) \in Nat
  BY <1>1, <1>2, FilesAreSeqs DEF LinesOK
<1>6. p = [q EXCEPT !.samples = c, !.todo = left]
  BY <1>1, <1>2
<1>7. \A x \in Readers \ {r} : reader'[x] = reader[x]
  BY <1>1, <1>2
<1>8. DOMAIN reader' = Readers /\ reader' = [x \in Readers |-> reader'[x]]
  BY <1>1, <1>2
<1> HIDE DEF q, p
<1>9. d \in q.todo /\ \A e \in q.todo : e <= d
  <2>1. q.todo \in SUBSET Int /\ IsFiniteSet(q.todo) /\ q.todo # {}
    BY <1>1, <1>4 DEF ScanOK, Query
  <2> QED BY <2>1, Newest
<1>10. d \in Nat /\ q.todo \in SUBSET Nat /\ q.limit \in Nat \ {0} /\ l < q.limit
       /\ q.samples \in Seq(Recorded) /\ l \in Nat /\ q.before \in SUBSET Recorded
  <2>1. q.todo \in SUBSET Nat /\ q.limit \in Nat \ {0} /\ q.samples \in Seq(Recorded)
        /\ q.before \in SUBSET Recorded
    BY <1>4 DEF Query
  <2>2. l < q.limit
    BY <1>1, <1>4 DEF ScanOK
  <2>3. l \in Nat
    BY <2>1, LenProperties
  <2> QED BY <1>9, <2>1, <2>2, <2>3
<1> HIDE DEF d, f
<1>11. /\ m \in Seq(Recorded) /\ Len(m) \in Nat
       /\ \A k \in 1..Len(m) : /\ m[k] \in Recorded /\ m[k].session = q.session
                               /\ DayBucket(m[k].at) = d
       /\ \A i, j \in 1..Len(m) : i < j => m[j].cycle < m[i].cycle
       /\ \A s \in SamplesIn(f) : s.session = q.session /\ s.at >= q.since =>
            \E k \in 1..Len(m) : m[k] = s
  BY <1>5, FoundSamples
<1>12. /\ c \in Seq(Recorded) /\ Len(c) \in Nat
       /\ l <= Len(c) /\ Len(c) <= q.limit /\ Len(c) <= l + Len(m)
       /\ \A i \in 1..l : c[i] = q.samples[i]
       /\ \A i \in 1..Len(c) : i > l => i - l \in 1..Len(m) /\ c[i] = m[i - l]
       /\ Len(c) < q.limit => Len(c) = l + Len(m)
  <2>1. q.limit \in Nat /\ l <= q.limit
    BY <1>10
  <2> QED BY <1>10, <1>11, <2>1, CollectedSamples
<1> HIDE DEF c, m, l
<1>13. /\ p \in Query /\ p.at = "scan" /\ p.samples = c /\ p.todo = left /\ p.limit = q.limit
       /\ p.session = q.session /\ p.since = q.since /\ p.before = q.before
  <2>1. left \in SUBSET Nat
    BY <1>10
  <2> HIDE DEF left
  <2> QED BY <1>1, <1>4, <1>6, <1>12, <2>1 DEF Query
<1>14. ASSUME NEW i \in 1..Len(c), ~(i <= l)
       PROVE /\ i - l \in 1..Len(m) /\ c[i] = m[i - l] /\ c[i].session = q.session
             /\ DayBucket(c[i].at) = d
  <2>1. i > l
    BY <1>10, <1>14
  <2> QED BY <1>11, <1>12, <2>1
<1>15. ASSUME NEW i \in 1..l PROVE c[i] = q.samples[i] /\ DayBucket(c[i].at) > d
  <2>1. \A e \in q.todo : e < DayBucket(q.samples[i].at)
    BY <1>4 DEF ScanOK, l
  <2> QED BY <1>9, <1>12, <2>1
<1>16. \A i \in 1..Len(c) : c[i].session = q.session
  <2> SUFFICES ASSUME NEW i \in 1..Len(c) PROVE c[i].session = q.session
    OBVIOUS
  <2>1. CASE i <= l
    <3>1. i \in 1..l
      BY <1>10, <2>1
    <3> QED BY <1>4, <1>12, <3>1
  <2> QED BY <1>14, <2>1
<1>17. ASSUME NEW i \in 1..Len(c), NEW j \in 1..Len(c), i < j PROVE Newer(c[i], c[j])
  <2>1. CASE j <= l
    <3>1. i \in 1..l /\ j \in 1..l
      BY <1>10, <1>17, <2>1
    <3>2. Newer(q.samples[i], q.samples[j])
      BY <1>4, <1>17, <3>1 DEF ScanOK, l
    <3> QED BY <1>15, <3>1, <3>2
  <2>2. CASE i <= l /\ ~(j <= l)
    <3>1. i \in 1..l
      BY <1>10, <2>2
    <3>2. DayBucket(c[i].at) > d /\ DayBucket(c[j].at) = d
      BY <1>14, <1>15, <2>2, <3>1
    <3> QED BY <3>2 DEF Newer
  <2>3. CASE ~(i <= l) /\ ~(j <= l)
    <3>1. /\ i - l \in 1..Len(m) /\ c[i] = m[i - l] /\ DayBucket(c[i].at) = d
          /\ j - l \in 1..Len(m) /\ c[j] = m[j - l] /\ DayBucket(c[j].at) = d
      BY <1>14, <2>3
    <3>2. i - l < j - l
      BY <1>10, <1>12, <1>17
    <3>3. c[j].cycle < c[i].cycle
      BY <1>11, <3>1, <3>2
    <3> QED BY <3>1, <3>3 DEF Newer
  <2>4. j <= l => i <= l
    BY <1>10, <1>12, <1>17
  <2> QED BY <2>1, <2>2, <2>3, <2>4
<1>18. ScanOK(p)
  <2>1. IsFiniteSet(left) /\ left \subseteq q.todo \ {d} /\ (left # {} => Len(c) < q.limit)
    <3>1. IsFiniteSet(q.todo \ {d}) /\ IsFiniteSet({})
      BY <1>4, FS_RemoveElement, FS_EmptySet DEF ScanOK
    <3>2. left # {} => Len(c) < q.limit
      BY <1>10, <1>12
    <3> QED BY <3>1, <3>2
  <2> HIDE DEF left
  <2>2. ASSUME NEW i \in 1..Len(c), NEW e \in left PROVE e < DayBucket(c[i].at)
    <3>1. e \in Nat /\ e < d
      BY <1>9, <1>10, <2>1
    <3>2. CASE i <= l
      <4>1. i \in 1..l
        BY <1>10, <3>2
      <4>2. c[i] = q.samples[i] /\ \A x \in q.todo : x < DayBucket(q.samples[i].at)
        BY <1>4, <1>15, <4>1 DEF ScanOK, l
      <4> QED BY <2>1, <4>2
    <3> QED BY <1>14, <3>1, <3>2
  <2> QED BY <1>13, <1>17, <2>1, <2>2 DEF ScanOK
<1>19. MissingOK(p)
  <2> SUFFICES ASSUME NEW s \in (q.before \cap Readable) \ ToSet(c)
               PROVE \/ DayBucket(s.at) \in left
                     \/ Len(c) = q.limit /\ \A x \in ToSet(c) : Newer(x, s)
    BY <1>13 DEF MissingOK
  <2>1. DOMAIN c = 1..Len(c) /\ DOMAIN q.samples = 1..l
    BY <1>10, <1>12, LenProperties DEF l
  <2>2. s \notin ToSet(q.samples)
    <3>1. ASSUME NEW i \in 1..l, q.samples[i] = s PROVE FALSE
      <4>1. i \in DOMAIN c
        <5>1. Len(c) \in Nat /\ l <= Len(c) /\ l \in Nat
          BY <1>10, <1>12
        <5> QED BY <2>1, <5>1
      <4>2. c[i] = s
        BY <1>12, <3>1
      <4> QED BY <4>1, <4>2 DEF ToSet
    <3> QED BY <2>1, <3>1 DEF ToSet
  <2>3. DayBucket(s.at) \in q.todo
    BY <1>4, <1>10, <2>2 DEF MissingOK, l
  <2>4. DayBucket(s.at) <= d /\ DayBucket(s.at) \in Nat
    BY <1>9, <1>10, <2>3
  <2>5. CASE DayBucket(s.at) # d /\ Len(c) < q.limit
    <3>1. ~(Len(c) >= q.limit)
      BY <1>10, <1>12, <2>5
    <3> QED BY <2>3, <2>5, <3>1
  <2>6. CASE DayBucket(s.at) # d /\ ~(Len(c) < q.limit)
    <3>1. Len(c) = q.limit
      BY <1>10, <1>12, <2>6
    <3>2. ASSUME NEW i \in 1..Len(c) PROVE Newer(c[i], s)
      <4>1. CASE i <= l
        <5>1. i \in 1..l
          BY <1>10, <4>1
        <5>2. c[i] = q.samples[i] /\ DayBucket(s.at) < DayBucket(q.samples[i].at)
          BY <1>4, <1>15, <2>3, <5>1 DEF ScanOK, l
        <5> QED BY <5>2 DEF Newer
      <4>2. CASE ~(i <= l)
        <5>1. DayBucket(c[i].at) = d /\ DayBucket(s.at) < d
          BY <1>10, <1>14, <2>4, <2>6, <4>2
        <5> QED BY <5>1 DEF Newer
      <4> QED BY <4>1, <4>2
    <3> QED BY <2>1, <3>1, <3>2 DEF ToSet
  <2>7. CASE DayBucket(s.at) = d
    <3>1. s \in SamplesIn(f)
      <4>1. PICK e \in DOMAIN files : s \in SamplesIn(files[e])
        BY DEF Readable
      <4>2. PICK i \in 1..Len(files[e]) : s = files[e][i].sample
        BY <4>1 DEF SamplesIn
      <4>3. DayBucket(s.at) = e
        BY <1>2, <4>2 DEF LinesOK, FileOK
      <4> QED BY <2>7, <4>1, <4>3 DEF f
    <3>2. PICK k \in 1..Len(m) : m[k] = s
      BY <1>4, <1>11, <3>1 DEF SettledBefore
    <3>3. ~(l + k <= Len(c))
      <4> SUFFICES ASSUME l + k <= Len(c) PROVE FALSE
        OBVIOUS
      <4>1. l + k \in 1..Len(c) /\ l + k > l /\ l + k - l = k
        BY <1>10, <1>11, <1>12
      <4>2. c[l + k] = s
        <5> DEFINE i == l + k
        <5>1. i \in 1..Len(c) /\ i > l /\ i - l = k
          BY <1>10, <1>11, <4>1
        <5> HIDE DEF i
        <5>2. c[i] = m[i - l]
          BY <1>12, <5>1
        <5> QED BY <3>2, <5>1, <5>2 DEF i
      <4> QED BY <2>1, <4>1, <4>2 DEF ToSet
    <3>4. Len(c) = q.limit
      BY <1>10, <1>11, <1>12, <3>3
    <3>5. ASSUME NEW i \in 1..Len(c) PROVE Newer(c[i], s)
      <4>1. CASE i <= l
        <5>1. i \in 1..l
          BY <1>10, <4>1
        <5>2. DayBucket(c[i].at) > d
          BY <1>15, <5>1
        <5> QED BY <1>10, <2>7, <5>2 DEF Newer
      <4>2. CASE ~(i <= l)
        <5>1. i - l \in 1..Len(m) /\ c[i] = m[i - l] /\ DayBucket(c[i].at) = d
          BY <1>14, <4>2
        <5>2. i - l < k
          BY <1>10, <1>11, <1>12, <3>3
        <5>3. s.cycle < c[i].cycle
          BY <1>11, <3>2, <5>1, <5>2
        <5> QED BY <2>7, <5>1, <5>3 DEF Newer
      <4> QED BY <4>1, <4>2
    <3> QED BY <2>1, <3>4, <3>5 DEF ToSet
  <2> QED BY <2>5, <2>6, <2>7
<1>20. SettledBefore(p)
  BY <1>4, <1>13 DEF SettledBefore
<1>21. QueryOK(p)
  BY <1>12, <1>13, <1>16, <1>18, <1>19, <1>20 DEF QueryOK
<1>22. \A x \in Readers : QueryOK(reader'[x])
  BY <1>2, <1>7, <1>21 DEF p
<1> QED BY <1>1, <1>8, <1>22, SameStore

LEMMA LaterDay ==
  ASSUME NEW a \in Int, NEW b \in Int, a <= b
  PROVE  DayBucket(a) \in Int /\ DayBucket(b) \in Int /\ DayBucket(a) <= DayBucket(b)
<1> DEFINE p == a \div DayMs
           q == b \div DayMs
           x == a % DayMs
           y == b % DayMs
<1>1. DayMs \in Nat \ {0}
  BY HistoryAssumption
<1>2. /\ p \in Int /\ x \in 0..(DayMs - 1) /\ a = p * DayMs + x
      /\ q \in Int /\ y \in 0..(DayMs - 1) /\ b = q * DayMs + y
  BY <1>1
<1>3. DayBucket(a) = p /\ DayBucket(b) = q
  BY DEF DayBucket
<1> HIDE DEF p, q, x, y
<1>4. p <= q
  <2> SUFFICES ASSUME q < p PROVE FALSE
    BY <1>2
  <2>1. p - q - 1 \in Nat
    BY <1>2
  <2>2. (p - q - 1) * DayMs >= 0
    BY <1>1, <2>1
  <2>3. (p - q - 1) * DayMs = p * DayMs - q * DayMs - DayMs
    BY <1>1, <1>2
  <2> QED BY <1>1, <1>2, <2>2, <2>3
<1> QED BY <1>2, <1>3, <1>4

(* What can be read now is there by now but for its newline.                *)
LEMMA ReadableIsSettled ==
  ASSUME TypeOK, LinesOK, ComingOK, NEW s \in Readable
  PROVE  /\ s \in Recorded /\ Past(s.cycle) /\ DayBucket(s.at) \in DOMAIN files
         /\ \A k \in 1..Len(rest) :
              rest[k].sample = s => rest[k].byte = SampleBytes /\ rest[k].byte # 1
<1>1. PICK d \in DOMAIN files : s \in SamplesIn(files[d])
  BY DEF Readable
<1>2. PICK i \in 1..Len(files[d]) : ParsesAt(files[d], i) /\ s = files[d][i].sample
  BY <1>1 DEF SamplesIn
<1> DEFINE f == files[d]
<1>3. f[i] \in Piece /\ DayBucket(s.at) = d /\ Past(s.cycle) /\ Len(f) \in Nat
  BY <1>2, FilesAreSeqs DEF LinesOK, FileOK
<1>4. s \in Recorded
  BY <1>2, <1>3 DEF Piece
<1>5. /\ f[i] = [sample |-> s, byte |-> 1]
      /\ \A m \in 1..(SampleBytes - 1) :
           i + m - 1 \in 1..Len(f) /\ f[i + m - 1] = [sample |-> s, byte |-> m]
  BY <1>2, <1>3, ParsedLine
<1>6. ASSUME NEW k \in 1..Len(rest), rest[k].sample = s
      PROVE  rest[k].byte = SampleBytes /\ rest[k].byte # 1
  <2>1. sampler = "write"
    <3> SUFFICES ASSUME rest = <<>> PROVE FALSE
      BY DEF ComingOK
    <3>1. Len(rest) = 0
      BY EmptySeq
    <3> QED BY <3>1
  <2>2. /\ rest[k] \in Piece /\ rest[k].sample.at = recorded
        /\ \A j \in 1..Len(files[Today]) : Earlier(files[Today][j], rest[k])
    BY <2>1 DEF ComingOK
  <2>3. d = Today
    BY <1>3, <1>6, <2>2 DEF Today
  <2>4. ASSUME NEW j \in 1..Len(f), f[j].sample = s PROVE f[j] # rest[k]
    <3>1. Earlier(f[j], rest[k])
      BY <2>2, <2>3
    <3>2. s.cycle \in Nat
      BY <1>4 DEF Recorded
    <3>3. ~(s.cycle < s.cycle)
      BY <3>2
    <3> QED BY <1>6, <2>4, <3>1, <3>3 DEF Earlier
  <2>5. rest[k] = [sample |-> s, byte |-> rest[k].byte] /\ rest[k].byte \in 1..SampleBytes
    BY <1>6, <2>2 DEF Piece
  <2>6. rest[k].byte # 1
    BY <1>2, <1>5, <2>4, <2>5
  <2>7. ASSUME NEW m \in 1..(SampleBytes - 1) PROVE rest[k].byte # m
    <3>1. i + m - 1 \in 1..Len(f) /\ f[i + m - 1] = [sample |-> s, byte |-> m]
      BY <1>5
    <3>2. f[i + m - 1].sample = s
      BY <3>1
    <3> QED BY <2>4, <2>5, <3>1, <3>2
  <2>8. rest[k].byte = SampleBytes
    <3>1. rest[k].byte \in 1..(SampleBytes - 1) \/ rest[k].byte = SampleBytes
      BY <2>5, HistoryAssumption
    <3> QED BY <2>7, <3>1
  <2> QED BY <2>6, <2>8
<1> QED BY <1>3, <1>4, <1>6

LEMMA AskStep ==
  ASSUME TypeOK, AnswerInv, NEW r \in Readers, NEW session \in Sessions,
         NEW seconds \in 0..MaxNow, NEW limit \in 1..MaxQuerySamples,
         Ask(r, session, seconds, limit)
  PROVE  QueriesOK'
<1> DEFINE since == now - Min({seconds, RetentionDays * DayMs})
           most == Min({limit, MaxQuerySamples})
           todo == {d \in DOMAIN files : d >= DayBucket(since)}
           before == {s \in Readable : s.session = session /\ s.at >= since}
           q == [at |-> "scan", session |-> session, since |-> since, limit |-> most,
                 todo |-> todo, samples |-> <<>>, before |-> before]
<1>1. /\ reader' = [reader EXCEPT ![r] = q]
      /\ files' = files /\ rest' = rest /\ cycle' = cycle /\ sampler' = sampler
  BY DEF Ask, cycleVars
<1>2. /\ LinesOK /\ ComingOK
      /\ DOMAIN reader = Readers /\ reader = [x \in Readers |-> reader[x]]
      /\ \A x \in Readers : QueryOK(reader[x])
  BY DEF AnswerInv, QueriesOK
<1>3. since \in Int
  <2>1. seconds \in Int /\ RetentionDays * DayMs \in Int /\ now \in Int
    BY HistoryAssumption DEF TypeOK
  <2>2. Min({seconds, RetentionDays * DayMs}) \in {seconds, RetentionDays * DayMs}
    BY <2>1, Lesser
  <2> QED BY <2>1, <2>2
<1>4. most \in Nat \ {0}
  <2>1. /\ limit \in Int /\ limit \in Nat \ {0}
        /\ MaxQuerySamples \in Int /\ MaxQuerySamples \in Nat \ {0}
    BY HistoryAssumption
  <2>2. most \in {limit, MaxQuerySamples}
    BY <2>1, Lesser
  <2> QED BY <2>1, <2>2
<1> HIDE DEF since, most
<1>5. todo \in SUBSET Nat /\ IsFiniteSet(todo)
  <2>1. todo \subseteq DOMAIN files /\ DOMAIN files \subseteq Nat
    BY DEF TypeOK, Directory
  <2> QED BY <1>2, <2>1, FS_Subset DEF LinesOK
<1>6. ASSUME NEW s \in before
      PROVE /\ s \in Recorded /\ Past(s.cycle) /\ DayBucket(s.at) \in todo
            /\ s.session = session /\ s.at >= since
            /\ \A k \in 1..Len(rest) :
                 rest[k].sample = s => rest[k].byte = SampleBytes /\ rest[k].byte # 1
  <2>1. s \in Readable /\ s.session = session /\ s.at >= since
    OBVIOUS
  <2>2. /\ s \in Recorded /\ Past(s.cycle) /\ DayBucket(s.at) \in DOMAIN files
        /\ \A k \in 1..Len(rest) :
             rest[k].sample = s => rest[k].byte = SampleBytes /\ rest[k].byte # 1
    BY <1>2, <2>1, ReadableIsSettled
  <2>3. DayBucket(since) <= DayBucket(s.at) /\ DayBucket(s.at) \in Int /\ DayBucket(since) \in Int
    <3>1. s.at \in Int /\ since <= s.at
      BY <1>3, <2>1, <2>2 DEF Recorded
    <3> QED BY <1>3, <3>1, LaterDay
  <2>4. DayBucket(s.at) \in todo
    BY <2>2, <2>3
  <2> QED BY <2>1, <2>2, <2>4
<1> HIDE DEF todo, before
<1>7. <<>> \in Seq(Recorded) /\ Len(<<>>) = 0
  BY EmptySeq
<1>8. q \in Query
  <2>1. before \in SUBSET Recorded
    BY <1>6
  <2> QED BY <1>3, <1>4, <1>5, <1>7, <2>1 DEF Query
<1>9. /\ q.at = "scan" /\ q.session = session /\ q.since = since /\ q.limit = most
      /\ q.todo = todo /\ q.samples = <<>> /\ q.before = before
  OBVIOUS
<1> HIDE DEF q
<1>10. \A i \in 1..Len(q.samples) : FALSE
  BY <1>7, <1>9
<1>11. QueryOK(q)
  <2>1. SettledBefore(q)
    BY <1>6, <1>9 DEF SettledBefore
  <2>2. MissingOK(q)
    BY <1>6, <1>9 DEF MissingOK
  <2>3. ScanOK(q)
    BY <1>4, <1>5, <1>7, <1>9, <1>10 DEF ScanOK
  <2>4. Len(q.samples) <= q.limit
    BY <1>4, <1>7, <1>9
  <2> QED BY <1>8, <1>9, <1>10, <2>1, <2>2, <2>3, <2>4 DEF QueryOK
<1>12. /\ DOMAIN reader' = Readers /\ reader' = [x \in Readers |-> reader'[x]]
       /\ \A x \in Readers : QueryOK(reader'[x])
  BY <1>1, <1>2, <1>11
<1> QED BY <1>1, <1>12, SameStore

LEMMA Reversed ==
  ASSUME NEW S, NEW s \in Seq(S)
  PROVE  /\ Reverse(s) \in Seq(S) /\ Len(Reverse(s)) = Len(s) /\ Len(s) \in Nat
         /\ \A i \in 1..Len(s) : Reverse(s)[i] = s[(Len(s) - i) + 1]
         /\ ToSet(Reverse(s)) = ToSet(s)
<1> DEFINE n == Len(s)
<1>1. n \in Nat /\ s \in [1..n -> S] /\ DOMAIN s = 1..n
  BY LenProperties
<1>2. Reverse(s) = [i \in 1..n |-> s[(n - i) + 1]]
  BY DEF Reverse
<1> HIDE DEF n
<1>3. \A i \in 1..n : (n - i) + 1 \in 1..n
  BY <1>1
<1>4. Reverse(s) \in [1..n -> S]
  BY <1>1, <1>2, <1>3
<1>5. Reverse(s) \in Seq(S)
  BY <1>1, <1>4, SeqDef
<1>6. Len(Reverse(s)) = n
  BY <1>1, <1>4, <1>5, LenProperties
<1>7. ToSet(Reverse(s)) = ToSet(s)
  <2>1. DOMAIN Reverse(s) = 1..n /\ \A i \in 1..n : Reverse(s)[i] = s[(n - i) + 1]
    BY <1>2
  <2>2. ToSet(Reverse(s)) \subseteq ToSet(s)
    BY <1>1, <1>3, <2>1 DEF ToSet
  <2>3. ASSUME NEW i \in 1..n PROVE s[i] \in ToSet(Reverse(s))
    <3>1. (n - i) + 1 \in 1..n /\ (n - ((n - i) + 1)) + 1 = i
      BY <1>1
    <3>2. Reverse(s)[(n - i) + 1] = s[i]
      BY <2>1, <3>1
    <3> QED BY <2>1, <3>1, <3>2 DEF ToSet
  <2>4. ToSet(s) \subseteq ToSet(Reverse(s))
    BY <1>1, <2>3 DEF ToSet
  <2> QED BY <2>2, <2>4
<1> QED BY <1>1, <1>2, <1>5, <1>6, <1>7 DEF n

LEMMA AnswerStep ==
  ASSUME AnswerInv, NEW r \in Readers, Answer(r)
  PROVE  QueriesOK'
<1> DEFINE q == reader[r]
           p == reader'[r]
           c == Reverse(q.samples)
           n == Len(q.samples)
<1>1. /\ q.at = "scan" /\ q.todo = {}
      /\ reader' = [reader EXCEPT ![r].at = "answered", ![r].samples = c]
      /\ files' = files /\ rest' = rest /\ cycle' = cycle /\ sampler' = sampler
  BY DEF Answer, cycleVars
<1>2. /\ DOMAIN reader = Readers /\ reader = [x \in Readers |-> reader[x]]
      /\ \A x \in Readers : QueryOK(reader[x])
  BY DEF AnswerInv, QueriesOK
<1>3. q # NoQuery
  BY <1>1 DEF NoQuery
<1>4. /\ q \in Query /\ n <= q.limit
      /\ \A i \in 1..n : q.samples[i].session = q.session
      /\ SettledBefore(q) /\ MissingOK(q) /\ ScanOK(q)
  BY <1>1, <1>2, <1>3 DEF QueryOK
<1>5. p = [q EXCEPT !.at = "answered", !.samples = c]
  BY <1>1, <1>2
<1>6. /\ DOMAIN reader' = Readers /\ reader' = [x \in Readers |-> reader'[x]]
      /\ \A x \in Readers \ {r} : reader'[x] = reader[x]
  BY <1>1, <1>2
<1> HIDE DEF q, p
<1>7. /\ c \in Seq(Recorded) /\ Len(c) = n /\ n \in Nat
      /\ \A i \in 1..n : c[i] = q.samples[(n - i) + 1]
      /\ ToSet(c) = ToSet(q.samples)
  BY <1>4, Reversed DEF Query
<1> HIDE DEF c
<1>8. /\ p \in Query /\ p.at = "answered" /\ p.samples = c /\ p.todo = {} /\ p.limit = q.limit
      /\ p.session = q.session /\ p.since = q.since /\ p.before = q.before
  BY <1>1, <1>4, <1>5, <1>7 DEF Query
<1>9. ASSUME NEW i \in 1..n
      PROVE (n - i) + 1 \in 1..n /\ c[i] = q.samples[(n - i) + 1]
  BY <1>7
<1>10. AnsweredOK(p)
  <2>1. ASSUME NEW i \in 1..n, NEW j \in 1..n, i < j PROVE Newer(c[j], c[i])
    <3>1. (n - j) + 1 < (n - i) + 1
      BY <1>7, <2>1
    <3> QED BY <1>4, <1>9, <3>1 DEF ScanOK
  <2> QED BY <1>7, <1>8, <2>1 DEF AnsweredOK
<1>11. MissingOK(p)
  BY <1>1, <1>4, <1>7, <1>8 DEF MissingOK
<1>12. SettledBefore(p)
  BY <1>4, <1>8 DEF SettledBefore
<1>13. Len(p.samples) <= p.limit /\ \A i \in 1..Len(p.samples) : p.samples[i].session = p.session
  BY <1>4, <1>7, <1>8, <1>9
<1>14. QueryOK(p)
  BY <1>8, <1>10, <1>11, <1>12, <1>13 DEF QueryOK
<1>15. \A x \in Readers : QueryOK(reader'[x])
  BY <1>2, <1>6, <1>14 DEF p
<1> QED BY <1>1, <1>6, <1>15, SameStore

-----------------------------------------------------------------------------
(* The steps of the sampler beside the queries *)

(* The bytes of a payload are in order: no session is twice in a batch.     *)
LEMMA PayloadInOrder ==
  ASSUME TypeOK, LinesOK
  PROVE  /\ InOrder(Payload)
         /\ \A k \in 1..Len(Payload) :
              /\ Payload[k] \in Piece
              /\ Payload[k].sample.cycle = cycle /\ Payload[k].sample.at = recorded
<1>1. ASSUME NEW k \in 1..Len(Payload)
      PROVE  \E j \in 1..Len(batch), m \in 1..SampleBytes :
               /\ k = Start(j) + m /\ Payload[k] = [sample |-> SampleOf(j), byte |-> m]
  <2>1. PICK j \in 1..Len(batch), m \in 1..SampleBytes : k = Start(j) + m
    BY PayloadPlace
  <2>2. Payload[k] = [sample |-> SampleOf(j), byte |-> m]
    BY <2>1, PayloadAt
  <2> QED BY <2>1, <2>2
<1>2. ASSUME NEW j \in 1..Len(batch) PROVE SampleOf(j) \in Recorded
  <2>1. batch[j] \in Sessions
    BY LenProperties DEF TypeOK
  <2> QED BY <2>1 DEF SampleOf, Recorded, TypeOK
<1>3. ASSUME NEW k \in 1..Len(Payload)
      PROVE /\ Payload[k] \in Piece
            /\ Payload[k].sample.cycle = cycle /\ Payload[k].sample.at = recorded
  <2>1. PICK j \in 1..Len(batch), m \in 1..SampleBytes :
           Payload[k] = [sample |-> SampleOf(j), byte |-> m]
    BY <1>1
  <2>2. Payload[k] \in Piece /\ Payload[k].sample = SampleOf(j)
    BY <1>2, <2>1 DEF Piece
  <2> QED BY <2>2 DEF SampleOf
<1>4. ASSUME NEW k \in 1..Len(Payload), NEW l \in 1..Len(Payload), Payload[k] = Payload[l]
      PROVE  k = l
  <2>1. PICK j \in 1..Len(batch), m \in 1..SampleBytes :
           k = Start(j) + m /\ Payload[k] = [sample |-> SampleOf(j), byte |-> m]
    BY <1>1
  <2>2. PICK i \in 1..Len(batch), n \in 1..SampleBytes :
           l = Start(i) + n /\ Payload[l] = [sample |-> SampleOf(i), byte |-> n]
    BY <1>1
  <2>3. m = n /\ SampleOf(j) = SampleOf(i)
    BY <1>4, <2>1, <2>2
  <2>4. batch[j] = batch[i]
    BY <2>3 DEF SampleOf
  <2>5. j = i
    BY <2>4 DEF LinesOK
  <2> QED BY <2>1, <2>2, <2>3, <2>5
<1>5. InOrder(Payload)
  <2> SUFFICES ASSUME NEW k \in 1..Len(Payload), NEW l \in 1..Len(Payload), k < l
               PROVE  Earlier(Payload[k], Payload[l])
    BY DEF InOrder
  <2>1. k # l
    BY PayloadSize
  <2>2. Payload[k] # Payload[l]
    BY <1>4, <2>1
  <2> QED BY <1>3, <2>2 DEF Earlier
<1> QED BY <1>3, <1>5

(* The past stays past. *)
LEMMA PastKept ==
  ASSUME TypeOK,
         \/ /\ cycle' = cycle
            /\ sampler' \in {"idle", "write"} \/ sampler \notin {"idle", "write"}
         \/ cycle' = cycle + 1
  PROVE  \A n \in Nat : Past(n) => Past(n)'
BY DEF Past, TypeOK

LEMMA FileStays ==
  ASSUME NEW d, NEW f, FileOK(d, f), \A n \in Nat : Past(n) => Past(n)'
  PROVE  FileOK(d, f)'
<1>1. ASSUME NEW i \in 1..Len(f) PROVE Past(f[i].sample.cycle)'
  <2> DEFINE n == f[i].sample.cycle
  <2>1. n \in Nat /\ Past(n)
    BY DEF FileOK, Piece, Recorded
  <2> HIDE DEF n
  <2>2. Past(n)'
    BY <2>1 DEF Past
  <2> QED BY <2>2 DEF n, Past
<1> QED BY <1>1 DEF FileOK

LEMMA EmptyFile ==
  ASSUME NEW d
  PROVE  FileOK(d, <<>>) /\ SamplesIn(<<>>) = {}
<1>1. 1..Len(<<>>) = {}
  BY EmptySeq
<1> QED BY <1>1 DEF FileOK, InOrder, SamplesIn

(* Nothing is written: a file that is there is as it was, or empty.         *)
LEMMA NothingWritten ==
  ASSUME LinesOK, \A n \in Nat : Past(n) => Past(n)',
         NEW x, DOMAIN files' \subseteq DOMAIN files \cup {x},
         \A e \in DOMAIN files' : files'[e] = <<>> \/ (e \in DOMAIN files /\ files'[e] = files[e]),
         \A i, j \in 1..Len(batch') : batch'[i] = batch'[j] => i = j
  PROVE  LinesOK' /\ Readable' \subseteq Readable
<1>1. IsFiniteSet(DOMAIN files')
  <2>1. IsFiniteSet(DOMAIN files \cup {x})
    BY FS_AddElement DEF LinesOK
  <2> QED BY <2>1, FS_Subset
<1>2. ASSUME NEW d \in DOMAIN files' PROVE FileOK(d, files[d])'
  <2>1. PICK f : f = files'[d]
    OBVIOUS
  <2>2. FileOK(d, f)
    BY <2>1, EmptyFile DEF LinesOK
  <2>3. FileOK(d, f)'
    BY <2>2, FileStays
  <2> QED BY <2>1, <2>3
<1>3. Readable' \subseteq Readable
  BY EmptyFile DEF Readable
<1>4. LinesOK'
  BY <1>1, <1>2 DEF LinesOK
<1> QED BY <1>3, <1>4

(* The sampler moves on, or the daemon is restarted, and nothing is written.*)
LEMMA NothingNew ==
  ASSUME TypeOK, AnswerInv, \A n \in Nat : Past(n) => Past(n)',
         NEW x, DOMAIN files' \subseteq DOMAIN files \cup {x},
         \A e \in DOMAIN files' : files'[e] = <<>> \/ (e \in DOMAIN files /\ files'[e] = files[e]),
         \A i, j \in 1..Len(batch') : batch'[i] = batch'[j] => i = j,
         rest' = <<>>, sampler' # "write",
         reader' = reader \/ reader' = [r \in Readers |-> NoQuery]
  PROVE  AnswerInv'
<1>1. LinesOK /\ QueriesOK
  BY DEF AnswerInv
<1>2. LinesOK' /\ Readable' \subseteq Readable
  BY <1>1, NothingWritten
<1>3. 1..Len(rest') = {}
  BY EmptySeq
<1>4. ComingOK'
  BY DEF ComingOK
<1>5. QueriesOK'
  <2>1. /\ DOMAIN reader' = Readers /\ reader' = [r \in Readers |-> reader'[r]]
        /\ \A r \in Readers : reader'[r] = reader[r] \/ reader'[r] = NoQuery
    BY <1>1 DEF QueriesOK
  <2> QED BY <1>1, <1>2, <1>3, <2>1, QueriesKept
<1> QED BY <1>2, <1>4, <1>5 DEF AnswerInv

LEMMA Emptied ==
  ASSUME TypeOK, NEW d, files' = AppendTo(d, <<>>)
  PROVE  /\ DOMAIN files' = DOMAIN files \cup {d}
         /\ \A e \in DOMAIN files' :
              files'[e] = <<>> \/ (e \in DOMAIN files /\ files'[e] = files[e])
<1>1. <<>> \o <<>> = <<>>
  BY EmptySeq, ConcatEmptySeq
<1>2. ASSUME NEW e \in DOMAIN files PROVE files[e] \o <<>> = files[e]
  BY FilesAreSeqs, ConcatEmptySeq DEF IsSeq
<1> QED BY <1>1, <1>2 DEF AppendTo

LEMMA CycleStep ==
  ASSUME TypeOK, AnswerInv,
         \/ \E q \in Batches : StartCycle(q)
         \/ ListExpired \/ (\E d \in listing : PruneFile(d) \/ PruneFileFails(d)) \/ PruneDone
         \/ MeasureDir \/ EvictFile \/ EvictedEnough
  PROVE  AnswerInv'
<1>1. CASE \E q \in Batches : StartCycle(q)
  <2>1. PICK q \in Batches : StartCycle(q)
    BY <1>1
  <2>2. /\ sampler = "idle" /\ sampler' = "list" /\ cycle' = cycle + 1 /\ batch' = q
        /\ files' = files /\ rest' = rest /\ reader' = reader
    BY <2>1 DEF StartCycle
  <2>3. \A i, j \in 1..Len(q) : q[i] = q[j] => i = j
    <3>1. PICK n \in 0..Cardinality(Sessions) :
            q \in [1..n -> Sessions] /\ \A i, j \in 1..n : q[i] = q[j] => i = j
      BY DEF Batches
    <3>2. Cardinality(Sessions) \in Nat
      BY HistoryAssumption, FS_CardinalityType
    <3>3. n \in Nat
      BY <3>2
    <3>4. q \in Seq(Sessions)
      BY <3>1, <3>3, SeqDef
    <3>5. 1..n = 1..Len(q)
      BY <3>1, <3>4, LenProperties
    <3> QED BY <3>1, <3>5
  <2>4. rest' = <<>>
    BY <2>2 DEF AnswerInv, ComingOK
  <2>5. \A n \in Nat : Past(n) => Past(n)'
    BY <2>2, PastKept
  <2> QED BY <2>2, <2>3, <2>4, <2>5, NothingNew
<1>2. CASE \/ ListExpired \/ (\E d \in listing : PruneFile(d) \/ PruneFileFails(d))
           \/ PruneDone \/ MeasureDir \/ EvictFile \/ EvictedEnough
  <2>1. /\ sampler \notin {"idle", "write"} /\ sampler' # "write"
        /\ cycle' = cycle /\ batch' = batch /\ rest' = rest /\ reader' = reader
    BY <1>2 DEF ListExpired, PruneFile, PruneFileFails, PruneDone, MeasureDir, EvictFile,
                EvictedEnough
  <2>2. /\ DOMAIN files' \subseteq DOMAIN files
        /\ \A e \in DOMAIN files' : files'[e] = files[e]
    BY <1>2 DEF ListExpired, PruneFile, PruneFileFails, PruneDone, MeasureDir, EvictFile,
                EvictedEnough, Without
  <2>3. rest' = <<>> /\ \A i, j \in 1..Len(batch') : batch'[i] = batch'[j] => i = j
    BY <2>1 DEF AnswerInv, ComingOK, LinesOK
  <2>4. \A n \in Nat : Past(n) => Past(n)'
    BY <2>1, PastKept
  <2> QED BY <2>1, <2>2, <2>3, <2>4, NothingNew
<1> QED BY <1>1, <1>2

LEMMA EndStep ==
  ASSUME TypeOK, AnswerInv,
         \/ ListFails \/ PayloadTooLarge \/ EvictFileFails \/ BudgetExhausted \/ OpenFails
         \/ WriteFails \/ WriteDone \/ Crash
  PROVE  AnswerInv'
<1>1. /\ EndCycle
      /\ files' = files \/ files' = AppendTo(Today, <<>>)
  BY DEF ListFails, PayloadTooLarge, EvictFileFails, BudgetExhausted, OpenFails, WriteFails,
         WriteDone, Crash, Drop, Today
<1>2. /\ sampler' = "idle" /\ batch' = <<>> /\ rest' = <<>> /\ cycle' = cycle
  BY <1>1 DEF EndCycle
<1>3. /\ DOMAIN files' \subseteq DOMAIN files \cup {Today}
      /\ \A e \in DOMAIN files' :
           files'[e] = <<>> \/ (e \in DOMAIN files /\ files'[e] = files[e])
  <2>1. CASE files' = files
    BY <2>1
  <2>2. CASE files' = AppendTo(Today, <<>>)
    BY <2>2, Emptied
  <2> QED BY <1>1, <2>1, <2>2
<1>4. \A n \in Nat : Past(n) => Past(n)'
  BY <1>2, PastKept
<1>5. \A i, j \in 1..Len(batch') : batch'[i] = batch'[j] => i = j
  BY <1>2, EmptySeq
<1>6. reader' = reader \/ reader' = [r \in Readers |-> NoQuery]
  BY DEF ListFails, PayloadTooLarge, EvictFileFails, BudgetExhausted, OpenFails, WriteFails,
         WriteDone, Crash, Drop
<1> QED BY <1>2, <1>3, <1>4, <1>5, <1>6, NothingNew

(* Nothing of this cycle is in the files before the payload is written.     *)
LEMMA OpensAnew ==
  ASSUME TypeOK, AnswerInv, OpenFile
  PROVE  AnswerInv'
<1>1. /\ sampler = "open" /\ sampler' = "write" /\ files' = AppendTo(Today, <<>>)
      /\ rest' = Payload /\ reader' = reader
      /\ cycle' = cycle /\ batch' = batch /\ recorded' = recorded
  BY DEF OpenFile, Today
<1>2. LinesOK /\ QueriesOK
  BY DEF AnswerInv
<1>3. \A n \in Nat : Past(n) => Past(n)'
  BY <1>1, PastKept
<1>4. /\ DOMAIN files' = DOMAIN files \cup {Today}
      /\ \A e \in DOMAIN files' :
           files'[e] = <<>> \/ (e \in DOMAIN files /\ files'[e] = files[e])
  BY <1>1, Emptied
<1>5. LinesOK' /\ Readable' \subseteq Readable
  <2>1. \A i, j \in 1..Len(batch') : batch'[i] = batch'[j] => i = j
    BY <1>1, <1>2 DEF LinesOK
  <2> QED BY <1>2, <1>3, <1>4, <2>1, NothingWritten
<1>6. /\ InOrder(Payload)
      /\ \A k \in 1..Len(Payload) :
           /\ Payload[k] \in Piece
           /\ Payload[k].sample.cycle = cycle /\ Payload[k].sample.at = recorded
  BY <1>2, PayloadInOrder
<1>7. ComingOK'
  <2>1. ASSUME NEW k \in 1..Len(Payload), NEW i \in 1..Len(files'[Today])
        PROVE  Earlier(files'[Today][i], Payload[k])
    <3>1. Len(<<>>) = 0
      BY EmptySeq
    <3>2. Today \in DOMAIN files /\ files'[Today] = files[Today]
      BY <1>4, <3>1
    <3>3. Past(files[Today][i].sample.cycle)
      BY <1>2, <3>2 DEF LinesOK, FileOK
    <3>4. files[Today][i].sample.cycle < cycle
      BY <1>1, <3>3 DEF Past
    <3> QED BY <1>6, <3>2, <3>4 DEF Earlier
  <2>2. Today' = Today
    BY <1>1 DEF Today
  <2> QED BY <1>1, <1>4, <1>6, <2>1, <2>2 DEF ComingOK
<1>8. QueriesOK'
  <2>1. ASSUME NEW r \in Readers, reader[r] # NoQuery, NEW s \in reader[r].before,
               NEW k \in 1..Len(rest'), rest'[k].sample = s
        PROVE  FALSE
    <3>1. Past(s.cycle) /\ s \in Recorded
      BY <1>2, <2>1 DEF QueriesOK, QueryOK, SettledBefore, Query
    <3>2. s.cycle < cycle /\ s.cycle \in Nat /\ cycle \in Nat
      BY <1>1, <3>1 DEF Past, Recorded, TypeOK
    <3>3. s.cycle = cycle
      BY <1>1, <1>6, <2>1
    <3> QED BY <3>2, <3>3
  <2>2. /\ DOMAIN reader' = Readers /\ reader' = [r \in Readers |-> reader'[r]]
        /\ \A r \in Readers : reader'[r] = reader[r] \/ reader'[r] = NoQuery
    BY <1>1, <1>2 DEF QueriesOK
  <2>3. \A r \in Readers : reader[r] # NoQuery =>
          \A s \in reader[r].before :
            /\ s \in Readable' => s \in Readable
            /\ \A k \in 1..Len(rest') :
                 rest'[k].sample = s => rest'[k].byte = SampleBytes /\ rest'[k].byte # 1
    BY <1>5, <2>1
  <2> QED BY <1>2, <1>3, <2>2, <2>3, QueriesKept
<1> QED BY <1>5, <1>7, <1>8 DEF AnswerInv

(* A line that parses now did so before unless its sample's first byte, or  *)
(* another one but the newline, has just been written.                      *)
LEMMA ParsedBefore ==
  ASSUME NEW f, NEW g, Len(f) \in Nat, Len(g) \in Nat, Len(f) <= Len(g),
         \A j \in 1..Len(f) : g[j] = f[j],
         NEW i \in 1..Len(g), ParsesAt(g, i), g[i] \in Piece,
         \A j \in 1..Len(g) : j > Len(f) /\ g[j].sample = g[i].sample =>
           g[j].byte = SampleBytes /\ g[j].byte # 1
  PROVE  i \in 1..Len(f) /\ ParsesAt(f, i)
<1> DEFINE end == i + SampleBytes - 1
<1>1. SampleBytes \in Nat \ {0} /\ i \in Nat \ {0} /\ end \in Nat
  BY HistoryAssumption
<1>2. /\ i = 1 \/ g[i - 1].byte = SampleBytes
      /\ end - 1 <= Len(g)
      /\ \A k \in i..(end - 1) : g[k] = [sample |-> g[i].sample, byte |-> k - i + 1]
      /\ end <= Len(g) => g[end].byte = SampleBytes
  BY DEF ParsesAt
<1>3. /\ g[i] = [sample |-> g[i].sample, byte |-> 1]
      /\ \A m \in 1..(SampleBytes - 1) :
           /\ i + m - 1 \in 1..Len(g)
           /\ g[i + m - 1] = [sample |-> g[i].sample, byte |-> m]
  BY ParsedLine
<1>4. i \in 1..Len(f)
  <2> SUFFICES ASSUME i > Len(f) PROVE FALSE
    OBVIOUS
  <2>1. g[i].byte # 1
    OBVIOUS
  <2>2. g[i].byte = 1
    BY <1>3
  <2> QED BY <2>1, <2>2
<1>5. end - 1 <= Len(f)
  <2> SUFFICES ASSUME end - 1 > Len(f) PROVE FALSE
    BY <1>1
  <2> DEFINE m == Len(f) + 1 - i + 1
  <2>1. m \in 1..(SampleBytes - 1) /\ i + m - 1 = Len(f) + 1
    BY <1>1, <1>4
  <2> HIDE DEF m
  <2>2. Len(f) + 1 \in 1..Len(g) /\ g[Len(f) + 1] = [sample |-> g[i].sample, byte |-> m]
    BY <1>3, <2>1
  <2>3. g[Len(f) + 1].sample = g[i].sample /\ g[Len(f) + 1].byte = m
    BY <2>2
  <2>4. Len(f) + 1 > Len(f)
    OBVIOUS
  <2>5. g[Len(f) + 1].byte = SampleBytes
    BY <2>2, <2>3, <2>4
  <2> QED BY <1>1, <2>1, <2>3, <2>5
<1>6. i = 1 \/ f[i - 1].byte = SampleBytes
  <2>1. i # 1 => i - 1 \in 1..Len(f)
    BY <1>1, <1>4
  <2> QED BY <1>2, <2>1
<1>7. ASSUME NEW k \in i..(end - 1)
      PROVE f[k] = [sample |-> f[i].sample, byte |-> k - i + 1]
  <2>1. k \in 1..Len(f)
    BY <1>1, <1>5
  <2> QED BY <1>2, <1>4, <2>1
<1>8. end <= Len(f) => f[end].byte = SampleBytes
  <2>1. end <= Len(f) => end \in 1..Len(f) /\ end <= Len(g)
    BY <1>1
  <2> QED BY <1>2, <2>1
<1> QED BY <1>4, <1>5, <1>6, <1>7, <1>8 DEF ParsesAt

LEMMA WritesOn ==
  ASSUME TypeOK, AnswerInv, NEW n \in 1..Len(rest), WriteSome(n)
  PROVE  AnswerInv'
<1> DEFINE some == SubSeq(rest, 1, n)
           f == files[Today]
           g == files'[Today]
<1>1. /\ sampler = "write" /\ sampler' = "write" /\ files' = AppendTo(Today, some)
      /\ rest' = SubSeq(rest, n + 1, Len(rest)) /\ reader' = reader
      /\ cycle' = cycle /\ batch' = batch /\ recorded' = recorded
  BY DEF WriteSome, Today, cycleVars
<1>2. /\ LinesOK /\ QueriesOK /\ Today \in DOMAIN files /\ InOrder(rest)
      /\ \A k \in 1..Len(rest) :
           /\ rest[k] \in Piece
           /\ rest[k].sample.cycle = cycle /\ rest[k].sample.at = recorded
           /\ \A i \in 1..Len(f) : Earlier(f[i], rest[k])
  BY <1>1 DEF AnswerInv, ComingOK
<1>3. IsSeq(rest) /\ Len(rest) \in Nat /\ IsSeq(f) /\ Len(f) \in Nat /\ FileOK(Today, f)
  <2>1. IsSeq(rest)
    BY DEF TypeOK
  <2> QED BY <1>2, <2>1, Places1, FilesAreSeqs DEF LinesOK
<1>4. /\ IsSeq(some) /\ Len(some) = n /\ Len(rest') = Len(rest) - n
      /\ \A j \in 1..n : some[j] = rest[j]
      /\ \A j \in 1..(Len(rest) - n) : rest'[j] = rest[n + j]
  BY <1>1, <1>3, Cut, CutAt
<1> HIDE DEF some
<1>5. /\ g = f \o some /\ DOMAIN files' = DOMAIN files /\ Today' = Today
      /\ \A d \in DOMAIN files : d # Today => files'[d] = files[d]
  BY <1>1, <1>2 DEF AppendTo, Today
<1>6. /\ Len(g) = Len(f) + n
      /\ \A j \in 1..Len(f) : g[j] = f[j]
      /\ \A j \in 1..n : g[Len(f) + j] = rest[j]
  <2> HIDE DEF f, g
  <2>1. Len(f \o some) = Len(f) + Len(some)
    BY <1>3, <1>4, Joined
  <2>2. /\ \A j \in 1..Len(f) : (f \o some)[j] = f[j]
        /\ \A j \in 1..Len(some) : (f \o some)[Len(f) + j] = some[j]
    BY <1>3, <1>4, JoinedAt
  <2> QED BY <1>4, <1>5, <2>1, <2>2
<1> HIDE DEF f, g
<1>7. n \in 1..Len(rest) /\ n \in Nat /\ Len(g) \in Nat /\ Len(f) <= Len(g)
  BY <1>3, <1>6
<1>8. ASSUME NEW j \in 1..Len(g), ~(j <= Len(f))
      PROVE  j - Len(f) \in 1..n /\ j - Len(f) \in 1..Len(rest) /\ g[j] = rest[j - Len(f)]
  <2>1. j - Len(f) \in 1..n /\ j - Len(f) \in 1..Len(rest) /\ Len(f) + (j - Len(f)) = j
    BY <1>3, <1>6, <1>7, <1>8
  <2> QED BY <1>6, <2>1
<1>9. ASSUME NEW j \in 1..Len(g), j <= Len(f)
      PROVE  j \in 1..Len(f) /\ g[j] = f[j]
  BY <1>3, <1>6, <1>9
<1>10. FileOK(Today, g)
  <2>1. ASSUME NEW i \in 1..Len(g), NEW j \in 1..Len(g), i < j PROVE Earlier(g[i], g[j])
    <3>1. CASE j <= Len(f)
      <4>1. i <= Len(f)
        BY <1>3, <1>7, <2>1, <3>1
      <4> QED BY <1>3, <1>9, <2>1, <3>1, <4>1 DEF FileOK, InOrder
    <3>2. CASE i <= Len(f) /\ ~(j <= Len(f))
      BY <1>2, <1>8, <1>9, <3>2
    <3>3. CASE ~(i <= Len(f)) /\ ~(j <= Len(f))
      <4>1. i - Len(f) < j - Len(f)
        BY <1>3, <1>7, <2>1
      <4> QED BY <1>2, <1>8, <3>3, <4>1 DEF InOrder
    <3> QED BY <3>1, <3>2, <3>3
  <2>2. ASSUME NEW j \in 1..Len(g)
        PROVE  g[j] \in Piece /\ DayBucket(g[j].sample.at) = Today /\ Past(g[j].sample.cycle)
    <3>1. CASE j <= Len(f)
      BY <1>3, <1>9, <3>1 DEF FileOK
    <3>2. CASE ~(j <= Len(f))
      <4>1. g[j] \in Piece /\ g[j].sample.cycle = cycle /\ g[j].sample.at = recorded
        BY <1>2, <1>8, <3>2
      <4>2. cycle \in Nat
        BY DEF TypeOK
      <4> QED BY <1>1, <4>1, <4>2 DEF Past, Today
    <3> QED BY <3>1, <3>2
  <2> QED BY <2>1, <2>2 DEF FileOK, InOrder
<1>11. \A m \in Nat : Past(m) => Past(m)'
  BY <1>1, PastKept
<1>12. LinesOK'
  <2>1. ASSUME NEW d \in DOMAIN files' PROVE FileOK(d, files[d])'
    <3>1. PICK h : h = files'[d]
      OBVIOUS
    <3>2. FileOK(d, h)
      BY <1>2, <1>5, <1>10, <3>1 DEF LinesOK, g
    <3>3. FileOK(d, h)'
      BY <1>11, <3>2, FileStays
    <3> QED BY <3>1, <3>3
  <2>2. IsFiniteSet(DOMAIN files')
    BY <1>2, <1>5 DEF LinesOK
  <2>3. \A i, j \in 1..Len(batch') : batch'[i] = batch'[j] => i = j
    BY <1>1, <1>2 DEF LinesOK
  <2> QED BY <2>1, <2>2, <2>3 DEF LinesOK
<1>13. ASSUME NEW k \in 1..Len(rest')
       PROVE  n + k \in 1..Len(rest) /\ rest'[k] = rest[n + k]
  BY <1>3, <1>4, <1>7
<1>14. ComingOK'
  <2>1. ASSUME NEW i \in 1..Len(rest'), NEW j \in 1..Len(rest'), i < j
        PROVE  Earlier(rest'[i], rest'[j])
    <3>1. n + i < n + j
      BY <1>3, <1>4, <1>7, <2>1
    <3> QED BY <1>2, <1>13, <3>1 DEF InOrder
  <2>2. ASSUME NEW k \in 1..Len(rest'), NEW i \in 1..Len(g)
        PROVE  Earlier(g[i], rest'[k])
    <3>1. CASE i <= Len(f)
      BY <1>2, <1>9, <1>13, <3>1
    <3>2. CASE ~(i <= Len(f))
      <4>1. i - Len(f) < n + k
        BY <1>3, <1>4, <1>7, <1>8, <3>2
      <4> QED BY <1>2, <1>8, <1>13, <3>2, <4>1 DEF InOrder
    <3> QED BY <3>1, <3>2
  <2>3. InOrder(rest')
    BY <2>1 DEF InOrder
  <2>4. ASSUME NEW k \in 1..Len(rest')
        PROVE  /\ rest'[k] \in Piece
               /\ rest'[k].sample.cycle = cycle /\ rest'[k].sample.at = recorded
    BY <1>2, <1>13
  <2> QED BY <1>1, <1>2, <1>5, <2>2, <2>3, <2>4 DEF ComingOK, g
<1>15. QueriesOK'
  <2>1. ASSUME NEW r \in Readers, reader[r] # NoQuery, NEW s \in reader[r].before
        PROVE  /\ s \in Readable' => s \in Readable
               /\ \A k \in 1..Len(rest') :
                    rest'[k].sample = s => rest'[k].byte = SampleBytes /\ rest'[k].byte # 1
    <3>1. \A k \in 1..Len(rest) :
            rest[k].sample = s => rest[k].byte = SampleBytes /\ rest[k].byte # 1
      BY <1>2, <2>1 DEF QueriesOK, QueryOK, SettledBefore
    <3>2. ASSUME s \in Readable' PROVE s \in Readable
      <4>1. PICK d \in DOMAIN files' : s \in SamplesIn(files'[d])
        BY <3>2 DEF Readable
      <4>2. CASE d # Today
        BY <1>5, <4>1, <4>2 DEF Readable
      <4>3. CASE d = Today
        <5>1. PICK i \in 1..Len(g) : ParsesAt(g, i) /\ s = g[i].sample
          BY <4>1, <4>3 DEF SamplesIn, g
        <5>2. g[i] \in Piece
          BY <1>10 DEF FileOK
        <5>3. ASSUME NEW j \in 1..Len(g), j > Len(f), g[j].sample = g[i].sample
              PROVE  g[j].byte = SampleBytes /\ g[j].byte # 1
          <6>1. ~(j <= Len(f))
            BY <1>3, <1>7, <5>3
          <6> QED BY <1>8, <3>1, <5>1, <5>3, <6>1
        <5>4. i \in 1..Len(f) /\ ParsesAt(f, i)
          BY <1>3, <1>6, <1>7, <5>1, <5>2, <5>3, ParsedBefore
        <5>5. s = f[i].sample
          BY <1>6, <5>1, <5>4
        <5>6. s \in SamplesIn(f)
          BY <5>4, <5>5 DEF SamplesIn
        <5> QED BY <1>2, <5>6 DEF Readable, f
      <4> QED BY <4>2, <4>3
    <3> QED BY <1>13, <3>1, <3>2
  <2>2. /\ DOMAIN reader' = Readers /\ reader' = [r \in Readers |-> reader'[r]]
        /\ \A r \in Readers : reader'[r] = reader[r] \/ reader'[r] = NoQuery
    BY <1>1, <1>2 DEF QueriesOK
  <2> QED BY <1>2, <1>11, <2>1, <2>2, QueriesKept
<1> QED BY <1>12, <1>14, <1>15 DEF AnswerInv

(* Steps that leave the store alone. *)
LEMMA StoreAlone ==
  ASSUME LinesOK, ComingOK, QueriesOK',
         UNCHANGED <<files, rest, batch, cycle, sampler, recorded>>
  PROVE  AnswerInv'
<1>1. \A n \in Nat : Past(n) => Past(n)'
  BY DEF Past
<1>2. LinesOK'
  <2>1. ASSUME NEW d \in DOMAIN files' PROVE FileOK(d, files[d])'
    <3>1. PICK f : f = files[d]
      OBVIOUS
    <3>2. files'[d] = f /\ FileOK(d, f)
      BY <3>1 DEF LinesOK
    <3>3. FileOK(d, f)'
      BY <1>1, <3>2, FileStays
    <3> QED BY <3>2, <3>3
  <2> QED BY <2>1 DEF LinesOK
<1>3. ComingOK'
  BY DEF ComingOK, Today
<1> QED BY <1>2, <1>3 DEF AnswerInv

LEMMA QueryStep ==
  ASSUME TypeOK, AnswerInv,
         \/ \E r \in Readers, s \in Sessions, seconds \in 0..MaxNow,
               limit \in 1..MaxQuerySamples : Ask(r, s, seconds, limit)
         \/ \E r \in Readers : ReadFile(r) \/ FileGone(r) \/ ReadFails(r) \/ Answer(r)
                                 \/ Delivered(r)
         \/ Tick \/ StepBack \/ UNCHANGED vars
  PROVE  AnswerInv'
<1>1. UNCHANGED <<files, rest, batch, cycle, sampler, recorded>>
  BY DEF Ask, ReadFile, FileGone, ReadFails, Answer, Delivered, Tick, StepBack, vars, cycleVars
<1>2. QueriesOK'
  <2>1. CASE \E r \in Readers, s \in Sessions, seconds \in 0..MaxNow,
                limit \in 1..MaxQuerySamples : Ask(r, s, seconds, limit)
    BY <2>1, AskStep
  <2>2. CASE \E r \in Readers : ReadFile(r)
    BY <2>2, ReadStep
  <2>3. CASE \E r \in Readers : Answer(r)
    BY <2>3, AnswerStep
  <2>4. CASE \/ \E r \in Readers : FileGone(r) \/ ReadFails(r) \/ Delivered(r)
             \/ Tick \/ StepBack \/ UNCHANGED vars
    <3>1. /\ DOMAIN reader = Readers /\ reader = [x \in Readers |-> reader[x]]
          /\ \A x \in Readers : QueryOK(reader[x])
      BY DEF AnswerInv, QueriesOK
    <3>2. reader' = reader \/ \E r \in Readers : reader' = [reader EXCEPT ![r] = NoQuery]
      BY <2>4 DEF FileGone, ReadFails, Delivered, Tick, StepBack, vars
    <3>3. /\ DOMAIN reader' = Readers /\ reader' = [x \in Readers |-> reader'[x]]
          /\ \A x \in Readers : reader'[x] = reader[x] \/ reader'[x] = NoQuery
      BY <3>1, <3>2
    <3>4. \A x \in Readers : QueryOK(reader'[x])
      BY <3>1, <3>3 DEF QueryOK
    <3> QED BY <1>1, <3>3, <3>4, SameStore
  <2> QED BY <2>1, <2>2, <2>3, <2>4
<1> QED BY <1>1, <1>2, StoreAlone DEF AnswerInv

LEMMA AnswerInvStep == IInv /\ AnswerInv /\ [Next]_vars => AnswerInv'
<1> SUFFICES ASSUME IInv, AnswerInv, [Next]_vars PROVE AnswerInv'
  OBVIOUS
<1>1. TypeOK
  BY DEF IInv
<1>2. CASE \/ \E r \in Readers, s \in Sessions, seconds \in 0..MaxNow,
                 limit \in 1..MaxQuerySamples : Ask(r, s, seconds, limit)
           \/ \E r \in Readers : ReadFile(r) \/ FileGone(r) \/ ReadFails(r) \/ Answer(r)
                                   \/ Delivered(r)
           \/ Tick \/ StepBack \/ UNCHANGED vars
  BY <1>1, <1>2, QueryStep
<1>3. CASE \/ \E q \in Batches : StartCycle(q)
           \/ ListExpired \/ (\E d \in listing : PruneFile(d) \/ PruneFileFails(d))
           \/ PruneDone \/ MeasureDir \/ EvictFile \/ EvictedEnough
  BY <1>1, <1>3, CycleStep
<1>4. CASE \/ ListFails \/ PayloadTooLarge \/ EvictFileFails \/ BudgetExhausted \/ OpenFails
           \/ WriteFails \/ WriteDone \/ Crash
  BY <1>1, <1>4, EndStep
<1>5. CASE OpenFile
  BY <1>1, <1>5, OpensAnew
<1>6. CASE \E n \in 1..Len(rest) : WriteSome(n)
  BY <1>1, <1>6, WritesOn
<1> QED BY <1>2, <1>3, <1>4, <1>5, <1>6 DEF Next

LEMMA AnswerInit == Init => AnswerInv
<1> SUFFICES ASSUME Init PROVE AnswerInv
  OBVIOUS
<1>1. DOMAIN files = {} /\ 1..Len(batch) = {}
  BY EmptySeq DEF Init
<1>2. LinesOK
  BY <1>1, FS_EmptySet DEF LinesOK
<1>3. ComingOK
  BY DEF Init, ComingOK
<1>4. QueriesOK
  BY DEF Init, QueriesOK, QueryOK
<1> QED BY <1>2, <1>3, <1>4 DEF AnswerInv

(* query_session, next to a sampler that appends, removes files and is      *)
(* interrupted: an answer has no gaps but older samples over the limit, and *)
(* lists samples of the session in the order of their recording, each once. *)
THEOREM AnswersHold == Spec => []AnswersAreFaithful
<1>1. AnswerInv => AnswersAreFaithful
  <2> SUFFICES ASSUME AnswerInv, NEW r \in Readers, reader[r].at = "answered"
               PROVE  LET q == reader[r] IN
                 /\ \A s \in (q.before \cap Readable) \ ToSet(q.samples) :
                      /\ Len(q.samples) = q.limit
                      /\ \A x \in ToSet(q.samples) : Newer(x, s)
                 /\ \A i, j \in 1..Len(q.samples) :
                      /\ q.samples[i].session = q.session
                      /\ i < j => Newer(q.samples[j], q.samples[i])
    BY DEF AnswersAreFaithful, AnswersHaveNoGaps, AnswersInOrder, Newer
  <2>1. reader[r] # NoQuery /\ QueryOK(reader[r])
    BY DEF NoQuery, AnswerInv, QueriesOK
  <2> QED BY <2>1 DEF QueryOK, MissingOK, AnsweredOK
<1>2. Spec => []AnswerInv
  <2>1. IInv /\ AnswerInv /\ [Next]_vars => AnswerInv'
    BY AnswerInvStep
  <2> QED BY <2>1, AnswerInit, Invariant, PTL DEF Spec
<1> QED BY <1>1, <1>2, PTL
=============================================================================
