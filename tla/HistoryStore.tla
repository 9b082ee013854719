---------------------------- MODULE HistoryStore ----------------------------
(***************************************************************************)
(* Persistent history of moshwatchd (history.rs), the sampler task that    *)
(* writes it (main.rs) and the history queries of the API (api.rs).        *)
(*                                                                         *)
(* One sampler appends a batch of samples, one JSON line each, to the file *)
(* of the current day, after it has pruned expired files and made room in  *)
(* the disk budget. Queries read the same directory at the same time and   *)
(* without a lock: they list the files, then open them one by one, newest  *)
(* first. A write can stop anywhere, and the daemon can be killed anywhere.*)
(*                                                                         *)
(* A file is the sequence of its bytes. Byte k of a sample is the pair of  *)
(* the sample and k; the last byte of a sample is its newline.             *)
(***************************************************************************)
EXTENDS Integers, Sequences, FiniteSets, FiniteSetsExt, SequencesExt

CONSTANTS Sessions,         \* instrumented sessions of the registry
          Readers,          \* history query slots
          DayMs,            \* DAY_MS, in clock ticks
          RetentionDays,    \* retention_days
          MaxDiskBytes,     \* max_disk_bytes
          MaxQuerySamples,  \* max_query_samples
          SampleBytes,      \* size of an encoded sample
          MaxNow,           \* bound on the wall clock
          MaxCycles,        \* bound on the sampler's cycles
          MaxFaults         \* bound on I/O errors and clock steps

ASSUME HistoryAssumption ==
  /\ IsFiniteSet(Sessions)
  /\ DayMs \in Nat \ {0} /\ RetentionDays \in Nat \ {0} /\ SampleBytes \in Nat \ {0}
  /\ MaxDiskBytes \in Nat /\ MaxQuerySamples \in Nat
  /\ MaxNow \in Nat /\ MaxCycles \in Nat /\ MaxFaults \in Nat

VARIABLES files,          \* day -> bytes of day-<day>.jsonl
          current_bytes,  \* the moshwatch_history_current_bytes gauge
          stats,          \* the four other counters
          now,            \* the wall clock
          sampler,        \* where the sampler is
          recorded,       \* recorded_at_unix_ms of its cycle
          batch,          \* instrumented summaries of its cycle
          listing,        \* days of the listed files it may still remove
          bytes,          \* removed_bytes, then total_bytes
          rest,           \* bytes of the payload still to be written
          reader,         \* the queries
          faults,         \* faults so far
          cycle,          \* number of this cycle (observer)
          acked,          \* samples whose write returned Ok (observer)
          torn,           \* writes that stopped half-way (observer)
          blind           \* a refresh of current_bytes failed (observer)

cycleVars == <<recorded, batch, listing, bytes, rest, cycle>>
vars == <<files, current_bytes, stats, now, sampler, recorded, batch,
          listing, bytes, rest, reader, faults, cycle, acked, torn, blind>>

-----------------------------------------------------------------------------
(* Samples, lines and files *)

DayBucket(t) == t \div DayMs

Sample == [session: Sessions, at: 0..MaxNow, cycle: Nat]

Byte == [sample: Sample, byte: 1..SampleBytes]

EncodeHistoryPayload(sessions, at, n) ==
  [k \in 1..(Len(sessions) * SampleBytes) |->
     [sample |-> [session |-> sessions[((k - 1) \div SampleBytes) + 1],
                  at |-> at, cycle |-> n],
      byte |-> ((k - 1) % SampleBytes) + 1]]

(* A line starts at i in f and holds exactly one whole sample: it begins    *)
(* the file or follows a newline, and a newline or the end of the file      *)
(* follows its last byte. Any other line does not parse and is skipped.     *)
ParsesAt(f, i) ==
  LET end == i + SampleBytes - 1
  IN /\ i = 1 \/ f[i - 1].byte = SampleBytes
     /\ end - 1 <= Len(f)
     /\ \A k \in i..(end - 1) :
          f[k] = [sample |-> f[i].sample, byte |-> k - i + 1]
     /\ end <= Len(f) => f[end].byte = SampleBytes

SamplesIn(f) == {f[i].sample : i \in {k \in 1..Len(f) : ParsesAt(f, k)}}

Readable == UNION {SamplesIn(files[d]) : d \in DOMAIN files}

(* The bytes of a directory, by file and place; their number is its size.   *)
Stored(fs) == UNION {{d} \X DOMAIN fs[d] : d \in DOMAIN fs}
DirBytes(fs) == Cardinality(Stored(fs))

Without(d) == [e \in DOMAIN files \ {d} |-> files[e]]

AppendTo(d, more) ==
  [e \in DOMAIN files \cup {d} |->
     IF e # d THEN files[e]
     ELSE (IF d \in DOMAIN files THEN files[d] ELSE <<>>) \o more]

-----------------------------------------------------------------------------
(* Steps shared by the operations *)

Fault == faults < MaxFaults /\ faults' = faults + 1

Count(counter, n) == stats' = [stats EXCEPT ![counter] = @ + n]

(* refresh_current_bytes_from_disk, whose own failure is ignored.           *)
RefreshCurrentBytes ==
  \/ current_bytes' = DirBytes(files') /\ blind' = FALSE
  \/ UNCHANGED current_bytes /\ blind' = TRUE

(* The cycle ends; its local variables are gone.                            *)
EndCycle ==
  /\ sampler' = "idle"
  /\ batch' = <<>> /\ listing' = {} /\ bytes' = 0 /\ rest' = <<>>
  /\ UNCHANGED <<recorded, cycle>>

(* A removed file takes the samples it held with it.                        *)
Forget(d) == acked' = {s \in acked : DayBucket(s.at) # d}

-----------------------------------------------------------------------------
(* The sampler: record_summaries *)

OldestDay == DayBucket(recorded) - RetentionDays + 1

Batches ==
  UNION {{q \in [1..n -> Sessions] : \A i, j \in 1..n : q[i] = q[j] => i = j} :
         n \in 0..Cardinality(Sessions)}

(* The sampler's ticker fires, on a clock of its own: the summaries of the  *)
(* instrumented sessions.                                                   *)
StartCycle(sessions) ==
  /\ sampler = "idle"
  /\ cycle < MaxCycles
  /\ recorded' = now
  /\ batch' = sessions
  /\ cycle' = cycle + 1
  /\ sampler' = "list"
  /\ UNCHANGED <<files, current_bytes, stats, now, listing, bytes, rest,
                 reader, faults, acked, torn, blind>>

(* prune_old_files: list the directory, remove the expired files one by     *)
(* one, then adjust the byte count.                                         *)
ListExpired ==
  /\ sampler = "list"
  /\ listing' = {d \in DOMAIN files : d < OldestDay}
  /\ sampler' = "prune"
  /\ UNCHANGED <<files, current_bytes, stats, now, recorded, batch,
                 bytes, rest, cycle, reader, faults, acked, torn, blind>>

(* Creating or reading the directory failed, before or after the pruning.   *)
ListFails ==
  /\ sampler \in {"list", "budget"}
  /\ Fault
  /\ Count("write_failures", 1)
  /\ UNCHANGED files
  /\ RefreshCurrentBytes
  /\ EndCycle
  /\ UNCHANGED <<now, reader, acked, torn>>

PruneFile(d) ==
  /\ sampler = "prune"
  /\ d \in listing
  /\ files' = Without(d)
  /\ bytes' = bytes + Len(files[d])
  /\ listing' = listing \ {d}
  /\ Forget(d)
  /\ UNCHANGED <<current_bytes, stats, now, sampler, recorded, batch,
                 rest, cycle, reader, faults, torn, blind>>

PruneFileFails(d) ==
  /\ sampler = "prune"
  /\ d \in listing
  /\ Fault
  /\ Count("prune_failures", 1)
  /\ listing' = listing \ {d}
  /\ UNCHANGED <<files, current_bytes, now, sampler, recorded, batch,
                 bytes, rest, cycle, reader, acked, torn, blind>>

PruneDone ==
  /\ sampler = "prune"
  /\ listing = {}
  /\ current_bytes' = IF bytes <= current_bytes THEN current_bytes - bytes ELSE 0
  /\ bytes' = 0
  /\ sampler' = IF batch = <<>> THEN "idle" ELSE "budget"
  /\ UNCHANGED <<files, stats, now, recorded, batch, listing, rest,
                 cycle, reader, faults, acked, torn, blind>>

(* ensure_disk_budget *)
Payload == EncodeHistoryPayload(batch, recorded, cycle)

(* Error: the incoming payload is not part of the sum.                      *)
FitsWithoutPayload(total) == total <= MaxDiskBytes

Fits(total) == total + Len(Payload) <= MaxDiskBytes

Drop ==
  /\ Count("dropped_samples", Len(batch))
  /\ EndCycle

PayloadTooLarge ==
  /\ sampler = "budget"
  /\ Len(Payload) > MaxDiskBytes
  /\ Drop
  /\ UNCHANGED <<files, current_bytes, now, reader, faults, acked, torn,
                 blind>>

Evictable == {d \in DOMAIN files : d < DayBucket(recorded)}

MeasureDir ==
  /\ sampler = "budget"
  /\ Len(Payload) <= MaxDiskBytes
  /\ bytes' = DirBytes(files)
  /\ current_bytes' = DirBytes(files)
  /\ blind' = FALSE
  /\ listing' = IF Fits(DirBytes(files)) THEN {} ELSE Evictable
  /\ sampler' = IF Fits(DirBytes(files)) THEN "open" ELSE "evict"
  /\ UNCHANGED <<files, stats, now, recorded, batch, rest, cycle, reader,
                 faults, acked, torn>>

(* Error: the newest of the older files goes first.                         *)
EvictNewest(days) == Max(days)

NextEvicted(days) == Min(days)

EvictFile ==
  /\ sampler = "evict"
  /\ ~Fits(bytes)
  /\ listing # {}
  /\ LET d == NextEvicted(listing)
     IN /\ files' = Without(d)
        /\ bytes' = bytes - Len(files[d])
        /\ listing' = listing \ {d}
        /\ Forget(d)
  /\ UNCHANGED <<current_bytes, stats, now, sampler, recorded, batch,
                 rest, cycle, reader, faults, torn, blind>>

EvictFileFails ==
  /\ sampler = "evict"
  /\ ~Fits(bytes)
  /\ listing # {}
  /\ Fault
  /\ stats' = [stats EXCEPT !["prune_failures"] = @ + 1,
                            !["dropped_samples"] = @ + Len(batch)]
  /\ current_bytes' = bytes
  /\ EndCycle
  /\ UNCHANGED <<files, now, reader, acked, torn, blind>>

EvictedEnough ==
  /\ sampler = "evict"
  /\ Fits(bytes)
  /\ current_bytes' = IF listing = {} THEN bytes ELSE current_bytes
  /\ listing' = {}
  /\ sampler' = "open"
  /\ UNCHANGED <<files, stats, now, recorded, batch, bytes, rest, cycle,
                 reader, faults, acked, torn, blind>>

BudgetExhausted ==
  /\ sampler = "evict"
  /\ ~Fits(bytes)
  /\ listing = {}
  /\ current_bytes' = bytes
  /\ Drop
  /\ UNCHANGED <<files, now, reader, faults, acked, torn, blind>>

(* Error: the file is truncated when it is opened.                          *)
OpenTruncating ==
  /\ sampler = "open"
  /\ files' = [AppendTo(DayBucket(recorded), <<>>)
                 EXCEPT ![DayBucket(recorded)] = <<>>]
  /\ rest' = Payload
  /\ sampler' = "write"
  /\ UNCHANGED <<current_bytes, stats, now, recorded, batch, listing, bytes,
                 cycle, reader, faults, acked, torn, blind>>

(* Open or create the file of the day, and append the payload.              *)
OpenFile ==
  /\ sampler = "open"
  /\ files' = AppendTo(DayBucket(recorded), <<>>)
  /\ rest' = Payload
  /\ sampler' = "write"
  /\ UNCHANGED <<current_bytes, stats, now, recorded, batch, listing,
                 bytes, cycle, reader, faults, acked, torn, blind>>

(* The open fails, or the check of what was opened or created does.         *)
OpenFails ==
  /\ sampler = "open"
  /\ Fault
  /\ files' \in {files, AppendTo(DayBucket(recorded), <<>>)}
  /\ Count("write_failures", 1)
  /\ RefreshCurrentBytes
  /\ EndCycle
  /\ UNCHANGED <<now, reader, acked, torn>>

(* write_all is one or more write calls.                                    *)
WriteSome(n) ==
  /\ sampler = "write"
  /\ n \in 1..Len(rest)
  /\ files' = AppendTo(DayBucket(recorded), SubSeq(rest, 1, n))
  /\ rest' = SubSeq(rest, n + 1, Len(rest))
  /\ UNCHANGED <<current_bytes, stats, now, sampler, recorded, batch,
                 listing, bytes, cycle, reader, faults, acked, torn, blind>>

Interrupted == rest # <<>> /\ rest # Payload

WriteFails ==
  /\ sampler = "write"
  /\ rest # <<>>
  /\ Fault
  /\ Count("write_failures", 1)
  /\ UNCHANGED files
  /\ RefreshCurrentBytes
  /\ torn' = IF Interrupted THEN torn + 1 ELSE torn
  /\ EndCycle
  /\ UNCHANGED <<now, reader, acked>>

(* Error: the byte count is left at what it was before the write.           *)
WriteUncounted ==
  /\ sampler = "write"
  /\ rest = <<>>
  /\ UNCHANGED current_bytes
  /\ Count("written_bytes", Len(Payload))
  /\ acked' = acked \cup {b.sample : b \in ToSet(Payload)}
  /\ EndCycle
  /\ UNCHANGED <<files, now, reader, faults, torn, blind>>

WriteDone ==
  /\ sampler = "write"
  /\ rest = <<>>
  /\ current_bytes' = bytes + Len(Payload)
  /\ Count("written_bytes", Len(Payload))
  /\ acked' = acked \cup {b.sample : b \in ToSet(Payload)}
  /\ EndCycle
  /\ UNCHANGED <<files, now, reader, faults, torn, blind>>

-----------------------------------------------------------------------------
(* Queries: query_session *)

NoQuery == [at |-> "idle"]

(* The API clamps the look-back to the retention window, the store the      *)
(* limit to max_query_samples; a limit of zero is refused.                  *)
Ask(r, session, seconds, limit) ==
  /\ reader[r] = NoQuery
  /\ LET since == now - Min({seconds, RetentionDays * DayMs})
     IN reader' = [reader EXCEPT ![r] =
          [at |-> "scan", session |-> session, since |-> since,
           limit |-> Min({limit, MaxQuerySamples}),
           todo |-> {d \in DOMAIN files : d >= DayBucket(since)},
           samples |-> <<>>,
           before |-> {s \in Readable : s.session = session /\ s.at >= since}]]
  /\ UNCHANGED <<files, current_bytes, stats, now, sampler, cycleVars,
                 faults, acked, torn, blind>>

(* The lines of a file, from its end to its beginning.                      *)
FromTheEnd(lines) ==
  CHOOSE order \in [1..Cardinality(lines) -> lines] :
    \A i, j \in 1..Cardinality(lines) : i < j => order[i] > order[j]

(* The lines of file f with the samples that a query asks for.              *)
LinesFor(f, q) ==
  {i \in 1..Len(f) : /\ ParsesAt(f, i)
                     /\ f[i].sample.session = q.session
                     /\ f[i].sample.at >= q.since}

(* These samples, newest first.                                             *)
Matches(f, q) ==
  LET order == FromTheEnd(LinesFor(f, q))
  IN [k \in 1..Cardinality(LinesFor(f, q)) |-> f[order[k]].sample]

(* Error: the limit keeps the oldest matches.                               *)
KeepOldest(q, f) ==
  LET all == q.samples \o Matches(f, q)
  IN SubSeq(all, Max({1, Len(all) - q.limit + 1}), Len(all))

Collected(q, f) ==
  LET all == q.samples \o Matches(f, q)
  IN SubSeq(all, 1, Min({Len(all), q.limit}))

(* Open the newest file that is left and read it to the end.                *)
ReadFile(r) ==
  /\ reader[r].at = "scan"
  /\ reader[r].todo # {}
  /\ LET q == reader[r]
         d == Max(q.todo)
         samples == Collected(q, files[d])
     IN /\ d \in DOMAIN files
        /\ reader' = [reader EXCEPT ![r].samples = samples,
                        ![r].todo = IF Len(samples) >= q.limit THEN {}
                                    ELSE q.todo \ {d}]
  /\ UNCHANGED <<files, current_bytes, stats, now, sampler, cycleVars,
                 faults, acked, torn, blind>>

(* The file has been removed since it was listed: the query fails.          *)
FileGone(r) ==
  /\ reader[r].at = "scan"
  /\ reader[r].todo # {}
  /\ Max(reader[r].todo) \notin DOMAIN files
  /\ reader' = [reader EXCEPT ![r] = NoQuery]
  /\ UNCHANGED <<files, current_bytes, stats, now, sampler, cycleVars,
                 faults, acked, torn, blind>>

(* It cannot be opened or read for another reason: the query fails, too.    *)
ReadFails(r) ==
  /\ reader[r].at = "scan"
  /\ reader[r].todo # {}
  /\ Fault
  /\ reader' = [reader EXCEPT ![r] = NoQuery]
  /\ UNCHANGED <<files, current_bytes, stats, now, sampler, cycleVars, acked,
                 torn, blind>>

Answer(r) ==
  /\ reader[r].at = "scan"
  /\ reader[r].todo = {}
  /\ reader' = [reader EXCEPT ![r].at = "answered",
                              ![r].samples = Reverse(reader[r].samples)]
  /\ UNCHANGED <<files, current_bytes, stats, now, sampler, cycleVars,
                 faults, acked, torn, blind>>

Delivered(r) ==
  /\ reader[r].at = "answered"
  /\ reader' = [reader EXCEPT ![r] = NoQuery]
  /\ UNCHANGED <<files, current_bytes, stats, now, sampler, cycleVars,
                 faults, acked, torn, blind>>

-----------------------------------------------------------------------------
(* The environment *)

Tick ==
  /\ now < MaxNow
  /\ now' = now + 1
  /\ UNCHANGED <<files, current_bytes, stats, sampler, cycleVars, reader,
                 faults, acked, torn, blind>>

StepBack ==
  /\ Fault
  /\ \E t \in 0..(now - 1) : now' = t
  /\ UNCHANGED <<files, current_bytes, stats, sampler, cycleVars, reader,
                 acked, torn, blind>>

NoStats == [written_bytes |-> 0, write_failures |-> 0, prune_failures |-> 0,
            dropped_samples |-> 0]

(* The daemon is killed and started again: HistoryStore::new.               *)
Crash ==
  /\ torn' = IF sampler = "write" /\ Interrupted THEN torn + 1 ELSE torn
  /\ current_bytes' = DirBytes(files)
  /\ blind' = FALSE
  /\ stats' = NoStats
  /\ reader' = [r \in Readers |-> NoQuery]
  /\ EndCycle
  /\ UNCHANGED <<files, now, faults, acked>>

-----------------------------------------------------------------------------

Init ==
  /\ files = [d \in {} |-> <<>>]
  /\ current_bytes = 0
  /\ stats = NoStats
  /\ now = 0
  /\ sampler = "idle"
  /\ recorded = 0 /\ batch = <<>> /\ listing = {} /\ bytes = 0 /\ rest = <<>>
  /\ reader = [r \in Readers |-> NoQuery]
  /\ faults = 0 /\ cycle = 0 /\ acked = {} /\ torn = 0 /\ blind = FALSE

Next ==
  \/ \E sessions \in Batches : StartCycle(sessions)
  \/ ListExpired
  \/ ListFails
  \/ \E d \in listing : PruneFile(d)
  \/ \E d \in listing : PruneFileFails(d)
  \/ PruneDone
  \/ PayloadTooLarge
  \/ MeasureDir
  \/ EvictFile
  \/ EvictFileFails
  \/ EvictedEnough
  \/ BudgetExhausted
  \/ OpenFile
  \/ OpenFails
  \/ \E n \in 1..Len(rest) : WriteSome(n)
  \/ WriteFails
  \/ WriteDone
  \/ \E r \in Readers, s \in Sessions,
        seconds \in 0..MaxNow, limit \in 1..MaxQuerySamples :
       Ask(r, s, seconds, limit)
  \/ \E r \in Readers : ReadFile(r)
  \/ \E r \in Readers : FileGone(r)
  \/ \E r \in Readers : ReadFails(r)
  \/ \E r \in Readers : Answer(r)
  \/ \E r \in Readers : Delivered(r)
  \/ Tick
  \/ StepBack
  \/ Crash

Spec == Init /\ [][Next]_vars

-----------------------------------------------------------------------------
(* Properties *)

(* The budget of max_disk_bytes is hard: at no moment, not even between two *)
(* write calls or after a failed removal, do the files take more. ("hard    *)
(* disk budget using persistence.max_disk_bytes", README)                   *)
BudgetIsHard == DirBytes(files) <= MaxDiskBytes

(* The byte count that is exported agrees with the directory whenever the   *)
(* sampler rests, unless the last attempt to measure it failed.             *)
GaugeExact == sampler = "idle" /\ ~blind => current_bytes = DirBytes(files)

DiskUseSound == BudgetIsHard /\ GaugeExact

(* An interrupted write spoils at most one sample that was written          *)
(* successfully: the one its unfinished line swallows.                      *)
LossBounded ==
  Cardinality({s \in acked : s \notin Readable}) <= torn

(* A file is removed only when it is out of the retention window or when    *)
(* the payload would not fit, oldest first, and never the current day's.    *)
RemovalStep ==
  \A d \in DOMAIN files \ DOMAIN files' :
    /\ d < DayBucket(recorded)
    /\ \/ d < DayBucket(recorded) - RetentionDays + 1
       \/ /\ \A e \in DOMAIN files' : d < e
          /\ DirBytes(files) + Len(batch) * SampleBytes > MaxDiskBytes

(* Samples are dropped only when they must be: a removal failed, or the     *)
(* files that may not be removed leave no room for the payload.             *)
DropStep ==
  stats'.dropped_samples > stats.dropped_samples =>
    \/ stats'.prune_failures > stats.prune_failures
    \/ /\ \A d \in DOMAIN files : d >= DayBucket(recorded)
       /\ DirBytes(files) + Len(batch) * SampleBytes > MaxDiskBytes
    \/ Len(batch) * SampleBytes > MaxDiskBytes

NothingGivenUpNeedlessly == [][RemovalStep /\ DropStep]_vars

(* An answer has no gaps: a sample that could be read when the query began  *)
(* and still can is missing only if the limit is reached by newer ones, in  *)
(* spite of appends, removals and interrupted writes during the query.      *)
AnswersHaveNoGaps ==
  \A r \in Readers : reader[r].at = "answered" =>
    LET q == reader[r]
    IN \A s \in (q.before \cap Readable) \ ToSet(q.samples) :
         /\ Len(q.samples) = q.limit
         /\ \A x \in ToSet(q.samples) :
              \/ DayBucket(s.at) < DayBucket(x.at)
              \/ DayBucket(s.at) = DayBucket(x.at) /\ s.cycle < x.cycle

(* An answer lists samples of the session in the order they were recorded,  *)
(* by day and then by cycle, each once, and never reports a torn line.      *)
AnswersInOrder ==
  \A r \in Readers : reader[r].at = "answered" =>
    \A i, j \in 1..Len(reader[r].samples) :
      LET x == reader[r].samples[i]
          y == reader[r].samples[j]
      IN /\ x.session = reader[r].session
         /\ i < j => \/ DayBucket(x.at) < DayBucket(y.at)
                     \/ DayBucket(x.at) = DayBucket(y.at) /\ x.cycle < y.cycle

AnswersAreFaithful == AnswersHaveNoGaps /\ AnswersInOrder
=============================================================================
