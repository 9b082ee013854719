--------------------------- MODULE MCHistoryStore ---------------------------
(***************************************************************************)
(* HistoryStore for TLC, with a budget of two samples and a part of one.   *)
(* A behaviour plays in one of three scenes, in which fewer sessions are   *)
(* sampled, the clock goes less far or nobody asks:                        *)
(*   budget  up to three sessions, listed in one order, over several days, *)
(*           no query; a write is complete or lacks the last newline       *)
(*   torn    two sessions on one day, writes that stop anywhere, no query  *)
(*   query   a query beside the sampler, samples of one session over two   *)
(*           days, asked for that session or another                       *)
(***************************************************************************)
EXTENDS HistoryStore

CONSTANTS s1, s2, s3, r1    \* model values

VARIABLE scene

Unasked == reader' = reader
AlmostWritten == Len(rest') <= 1 \/ rest = <<>>

(* The batches of a scene take sessions from q.                             *)
BatchesOf(q) == Range(batch') \subseteq Range(q)
PrefixesOf(q) == batch' = SubSeq(q, 1, Len(batch'))

AsksAbout(q) == \A r \in Readers : reader'[r] # NoQuery => reader'[r].session \in Range(q)

MCInit == scene \in {"budget", "torn", "query"} /\ Init

MCNext ==
  /\ Next
  /\ \/ scene = "budget" /\ Unasked /\ AlmostWritten /\ PrefixesOf(<<s1, s2, s3>>)
     \/ scene = "torn" /\ Unasked /\ now' = 0 /\ BatchesOf(<<s1, s2>>)
     \/ scene = "query" /\ now' <= 1 /\ BatchesOf(<<s1>>) /\ AsksAbout(<<s1, s2>>)
  /\ UNCHANGED scene

MCSpec == MCInit /\ [][MCNext]_<<scene, vars>>
=============================================================================
