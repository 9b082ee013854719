---------------------------- MODULE MetricsAccept ----------------------------
(***************************************************************************)
(* Content negotiation of both /metrics routes (metrics.rs): the Accept    *)
(* header is read item by item, keeping for each of the two formats the    *)
(* most specific media range that covers it, and one format is chosen.     *)
(***************************************************************************)
EXTENDS Integers, FiniteSets

CONSTANTS Qualities,  \* q values, as integers: 0 refuses
          MaxItems    \* bound: items of all Accept headers of a request

Formats == {"openmetrics", "prometheus"}
Ranges == {"application/openmetrics-text", "text/plain", "application/*", "text/*", "*/*", "other"}

\* What an item says besides its q: nothing (or an extension), a version, or
\* what makes it match nothing: a charset that is not UTF-8, a q that is no
\* number in 0..1, a parameter without "=".
Parameters == {"none", "version=1.0.0", "version=0.0.4", "unusable"}
Items == [range : Ranges, q : Qualities, parameter : Parameters]

NoMatch == [quality |-> -1, specificity |-> -1]

VARIABLES
  items,       \* ghost: the items read so far
  preference   \* AcceptPreference: per format the match kept

vars == <<items, preference>>

Init == items = {} /\ preference = [f \in Formats |-> NoMatch]

-----------------------------------------------------------------------------
\* accept_media_type_matches: 2 for the type itself, 1 for type/*, 0 for */*.
MediaTypeSpecificity(range, format) ==
  LET exact == [openmetrics |-> "application/openmetrics-text", prometheus |-> "text/plain"]
      partial == [openmetrics |-> "application/*", prometheus |-> "text/*"]
  IN CASE range = exact[format] -> 2
       [] range = partial[format] -> 1
       [] range = "*/*" -> 0
       [] OTHER -> -1

\* accept_item_quality
ItemMatch(item, format) ==
  LET version == [openmetrics |-> "version=1.0.0", prometheus |-> "version=0.0.4"]
      specificity == MediaTypeSpecificity(item.range, format)
  IN IF specificity >= 0 /\ item.parameter \in {"none", version[format]}
     THEN [quality |-> item.q, specificity |-> specificity]
     ELSE NoMatch

\* Error in the final choice: the closer range wins over the better quality.
SpecificFirst(om, text) ==
  om.specificity > text.specificity \/ (om.specificity = text.specificity /\ om.quality > text.quality)

CandidatePreferred(new, old) ==
  new.specificity > old.specificity \/ (new.specificity = old.specificity /\ new.quality > old.quality)
MergeAcceptMatch(current, candidate) ==
  IF CandidatePreferred(candidate, current) THEN candidate ELSE current

FinallyPreferred(om, text) ==
  om.quality > text.quality \/ (om.quality = text.quality /\ om.specificity > text.specificity)
PrefersOpenMetrics(pref) ==
  LET om == pref["openmetrics"]  text == pref["prometheus"]
  IN /\ om # NoMatch
     /\ IF text = NoMatch THEN om.quality > 0 ELSE FinallyPreferred(om, text)

\* requested_metrics_format, at the end of the headers.
RequestedFormat ==
  CASE PrefersOpenMetrics(preference) -> "openmetrics"
    [] ~PrefersOpenMetrics(preference) /\ preference["prometheus"].quality > 0 -> "prometheus"
    [] ~PrefersOpenMetrics(preference) /\ preference["prometheus"].quality <= 0 ->
         IF items = {} THEN "prometheus" ELSE "not acceptable"

\* accept_header_preference: items come in any order and on any number of
\* Accept lines.
ReadItem ==
  /\ Cardinality(items) < MaxItems
  /\ \E item \in Items \ items :
       /\ items' = items \cup {item}
       /\ preference' = [f \in Formats |-> MergeAcceptMatch(preference[f], ItemMatch(item, f))]

Next == ReadItem
Spec == Init /\ [][Next]_vars

-----------------------------------------------------------------------------
\* What the client said of a format: the quality of the most specific range
\* that covers it, the best one if several are as specific, 0 if none does.
Covering(f) == {ItemMatch(item, f) : item \in items} \ {NoMatch}
ClientQuality(f) ==
  LET covering == Covering(f)
      closest == {m \in covering : \A n \in covering : n.specificity <= m.specificity}
  IN IF closest = {} THEN 0
     ELSE (CHOOSE m \in closest : \A n \in closest : n.quality <= m.quality).quality

\* A client that accepts a format is served one, and none it likes less than
\* the other, in whatever order and on however many lines it says so; a range
\* with a wrong version, a foreign charset or an unreadable q does not count.
BestAcceptableServed ==
  (\E f \in Formats : ClientQuality(f) > 0) =>
    /\ RequestedFormat \in Formats
    /\ \A f \in Formats : ClientQuality(f) <= ClientQuality(RequestedFormat)

\* A client that refuses both formats is not served either of them.
RefusedFormatsNotServed ==
  items # {} /\ (\A f \in Formats : ClientQuality(f) = 0) => RequestedFormat = "not acceptable"
=============================================================================
