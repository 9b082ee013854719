----------------------------- MODULE TerminalUi -----------------------------
(***************************************************************************)
(* The terminal UI (moshwatch-ui): one thread that draws, refreshes when   *)
(* it is due, and takes one key. The sessions behind its rows come, go and *)
(* change their order with every answer of the daemon, requests fail, and  *)
(* the operator terminates a session with two keys on what is drawn.       *)
(*                                                                         *)
(* A chain is the ancestry of a process: sessions, "other" programs, and   *)
(* "gone" where /proc has no answer.                                       *)
(***************************************************************************)
EXTENDS Integers, Sequences, SequencesExt

CONSTANTS Sessions,
          None,
          Display,    \* MOSHWATCH_SESSION_ID, or None
          OwnChain,   \* ancestry of the UI
          TmuxChains, \* ancestries of the active tmux client, <<>> without tmux
          MaxListed   \* bound: sessions of a listing

VARIABLES rows,       \* App.summaries, as sessions
          selected,   \* index into rows, from 1
          current,    \* App.current_session_id
          resolved,   \* App.initial_selection_resolved
          detail,     \* the session that App.detail is about, or None
          pending,    \* App.pending_terminate, or None
          stale,      \* App.snapshot_stale
          error,      \* App.last_error is set
          phase,      \* what run_app does next
          after,      \* where refresh returns to
          previous,   \* refresh: the selection and detail before the answer
          screen,     \* what the last draw showed (observer)
          posted      \* the session of the last confirmed request (observer)

vars == <<rows, selected, current, resolved, detail, pending, stale, error,
          phase, after, previous, screen, posted>>

Listings == {s \in UNION {[1..n -> Sessions] : n \in 0..MaxListed} : IsInjective(s)}

SelectedId == IF selected \in DOMAIN rows THEN rows[selected] ELSE None

Lists(list, id) == \E i \in DOMAIN list : list[i] = id
PositionIn(list, id) == CHOOSE i \in DOMAIN list : list[i] = id

-----------------------------------------------------------------------------
(* Which session is the operator's own *)

(* The first ancestor that is listed; nothing if an ancestor before it      *)
(* cannot be read.                                                          *)
MatchByAncestry(list, chain) ==
  LET hits == {k \in DOMAIN chain : /\ Lists(list, chain[k])
                                    /\ \A j \in 1..k : chain[j] # "gone"}
  IN IF hits = {} THEN None ELSE chain[CHOOSE k \in hits : \A j \in hits : k <= j]

(* The tmux client that looks at the UI, else the session it was started    *)
(* for, else its own ancestors.                                             *)
ResolveCurrent(list, tmux) ==
  CASE MatchByAncestry(list, tmux) # None -> MatchByAncestry(list, tmux)
    [] MatchByAncestry(list, tmux) = None /\ Lists(list, Display) -> Display
    [] OTHER -> MatchByAncestry(list, OwnChain)

(* Error: the row stays selected, whatever session moves into it.           *)
SameRow(list, prev, own) ==
  CASE list = <<>> -> 1
    [] ~resolved /\ Lists(list, own) -> PositionIn(list, own)
    [] OTHER -> IF selected <= Len(list) THEN selected ELSE Len(list)

(* The operator's own session, once; then the session that was selected;    *)
(* if it is gone, the row.                                                  *)
NextSelectedIndex(list, prev, own) ==
  CASE list = <<>> -> 1
    [] ~resolved /\ Lists(list, own) -> PositionIn(list, own)
    [] (resolved \/ ~Lists(list, own)) /\ Lists(list, prev) -> PositionIn(list, prev)
    [] OTHER -> IF selected <= Len(list) THEN selected ELSE Len(list)

-----------------------------------------------------------------------------
(* refresh *)

Refresh(return) == phase' = "sessions" /\ after' = return

(* GET /v1/sessions; the threshold request that follows may fail unnoticed. *)
SessionsAnswer ==
  /\ phase = "sessions"
  /\ \E list \in Listings, tmux \in TmuxChains, clock \in BOOLEAN :
       LET own == IF clock THEN ResolveCurrent(list, tmux) ELSE None
       IN /\ rows' = list
          /\ current' = own
          /\ selected' = NextSelectedIndex(list, SelectedId, own)
          /\ resolved' = (resolved \/ list # <<>>)
          /\ error' = IF list = <<>> THEN FALSE ELSE error
          /\ phase' = IF list = <<>> THEN after ELSE "detail"
  /\ previous' = [id |-> SelectedId, detail |-> detail]
  /\ detail' = None
  /\ stale' = FALSE
  /\ UNCHANGED <<pending, after, screen, posted>>

SessionsFail ==
  /\ phase = "sessions"
  /\ error' = TRUE
  /\ stale' = TRUE
  /\ phase' = after
  /\ UNCHANGED <<rows, selected, current, resolved, detail, pending, after, previous, screen, posted>>

(* GET /v1/sessions/{id} of the selection; without an answer, what was      *)
(* shown stays if the selection is the one that refresh found.              *)
DetailAnswer ==
  /\ phase = "detail"
  /\ \/ detail' = SelectedId /\ error' = FALSE
     \/ /\ detail' = IF previous.id = SelectedId THEN previous.detail ELSE None
        /\ error' = TRUE
  /\ phase' = after
  /\ UNCHANGED <<rows, selected, current, resolved, pending, stale, after, previous, screen, posted>>

-----------------------------------------------------------------------------
(* run_app *)

Draw ==
  /\ phase = "draw"
  /\ screen' = [selected |-> SelectedId, detail |-> detail, prompt |-> pending]
  /\ posted' = None
  /\ \/ Refresh("poll")
     \/ phase' = "poll" /\ after' = "poll"
  /\ UNCHANGED <<rows, selected, current, resolved, detail, pending, stale, error, previous>>

(* No key within the 100 ms, or one without a meaning.                      *)
NoKey ==
  /\ phase = "poll"
  /\ phase' = "draw"
  /\ UNCHANGED <<rows, selected, current, resolved, detail, pending, stale, error, after,
                 previous, screen, posted>>

(* Error: the request is for what is selected when the operator confirms.   *)
RequestSelected == SelectedId
RequestTarget == pending

(* y or Enter.                                                              *)
ConfirmTerminate ==
  /\ phase = "poll" /\ pending # None
  /\ posted' = RequestTarget
  /\ pending' = None
  /\ \/ error' = FALSE /\ Refresh("draw")
     \/ error' = TRUE /\ phase' = "draw" /\ UNCHANGED after
  /\ UNCHANGED <<rows, selected, current, resolved, detail, stale, previous, screen>>

(* n or Esc.                                                                *)
CancelTerminate ==
  /\ phase = "poll" /\ pending # None
  /\ pending' = None
  /\ error' = FALSE
  /\ phase' = "draw"
  /\ UNCHANGED <<rows, selected, current, resolved, detail, stale, after, previous, screen, posted>>

(* x; without a selection it only leaves a notice.                          *)
ArmTerminate ==
  /\ phase = "poll" /\ pending = None
  /\ pending' = SelectedId
  /\ error' = (error /\ SelectedId = None)
  /\ phase' = "draw"
  /\ UNCHANGED <<rows, selected, current, resolved, detail, stale, after, previous, screen, posted>>

(* j, k, g, G and r; G does nothing in an empty list.                       *)
Moves ==
  LET last == IF rows = <<>> THEN 1 ELSE Len(rows)
  IN {IF selected < last THEN selected + 1 ELSE last,
      IF selected > 1 THEN selected - 1 ELSE 1, 1, last, selected}
MoveSelection ==
  /\ phase = "poll" /\ pending = None
  /\ selected' \in Moves
  /\ Refresh("draw")
  /\ UNCHANGED <<rows, current, resolved, detail, pending, stale, error, previous, screen, posted>>

(* q, or a terminal that cannot be read.                                    *)
Quit ==
  /\ phase = "poll"
  /\ phase' = "ended"
  /\ UNCHANGED <<rows, selected, current, resolved, detail, pending, stale, error, after,
                 previous, screen, posted>>

-----------------------------------------------------------------------------

(* main refreshes once before the loop.                                     *)
Init ==
  /\ rows = <<>> /\ selected = 1 /\ current = None /\ resolved = FALSE
  /\ detail = None /\ pending = None /\ stale = FALSE /\ error = FALSE
  /\ phase = "sessions" /\ after = "draw"
  /\ previous = [id |-> None, detail |-> None]
  /\ screen = [selected |-> None, detail |-> None, prompt |-> None]
  /\ posted = None

Next ==
  \/ SessionsAnswer \/ SessionsFail \/ DetailAnswer
  \/ Draw \/ NoKey \/ ConfirmTerminate \/ CancelTerminate \/ ArmTerminate
  \/ MoveSelection \/ Quit

Spec == Init /\ [][Next]_vars

-----------------------------------------------------------------------------
(* Properties *)

(* A terminate request is for the session that the prompt on the screen     *)
(* names, whatever a refresh did to the list while it was there.            *)
PromptStep == posted' # posted /\ posted' # None => posted' = screen.prompt

(* An answer of the daemon never moves the operator to another session as   *)
(* long as the selected one is listed.                                      *)
FollowStep ==
  phase = "sessions" /\ SelectedId # None /\ Lists(rows', SelectedId)
    => rows'[selected'] = SelectedId

(* The detail on the screen is that of the highlighted session.             *)
DetailIsOfSelection == screen.detail \in {None, screen.selected}
=============================================================================
