------------------------------ MODULE ApiClients ------------------------------
(***************************************************************************)
(* The local API and its interactive client.  The UI sees answers that may *)
(* come in any order and number of rows, or fail, whatever the state of    *)
(* the API, so the two share no state.                                     *)
(***************************************************************************)
EXTENDS ApiServer

CONSTANTS Sessions, None, Display, OwnChain, TmuxChains, MaxListed   \* of Ui

VARIABLES rows, selected, current, resolved, detail, pending, stale, error,
          phase, after, previous, screen, posted

uiVars == <<rows, selected, current, resolved, detail, pending, stale, error,
            phase, after, previous, screen, posted>>

Ui == INSTANCE TerminalUi

-----------------------------------------------------------------------------
(* The operator of the UI terminates the session the prompt named, and      *)
(* stays at the session that was selected as long as it is listed           *)
(* (App::confirm_terminate, next_selected_index).                           *)
OperatorsChoiceKept == [][Ui!PromptStep /\ Ui!FollowStep]_uiVars
=============================================================================
