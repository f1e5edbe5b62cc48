----------------------------- MODULE AdminPage -----------------------------
(***************************************************************************)
(* The custom-client page of the administration UI: its build history and  *)
(* its build form.  The two share no variable and no handler reads both,   *)
(* so a behaviour of the page is a behaviour of each; part names the one   *)
(* that runs while the other rests in its initial state.                   *)
(***************************************************************************)
EXTENDS BuildHistory, BuildForm

VARIABLE part

vars == <<part, historyVars, formVars>>

TypeOK == HistoryTypeOK /\ FormTypeOK

Init ==
    /\ part \in {"history", "form"}
    /\ HistoryInit
    /\ FormInit
    /\ part = "form" => server = NoList

Next ==
    \/ part = "history" /\ HistoryNext /\ UNCHANGED <<part, formVars>>
    \/ part = "form" /\ FormNext /\ UNCHANGED <<part, historyVars>>

\* At rest, the history has no step that HistoryFairness asks for.
FairSpec == Init /\ [][Next]_vars /\ HistoryFairness
=============================================================================
