---------------------------- MODULE RelayServer ----------------------------
(***************************************************************************)
(* The relay server: the connection tasks, and the commands that change    *)
(* and save its address lists.  A connection task only reads the block     *)
(* list, and RelayPairing lets the list change at any time; a command      *)
(* never looks at the connections.  part names the one that runs while the *)
(* other rests in its initial state.                                       *)
(***************************************************************************)
EXTENDS RelayPairing, IpSetFile

VARIABLE part

vars == <<part, pairingVars, ipSetVars>>

TypeOK == PairingTypeOK /\ IpSetTypeOK

Init ==
    /\ part \in {"pairing", "lists"}
    /\ PairingInit
    /\ IpSetInit

Next ==
    \/ part = "pairing" /\ PairingNext /\ UNCHANGED <<part, ipSetVars>>
    \/ part = "lists" /\ IpSetNext /\ UNCHANGED <<part, pairingVars>>

\* What a task does without its clients: Tokio runs every task that is ready,
\* the sleep and the receive timeout end, and the relay loop turns at least
\* every three seconds.  Nothing makes the clients close a relay or an
\* administrator change the list.
Proceeds(t) ==
    \/ handle_connection(t) \/ NoRequest(t) \/ InsertSelf(t) \/ WakeUp(t)
    \/ InsertUsage(t) \/ RelayTick(t) \/ RemoveUsage(t)

FairSpec ==
    /\ Init /\ [][Next]_vars
    /\ \A t \in Tasks : WF_pairingVars(part = "pairing" /\ Proceeds(t))
=============================================================================
