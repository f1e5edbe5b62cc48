-------------------------- MODULE RendezvousServer --------------------------
(***************************************************************************)
(* The rendezvous server: the registration of peers and the rotation of    *)
(* the relay servers it hands out.  The two share no state; part names the *)
(* one that runs while the other rests in its initial state.               *)
(***************************************************************************)
EXTENDS PeerRegistry, RelayRotation

VARIABLE part

vars == <<part, registryVars, rotationVars>>

TypeOK == RegistryTypeOK /\ RotationTypeOK

Init ==
    /\ part \in {"registry", "rotation"}
    /\ RegistryInit
    /\ RotationInit

Next ==
    \/ part = "registry" /\ RegistryNext /\ UNCHANGED <<part, rotationVars>>
    \/ part = "rotation" /\ RotationNext /\ UNCHANGED <<part, registryVars>>

rotating == part = "rotation"

\* The main loop and the timer never stop, a check ends within its connection
\* timeout, and again and again some configured server is up.
FairSpec ==
    /\ Init /\ [][Next]_vars
    /\ WF_rotationVars(rotating /\ Loop)
    /\ \A c \in Checks :
        /\ WF_rotationVars(rotating /\ Idle /\ StartCheck(c))
        /\ SF_rotationVars(rotating /\ \E up \in (SUBSET Servers) \ {{}} : check_relay_servers(c, up))
=============================================================================
