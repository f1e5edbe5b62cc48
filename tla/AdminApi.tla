------------------------------ MODULE AdminApi ------------------------------
(***************************************************************************)
(* Two parts of the admin API that keep state between requests: the login  *)
(* limiter and the server commands.  They share nothing; part names the    *)
(* one that runs while the other rests in its initial state.               *)
(***************************************************************************)
EXTENDS LoginLimiter, ServerCommands

VARIABLE part

vars == <<part, limiterVars, commandsVars>>

TypeOK == LimiterTypeOK /\ CommandsTypeOK

Init ==
    /\ part \in {"limiter", "commands"}
    /\ LimiterInit
    /\ CommandsInit

Next ==
    \/ part = "limiter" /\ LimiterNext /\ UNCHANGED <<part, commandsVars>>
    \/ part = "commands" /\ CommandsNext /\ UNCHANGED <<part, limiterVars>>

Spec == Init /\ [][Next]_vars
=============================================================================
