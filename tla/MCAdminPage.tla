---------------------------- MODULE MCAdminPage ----------------------------
(***************************************************************************)
(* A small instance of the page: two presets that both store a blank host  *)
(* and differ only in their identity, and one that does not parse.         *)
(***************************************************************************)
EXTENDS AdminPage, TLC

CONSTANTS b1, q1, q2, p1, p2, p3, u1

MCPresetConfig == [p \in Presets |-> ("platform" :> "linux" @@ "server_ip" :> "")]
=============================================================================
