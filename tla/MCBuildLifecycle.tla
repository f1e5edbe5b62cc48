-------------------------- MODULE MCBuildLifecycle --------------------------
(***************************************************************************)
(* Small instances of BuildLifecycle: one run uploads a valid artifact and *)
(* in the safety run also, as a re-run may, an invalid one.                *)
(***************************************************************************)
EXTENDS BuildLifecycle, TLC

CONSTANTS b1, w1, w2, r1, a1, a2

MCArtifactRun == [a \in Artifacts |-> r1]

WorkerSymmetry == Permutations(Workers)
=============================================================================
