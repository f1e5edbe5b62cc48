---------------------------- MODULE BuildRecord ----------------------------
(***************************************************************************)
(* What the build lifecycle promises about one build's record, whatever    *)
(* fails: its run, its artifact and its publication are each written once, *)
(* in that order and while the build is active; done needs a publication;  *)
(* done and failed are final except for deletion; a deleted id stays       *)
(* deleted.                                                                *)
(***************************************************************************)
CONSTANTS Builds, Artifacts, ValidArtifacts, Runs, ArtifactRun, None

VARIABLE rec

RecStatus == {"none", "pending", "active", "done", "failed", "deleted"}

Record == [st : RecStatus, run : Runs \cup {None}, art : Artifacts \cup {None},
           pub : BOOLEAN]

Absent == [st |-> "none", run |-> None, art |-> None, pub |-> FALSE]

\* A record of an older version, without a publication.
Inherited == {[st |-> "active", run |-> r, art |-> None, pub |-> FALSE] :
                r \in Runs \cup {None}}

Init == rec \in [Builds -> {Absent} \cup Inherited]

Write(b, st, run, art, pub) ==
    rec' = [rec EXCEPT ![b] = [st |-> st, run |-> run, art |-> art, pub |-> pub]]

Move(b, st) == Write(b, st, rec[b].run, rec[b].art, rec[b].pub)

Create(b) ==
    /\ rec[b] = Absent
    /\ Move(b, "pending")

Dispatch(b, run) ==
    /\ rec[b].st = "pending"
    /\ rec[b].run = None
    /\ Write(b, "active", run, rec[b].art, rec[b].pub)

Select(b, a) ==
    /\ rec[b].st = "active"
    /\ rec[b].art = None
    /\ rec[b].run = ArtifactRun[a]
    /\ Write(b, "active", rec[b].run, a, rec[b].pub)

Publish(b) ==
    /\ rec[b].st = "active"
    /\ rec[b].art \in ValidArtifacts
    /\ ~rec[b].pub
    /\ Write(b, "active", rec[b].run, rec[b].art, TRUE)

Complete(b) ==
    /\ rec[b].st = "active"
    /\ rec[b].pub
    /\ Move(b, "done")

Fail(b) ==
    /\ rec[b].st \in {"pending", "active"}
    /\ Move(b, "failed")

Delete(b) ==
    /\ rec[b].st \notin {"none", "deleted"}
    /\ Move(b, "deleted")

Next ==
    \E b \in Builds :
        \/ Create(b)
        \/ \E run \in Runs : Dispatch(b, run)
        \/ \E a \in Artifacts : Select(b, a)
        \/ Publish(b)
        \/ Complete(b)
        \/ Fail(b)
        \/ Delete(b)

Spec == Init /\ [][Next]_rec
=============================================================================
