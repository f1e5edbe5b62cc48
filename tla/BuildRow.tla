------------------------------ MODULE BuildRow ------------------------------
(***************************************************************************)
(* The persisted row of one custom build (api/model/custom_build.go) and   *)
(* the guarded updates api/service/custom_build.go makes to it.  Every     *)
(* update of the service is one UPDATE ... WHERE statement: a Can...       *)
(* operator is its WHERE clause, a With... operator the row it writes.     *)
(*                                                                         *)
(* Data is abstracted to what the updates compare.  An artifact stands for *)
(* its provider id and for its contents: an output directory extracted     *)
(* from artifact a holds the files "a".  The provenance columns that are   *)
(* only ever written together are the single flag prov.                    *)
(***************************************************************************)
CONSTANTS
    Artifacts,       \* artifacts the provider can hold
    ValidArtifacts,  \* those whose files and manifest pass validation
    Runs,            \* provider workflow run ids
    ArtifactRun,     \* the run that uploads an artifact
    None,            \* no run, no artifact, no files, no owner
    Damaged          \* files on disk that match no artifact

ASSUME RowAssumption ==
    /\ ValidArtifacts \subseteq Artifacts
    /\ None \notin Artifacts \cup Runs
    /\ Damaged \notin Artifacts
    /\ None # Damaged
    /\ ArtifactRun \in [Artifacts -> Runs]

-----------------------------------------------------------------------------
ActiveStatus == {"building", "downloading", "extracting"}

\* "none" is an id not handed out yet, "deleted" one whose row was deleted:
\* both read as gorm.ErrRecordNotFound.
Status == {"none", "pending", "done", "failed", "deleted"} \cup ActiveStatus

Files  == Artifacts \cup {None, Damaged}
RunId  == Runs \cup {None}
ArtId  == Artifacts \cup {None}
Digest == [run : RunId, art : ArtId, files : Files]

NoDigest == [run |-> None, art |-> None, files |-> None]

\* sha: github_source_sha recorded; man: producer_manifest_json; pub and dig:
\* publication_recorded_at > 0 and published_digest.
Row == [st : Status, run : RunId, prov : BOOLEAN, sha : BOOLEAN, art : ArtId,
        man : ArtId, pub : BOOLEAN, dig : Digest]

NoRow == [st |-> "none", run |-> None, prov |-> FALSE, sha |-> FALSE,
          art |-> None, man |-> None, pub |-> FALSE, dig |-> NoDigest]

NewRow == [NoRow EXCEPT !.st = "pending"]

\* A row an older version left behind: active, but without the provenance the
\* present code writes, and possibly without a provider run.
LegacyRows == {[NoRow EXCEPT !.st = "building", !.run = r] : r \in RunId}

-----------------------------------------------------------------------------
Present(r) == r.st \notin {"none", "deleted"}
Active(r)  == r.st \in ActiveStatus

\* BuildProvenanceFromRecord returns no error.
Complete(r) == r.prov /\ r.run # None

\* The digest binds the run and artifact identity to the files.
PublishedDigest(r, files) == [run |-> r.run, art |-> r.art, files |-> files]

\* ValidatePublishedOutputProof: the stored manifest describes the files on
\* disk and the stored digest is the digest of those files.
ProofHolds(r, files) ==
    /\ r.pub
    /\ r.man # None
    /\ r.man = files
    /\ r.dig = PublishedDigest(r, files)

-----------------------------------------------------------------------------
CanSetProvenance(r) ==
    /\ r.st = "pending"
    /\ r.run = None
    /\ ~r.prov
    /\ ~r.sha
    /\ r.art = None

WithProvenance(r, run) ==
    [r EXCEPT !.st = "building", !.run = run, !.prov = TRUE]

CanSetSourceSha(r, run) == Active(r) /\ r.run = run /\ ~r.sha

WithSourceSha(r) == [r EXCEPT !.sha = TRUE]

CanSetArtifactID(r, run) == Active(r) /\ r.run = run /\ r.art = None

WithArtifactID(r, a) == [r EXCEPT !.art = a]

BugRecordUnchecked(r, run, a, files) ==
    Active(r) /\ Complete(r) /\ r.run = run /\ r.art = a

\* RecordPublishedOutput, up to its UPDATE: the row is the active one of this
\* run and artifact, a stored manifest is the artifact's own, and the files on
\* disk are those the manifest describes.
CanRecordOutput(r, run, a, files) ==
    /\ Active(r)
    /\ Complete(r)
    /\ r.run = run
    /\ r.art = a
    /\ r.man \in {None, a}
    /\ files = IF r.pub THEN r.man ELSE a

CanMarkPublished(r, run, a) ==
    /\ Active(r)
    /\ r.run = run
    /\ r.art = a
    /\ ~r.pub

WithPublication(r, a, dig) ==
    [r EXCEPT !.pub = TRUE, !.dig = dig, !.man = a]

\* UpdateProgress, its WHERE clause for every status but done.
CanProgress(r, run) == Active(r) /\ r.run = run

WithStatus(r, st) == [r EXCEPT !.st = st]

\* UpdateProgress to done: requireCompletedPublication, then the WHERE clause.
CompletionProven(r, run, a, files) ==
    /\ Complete(r)
    /\ r.run = run
    /\ r.art = a
    /\ ProofHolds(r, files)

CanComplete(r, run, a) ==
    /\ CanProgress(r, run)
    /\ a # None
    /\ r.art = a
    /\ r.pub

CanFailRunless(r) == Active(r) /\ r.run = None

CanFailPending(r) == r.st = "pending" /\ r.run = None
=============================================================================
