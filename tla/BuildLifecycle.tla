--------------------------- MODULE BuildLifecycle ---------------------------
(***************************************************************************)
(* The life of a custom build in the API process: the create and delete    *)
(* handlers, the background poll goroutines, the scheduled poll retries,   *)
(* the start-up hook ResumePendingPolls, the GitHub provider they talk to  *)
(* and the database and output directory that survive a crash.             *)
(*                                                                         *)
(* Sources: api/http/controller/admin/custom_build.go (handlers, polls),   *)
(* api/service/custom_build.go (row updates, in module BuildRow),          *)
(* api/service/build_output_cleanup.go (tombstones), and                   *)
(* api/service/github_build_config.go (artifact selection).                *)
(*                                                                         *)
(* One step is what one process does between two points where another one  *)
(* can be observed.  persistBuildMutation's three attempts are one step    *)
(* with three outcomes (see Persist).  Every failure of the database or    *)
(* the file system spends one unit of the budget MaxFaults.                *)
(***************************************************************************)
EXTENDS BuildRow, Naturals

CONSTANTS
    Builds,        \* build ids
    LegacyBuilds,  \* ids whose row an older version may have left active
    Workers,       \* poll goroutines
    Deleter,       \* owner token of the delete handler
    MaxFaults,     \* database and file-system failures in a behaviour
    MaxCrashes,    \* process restarts in a behaviour
    MaxClearing,   \* retry goroutines between start and their deferred clear
    MaxWaiting     \* delete handlers of a build that wait for its guard

ASSUME LifecycleAssumption ==
    /\ LegacyBuilds \subseteq Builds
    /\ None \notin Workers \cup Builds
    /\ Deleter \notin Workers \cup {None}
    /\ MaxFaults \in Nat
    /\ MaxCrashes \in Nat
    /\ MaxClearing \in Nat
    /\ MaxWaiting \in Nat

VARIABLES
    row,      \* database: the custom_builds table
    out,      \* disk: files of the output directory, None when absent
    tomb,     \* disk: deletion tombstone, "none", "fresh" or past its TTL
    owner,    \* activeGithubPolls: who holds the build's lifecycle guard
    poll,     \* poll goroutines
    create,   \* create handlers
    del,      \* the delete handler that acquired the guard
    waiting,  \* delete handlers in acquire, counted
    keys,     \* scheduledGithubPollRetries.keys
    timers,   \* retry goroutines of a build, counted by where they are
    phase,    \* of the process: "query", "sweep", "resume" at start-up, "up"
    todo,     \* rows ResumePendingPolls still has to look at
    runState, \* provider: state of each workflow run
    avail,    \* provider: unexpired artifacts with the expected name
    faults,   \* failures still allowed
    crashes   \* restarts still allowed

vars == <<row, out, tomb, owner, poll, create, del, waiting, keys, timers, phase,
          todo, runState, avail, faults, crashes>>

disk     == <<out, tomb>>
handlers == <<create, del, waiting>>
retries  == <<keys, timers>>
process  == <<phase, todo, crashes>>
provider == <<runState, avail>>

-----------------------------------------------------------------------------
PollPC == {"idle", "start", "loop", "refresh", "recover", "config", "status",
           "sha", "final", "downloading", "download", "extracting", "artifact",
           "rereadArtifact", "reread", "publish", "swap", "record", "mark",
           "complete", "finish", "fail", "failActive", "release"}

RunState == {"unused", "running", "success", "failure"}

\* The locals of pollAndDownload: the run it polls, the artifact id its row
\* had when it started, the downloaded artifact, the observed run state, and
\* whether the row it saw last carried a source SHA or a publication proof.
Poll == [build : Builds \cup {None}, pc : PollPC, run : RunId, stored : ArtId,
         got : ArtId, res : RunState, sha : BOOLEAN, proof : BOOLEAN,
         backup : Files, dig : Digest, late : BOOLEAN]

IdlePoll == [build |-> None, pc |-> "idle", run |-> None, stored |-> None,
             got |-> None, res |-> "unused", sha |-> FALSE, proof |-> FALSE,
             backup |-> None, dig |-> NoDigest, late |-> FALSE]

CreatePC == {"idle", "dispatch", "provenance", "pendingFailure", "startPoll"}
DelPC    == {"idle", "reread", "tombstone", "row", "dir", "untomb", "release"}
Timers   == [sleep : Nat, wait : Nat, ready : Nat, clear : Nat]

NoTimers == [sleep |-> 0, wait |-> 0, ready |-> 0, clear |-> 0]
IdleCreate == [pc |-> "idle", run |-> None]

TypeOK ==
    /\ row \in [Builds -> Row]
    /\ out \in [Builds -> Files]
    /\ tomb \in [Builds -> {"none", "fresh", "stale"}]
    /\ owner \in [Builds -> Workers \cup {Deleter, None}]
    /\ poll \in [Workers -> Poll]
    /\ create \in [Builds -> [pc : CreatePC, run : RunId]]
    /\ del \in [Builds -> DelPC]
    /\ waiting \in [Builds -> Nat]
    /\ keys \in SUBSET Builds
    /\ timers \in [Builds -> Timers]
    /\ phase \in {"query", "sweep", "resume", "up"}
    /\ todo \in SUBSET Builds
    /\ runState \in [Runs -> RunState]
    /\ avail \in SUBSET Artifacts
    /\ faults \in Nat
    /\ crashes \in Nat

Init ==
    /\ row \in [Builds -> {NoRow} \cup LegacyRows]
    /\ \A b \in Builds : row[b] # NoRow => b \in LegacyBuilds
    /\ out = [b \in Builds |-> None]
    /\ tomb = [b \in Builds |-> "none"]
    /\ owner = [b \in Builds |-> None]
    /\ poll = [w \in Workers |-> IdlePoll]
    /\ create = [b \in Builds |-> IdleCreate]
    /\ del = [b \in Builds |-> "idle"]
    /\ waiting = [b \in Builds |-> 0]
    /\ keys = {}
    /\ timers = [b \in Builds |-> NoTimers]
    /\ phase = "query"
    /\ todo = {}
    /\ runState = [r \in Runs |-> "unused"]
    /\ avail = {}
    /\ faults = MaxFaults
    /\ crashes = MaxCrashes

-----------------------------------------------------------------------------
(* Failures *)

Fault   == faults > 0 /\ faults' = faults - 1
Healthy == UNCHANGED faults

Outcomes == {"ok", "error", "lost"}

(***************************************************************************)
(* persistBuildMutation: up to three attempts of one guarded update.  "ok" *)
(* means an attempt was acknowledged, "error" that no attempt reached the  *)
(* table, "lost" that one was committed without an acknowledgement and the *)
(* remaining attempts failed or matched no row any more.  An update whose  *)
(* guard does not hold is an error to the caller and costs no fault.       *)
(***************************************************************************)
Persist(b, guard, newRow, o) ==
    /\ o = "lost" => guard
    /\ IF o = "ok" THEN Healthy ELSE Fault
    /\ row' = IF guard /\ o # "error" THEN [row EXCEPT ![b] = newRow] ELSE row

Acknowledged(guard, o) == guard /\ o = "ok"

-----------------------------------------------------------------------------
(* Lifecycle guard (githubPollOwnership) and poll retries *)

Goto(w, pc) == poll' = [poll EXCEPT ![w].pc = pc]

\* continue: the next iteration starts with fresh locals.
Continue(w) ==
    poll' = [poll EXCEPT ![w].pc = "loop", ![w].got = None,
                         ![w].res = "unused"]

BugStartUnclaimed(b, run) ==
    \E w \in Workers :
        /\ poll[w].pc = "idle"
        /\ owner' = [owner EXCEPT ![b] = w]
        /\ poll' = [poll EXCEPT ![w] = [IdlePoll EXCEPT !.build = b,
                                                       !.pc = "start",
                                                       !.run = run]]

\* startGithubPoll: claim the guard and start a goroutine, or do nothing when
\* another owner holds it.  The caller does not learn which.
StartPoll(b, run) ==
    IF owner[b] # None THEN UNCHANGED <<owner, poll>>
    ELSE \E w \in Workers :
            /\ poll[w].pc = "idle"
            /\ owner' = [owner EXCEPT ![b] = w]
            /\ poll' = [poll EXCEPT ![w] = [IdlePoll EXCEPT !.build = b,
                                                   !.pc = "start",
                                                   !.run = run]]

\* The release closure: only the current claim is deleted, and closing its
\* channel wakes the retry goroutines that wait on it.
Release(b, me) ==
    /\ owner' = [owner EXCEPT ![b] = IF @ = me THEN None ELSE @]
    /\ timers' = IF owner[b] # me THEN timers
                 ELSE [timers EXCEPT ![b].ready = @ + timers[b].wait,
                                     ![b].wait = 0]

\* schedulePollRetryAfterPersistence: at most one pending key per build/run.
ScheduleRetry(b) ==
    /\ keys' = keys \cup {b}
    /\ timers' = IF b \in keys THEN timers
                 ELSE [timers EXCEPT ![b].sleep = @ + 1]

TimerFires(b) ==
    /\ timers[b].sleep > 0
    /\ timers' = IF owner[b] = None
                 THEN [timers EXCEPT ![b].sleep = @ - 1, ![b].ready = @ + 1]
                 ELSE [timers EXCEPT ![b].sleep = @ - 1, ![b].wait = @ + 1]
    /\ UNCHANGED <<row, disk, owner, poll, handlers, keys, process, provider,
                   faults>>

\* wait gave up after two minutes: the key goes and no poll is started.
TimerGivesUp(b) ==
    /\ timers[b].wait > 0
    /\ timers' = [timers EXCEPT ![b].wait = @ - 1]
    /\ keys' = keys \ {b}
    /\ UNCHANGED <<row, disk, owner, poll, handlers, process, provider,
                   faults>>

\* The run id is write-once, so the goroutine's runID is the row's.
TimerStartsPoll(b) ==
    /\ timers[b].ready > 0
    /\ timers[b].clear < MaxClearing
    /\ timers' = [timers EXCEPT ![b].ready = @ - 1, ![b].clear = @ + 1]
    /\ keys' = keys \ {b}
    /\ StartPoll(b, row[b].run)
    /\ UNCHANGED <<row, disk, handlers, process, provider, faults>>

BugClearsTwice(b) ==
    /\ timers' = [timers EXCEPT ![b].clear = @ - 1]
    /\ keys' = keys \ {b}
    /\ UNCHANGED <<row, disk, owner, poll, handlers, process, provider,
                   faults>>

\* defer clearScheduledGithubPollRetry, after start() has returned.
TimerClearsKey(b) ==
    /\ timers[b].clear > 0
    /\ timers' = [timers EXCEPT ![b].clear = @ - 1]
    /\ keys' = keys \ {b}
    /\ UNCHANGED <<row, disk, owner, poll, handlers, process, provider,
                   faults>>

-----------------------------------------------------------------------------
(* The create handler *)

\* Create, up to CreateNormalizedWithIdentity: the validations before it leave
\* no trace.  A row whose insert was not acknowledged has no handler left.
CreateInserts(b) ==
    /\ phase = "up"
    /\ row[b].st = "none"
    /\ create[b].pc = "idle"
    /\ \E o \in {"ok", "lost"} :
        /\ Persist(b, TRUE, NewRow, o)
        /\ create' = IF o = "ok" THEN [create EXCEPT ![b].pc = "dispatch"]
                     ELSE create
    /\ UNCHANGED <<disk, owner, poll, del, waiting, retries, process,
                   provider>>

\* submitBuild and tryGithubDispatch: the provider is no longer configured, or
\* the dispatch fails; one that timed out may still have created the run.  The
\* platform checks in front only repeat, on the same value, the one PrepareBuild
\* passed before the insert, so their returns are not taken.
CreateDispatchFails(b) ==
    /\ create[b].pc = "dispatch"
    /\ create' = [create EXCEPT ![b].pc = "pendingFailure"]
    /\ \/ UNCHANGED runState
       \/ \E r \in Runs :
            /\ runState[r] = "unused"
            /\ \A c \in Builds : row[c].run # r
            /\ runState' = [runState EXCEPT ![r] = "running"]
    /\ UNCHANGED <<row, disk, owner, poll, del, waiting, retries, process,
                   avail, faults>>

CreateDispatches(b) ==
    /\ create[b].pc = "dispatch"
    /\ \E r \in Runs :
        /\ runState[r] = "unused"
        /\ \A c \in Builds : row[c].run # r
        /\ runState' = [runState EXCEPT ![r] = "running"]
        /\ create' = [create EXCEPT ![b] = [pc |-> "provenance", run |-> r]]
    /\ UNCHANGED <<row, disk, owner, poll, del, waiting, retries, process,
                   avail, faults>>

CreateSetsProvenance(b) ==
    /\ create[b].pc = "provenance"
    /\ \E o \in Outcomes :
        LET guard == CanSetProvenance(row[b]) IN
        /\ Persist(b, guard, WithProvenance(row[b], create[b].run), o)
        /\ create' = [create EXCEPT ![b].pc =
                        IF Acknowledged(guard, o) THEN "startPoll"
                        ELSE "pendingFailure"]
    /\ UNCHANGED <<disk, owner, poll, del, waiting, retries, process,
                   provider>>

\* persistPendingFailure: whatever its outcome, the handler returns.
CreateFailsPending(b) ==
    /\ create[b].pc = "pendingFailure"
    /\ \E o \in Outcomes :
        Persist(b, CanFailPending(row[b]), WithStatus(row[b], "failed"), o)
    /\ create' = [create EXCEPT ![b] = IdleCreate]
    /\ UNCHANGED <<disk, owner, poll, del, waiting, retries, process,
                   provider>>

CreateStartsPoll(b) ==
    /\ create[b].pc = "startPoll"
    /\ StartPoll(b, create[b].run)
    /\ create' = [create EXCEPT ![b] = IdleCreate]
    /\ UNCHANGED <<row, disk, del, waiting, retries, process, provider,
                   faults>>

-----------------------------------------------------------------------------
(* The delete handler *)

DelGoto(b, pc) == del' = [del EXCEPT ![b] = pc]

\* Delete up to acquire: another delete or a poll may hold the guard.
DeleteBegins(b) ==
    /\ phase = "up"
    /\ waiting[b] < MaxWaiting
    /\ Present(row[b])
    /\ waiting' = [waiting EXCEPT ![b] = @ + 1]
    /\ UNCHANGED <<row, disk, owner, poll, create, del, retries, process,
                   provider, faults>>

\* acquire waits until it can claim the guard ...
DeleteAcquires(b) ==
    /\ waiting[b] > 0
    /\ owner[b] = None
    /\ waiting' = [waiting EXCEPT ![b] = @ - 1]
    /\ owner' = [owner EXCEPT ![b] = Deleter]
    /\ DelGoto(b, "reread")
    /\ UNCHANGED <<row, disk, poll, create, retries, process, provider,
                   faults>>

\* ... or the client goes away.
DeleteCancelled(b) ==
    /\ waiting[b] > 0
    /\ waiting' = [waiting EXCEPT ![b] = @ - 1]
    /\ UNCHANGED <<row, disk, owner, poll, create, del, retries, process,
                   provider, faults>>

BugRereadKeepsGuard(b) ==
    /\ del[b] = "reread"
    /\ Healthy
    /\ DelGoto(b, IF Present(row[b]) THEN "tombstone" ELSE "idle")
    /\ UNCHANGED <<row, disk, owner, poll, create, waiting, retries, process,
                   provider>>

DeleteRereads(b) ==
    /\ del[b] = "reread"
    /\ \/ Fault /\ DelGoto(b, "release")
       \/ /\ Healthy
          /\ DelGoto(b, IF Present(row[b]) THEN "tombstone" ELSE "release")
    /\ UNCHANGED <<row, disk, owner, poll, create, waiting, retries, process,
                   provider>>

\* ensureBuildOutputDeletionTombstone: an existing marker is reused, and a
\* failure to sync the directory leaves a marker behind.
DeleteWritesTombstone(b) ==
    LET marked == [tomb EXCEPT ![b] = IF @ = "none" THEN "fresh" ELSE @] IN
    /\ del[b] = "tombstone"
    /\ \/ Healthy /\ tomb' = marked /\ DelGoto(b, "row")
       \/ Fault /\ tomb' \in {tomb, marked} /\ DelGoto(b, "release")
    /\ UNCHANGED <<row, out, owner, poll, create, waiting, retries, process,
                   provider>>

\* DB.Delete: a single attempt, the authoritative deletion boundary.
DeleteDeletesRow(b) ==
    /\ del[b] = "row"
    /\ \E o \in Outcomes :
        /\ Persist(b, TRUE, WithStatus(row[b], "deleted"), o)
        /\ DelGoto(b, IF o = "ok" THEN "dir" ELSE "release")
    /\ UNCHANGED <<disk, owner, poll, create, waiting, retries, process,
                   provider>>

BugRemoveUnverified(b) ==
    /\ del[b] = "dir"
    /\ DelGoto(b, "untomb")
    /\ \/ Healthy /\ out' = [out EXCEPT ![b] = None]
       \/ Fault /\ UNCHANGED out
    /\ UNCHANGED <<row, tomb, owner, poll, create, waiting, retries, process,
                   provider>>

\* RemoveAll and the Lstat that verifies it.  A failed removal may leave some
\* of the files.
DeleteRemovesDir(b) ==
    /\ del[b] = "dir"
    /\ \/ Healthy /\ out' = [out EXCEPT ![b] = None] /\ DelGoto(b, "untomb")
       \/ /\ Fault
          /\ out[b] # None
          /\ out' \in {out, [out EXCEPT ![b] = Damaged]}
          /\ DelGoto(b, "release")
    /\ UNCHANGED <<row, tomb, owner, poll, create, waiting, retries, process,
                   provider>>

DeleteRemovesTombstone(b) ==
    /\ del[b] = "untomb"
    /\ \/ Healthy /\ tomb' = [tomb EXCEPT ![b] = "none"]
       \/ Fault /\ UNCHANGED tomb
    /\ DelGoto(b, "release")
    /\ UNCHANGED <<row, out, owner, poll, create, waiting, retries, process,
                   provider>>

DeleteReleases(b) ==
    /\ del[b] = "release"
    /\ Release(b, Deleter)
    /\ DelGoto(b, "idle")
    /\ UNCHANGED <<row, disk, poll, create, waiting, keys, process, provider,
                   faults>>

-----------------------------------------------------------------------------
(* The poll goroutine: pollAndDownloadWithClock *)

\* The row is still the active row of the polled run.
Polled(r, run) == Active(r) /\ r.run = run

\* persistPollMutation failed: schedule a retry and return.
GiveUpWithRetry(w) ==
    /\ ScheduleRetry(poll[w].build)
    /\ Goto(w, "release")

\* A guarded update by the poll: next on success, else retry later.
PollPersists(w, guard, newRow, next) ==
    \E o \in Outcomes :
        /\ Persist(poll[w].build, guard, newRow, o)
        /\ IF Acknowledged(guard, o) THEN Goto(w, next) /\ UNCHANGED retries
           ELSE GiveUpWithRetry(w)

\* A read of the row: a failure ends the poll without a retry.
PollReads(w, next) ==
    \/ Fault /\ Goto(w, "release")
    \/ Healthy /\ Goto(w, next)

PollStarts(w) ==
    LET p == poll[w]
        r == row[p.build]
    IN
    /\ p.pc = "start"
    /\ \/ Fault /\ Goto(w, "release")
       \/ /\ Healthy
          /\ poll' = [poll EXCEPT
                ![w].pc = IF ~Present(r) THEN "release"
                          ELSE IF ~Complete(r) \/ r.run # p.run THEN "fail"
                          ELSE "refresh",
                ![w].stored = r.art,
                ![w].sha = r.sha]
    /\ UNCHANGED <<row, disk, owner, handlers, retries, process, provider>>

\* The 90-minute deadline of this poll passes.
DeadlinePasses(w) ==
    /\ poll[w].pc # "idle"
    /\ ~poll[w].late
    /\ poll' = [poll EXCEPT ![w].late = TRUE]
    /\ UNCHANGED <<row, disk, owner, handlers, retries, process, provider,
                   faults>>

PollLoops(w) ==
    /\ poll[w].pc = "loop"
    /\ Goto(w, IF poll[w].late THEN "failActive" ELSE "refresh")
    /\ UNCHANGED <<row, disk, owner, handlers, retries, process, provider,
                   faults>>

BugRefreshFailsTerminal(w) ==
    LET r == row[poll[w].build] IN
    /\ poll[w].pc = "refresh"
    /\ PollReads(w, IF ~Polled(r, poll[w].run) THEN "fail"
                    ELSE IF r.pub THEN "recover" ELSE "config")
    /\ UNCHANGED <<row, disk, owner, handlers, retries, process, provider>>

PollRefreshes(w) ==
    LET r == row[poll[w].build] IN
    /\ poll[w].pc = "refresh"
    /\ PollReads(w, IF ~Polled(r, poll[w].run) THEN "release"
                    ELSE IF r.pub THEN "recover" ELSE "config")
    /\ UNCHANGED <<row, disk, owner, handlers, retries, process, provider>>

\* recoverRecordedPublishedBuild: any error, a failed read included, is
\* treated as a mismatched proof.
PollRecovers(w) ==
    LET b == poll[w].build
        r == row[b]
    IN
    /\ poll[w].pc = "recover"
    /\ \/ Fault /\ Goto(w, "failActive")
       \/ /\ Healthy
          /\ poll' = [poll EXCEPT
                ![w].pc = IF ~Polled(r, poll[w].run) THEN "config"
                          ELSE IF CompletionProven(r, poll[w].run, r.art, out[b])
                          THEN "complete" ELSE "failActive",
                ![w].got = r.art]
    /\ UNCHANGED <<row, disk, owner, handlers, retries, process, provider>>

\* loadGithubPollConfig returns once a token is configured, or at the deadline.
PollLoadsConfig(w) ==
    /\ poll[w].pc = "config"
    /\ Goto(w, IF poll[w].late THEN "failActive" ELSE "status")
    /\ UNCHANGED <<row, disk, owner, handlers, retries, process, provider,
                   faults>>

AfterStatus(res) == IF res = "running" THEN "loop" ELSE "final"

\* RunStatusDetails: a retryable error, a terminal error, a head SHA that is
\* missing or not the stored one, or the state of the run.
PollReadsStatus(w) ==
    LET p == poll[w]
        res == runState[p.run]
    IN
    /\ p.pc = "status"
    /\ \/ Continue(w)
       \/ Goto(w, "failActive")
       \/ Goto(w, "fail")
       \/ poll' = [poll EXCEPT ![w].pc = IF p.sha THEN AfterStatus(res) ELSE "sha",
                               ![w].res = res]
    /\ UNCHANGED <<row, disk, owner, handlers, retries, process, provider,
                   faults>>

PollSetsSourceSha(w) ==
    LET p == poll[w]
        r == row[p.build]
        guard == CanSetSourceSha(r, p.run)
    IN
    /\ p.pc = "sha"
    /\ \E o \in Outcomes :
        /\ Persist(p.build, guard, WithSourceSha(r), o)
        /\ IF Acknowledged(guard, o)
           THEN /\ poll' = [poll EXCEPT ![w].pc = AfterStatus(p.res),
                                        ![w].sha = TRUE]
                /\ UNCHANGED retries
           ELSE GiveUpWithRetry(w)
    /\ UNCHANGED <<disk, owner, handlers, process, provider>>

\* The run is completed: re-read the row, and act on the conclusion.
PollConcludes(w) ==
    LET r == row[poll[w].build] IN
    /\ poll[w].pc = "final"
    /\ PollReads(w, IF ~Present(r) THEN "release"
                    ELSE IF poll[w].res = "success" THEN "downloading"
                    ELSE "fail")
    /\ UNCHANGED <<row, disk, owner, handlers, retries, process, provider>>

PollSetsDownloading(w) ==
    LET r == row[poll[w].build] IN
    /\ poll[w].pc = "downloading"
    /\ PollPersists(w, CanProgress(r, poll[w].run),
                    WithStatus(r, "downloading"), "download")
    /\ UNCHANGED <<disk, owner, handlers, process, provider>>

\* ResolveArtifactID: the only artifact of the run with the expected name;
\* verifyRunArtifact: the stored one, if the run still has it.
Selectable(run, stored) ==
    LET listed == {a \in avail : ArtifactRun[a] = run} IN
    IF stored = None THEN {a \in listed : listed = {a}}
    ELSE listed \cap {stored}

\* DownloadArtifact: a retryable error, a terminal error, or an archive.
PollDownloads(w) ==
    LET p == poll[w] IN
    /\ p.pc = "download"
    /\ \/ Continue(w)
       \/ Goto(w, "fail")
       \/ \E a \in Selectable(p.run, p.stored) :
            poll' = [poll EXCEPT ![w].pc = "extracting", ![w].got = a]
    /\ UNCHANGED <<row, disk, owner, handlers, retries, process, provider,
                   faults>>

PollSetsExtracting(w) ==
    LET p == poll[w]
        r == row[p.build]
    IN
    /\ p.pc = "extracting"
    /\ PollPersists(w, CanProgress(r, p.run), WithStatus(r, "extracting"),
                    IF p.stored = None THEN "artifact"
                    ELSE IF p.got # p.stored THEN "fail" ELSE "reread")
    /\ UNCHANGED <<disk, owner, handlers, process, provider>>

\* SetArtifactID: on failure a retry is scheduled but the poll goes on to
\* re-read the row.
PollSetsArtifactID(w) ==
    LET p == poll[w]
        r == row[p.build]
        guard == CanSetArtifactID(r, p.run)
    IN
    /\ p.pc = "artifact"
    /\ \E o \in Outcomes :
        /\ Persist(p.build, guard, WithArtifactID(r, p.got), o)
        /\ IF Acknowledged(guard, o) THEN Goto(w, "reread") /\ UNCHANGED retries
           ELSE Goto(w, "rereadArtifact") /\ ScheduleRetry(p.build)
    /\ UNCHANGED <<disk, owner, handlers, process, provider>>

PollRereadsArtifactID(w) ==
    LET r == row[poll[w].build] IN
    /\ poll[w].pc = "rereadArtifact"
    /\ PollReads(w, IF Present(r) /\ Complete(r) /\ r.art = poll[w].got
                    THEN "reread" ELSE "release")
    /\ UNCHANGED <<row, disk, owner, handlers, retries, process, provider>>

\* The guarded row is read again immediately before publication.
PollRereads(w) ==
    LET r == row[poll[w].build] IN
    /\ poll[w].pc = "reread"
    /\ \/ Fault /\ Goto(w, "release")
       \/ /\ Healthy
          /\ poll' = [poll EXCEPT ![w].pc = IF Polled(r, poll[w].run)
                                            THEN "publish" ELSE "release",
                                  ![w].proof = r.pub]
    /\ UNCHANGED <<row, disk, owner, handlers, retries, process, provider>>

BugExtractedUnchecked(a) == a \in Artifacts

\* extractValidatedArtifact accepts the archive and its producer manifest.
Extracted(a) == a \in ValidArtifacts

(***************************************************************************)
(* publishDownloadedArtifactWithManifest.  The archive is extracted and    *)
(* validated in a staging directory; an absent output is published by one  *)
(* rename, an existing one is reused if the row read before proves it, and *)
(* otherwise moved aside first (replacePublishedOutput).                   *)
(***************************************************************************)
PollPublishes(w) ==
    LET p == poll[w]
        b == p.build
    IN
    /\ p.pc = "publish"
    /\ \/ /\ Fault
          /\ Goto(w, "fail")
          /\ UNCHANGED out
       \/ /\ Healthy
          /\ ~Extracted(p.got)
          /\ Goto(w, "fail")
          /\ UNCHANGED out
       \/ /\ Healthy
          /\ Extracted(p.got)
          /\ out[b] = None
          /\ out' = [out EXCEPT ![b] = p.got]
          /\ Goto(w, "record")
       \/ /\ Healthy
          /\ Extracted(p.got)
          /\ out[b] # None
          /\ IF p.proof /\ ProofHolds(row[b], out[b])
             THEN Goto(w, "record") /\ UNCHANGED out
             ELSE /\ out' = [out EXCEPT ![b] = None]
                  /\ poll' = [poll EXCEPT ![w].pc = "swap", ![w].backup = out[b]]
    /\ UNCHANGED <<row, tomb, owner, handlers, retries, process, provider>>

\* The second rename of replacePublishedOutput.  When it fails the backup is
\* put back, if that succeeds; a backup that cannot be removed is an error
\* although the new output is in place.
PollSwapsOutput(w) ==
    LET p == poll[w]
        b == p.build
        next(pc) == [poll EXCEPT ![w].pc = pc, ![w].backup = None]
    IN
    /\ p.pc = "swap"
    /\ \/ /\ Healthy
          /\ out' = [out EXCEPT ![b] = p.got]
          /\ poll' = next("record")
       \/ /\ Fault
          /\ \E files \in {None, p.backup, p.got} : out' = [out EXCEPT ![b] = files]
          /\ poll' = next("fail")
    /\ UNCHANGED <<row, tomb, owner, handlers, retries, process, provider>>

\* RecordPublishedOutput up to its UPDATE: validate the files on disk and
\* compute their digest.
PollRecordsOutput(w) ==
    LET p == poll[w]
        b == p.build
        r == row[b]
        dig == PublishedDigest(r, out[b])
    IN
    /\ p.pc = "record"
    /\ \/ Fault /\ GiveUpWithRetry(w)
       \/ /\ Healthy
          /\ IF ~CanRecordOutput(r, p.run, p.got, out[b]) \/ (r.pub /\ r.dig # dig)
             THEN GiveUpWithRetry(w)
             ELSE /\ poll' = [poll EXCEPT ![w].pc = IF r.pub THEN "complete" ELSE "mark",
                                          ![w].dig = dig]
                  /\ UNCHANGED retries
    /\ UNCHANGED <<row, disk, owner, handlers, process, provider>>

\* The UPDATE of RecordPublishedOutput; one that matches no row is accepted
\* when the row already carries this digest.
PollMarksPublished(w) ==
    LET p == poll[w]
        r == row[p.build]
        guard == CanMarkPublished(r, p.run, p.got)
        same == Polled(r, p.run) /\ r.art = p.got /\ r.pub /\ r.dig = p.dig
    IN
    /\ p.pc = "mark"
    /\ \E o \in Outcomes :
        /\ Persist(p.build, guard, WithPublication(r, p.got, p.dig), o)
        /\ IF Acknowledged(guard \/ same, o)
           THEN Goto(w, "complete") /\ UNCHANGED retries
           ELSE GiveUpWithRetry(w)
    /\ UNCHANGED <<disk, owner, handlers, process, provider>>

\* UpdateProgress to done, first half: requireCompletedPublication.
PollProvesCompletion(w) ==
    LET p == poll[w]
        b == p.build
    IN
    /\ p.pc = "complete"
    /\ \/ Fault /\ GiveUpWithRetry(w)
       \/ /\ Healthy
          /\ IF CompletionProven(row[b], p.run, p.got, out[b])
             THEN Goto(w, "finish") /\ UNCHANGED retries
             ELSE GiveUpWithRetry(w)
    /\ UNCHANGED <<row, disk, owner, handlers, process, provider>>

PollCompletes(w) ==
    LET r == row[poll[w].build] IN
    /\ poll[w].pc = "finish"
    /\ PollPersists(w, CanComplete(r, poll[w].run, poll[w].got),
                    WithStatus(r, "done"), "release")
    /\ UNCHANGED <<disk, owner, handlers, process, provider>>

\* persistBuildProgress with status failed.
PollFails(w) ==
    LET r == row[poll[w].build] IN
    /\ poll[w].pc = "fail"
    /\ PollPersists(w, CanProgress(r, poll[w].run), WithStatus(r, "failed"),
                    "release")
    /\ UNCHANGED <<disk, owner, handlers, process, provider>>

\* failActiveGithubBuild: look at the row before failing it.
PollFailsActive(w) ==
    /\ poll[w].pc = "failActive"
    /\ PollReads(w, IF Polled(row[poll[w].build], poll[w].run) THEN "fail"
                    ELSE "release")
    /\ UNCHANGED <<row, disk, owner, handlers, retries, process, provider>>

\* The deferred release of the goroutine.
PollReleases(w) ==
    /\ poll[w].pc = "release"
    /\ Release(poll[w].build, w)
    /\ poll' = [poll EXCEPT ![w] = IdlePoll]
    /\ UNCHANGED <<row, disk, handlers, keys, process, provider, faults>>

-----------------------------------------------------------------------------
(* Restart: InitGlobal calls ResumePendingPolls before the server listens.  *)

\* The process dies: everything but the database, the disk and the provider
\* is lost.  A directory that was being removed may be left half removed.
Crash ==
    /\ crashes > 0
    /\ crashes' = crashes - 1
    /\ \E torn \in SUBSET {b \in Builds : del[b] = "dir" /\ out[b] # None} :
        out' = [b \in Builds |-> IF b \in torn THEN Damaged ELSE out[b]]
    /\ owner' = [b \in Builds |-> None]
    /\ poll' = [w \in Workers |-> IdlePoll]
    /\ create' = [b \in Builds |-> IdleCreate]
    /\ del' = [b \in Builds |-> "idle"]
    /\ waiting' = [b \in Builds |-> 0]
    /\ keys' = {}
    /\ timers' = [b \in Builds |-> NoTimers]
    /\ phase' = "query"
    /\ todo' = {}
    /\ UNCHANGED <<row, tomb, provider, faults>>

BugQueriesBuildingOnly ==
    /\ phase = "query"
    /\ \/ Fault /\ phase' = "up" /\ UNCHANGED todo
       \/ /\ Healthy
          /\ phase' = "sweep"
          /\ todo' = {b \in Builds : row[b].st = "building"}
    /\ UNCHANGED <<row, disk, owner, poll, handlers, retries, crashes,
                   provider>>

\* A failed query ends the hook: nothing is swept and nothing resumed.
BootQueries ==
    /\ phase = "query"
    /\ \/ Fault /\ phase' = "up" /\ UNCHANGED todo
       \/ /\ Healthy
          /\ phase' = "sweep"
          /\ todo' = {b \in Builds : Active(row[b])}
    /\ UNCHANGED <<row, disk, owner, poll, handlers, retries, crashes,
                   provider>>

BugSweepsUnverified(b) == tomb[b] = "stale" /\ b \notin todo

\* sweepBuildOutputDeletionTombstones: a marker past its TTL is acted on only
\* when the row, read again, does not exist.
Sweepable(b) == tomb[b] = "stale" /\ b \notin todo /\ ~Present(row[b])

BootSweeps ==
    LET swept == {b \in Builds : Sweepable(b)} IN
    /\ phase = "sweep"
    /\ phase' = "resume"
    /\ \/ /\ Healthy
          /\ out' = [b \in Builds |-> IF b \in swept THEN None ELSE out[b]]
          /\ tomb' = [b \in Builds |-> IF b \in swept THEN "none" ELSE tomb[b]]
       \/ /\ Fault
          /\ \E gone, torn \in SUBSET swept : \E cleared \in SUBSET gone :
              /\ out' = [b \in Builds |->
                          IF b \in gone THEN None
                          ELSE IF b \in torn /\ out[b] # None THEN Damaged
                          ELSE out[b]]
              /\ tomb' = [b \in Builds |->
                          IF b \in cleared THEN "none" ELSE tomb[b]]
    /\ UNCHANGED <<row, owner, poll, handlers, retries, todo, crashes,
                   provider>>

\* A row with complete provenance is polled again ...
BootResumes(b) ==
    /\ phase = "resume"
    /\ b \in todo
    /\ Complete(row[b])
    /\ StartPoll(b, row[b].run)
    /\ todo' = todo \ {b}
    /\ UNCHANGED <<row, disk, handlers, retries, phase, crashes, provider,
                   faults>>

\* ... any other is closed.  Without a run there is nothing to retry.
BootCloses(b) ==
    LET r == row[b]
        guard == IF r.run = None THEN CanFailRunless(r) ELSE CanProgress(r, r.run)
    IN
    /\ phase = "resume"
    /\ b \in todo
    /\ ~Complete(r)
    /\ \E o \in Outcomes :
        /\ Persist(b, guard, WithStatus(r, "failed"), o)
        /\ IF Acknowledged(guard, o) \/ r.run = None THEN UNCHANGED retries
           ELSE ScheduleRetry(b)
    /\ todo' = todo \ {b}
    /\ UNCHANGED <<disk, owner, poll, handlers, phase, crashes, provider>>

BootFinishes ==
    /\ phase = "resume"
    /\ todo = {}
    /\ phase' = "up"
    /\ UNCHANGED <<row, disk, owner, poll, handlers, retries, todo, crashes,
                   provider, faults>>

-----------------------------------------------------------------------------
(* The environment *)

TombstoneAges(b) ==
    /\ tomb[b] = "fresh"
    /\ tomb' = [tomb EXCEPT ![b] = "stale"]
    /\ UNCHANGED <<row, out, owner, poll, handlers, retries, process,
                   provider, faults>>

\* Files of a published output are changed behind the program's back.
OutputDamaged(b) ==
    /\ Fault
    /\ out[b] \in Artifacts
    /\ out' = [out EXCEPT ![b] = Damaged]
    /\ UNCHANGED <<row, tomb, owner, poll, handlers, retries, process,
                   provider>>

\* A run completes, or a completed run is re-run.
RunChanges(r) ==
    /\ runState[r] # "unused"
    /\ runState' = [runState EXCEPT ![r] = IF @ = "running" THEN "success"
                                           ELSE "running"]
    /\ UNCHANGED <<row, disk, owner, poll, handlers, retries, process, avail,
                   faults>>

RunFails(r) ==
    /\ runState[r] = "running"
    /\ runState' = [runState EXCEPT ![r] = "failure"]
    /\ UNCHANGED <<row, disk, owner, poll, handlers, retries, process, avail,
                   faults>>

\* An artifact is uploaded by its run, expires, or drops out of the listing
\* and comes back.
ArtifactListingChanges(a) ==
    /\ runState[ArtifactRun[a]] # "unused"
    /\ avail' = IF a \in avail THEN avail \ {a} ELSE avail \cup {a}
    /\ UNCHANGED <<row, disk, owner, poll, handlers, retries, process,
                   runState, faults>>

-----------------------------------------------------------------------------
CreateStep(b) ==
    \/ CreateInserts(b)
    \/ CreateDispatchFails(b)
    \/ CreateDispatches(b)
    \/ CreateSetsProvenance(b)
    \/ CreateFailsPending(b)
    \/ CreateStartsPoll(b)

DeleteWait(b) ==
    \/ DeleteBegins(b)
    \/ DeleteAcquires(b)
    \/ DeleteCancelled(b)

DeleteWork(b) ==
    \/ DeleteRereads(b)
    \/ DeleteWritesTombstone(b)
    \/ DeleteDeletesRow(b)
    \/ DeleteRemovesDir(b)
    \/ DeleteRemovesTombstone(b)
    \/ DeleteReleases(b)

DeleteStep(b) == DeleteWait(b) \/ DeleteWork(b)

TimerStep(b) ==
    \/ TimerFires(b)
    \/ TimerGivesUp(b)
    \/ TimerStartsPoll(b)
    \/ TimerClearsKey(b)

PollStep(w) ==
    \/ PollStarts(w)
    \/ PollLoops(w)
    \/ PollRefreshes(w)
    \/ PollRecovers(w)
    \/ PollLoadsConfig(w)
    \/ PollReadsStatus(w)
    \/ PollSetsSourceSha(w)
    \/ PollConcludes(w)
    \/ PollSetsDownloading(w)
    \/ PollDownloads(w)
    \/ PollSetsExtracting(w)
    \/ PollSetsArtifactID(w)
    \/ PollRereadsArtifactID(w)
    \/ PollRereads(w)
    \/ PollPublishes(w)
    \/ PollSwapsOutput(w)
    \/ PollRecordsOutput(w)
    \/ PollMarksPublished(w)
    \/ PollProvesCompletion(w)
    \/ PollCompletes(w)
    \/ PollFails(w)
    \/ PollFailsActive(w)
    \/ PollReleases(w)

BootStep ==
    \/ BootQueries
    \/ BootSweeps
    \/ \E b \in Builds : BootResumes(b) \/ BootCloses(b)
    \/ BootFinishes

Environment ==
    \/ Crash
    \/ \E b \in Builds : TombstoneAges(b) \/ OutputDamaged(b)
    \/ \E r \in Runs : RunChanges(r) \/ RunFails(r)
    \/ \E a \in Artifacts : ArtifactListingChanges(a)

Next ==
    \/ BootStep
    \/ \E b \in Builds : CreateStep(b) \/ DeleteStep(b) \/ TimerStep(b)
    \/ \E w \in Workers : PollStep(w) \/ DeadlinePasses(w)
    \/ Environment

Spec == Init /\ [][Next]_vars

\* Started goroutines and handlers keep running, timers fire and deadlines
\* pass.  Nothing is assumed of clients, the provider or failures.
Fairness ==
    /\ WF_vars(BootStep)
    /\ \A w \in Workers : WF_vars(PollStep(w)) /\ WF_vars(DeadlinePasses(w))
    /\ \A b \in Builds : WF_vars(TimerStep(b))
    /\ \A b \in Builds : WF_vars(create[b].pc # "idle" /\ CreateStep(b))
    /\ \A b \in Builds : WF_vars(DeleteWork(b))

FairSpec == Spec /\ Fairness

-----------------------------------------------------------------------------
(* Safety *)

\* A recorded publication is that of the run's own, valid artifact: manifest,
\* digest and artifact id agree, and the run's head SHA was verified before
\* (RecordPublishedOutput, SetSourceSha).
PublicationSound(r) ==
    /\ Complete(r)
    /\ r.sha
    /\ r.art \in ValidArtifacts
    /\ ArtifactRun[r.art] = r.run
    /\ r.man = r.art
    /\ r.dig = PublishedDigest(r, r.art)

\* A build is done only with the marker, digest and manifest of one validated
\* artifact of its own run, whatever writes were lost, retried or repeated
\* after a restart.
DoneIsProven ==
    \A b \in Builds :
        /\ row[b].pub => PublicationSound(row[b])
        /\ row[b].st = "done" => row[b].pub

\* The poll past its start and the delete past acquire exclude each other: a
\* build never has two of them at work, the retry goroutines and the start-up
\* hook included.
OneLifecycleOwner ==
    /\ \A w \in Workers : poll[w].pc # "idle" => owner[poll[w].build] = w
    /\ \A b \in Builds : del[b] # "idle" => owner[b] = Deleter

\* While a build's row exists and says it was published, its output directory
\* is the recorded artifact: no deletion, start-up sweep, replacement or crash
\* removes or exchanges it.
PublishedOutputStays ==
    \A b \in Builds :
        Present(row[b]) /\ row[b].pub => out[b] \in {row[b].art, Damaged}

\* The output of a deleted build is never forgotten: either it is gone or a
\* tombstone makes a later start-up sweep remove it.
DeletedOutputTracked ==
    \A b \in Builds :
        row[b].st = "deleted" /\ out[b] # None => tomb[b] # "none"

\* What readers of a row may rely on: see module BuildRecord.
View(r) == [st  |-> IF Active(r) THEN "active" ELSE r.st,
            run |-> r.run,
            art |-> r.art,
            pub |-> r.pub]

views == [b \in Builds |-> View(row[b])]

Record == INSTANCE BuildRecord WITH rec <- views

\* Every step of handlers, polls, retries and start-up is a step of the record
\* or leaves it alone.
KeepsRecord == Record!Spec

-----------------------------------------------------------------------------
(* Liveness *)

\* In a behaviour without failures no active build is forgotten: every one
\* ends done, failed or deleted, restarts included, at the latest by the
\* polling deadline.
ActiveEnds ==
    [](faults = MaxFaults) =>
        \A b \in Builds : Active(row[b]) ~> ~Active(row[b])

\* Whatever was lost before, ResumePendingPolls takes every active build to an
\* end once failures have stopped.
ResumedEnds ==
    \A b \in Builds :
        (phase = "query" /\ faults = 0 /\ Active(row[b])) ~> ~Active(row[b])

\* A delete past acquire gives the guard back on every return path.
DeleteEnds ==
    \A b \in Builds : owner[b] = Deleter ~> owner[b] # Deleter

\* A build that reached its end is not polled or retried for ever.
RetriesEnd ==
    \A b \in Builds :
        row[b].st \in {"done", "failed"} ~>
            (owner[b] = None /\ timers[b] = NoTimers)

-----------------------------------------------------------------------------
(* What comments of the code say of it, and the code does not do *)

\* "bounded to one scheduled retry per build/run": at most one retry goroutine
\* of a build has not started its poll yet.
AtMostOneRetry ==
    \A b \in Builds : timers[b].sleep + timers[b].wait + timers[b].ready <= 1

\* "GitHub has already accepted this exact run, but no durable identity was
\* recorded": when the handler gives up after the dispatch, the row has no run.
NoDurableIdentity ==
    \A b \in Builds :
        create[b].pc = "pendingFailure" /\ create[b].run # None
            => row[b].run = None

\* "prevents a valid download from being stranded by a completion-write
\* failure": an active build whose stored proof holds is never failed.
ProvenPublicationKept ==
    [][\A b \in Builds :
        (Active(row[b]) /\ CompletionProven(row[b], row[b].run, row[b].art, out[b]))
            => row'[b].st # "failed"]_vars

=============================================================================
