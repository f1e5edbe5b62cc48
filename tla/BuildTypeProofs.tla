--------------------------- MODULE BuildTypeProofs ---------------------------
(***************************************************************************)
(* Type correctness of BuildLifecycle, for any number of builds, workers,  *)
(* runs, artifacts, failures and restarts.                                 *)
(***************************************************************************)
EXTENDS BuildLifecycle, TLAPS

\* A goroutine that runs has a build, and a run once its row was looked at.
Unready == {"idle", "start", "fail", "release"}

PollsKnown ==
    \A w \in Workers :
        /\ poll[w].pc # "idle" => poll[w].build \in Builds
        /\ poll[w].pc \notin Unready => poll[w].run \in Runs

Typed == TypeOK /\ PollsKnown

-----------------------------------------------------------------------------
(* Types *)

\* The rows written by the service are rows.
LEMMA RowUpdatesTyped ==
    ASSUME NEW r \in Row
    PROVE  /\ NewRow \in Row
           /\ NoRow \in Row
           /\ LegacyRows \subseteq Row
           /\ \A st \in Status : WithStatus(r, st) \in Row
           /\ \A run \in RunId : WithProvenance(r, run) \in Row
           /\ WithSourceSha(r) \in Row
           /\ \A a \in Artifacts : WithArtifactID(r, a) \in Row
           /\ \A a \in ArtId, dig \in Digest : WithPublication(r, a, dig) \in Row
  <1>1. NoDigest \in Digest
    BY DEF NoDigest, Digest, RunId, ArtId, Files
  <1>2. NoRow \in Row
    BY <1>1 DEF NoRow, Row, Status, RunId, ArtId
  <1>3. NewRow \in Row
    BY <1>2 DEF NewRow, Row, Status
  <1>4. LegacyRows \subseteq Row
    <2>1. \A run \in RunId : [NoRow EXCEPT !.st = "building", !.run = run] \in Row
      BY <1>2 DEF Row, Status, ActiveStatus
    <2> QED
      BY <2>1 DEF LegacyRows
  <1>5. \A st \in Status : WithStatus(r, st) \in Row
    BY DEF WithStatus, Row
  <1>6. \A run \in RunId : WithProvenance(r, run) \in Row
    BY DEF WithProvenance, Row, Status, ActiveStatus
  <1>7. WithSourceSha(r) \in Row
    BY DEF WithSourceSha, Row
  <1>8. \A a \in Artifacts : WithArtifactID(r, a) \in Row
    BY DEF WithArtifactID, Row, ArtId
  <1>9. \A a \in ArtId, dig \in Digest : WithPublication(r, a, dig) \in Row
    BY DEF WithPublication, Row
  <1> QED
    BY <1>2, <1>3, <1>4, <1>5, <1>6, <1>7, <1>8, <1>9

\* A guarded update leaves a typed table and a typed failure budget.
LEMMA PersistTyped ==
    ASSUME TypeOK, NEW b \in Builds, NEW guard, NEW newRow \in Row, NEW o,
           Persist(b, guard, newRow, o)
    PROVE  row' \in [Builds -> Row] /\ faults' \in Nat
  BY DEF TypeOK, Persist, Fault, Healthy

\* The initial states are typed.
LEMMA InitTyped == Init => Typed
  <1> SUFFICES ASSUME Init PROVE Typed
    OBVIOUS
  <1>1. NoDigest \in Digest
    BY DEF NoDigest, Digest, RunId, ArtId, Files
  <1>2. IdlePoll \in Poll
    BY <1>1 DEF IdlePoll, Poll, PollPC, RunId, ArtId, RunState, Files
  <1>3. NoRow \in Row
    BY <1>1 DEF NoRow, Row, Status, RunId, ArtId
  <1>4. LegacyRows \subseteq Row
    BY <1>3, RowUpdatesTyped
  <1>5. TypeOK
    BY <1>2, <1>3, <1>4, LifecycleAssumption
    DEF Init, TypeOK, Files, IdleCreate, CreatePC, RunId, DelPC, Timers,
        NoTimers, RunState
  <1>6. PollsKnown
    BY DEF Init, PollsKnown, IdlePoll, Unready
  <1> QED
    BY <1>5, <1>6 DEF Typed

\* StartPoll, Release and ScheduleRetry leave typed state.
LEMMA GuardsTyped ==
    ASSUME Typed, NEW b \in Builds
    PROVE  /\ \A run \in RunId : StartPoll(b, run) =>
                /\ owner' \in [Builds -> Workers \cup {Deleter, None}]
                /\ poll' \in [Workers -> Poll]
                /\ PollsKnown'
           /\ \A me : Release(b, me) =>
                /\ owner' \in [Builds -> Workers \cup {Deleter, None}]
                /\ timers' \in [Builds -> Timers]
           /\ ScheduleRetry(b) =>
                /\ keys' \in SUBSET Builds
                /\ timers' \in [Builds -> Timers]
  <1>1. ASSUME NEW run \in RunId, StartPoll(b, run)
        PROVE  /\ owner' \in [Builds -> Workers \cup {Deleter, None}]
               /\ poll' \in [Workers -> Poll]
               /\ PollsKnown'
    <2>1. CASE owner[b] # None
      BY <1>1, <2>1 DEF StartPoll, Typed, TypeOK, PollsKnown
    <2>2. CASE owner[b] = None
      <3>1. PICK w \in Workers :
                /\ owner' = [owner EXCEPT ![b] = w]
                /\ poll' = [poll EXCEPT ![w] = [IdlePoll EXCEPT !.build = b,
                                                   !.pc = "start",
                                                   !.run = run]]
        BY <1>1, <2>2 DEF StartPoll
      <3>2. NoDigest \in Digest
        BY DEF NoDigest, Digest, RunId, ArtId, Files
      <3>3. [IdlePoll EXCEPT !.build = b, !.pc = "start", !.run = run] \in Poll
        BY <3>2 DEF IdlePoll, Poll, PollPC, RunId, ArtId, RunState, Files
      <3>4. poll' \in [Workers -> Poll]
        BY <3>1, <3>3 DEF Typed, TypeOK
      <3>5. PollsKnown'
        BY <3>1 DEF Typed, TypeOK, PollsKnown, IdlePoll, Unready
      <3> QED
        BY <3>1, <3>4, <3>5 DEF Typed, TypeOK
    <2> QED
      BY <2>1, <2>2
  <1>2. ASSUME NEW me, Release(b, me)
        PROVE  /\ owner' \in [Builds -> Workers \cup {Deleter, None}]
               /\ timers' \in [Builds -> Timers]
    <2>1. timers[b] \in Timers
      BY DEF Typed, TypeOK
    <2>2. [timers[b] EXCEPT !.ready = @ + timers[b].wait, !.wait = 0] \in Timers
      <3>1. timers[b].ready + timers[b].wait \in Nat
        BY <2>1 DEF Timers
      <3> QED
        BY <2>1, <3>1 DEF Timers
    <2>3. timers' \in {timers, [timers EXCEPT ![b] = [timers[b] EXCEPT
                !.ready = @ + timers[b].wait, !.wait = 0]]}
      BY <1>2 DEF Release, Typed, TypeOK
    <2>4. timers' \in [Builds -> Timers]
      BY <2>2, <2>3 DEF Typed, TypeOK
    <2> QED
      BY <1>2, <2>4 DEF Release, Typed, TypeOK
  <1>3. ASSUME ScheduleRetry(b)
        PROVE  /\ keys' \in SUBSET Builds
               /\ timers' \in [Builds -> Timers]
    <2>1. timers \in [Builds -> Timers] /\ keys \in SUBSET Builds
      BY DEF Typed, TypeOK
    <2> QED
      BY <1>3, <2>1 DEF ScheduleRetry, Timers
  <1> QED
    BY <1>1, <1>2, <1>3

\* The steps of the retry goroutines keep the types.
LEMMA TimerTyped ==
    ASSUME Typed, NEW b \in Builds, TimerStep(b)
    PROVE  Typed'
  <1> USE DEF Typed, disk, handlers, process, provider
  <1>0. timers \in [Builds -> Timers]
    BY DEF TypeOK
  <1>1. CASE TimerFires(b)
    <2>1. timers' \in [Builds -> Timers]
      BY <1>0, <1>1 DEF TimerFires, Timers
    <2> QED
      BY <1>1, <2>1 DEF TimerFires, TypeOK, PollsKnown
  <1>2. CASE TimerGivesUp(b)
    <2>1. timers' \in [Builds -> Timers]
      BY <1>0, <1>2 DEF TimerGivesUp, Timers
    <2> QED
      BY <1>2, <2>1 DEF TimerGivesUp, TypeOK, PollsKnown
  <1>3. CASE TimerStartsPoll(b)
    <2>1. row[b].run \in RunId
      BY DEF TypeOK, Row
    <2>2. timers' \in [Builds -> Timers]
      BY <1>0, <1>3 DEF TimerStartsPoll, Timers
    <2> QED
      BY <1>3, <2>1, <2>2, GuardsTyped DEF TimerStartsPoll, TypeOK
  <1>4. CASE TimerClearsKey(b)
    <2>1. timers' \in [Builds -> Timers]
      BY <1>0, <1>4 DEF TimerClearsKey, Timers
    <2> QED
      BY <1>4, <2>1 DEF TimerClearsKey, TypeOK, PollsKnown
  <1> QED
    BY <1>1, <1>2, <1>3, <1>4 DEF TimerStep

\* The steps of a create handler keep the types.
LEMMA CreateTyped ==
    ASSUME Typed, NEW b \in Builds, CreateStep(b)
    PROVE  Typed'
  <1> USE DEF Typed, disk, handlers, retries, process, provider
  <1>1. CASE CreateInserts(b)
    <2>1. PICK o \in {"ok", "lost"} : Persist(b, TRUE, NewRow, o)
      BY <1>1 DEF CreateInserts
    <2>2. create' \in [Builds -> [pc : CreatePC, run : RunId]]
      BY <1>1 DEF CreateInserts, TypeOK, CreatePC
    <2> QED
      BY <1>1, <2>1, <2>2, PersistTyped, RowUpdatesTyped
      DEF CreateInserts, TypeOK, PollsKnown
  <1>2. CASE CreateDispatchFails(b)
    BY <1>2 DEF CreateDispatchFails, TypeOK, PollsKnown, CreatePC, RunState
  <1>3. CASE CreateDispatches(b)
    BY <1>3 DEF CreateDispatches, TypeOK, PollsKnown, CreatePC, RunState, RunId
  <1>4. CASE CreateSetsProvenance(b)
    <2>1. PICK o \in Outcomes :
            /\ Persist(b, CanSetProvenance(row[b]),
                       WithProvenance(row[b], create[b].run), o)
            /\ create' = [create EXCEPT ![b].pc =
                            IF Acknowledged(CanSetProvenance(row[b]), o)
                            THEN "startPoll" ELSE "pendingFailure"]
      BY <1>4 DEF CreateSetsProvenance
    <2>2. WithProvenance(row[b], create[b].run) \in Row
      BY RowUpdatesTyped DEF TypeOK
    <2>3. create' \in [Builds -> [pc : CreatePC, run : RunId]]
      BY <2>1 DEF TypeOK, CreatePC
    <2> QED
      BY <1>4, <2>1, <2>2, <2>3, PersistTyped
      DEF CreateSetsProvenance, TypeOK, PollsKnown
  <1>5. CASE CreateFailsPending(b)
    <2>1. PICK o \in Outcomes :
            Persist(b, CanFailPending(row[b]), WithStatus(row[b], "failed"), o)
      BY <1>5 DEF CreateFailsPending
    <2>2. WithStatus(row[b], "failed") \in Row
      BY RowUpdatesTyped DEF TypeOK, Status
    <2> QED
      BY <1>5, <2>1, <2>2, PersistTyped
      DEF CreateFailsPending, TypeOK, PollsKnown, IdleCreate, CreatePC, RunId
  <1>6. CASE CreateStartsPoll(b)
    BY <1>6, GuardsTyped
    DEF CreateStartsPoll, TypeOK, IdleCreate, CreatePC, RunId
  <1> QED
    BY <1>1, <1>2, <1>3, <1>4, <1>5, <1>6 DEF CreateStep

\* The steps of a delete handler keep the types.
LEMMA DeleteTyped ==
    ASSUME Typed, NEW b \in Builds, DeleteStep(b)
    PROVE  Typed'
  <1> USE DEF Typed, disk, retries, process, provider
  <1>1. CASE DeleteBegins(b)
    BY <1>1 DEF DeleteBegins, DelGoto, TypeOK, PollsKnown, DelPC
  <1>2. CASE DeleteAcquires(b)
    BY <1>2 DEF DeleteAcquires, DelGoto, TypeOK, PollsKnown, DelPC
  <1>3. CASE DeleteCancelled(b)
    BY <1>3 DEF DeleteCancelled, DelGoto, TypeOK, PollsKnown, DelPC
  <1>4. CASE DeleteRereads(b)
    BY <1>4 DEF DeleteRereads, DelGoto, Fault, Healthy, TypeOK, PollsKnown, DelPC
  <1>5. CASE DeleteWritesTombstone(b)
    <2>1. tomb' \in [Builds -> {"none", "fresh", "stale"}]
      BY <1>5 DEF DeleteWritesTombstone, TypeOK
    <2>2. del' \in [Builds -> DelPC] /\ faults' \in Nat
      BY <1>5 DEF DeleteWritesTombstone, DelGoto, Fault, Healthy, TypeOK, DelPC
    <2> QED
      BY <1>5, <2>1, <2>2 DEF DeleteWritesTombstone, TypeOK, PollsKnown
  <1>6. CASE DeleteDeletesRow(b)
    <2>1. PICK o \in Outcomes :
            /\ Persist(b, TRUE, WithStatus(row[b], "deleted"), o)
            /\ DelGoto(b, IF o = "ok" THEN "dir" ELSE "release")
      BY <1>6 DEF DeleteDeletesRow
    <2>2. WithStatus(row[b], "deleted") \in Row
      BY RowUpdatesTyped DEF TypeOK, Status
    <2>3. del' \in [Builds -> DelPC]
      BY <2>1 DEF DelGoto, TypeOK, DelPC
    <2> QED
      BY <1>6, <2>1, <2>2, <2>3, PersistTyped
      DEF DeleteDeletesRow, TypeOK, PollsKnown
  <1>7. CASE DeleteRemovesDir(b)
    <2>1. out' \in [Builds -> Files]
      BY <1>7 DEF DeleteRemovesDir, TypeOK, Files
    <2>2. del' \in [Builds -> DelPC] /\ faults' \in Nat
      BY <1>7 DEF DeleteRemovesDir, DelGoto, Fault, Healthy, TypeOK, DelPC
    <2> QED
      BY <1>7, <2>1, <2>2 DEF DeleteRemovesDir, TypeOK, PollsKnown
  <1>8. CASE DeleteRemovesTombstone(b)
    BY <1>8 DEF DeleteRemovesTombstone, DelGoto, Fault, Healthy, TypeOK,
                PollsKnown, DelPC
  <1>9. CASE DeleteReleases(b)
    BY <1>9, GuardsTyped DEF DeleteReleases, DelGoto, TypeOK, PollsKnown, DelPC
  <1> QED
    BY <1>1, <1>2, <1>3, <1>4, <1>5, <1>6, <1>7, <1>8, <1>9
    DEF DeleteStep, DeleteWait, DeleteWork

\* The start-up steps keep the types.
LEMMA BootTyped ==
    ASSUME Typed, BootStep
    PROVE  Typed'
  <1> USE DEF Typed, disk, handlers, retries, provider
  <1>1. CASE BootQueries
    BY <1>1 DEF BootQueries, Fault, Healthy, TypeOK, PollsKnown
  <1>2. CASE BootSweeps
    <2>1. out' \in [Builds -> Files] /\ tomb' \in [Builds -> {"none", "fresh", "stale"}]
      BY <1>2 DEF BootSweeps, TypeOK, Files
    <2> QED
      BY <1>2, <2>1 DEF BootSweeps, Fault, Healthy, TypeOK, PollsKnown
  <1>3. ASSUME NEW b \in Builds, BootResumes(b) PROVE Typed'
    <2>1. row[b].run \in RunId
      BY DEF TypeOK, Row
    <2> QED
      BY <1>3, <2>1, GuardsTyped DEF BootResumes, TypeOK
  <1>4. ASSUME NEW b \in Builds, BootCloses(b) PROVE Typed'
    <2> DEFINE guard == IF row[b].run = None THEN CanFailRunless(row[b])
                        ELSE CanProgress(row[b], row[b].run)
    <2>1. PICK o \in Outcomes :
            /\ Persist(b, guard, WithStatus(row[b], "failed"), o)
            /\ IF Acknowledged(guard, o) \/ row[b].run = None
               THEN UNCHANGED retries ELSE ScheduleRetry(b)
      BY <1>4 DEF BootCloses
    <2>2. WithStatus(row[b], "failed") \in Row
      BY RowUpdatesTyped DEF TypeOK, Status
    <2>3. keys' \in SUBSET Builds /\ timers' \in [Builds -> Timers]
      BY <2>1, GuardsTyped DEF TypeOK
    <2>4. row' \in [Builds -> Row] /\ faults' \in Nat
      BY <2>1, <2>2, PersistTyped
    <2> QED
      BY <1>4, <2>3, <2>4 DEF BootCloses, TypeOK, PollsKnown
  <1>5. CASE BootFinishes
    BY <1>5 DEF BootFinishes, TypeOK, PollsKnown
  <1> QED
    BY <1>1, <1>2, <1>3, <1>4, <1>5 DEF BootStep

\* Crashes and the steps of disk and provider keep the types.
LEMMA EnvironmentTyped ==
    ASSUME Typed, Environment
    PROVE  Typed'
  <1> USE DEF Typed, disk, handlers, retries, process, provider
  <1>1. CASE Crash
    <2>1. NoDigest \in Digest
      BY DEF NoDigest, Digest, RunId, ArtId, Files
    <2>2. IdlePoll \in Poll
      BY <2>1 DEF IdlePoll, Poll, PollPC, RunId, ArtId, RunState, Files
    <2>3. out' \in [Builds -> Files]
      BY <1>1 DEF Crash, TypeOK, Files
    <2>4. poll' \in [Workers -> Poll] /\ PollsKnown'
      BY <1>1, <2>2 DEF Crash, PollsKnown, IdlePoll, Unready
    <2>5. timers' \in [Builds -> Timers]
      BY <1>1 DEF Crash, NoTimers, Timers
    <2> QED
      BY <1>1, <2>3, <2>4, <2>5
      DEF Crash, TypeOK, IdleCreate, CreatePC, RunId, DelPC
  <1>2. ASSUME NEW b \in Builds, TombstoneAges(b) PROVE Typed'
    BY <1>2 DEF TombstoneAges, TypeOK, PollsKnown
  <1>3. ASSUME NEW b \in Builds, OutputDamaged(b) PROVE Typed'
    BY <1>3 DEF OutputDamaged, Fault, TypeOK, PollsKnown, Files
  <1>4. ASSUME NEW r \in Runs, RunChanges(r) PROVE Typed'
    BY <1>4 DEF RunChanges, TypeOK, PollsKnown, RunState
  <1>5. ASSUME NEW r \in Runs, RunFails(r) PROVE Typed'
    BY <1>5 DEF RunFails, TypeOK, PollsKnown, RunState
  <1>6. ASSUME NEW a \in Artifacts, ArtifactListingChanges(a) PROVE Typed'
    BY <1>6 DEF ArtifactListingChanges, TypeOK, PollsKnown
  <1> QED
    BY <1>1, <1>2, <1>3, <1>4, <1>5, <1>6 DEF Environment

\* A step of worker w that keeps its build keeps the types.
LEMMA PollMoveTyped ==
    ASSUME Typed, NEW w \in Workers, poll[w].pc # "idle", NEW q \in Poll,
           q.build = poll[w].build, q.pc \notin Unready => q.run \in Runs,
           poll' = [poll EXCEPT ![w] = q]
    PROVE  poll' \in [Workers -> Poll] /\ PollsKnown'
  BY DEF Typed, TypeOK, PollsKnown

\* So does one that only moves its program counter.
LEMMA GotoTyped ==
    ASSUME Typed, NEW w \in Workers, poll[w].pc # "idle", NEW pc \in PollPC,
           poll[w].pc \notin Unready \/ pc \in Unready,
           Goto(w, pc)
    PROVE  poll' \in [Workers -> Poll] /\ PollsKnown'
  <1>0. poll[w] \in Poll
    BY DEF Typed, TypeOK
  <1>1. [poll[w] EXCEPT !.pc = pc] \in Poll
    BY <1>0 DEF Poll
  <1>2. poll' = [poll EXCEPT ![w] = [poll[w] EXCEPT !.pc = pc]]
    BY DEF Goto
  <1> QED
    BY <1>1, <1>2, PollMoveTyped DEF Typed, TypeOK, Poll, PollsKnown

\* So does one that schedules a retry and returns.
LEMMA GiveUpTyped ==
    ASSUME Typed, NEW w \in Workers, poll[w].pc # "idle", GiveUpWithRetry(w)
    PROVE  /\ poll' \in [Workers -> Poll] /\ PollsKnown'
           /\ keys' \in SUBSET Builds
           /\ timers' \in [Builds -> Timers]
  <1>1. poll[w].build \in Builds
    BY DEF Typed, PollsKnown
  <1>2. ScheduleRetry(poll[w].build) /\ Goto(w, "release")
    BY DEF GiveUpWithRetry
  <1> QED
    BY <1>1, <1>2, GuardsTyped, GotoTyped DEF PollPC, Unready

\* So does a guarded update of the row.
LEMMA PollPersistsTyped ==
    ASSUME Typed, NEW w \in Workers, poll[w].pc # "idle", NEW guard,
           NEW newRow \in Row, NEW next \in PollPC,
           poll[w].pc \notin Unready \/ next \in Unready,
           PollPersists(w, guard, newRow, next)
    PROVE  /\ row' \in [Builds -> Row]
           /\ faults' \in Nat
           /\ poll' \in [Workers -> Poll] /\ PollsKnown'
           /\ keys' \in SUBSET Builds
           /\ timers' \in [Builds -> Timers]
  <1>1. poll[w].build \in Builds
    BY DEF Typed, PollsKnown
  <1>2. PICK o \in Outcomes :
            /\ Persist(poll[w].build, guard, newRow, o)
            /\ IF Acknowledged(guard, o) THEN Goto(w, next) /\ UNCHANGED retries
               ELSE GiveUpWithRetry(w)
    BY DEF PollPersists
  <1>3. row' \in [Builds -> Row] /\ faults' \in Nat
    BY <1>1, <1>2, PersistTyped DEF Typed
  <1>4. CASE Acknowledged(guard, o)
    BY <1>2, <1>3, <1>4, GotoTyped DEF retries, Typed, TypeOK
  <1>5. CASE ~Acknowledged(guard, o)
    BY <1>2, <1>3, <1>5, GiveUpTyped
  <1> QED
    BY <1>4, <1>5

\* So does a read of the row.
LEMMA PollReadsTyped ==
    ASSUME Typed, NEW w \in Workers, poll[w].pc # "idle", NEW next \in PollPC,
           poll[w].pc \notin Unready \/ next \in Unready,
           PollReads(w, next)
    PROVE  faults' \in Nat /\ poll' \in [Workers -> Poll] /\ PollsKnown'
  <1>1. faults' \in Nat
    BY DEF PollReads, Fault, Healthy, Typed, TypeOK
  <1>2. Goto(w, next) \/ Goto(w, "release")
    BY DEF PollReads
  <1> QED
    BY <1>1, <1>2, GotoTyped DEF PollPC, Unready

\* The steps of a poll keep the types.
LEMMA PollTyped ==
    ASSUME Typed, NEW w \in Workers, PollStep(w) \/ DeadlinePasses(w)
    PROVE  Typed'
  <1> DEFINE p == poll[w]
             r == row[p.build]
             Moved == poll' \in [Workers -> Poll] /\ PollsKnown'
             Retried == keys' \in SUBSET Builds /\ timers' \in [Builds -> Timers]
             Spent == faults' \in Nat
  <1>1. /\ p \in Poll
        /\ p.pc # "idle" => p.build \in Builds /\ r \in Row
        /\ p.pc \notin Unready => p.run \in Runs
    BY DEF Typed, TypeOK, PollsKnown
  <1>2. ASSUME p.pc # "idle", NEW q \in Poll, q.build = p.build,
               q.pc \notin Unready => q.run \in Runs,
               poll' = [poll EXCEPT ![w] = q]
        PROVE  Moved
    BY <1>2, PollMoveTyped
  <1>3. ASSUME p.pc # "idle", NEW pc \in PollPC,
               p.pc \notin Unready \/ pc \in Unready, Goto(w, pc)
        PROVE  Moved
    BY <1>3, GotoTyped
  <1>4. ASSUME p.pc # "idle", GiveUpWithRetry(w) PROVE Moved /\ Retried
    BY <1>4, GiveUpTyped
  <1>5. Fault \/ Healthy => Spent
    BY DEF Fault, Healthy, Typed, TypeOK
  <1>6. ASSUME p.pc \notin Unready, Continue(w) PROVE Moved
    <2> DEFINE q == [p EXCEPT !.pc = "loop", !.got = None, !.res = "unused"]
    <2>1. poll' = [poll EXCEPT ![w] = q]
      BY <1>6 DEF Continue
    <2>2. q \in Poll /\ q.build = p.build /\ q.run = p.run
      BY <1>1, <1>6 DEF Poll, PollPC, ArtId, RunState
    <2> HIDE DEF q
    <2> QED
      BY <1>1, <1>2, <1>6, <2>1, <2>2 DEF Unready
  <1> HIDE DEF Moved, Retried, Spent
  <1>7. CASE PollStarts(w)
    <2> DEFINE q == [p EXCEPT
                !.pc = IF ~Present(r) THEN "release"
                       ELSE IF ~Complete(r) \/ r.run # p.run THEN "fail"
                       ELSE "refresh",
                !.stored = r.art,
                !.sha = r.sha]
    <2>1. /\ q \in Poll
          /\ q.build = p.build
          /\ q.pc \notin Unready => q.run \in Runs
      BY <1>1, <1>7 DEF PollStarts, Poll, PollPC, Row, Complete, Unready, RunId
    <2>2. /\ p.pc # "idle"
          /\ \/ Fault /\ Goto(w, "release")
             \/ Healthy /\ poll' = [poll EXCEPT ![w] = q]
      BY <1>7 DEF PollStarts
    <2> HIDE DEF q
    <2>3. Moved /\ Spent
      BY <1>2, <1>3, <1>5, <2>1, <2>2 DEF PollPC, Unready
    <2> QED
      BY <1>7, <2>3 DEF PollStarts, Moved, Spent, Typed, TypeOK, disk, handlers,
                        retries, process, provider
  <1>8. CASE DeadlinePasses(w)
    <2> DEFINE q == [p EXCEPT !.late = TRUE]
    <2>1. /\ q \in Poll
          /\ q.build = p.build
          /\ q.pc \notin Unready => q.run \in Runs
      BY <1>1 DEF Poll
    <2>2. p.pc # "idle" /\ poll' = [poll EXCEPT ![w] = q]
      BY <1>8 DEF DeadlinePasses
    <2> HIDE DEF q
    <2>3. Moved
      BY <1>2, <2>1, <2>2
    <2> QED
      BY <1>8, <2>3 DEF DeadlinePasses, Moved, Typed, TypeOK, disk, handlers,
                        retries, process, provider
  <1>9. CASE PollLoops(w)
    <2>1. p.pc \notin Unready /\ \E pc \in PollPC : Goto(w, pc)
      BY <1>9 DEF PollLoops, PollPC, Unready
    <2>2. Moved
      BY <1>3, <2>1 DEF Unready
    <2> QED
      BY <1>9, <2>2 DEF PollLoops, Moved, Typed, TypeOK, disk, handlers,
                        retries, process, provider
  <1>10. CASE PollRefreshes(w)
    <2>1. p.pc \notin Unready /\ \E pc \in PollPC : PollReads(w, pc)
      BY <1>10 DEF PollRefreshes, PollPC, Unready
    <2>2. Moved /\ Spent
      BY <2>1, PollReadsTyped DEF Moved, Spent, Unready
    <2> QED
      BY <1>10, <2>2 DEF PollRefreshes, Moved, Spent, Typed, TypeOK, disk,
                         handlers, retries, process, provider
  <1>11. CASE PollRecovers(w)
    <2> DEFINE q == [p EXCEPT
                !.pc = IF ~Polled(r, p.run) THEN "config"
                       ELSE IF CompletionProven(r, p.run, r.art, out[p.build])
                       THEN "complete" ELSE "failActive",
                !.got = r.art]
    <2>1. /\ q \in Poll
          /\ q.build = p.build
          /\ q.pc \notin Unready => q.run \in Runs
      BY <1>1, <1>11 DEF PollRecovers, Poll, PollPC, Row, Unready
    <2>2. /\ p.pc \notin Unready
          /\ \/ Fault /\ Goto(w, "failActive")
             \/ Healthy /\ poll' = [poll EXCEPT ![w] = q]
      BY <1>11 DEF PollRecovers, Unready
    <2> HIDE DEF q
    <2>3. Moved /\ Spent
      BY <1>2, <1>3, <1>5, <2>1, <2>2 DEF PollPC, Unready
    <2> QED
      BY <1>11, <2>3 DEF PollRecovers, Moved, Spent, Typed, TypeOK, disk,
                         handlers, retries, process, provider
  <1>12. CASE PollLoadsConfig(w)
    <2>1. p.pc \notin Unready /\ \E pc \in PollPC : Goto(w, pc)
      BY <1>12 DEF PollLoadsConfig, PollPC, Unready
    <2>2. Moved
      BY <1>3, <2>1 DEF Unready
    <2> QED
      BY <1>12, <2>2 DEF PollLoadsConfig, Moved, Typed, TypeOK, disk, handlers,
                         retries, process, provider
  <1>13. CASE PollReadsStatus(w)
    <2> DEFINE q == [p EXCEPT !.pc = IF p.sha THEN AfterStatus(runState[p.run])
                                     ELSE "sha",
                              !.res = runState[p.run]]
    <2>1. p.pc \notin Unready
      BY <1>13 DEF PollReadsStatus, Unready
    <2>2. q \in Poll /\ q.build = p.build /\ q.run = p.run
      BY <1>1, <2>1 DEF Poll, PollPC, AfterStatus, Typed, TypeOK
    <2>3. \/ Continue(w)
          \/ Goto(w, "failActive")
          \/ Goto(w, "fail")
          \/ poll' = [poll EXCEPT ![w] = q]
      BY <1>13 DEF PollReadsStatus
    <2> HIDE DEF q
    <2>4. Moved
      BY <1>1, <1>2, <1>3, <1>6, <2>1, <2>2, <2>3 DEF PollPC, Unready
    <2> QED
      BY <1>13, <2>4 DEF PollReadsStatus, Moved, Typed, TypeOK, disk, handlers,
                         retries, process, provider
  <1>14. CASE PollSetsSourceSha(w)
    <2> DEFINE q == [p EXCEPT !.pc = AfterStatus(p.res), !.sha = TRUE]
               guard == CanSetSourceSha(r, p.run)
    <2>1. p.pc \notin Unready /\ p.pc # "idle"
      BY <1>14 DEF PollSetsSourceSha, Unready
    <2>2. q \in Poll /\ q.build = p.build /\ q.run = p.run
      BY <1>1 DEF Poll, PollPC, AfterStatus
    <2>3. WithSourceSha(r) \in Row
      BY <1>1, <2>1, RowUpdatesTyped
    <2>4. PICK o \in Outcomes :
            /\ Persist(p.build, guard, WithSourceSha(r), o)
            /\ \/ poll' = [poll EXCEPT ![w] = q] /\ UNCHANGED retries
               \/ GiveUpWithRetry(w)
      BY <1>14 DEF PollSetsSourceSha
    <2> HIDE DEF q, guard
    <2>5. row' \in [Builds -> Row] /\ Spent
      BY <1>1, <2>1, <2>3, <2>4, PersistTyped DEF Spent, Typed
    <2>6. Moved
      BY <1>1, <1>2, <1>4, <2>1, <2>2, <2>4
    <2>7. Retried
      BY <1>4, <2>1, <2>4 DEF Retried, retries, Typed, TypeOK
    <2> QED
      BY <1>14, <2>5, <2>6, <2>7 DEF PollSetsSourceSha, Moved, Spent, Retried,
         Typed, TypeOK, disk, handlers, process, provider
  <1>15. CASE PollConcludes(w)
    <2>1. p.pc \notin Unready /\ \E pc \in PollPC : PollReads(w, pc)
      BY <1>15 DEF PollConcludes, PollPC, Unready
    <2>2. Moved /\ Spent
      BY <2>1, PollReadsTyped DEF Moved, Spent, Unready
    <2> QED
      BY <1>15, <2>2 DEF PollConcludes, Moved, Spent, Typed, TypeOK, disk, handlers,
                         retries, process, provider
  <1>16. CASE PollSetsDownloading(w)
    <2>1. p.pc \notin Unready
      BY <1>16 DEF PollSetsDownloading, Unready
    <2>2. WithStatus(r, "downloading") \in Row
      BY <1>1, <2>1, RowUpdatesTyped DEF Status, ActiveStatus, Unready
    <2>3. \E guard, next : /\ next \in {"download"}
                           /\ PollPersists(w, guard, WithStatus(r, "downloading"), next)
      BY <1>16 DEF PollSetsDownloading
    <2>4. Moved /\ Spent /\ Retried /\ row' \in [Builds -> Row]
      BY <2>1, <2>2, <2>3, PollPersistsTyped
      DEF Moved, Spent, Retried, PollPC, Unready
    <2> QED
      BY <1>16, <2>4 DEF PollSetsDownloading, Moved, Spent, Retried, Typed, TypeOK, disk, handlers,
                         retries, process, provider
  <1>17. CASE PollDownloads(w)
    <2>1. p.pc \notin Unready /\ p.pc # "idle"
      BY <1>17 DEF PollDownloads, Unready
    <2>2. ASSUME NEW a \in Selectable(p.run, p.stored),
                 poll' = [poll EXCEPT ![w].pc = "extracting", ![w].got = a]
          PROVE  Moved
      <3> DEFINE q == [p EXCEPT !.pc = "extracting", !.got = a]
      <3>1. a \in Artifacts
        BY <2>2 DEF Selectable, Typed, TypeOK
      <3>2. q \in Poll /\ q.build = p.build /\ q.run = p.run
        BY <1>1, <3>1 DEF Poll, PollPC, ArtId
      <3>3. poll' = [poll EXCEPT ![w] = q]
        BY <2>2
      <3> HIDE DEF q
      <3> QED
        BY <1>1, <1>2, <2>1, <3>2, <3>3
    <2>3. Moved
      BY <1>3, <1>6, <1>17, <2>1, <2>2 DEF PollDownloads, PollPC, Unready
    <2> QED
      BY <1>17, <2>3 DEF PollDownloads, Moved, Typed, TypeOK, disk, handlers,
                         retries, process, provider
  <1>18. CASE PollSetsExtracting(w)
    <2>1. p.pc \notin Unready
      BY <1>18 DEF PollSetsExtracting, Unready
    <2>2. WithStatus(r, "extracting") \in Row
      BY <1>1, <2>1, RowUpdatesTyped DEF Status, ActiveStatus, Unready
    <2>3. \E guard, next : /\ next \in {"artifact", "fail", "reread"}
                           /\ PollPersists(w, guard, WithStatus(r, "extracting"), next)
      BY <1>18 DEF PollSetsExtracting
    <2>4. Moved /\ Spent /\ Retried /\ row' \in [Builds -> Row]
      BY <2>1, <2>2, <2>3, PollPersistsTyped
      DEF Moved, Spent, Retried, PollPC, Unready
    <2> QED
      BY <1>18, <2>4 DEF PollSetsExtracting, Moved, Spent, Retried, Typed, TypeOK, disk, handlers,
                         retries, process, provider
  <1>19. CASE PollSetsArtifactID(w)
    <2> DEFINE guard == CanSetArtifactID(r, p.run)
    <2>1. p.pc \notin Unready /\ p.pc # "idle"
      BY <1>19 DEF PollSetsArtifactID, Unready
    <2>2. WithArtifactID(r, p.got) \in Row
      BY <1>1, <2>1 DEF WithArtifactID, Row, Poll
    <2>3. PICK o \in Outcomes :
            /\ Persist(p.build, guard, WithArtifactID(r, p.got), o)
            /\ \/ Goto(w, "reread") /\ UNCHANGED retries
               \/ Goto(w, "rereadArtifact") /\ ScheduleRetry(p.build)
      BY <1>19 DEF PollSetsArtifactID
    <2> HIDE DEF guard
    <2>4. row' \in [Builds -> Row] /\ Spent
      BY <1>1, <2>1, <2>2, <2>3, PersistTyped DEF Spent, Typed
    <2>5. Moved
      BY <1>3, <2>1, <2>3 DEF PollPC
    <2>6. Retried
      BY <1>1, <2>1, <2>3, GuardsTyped DEF Retried, retries, Typed, TypeOK
    <2> QED
      BY <1>19, <2>4, <2>5, <2>6 DEF PollSetsArtifactID, Moved, Spent, Retried,
         Typed, TypeOK, disk, handlers, process, provider
  <1>20. CASE PollRereadsArtifactID(w)
    <2>1. p.pc \notin Unready /\ \E pc \in PollPC : PollReads(w, pc)
      BY <1>20 DEF PollRereadsArtifactID, PollPC, Unready
    <2>2. Moved /\ Spent
      BY <2>1, PollReadsTyped DEF Moved, Spent, Unready
    <2> QED
      BY <1>20, <2>2 DEF PollRereadsArtifactID, Moved, Spent, Typed, TypeOK, disk, handlers,
                         retries, process, provider
  <1>21. CASE PollRereads(w)
    <2> DEFINE q == [p EXCEPT !.pc = IF Polled(r, p.run) THEN "publish"
                                     ELSE "release",
                              !.proof = r.pub]
    <2>1. p.pc \notin Unready /\ p.pc # "idle"
      BY <1>21 DEF PollRereads, Unready
    <2>2. q \in Poll /\ q.build = p.build /\ q.run = p.run
      BY <1>1, <2>1 DEF Poll, PollPC, Row
    <2>3. \/ Fault /\ Goto(w, "release")
          \/ Healthy /\ poll' = [poll EXCEPT ![w] = q]
      BY <1>21 DEF PollRereads
    <2> HIDE DEF q
    <2>4. Moved /\ Spent
      BY <1>1, <1>2, <1>3, <1>5, <2>1, <2>2, <2>3 DEF PollPC
    <2> QED
      BY <1>21, <2>4 DEF PollRereads, Moved, Spent, Typed, TypeOK, disk,
                         handlers, retries, process, provider
  <1>22. CASE PollPublishes(w)
    <2> DEFINE q == [p EXCEPT !.pc = "swap", !.backup = out[p.build]]
    <2>1. p.pc \notin Unready /\ p.pc # "idle"
      BY <1>22 DEF PollPublishes, Unready
    <2>2. q \in Poll /\ q.build = p.build /\ q.run = p.run
      BY <1>1, <2>1 DEF Poll, PollPC, Typed, TypeOK
    <2>3. \/ \E pc \in {"fail", "record"} : Goto(w, pc)
          \/ poll' = [poll EXCEPT ![w] = q]
      BY <1>22 DEF PollPublishes
    <2> HIDE DEF q
    <2>4. Moved
      BY <1>1, <1>2, <1>3, <2>1, <2>2, <2>3 DEF PollPC
    <2>5. Spent
      BY <1>5, <1>22 DEF PollPublishes
    <2>6. out' \in [Builds -> Files]
      BY <1>1, <1>22 DEF PollPublishes, Typed, TypeOK, Poll, ArtId, Files
    <2> QED
      BY <1>22, <2>4, <2>5, <2>6 DEF PollPublishes, Moved, Spent, Typed, TypeOK,
                                     handlers, retries, process, provider
  <1>23. CASE PollSwapsOutput(w)
    <2> DEFINE q(pc) == [p EXCEPT !.pc = pc, !.backup = None]
    <2>1. p.pc \notin Unready /\ p.pc # "idle"
      BY <1>23 DEF PollSwapsOutput, Unready
    <2>2. ASSUME NEW pc \in PollPC
          PROVE  q(pc) \in Poll /\ q(pc).build = p.build /\ q(pc).run = p.run
      BY <1>1 DEF Poll, Files
    <2>3. \E pc \in {"fail", "record"} : poll' = [poll EXCEPT ![w] = q(pc)]
      BY <1>23 DEF PollSwapsOutput
    <2> HIDE DEF q
    <2>4. Moved
      BY <1>1, <1>2, <2>1, <2>2, <2>3 DEF PollPC
    <2>5. Spent
      BY <1>5, <1>23 DEF PollSwapsOutput
    <2>6. p.got \in Files /\ p.backup \in Files /\ None \in Files
      BY <1>1 DEF Poll, ArtId, Files
    <2>7. out' \in [Builds -> Files]
      BY <1>23, <2>6 DEF PollSwapsOutput, Typed, TypeOK
    <2> QED
      BY <1>23, <2>4, <2>5, <2>7 DEF PollSwapsOutput, Moved, Spent, Typed, TypeOK,
                                     handlers, retries, process, provider
  <1>24. CASE PollRecordsOutput(w)
    <2> DEFINE dig == PublishedDigest(r, out[p.build])
               q == [p EXCEPT !.pc = IF r.pub THEN "complete" ELSE "mark",
                              !.dig = dig]
    <2>1. p.pc \notin Unready /\ p.pc # "idle"
      BY <1>24 DEF PollRecordsOutput, Unready
    <2>2. dig \in Digest
      BY <1>1, <2>1 DEF PublishedDigest, Digest, Row, Typed, TypeOK
    <2>3. q \in Poll /\ q.build = p.build /\ q.run = p.run
      BY <1>1, <2>2 DEF Poll, PollPC
    <2>4. /\ Fault \/ Healthy
          /\ \/ GiveUpWithRetry(w)
             \/ poll' = [poll EXCEPT ![w] = q] /\ UNCHANGED retries
      BY <1>24 DEF PollRecordsOutput
    <2> HIDE DEF q, dig
    <2>5. Moved /\ Spent
      BY <1>1, <1>2, <1>4, <1>5, <2>1, <2>3, <2>4
    <2>6. Retried
      BY <1>4, <2>1, <2>4 DEF Retried, retries, Typed, TypeOK
    <2> QED
      BY <1>24, <2>5, <2>6 DEF PollRecordsOutput, Moved, Spent, Retried, Typed,
                               TypeOK, disk, handlers, process, provider
  <1>25. CASE PollMarksPublished(w)
    <2> DEFINE guard == CanMarkPublished(r, p.run, p.got)
    <2>1. p.pc \notin Unready /\ p.pc # "idle"
      BY <1>25 DEF PollMarksPublished, Unready
    <2>2. WithPublication(r, p.got, p.dig) \in Row
      BY <1>1, <2>1, RowUpdatesTyped DEF Poll
    <2>3. PICK o \in Outcomes :
            /\ Persist(p.build, guard, WithPublication(r, p.got, p.dig), o)
            /\ \/ Goto(w, "complete") /\ UNCHANGED retries
               \/ GiveUpWithRetry(w)
      BY <1>25 DEF PollMarksPublished
    <2> HIDE DEF guard
    <2>4. row' \in [Builds -> Row] /\ Spent
      BY <1>1, <2>1, <2>2, <2>3, PersistTyped DEF Spent, Typed
    <2>5. Moved
      BY <1>3, <1>4, <2>1, <2>3 DEF PollPC
    <2>6. Retried
      BY <1>4, <2>1, <2>3 DEF Retried, retries, Typed, TypeOK
    <2> QED
      BY <1>25, <2>4, <2>5, <2>6 DEF PollMarksPublished, Moved, Spent, Retried,
         Typed, TypeOK, disk, handlers, process, provider
  <1>26. CASE PollProvesCompletion(w)
    <2>1. p.pc \notin Unready /\ p.pc # "idle"
      BY <1>26 DEF PollProvesCompletion, Unready
    <2>2. /\ Fault \/ Healthy
          /\ \/ GiveUpWithRetry(w)
             \/ Goto(w, "finish") /\ UNCHANGED retries
      BY <1>26 DEF PollProvesCompletion
    <2>3. Moved /\ Spent
      BY <1>3, <1>4, <1>5, <2>1, <2>2 DEF PollPC
    <2>4. Retried
      BY <1>4, <2>1, <2>2 DEF Retried, retries, Typed, TypeOK
    <2> QED
      BY <1>26, <2>3, <2>4 DEF PollProvesCompletion, Moved, Spent, Retried, Typed,
                               TypeOK, disk, handlers, process, provider
  <1>27. CASE PollCompletes(w)
    <2>1. p.pc \notin Unready
      BY <1>27 DEF PollCompletes, Unready
    <2>2. WithStatus(r, "done") \in Row
      BY <1>1, <2>1, RowUpdatesTyped DEF Status, ActiveStatus, Unready
    <2>3. \E guard, next : /\ next \in {"release"}
                           /\ PollPersists(w, guard, WithStatus(r, "done"), next)
      BY <1>27 DEF PollCompletes
    <2>4. Moved /\ Spent /\ Retried /\ row' \in [Builds -> Row]
      BY <2>1, <2>2, <2>3, PollPersistsTyped
      DEF Moved, Spent, Retried, PollPC, Unready
    <2> QED
      BY <1>27, <2>4 DEF PollCompletes, Moved, Spent, Retried, Typed, TypeOK, disk, handlers,
                         retries, process, provider
  <1>28. CASE PollFails(w)
    <2>1. p.pc # "idle"
      BY <1>28 DEF PollFails
    <2>2. WithStatus(r, "failed") \in Row
      BY <1>1, <2>1, RowUpdatesTyped DEF Status, ActiveStatus
    <2>3. \E guard, next : /\ next \in {"release"}
                           /\ PollPersists(w, guard, WithStatus(r, "failed"), next)
      BY <1>28 DEF PollFails
    <2>4. Moved /\ Spent /\ Retried /\ row' \in [Builds -> Row]
      BY <2>1, <2>2, <2>3, PollPersistsTyped
      DEF Moved, Spent, Retried, PollPC, Unready
    <2> QED
      BY <1>28, <2>4 DEF PollFails, Moved, Spent, Retried, Typed, TypeOK, disk, handlers,
                         retries, process, provider
  <1>29. CASE PollFailsActive(w)
    <2>1. p.pc \notin Unready /\ \E pc \in PollPC : PollReads(w, pc)
      BY <1>29 DEF PollFailsActive, PollPC, Unready
    <2>2. Moved /\ Spent
      BY <2>1, PollReadsTyped DEF Moved, Spent, Unready
    <2> QED
      BY <1>29, <2>2 DEF PollFailsActive, Moved, Spent, Typed, TypeOK, disk, handlers,
                         retries, process, provider
  <1>30. CASE PollReleases(w)
    <2>1. p.build \in Builds
      BY <1>1, <1>30 DEF PollReleases
    <2>2. NoDigest \in Digest
      BY DEF NoDigest, Digest, RunId, ArtId, Files
    <2>3. IdlePoll \in Poll
      BY <2>2 DEF IdlePoll, Poll, PollPC, RunId, ArtId, RunState, Files
    <2>4. Moved
      BY <1>30, <2>3 DEF PollReleases, Moved, Typed, TypeOK, PollsKnown, IdlePoll,
                         Unready
    <2> QED
      BY <1>30, <2>1, <2>4, GuardsTyped DEF PollReleases, Moved, Typed, TypeOK,
                                       disk, handlers, process, provider
  <1> QED
    BY <1>7, <1>8, <1>9, <1>10, <1>11, <1>12, <1>13, <1>14, <1>15, <1>16, <1>17,
       <1>18, <1>19, <1>20, <1>21, <1>22, <1>23, <1>24, <1>25, <1>26, <1>27,
       <1>28, <1>29, <1>30
    DEF PollStep

\* Typed is inductive.
LEMMA NextTyped == Typed /\ [Next]_vars => Typed'
  <1> SUFFICES ASSUME Typed, [Next]_vars PROVE Typed'
    OBVIOUS
  <1>1. CASE Next
    BY <1>1, BootTyped, CreateTyped, DeleteTyped, TimerTyped, PollTyped,
       EnvironmentTyped DEF Next
  <1>2. CASE UNCHANGED vars
    BY <1>2 DEF Typed, TypeOK, PollsKnown, vars
  <1> QED
    BY <1>1, <1>2

\* Every state the program reaches has the declared types, whatever fails and
\* however often the process restarts.
THEOREM TypeCorrect == Spec => []TypeOK
  <1>1. Typed => TypeOK
    BY DEF Typed
  <1> QED
    BY <1>1, InitTyped, NextTyped, PTL DEF Spec

=============================================================================
