-------------------------- MODULE BuildSafetyProofs --------------------------
(***************************************************************************)
(* Mutual exclusion, proven completion and the output directories of       *)
(* BuildLifecycle, for any number of builds, workers, runs, artifacts,     *)
(* failures and restarts.                                                  *)
(***************************************************************************)
EXTENDS BuildTypeProofs

\* Where a poll is once the head SHA of its run has been verified, once it
\* holds an archive, and once the archive passed validation.
Verified  == {"final", "downloading", "download", "extracting", "artifact",
              "rereadArtifact", "reread", "publish", "swap", "record", "mark"}
Fetched   == {"extracting", "artifact", "rereadArtifact", "reread", "publish",
              "swap", "record", "mark"}
Validated == {"swap", "record", "mark"}

\* What a row is, whatever has happened to it.
RowSound(r) ==
    /\ r.st = "none" => r = NoRow
    /\ r.art # None => ArtifactRun[r.art] = r.run
    /\ r.pub => PublicationSound(r)
    /\ r.st = "done" => r.pub

\* What the locals p of a poll say about the row r of its build.
PollSound(p, r) ==
    /\ p.sha => r.sha
    /\ p.pc \in Verified => p.sha
    /\ p.pc \in Fetched => p.got # None /\ ArtifactRun[p.got] = p.run
    /\ p.pc \in Validated => p.got \in ValidArtifacts
    /\ p.pc = "mark" =>
        /\ p.dig = [run |-> p.run, art |-> p.got, files |-> p.got]
        /\ p.run # None
        /\ r.prov

RowsSound  == \A b \in Builds : RowSound(row[b])
PollsSound ==
    \A w \in Workers :
        poll[w].pc # "idle" => PollSound(poll[w], row[poll[w].build])

\* The inductive invariant.
Inv == Typed /\ RowsSound /\ PollsSound

\* What an update never takes away from a row.
Grows(r, n) == (r.sha => n.sha) /\ (r.prov => n.prov)

\* Each update of the service keeps a sound row sound, under its guard.
LEMMA RowUpdatesSound ==
    ASSUME NEW r \in Row, RowSound(r)
    PROVE  /\ RowSound(NewRow)
           /\ \A st \in Status \ {"none", "done"} :
                RowSound(WithStatus(r, st)) /\ Grows(r, WithStatus(r, st))
           /\ r.pub => RowSound(WithStatus(r, "done")) /\ Grows(r, WithStatus(r, "done"))
           /\ \A run \in RunId : CanSetProvenance(r) =>
                RowSound(WithProvenance(r, run)) /\ Grows(r, WithProvenance(r, run))
           /\ r.st # "none" => RowSound(WithSourceSha(r)) /\ Grows(r, WithSourceSha(r))
           /\ \A a \in Artifacts :
                r.st # "none" /\ r.art = None /\ r.run = ArtifactRun[a] =>
                    RowSound(WithArtifactID(r, a)) /\ Grows(r, WithArtifactID(r, a))
           /\ \A a \in ValidArtifacts, dig \in Digest :
                /\ r.st # "none" /\ r.art = a /\ Complete(r) /\ r.sha
                /\ dig = PublishedDigest(r, a)
                => RowSound(WithPublication(r, a, dig)) /\ Grows(r, WithPublication(r, a, dig))
  <1> USE RowAssumption DEF RowSound, PublicationSound, Complete, PublishedDigest, Grows
  <1>1. RowSound(NewRow)
    BY DEF NewRow, NoRow
  <1>2. ASSUME NEW st \in Status \ {"none", "done"}
        PROVE  RowSound(WithStatus(r, st)) /\ Grows(r, WithStatus(r, st))
    BY DEF WithStatus, Row
  <1>3. ASSUME r.pub PROVE RowSound(WithStatus(r, "done")) /\ Grows(r, WithStatus(r, "done"))
    BY <1>3 DEF WithStatus, Row
  <1>4. ASSUME NEW run \in RunId, CanSetProvenance(r)
        PROVE RowSound(WithProvenance(r, run)) /\ Grows(r, WithProvenance(r, run))
    BY <1>4 DEF WithProvenance, CanSetProvenance, Row
  <1>5. ASSUME r.st # "none" PROVE RowSound(WithSourceSha(r)) /\ Grows(r, WithSourceSha(r))
    BY <1>5 DEF WithSourceSha, Row
  <1>6. ASSUME NEW a \in Artifacts, r.st # "none", r.art = None, r.run = ArtifactRun[a]
        PROVE  RowSound(WithArtifactID(r, a)) /\ Grows(r, WithArtifactID(r, a))
    BY <1>6 DEF WithArtifactID, Row
  <1>7. ASSUME NEW a \in ValidArtifacts, NEW dig \in Digest, r.st # "none", r.art = a,
               Complete(r), r.sha, dig = PublishedDigest(r, a)
        PROVE  RowSound(WithPublication(r, a, dig)) /\ Grows(r, WithPublication(r, a, dig))
    BY <1>7 DEF WithPublication, Row
  <1> QED
    BY <1>1, <1>2, <1>3, <1>4, <1>5, <1>6, <1>7

\* A guarded update that is sound under its guard keeps every row sound.
LEMMA PersistSound ==
    ASSUME Typed, RowsSound, NEW b \in Builds, NEW guard, NEW newRow, NEW o,
           Persist(b, guard, newRow, o),
           guard => RowSound(newRow) /\ Grows(row[b], newRow)
    PROVE  RowsSound' /\ \A c \in Builds : Grows(row[c], row'[c])
  BY DEF Persist, RowsSound, Grows, Typed, TypeOK

\* A step of worker w keeps the polls sound if its own locals are.
LEMMA PollsSoundStep ==
    ASSUME Typed, PollsSound, NEW w \in Workers, poll[w].pc # "idle", NEW q,
           q.build = poll[w].build, poll' = [poll EXCEPT ![w] = q],
           \A c \in Builds : Grows(row[c], row'[c]),
           PollSound(q, row'[q.build])
    PROVE  PollsSound'
  BY DEF Typed, TypeOK, PollsKnown, PollsSound, PollSound, Grows

\* So does one that only moves to a place before the head SHA is verified.
LEMMA GotoSound ==
    ASSUME Typed, PollsSound, NEW w \in Workers, poll[w].pc # "idle",
           NEW pc \in PollPC \ Verified, Goto(w, pc),
           \A c \in Builds : Grows(row[c], row'[c])
    PROVE  PollsSound'
  <1> DEFINE q == [poll[w] EXCEPT !.pc = pc]
  <1>1. poll[w] \in Poll /\ poll[w].build \in Builds
    BY DEF Typed, TypeOK, PollsKnown
  <1>2. poll' = [poll EXCEPT ![w] = q] /\ q.build = poll[w].build
    BY <1>1 DEF Goto, Poll
  <1>3. q.pc = pc /\ q.sha = poll[w].sha
    BY <1>1 DEF Poll
  <1>4. PollSound(q, row'[q.build])
    <2>1. poll[w].sha => row[poll[w].build].sha
      BY DEF PollsSound, PollSound
    <2> HIDE DEF q
    <2> QED
      BY <1>1, <1>2, <1>3, <2>1
      DEF PollSound, Grows, Verified, Fetched, Validated
  <1> HIDE DEF q
  <1> QED
    BY <1>2, <1>4, PollsSoundStep

\* So does a poll that schedules a retry and returns.
LEMMA GiveUpSound ==
    ASSUME Typed, PollsSound, NEW w \in Workers, poll[w].pc # "idle",
           GiveUpWithRetry(w), \A c \in Builds : Grows(row[c], row'[c])
    PROVE  PollsSound'
  BY GotoSound DEF GiveUpWithRetry, PollPC, Verified

\* A step that does not write the table keeps every row sound.
LEMMA UnchangedSound ==
    ASSUME RowsSound, UNCHANGED row
    PROVE  RowsSound' /\ \A c \in Builds : Grows(row[c], row'[c])
  BY DEF RowsSound, Grows

\* A new goroutine knows nothing yet, and an ended one nothing any more.
LEMMA StartSound ==
    ASSUME Typed, PollsSound, NEW b \in Builds, NEW run, StartPoll(b, run),
           UNCHANGED row
    PROVE  PollsSound'
  <1>1. CASE owner[b] # None
    BY <1>1 DEF StartPoll, PollsSound
  <1>2. CASE owner[b] = None
    <2> DEFINE q == [IdlePoll EXCEPT !.build = b, !.pc = "start", !.run = run]
    <2>1. PICK w \in Workers : poll' = [poll EXCEPT ![w] = q]
      BY <1>2 DEF StartPoll
    <2>2. q.pc = "start" /\ q.sha = FALSE
      BY DEF IdlePoll
    <2> HIDE DEF q
    <2>3. ASSUME NEW v \in Workers, poll'[v].pc # "idle"
          PROVE  PollSound(poll'[v], row'[poll'[v].build])
      <3>1. CASE v = w
        <4>1. poll'[v] = q
          BY <2>1, <3>1 DEF Typed, TypeOK
        <4> QED
          BY <2>2, <4>1 DEF PollSound, Verified, Fetched, Validated
      <3>2. CASE v # w
        BY <2>1, <2>3, <3>2 DEF PollsSound, Typed, TypeOK
      <3> QED
        BY <3>1, <3>2
    <2> QED
      BY <2>3 DEF PollsSound
  <1> QED
    BY <1>1, <1>2

\* Steps outside the poll goroutines.
LEMMA OthersSound ==
    ASSUME Inv,
           \/ \E b \in Builds : CreateStep(b) \/ DeleteStep(b) \/ TimerStep(b)
           \/ BootStep
           \/ Environment
    PROVE  RowsSound' /\ PollsSound'
  <1> DEFINE Kept == \A c \in Builds : Grows(row[c], row'[c])
  <1>0. Typed /\ RowsSound /\ PollsSound
    BY DEF Inv
  <1>1. ASSUME UNCHANGED poll, RowsSound', Kept PROVE RowsSound' /\ PollsSound'
    BY <1>0, <1>1 DEF PollsSound, PollSound, Grows, Typed, TypeOK, PollsKnown
  <1>2. ASSUME UNCHANGED <<row, poll>> PROVE RowsSound' /\ PollsSound'
    BY <1>0, <1>1, <1>2, UnchangedSound
  <1>3. ASSUME NEW c \in Builds, NEW st \in Status \ {"none", "done"}, NEW guard,
               NEW o, Persist(c, guard, WithStatus(row[c], st), o), UNCHANGED poll
        PROVE  RowsSound' /\ PollsSound'
    <2>1. row[c] \in Row /\ RowSound(row[c])
      BY <1>0 DEF Typed, TypeOK, RowsSound
    <2>2. RowSound(WithStatus(row[c], st)) /\ Grows(row[c], WithStatus(row[c], st))
      BY <1>3, <2>1, RowUpdatesSound
    <2>3. RowsSound' /\ Kept
      BY <1>0, <1>3, <2>2, PersistSound
    <2> QED
      BY <1>1, <1>3, <2>3
  <1>4. ASSUME NEW c \in Builds, NEW run, StartPoll(c, run), UNCHANGED row
        PROVE  RowsSound' /\ PollsSound'
    BY <1>0, <1>4, StartSound, UnchangedSound
  <1> HIDE DEF Kept
  <1> USE DEF disk, handlers, process, provider
  <1>5. ASSUME NEW b \in Builds, TimerStep(b) PROVE RowsSound' /\ PollsSound'
    BY <1>2, <1>4, <1>5 DEF TimerStep, TimerFires, TimerGivesUp, TimerStartsPoll,
                            TimerClearsKey
  <1>6. ASSUME NEW b \in Builds, DeleteStep(b) PROVE RowsSound' /\ PollsSound'
    <2>1. CASE DeleteDeletesRow(b)
      BY <1>3, <2>1 DEF DeleteDeletesRow, Status
    <2>2. CASE ~DeleteDeletesRow(b)
      BY <1>2, <1>6, <2>2
      DEF DeleteStep, DeleteWait, DeleteWork, DeleteBegins, DeleteAcquires,
           DeleteCancelled,
          DeleteRereads, DeleteWritesTombstone, DeleteRemovesDir,
          DeleteRemovesTombstone, DeleteReleases
    <2> QED
      BY <2>1, <2>2
  <1>7. ASSUME NEW b \in Builds, CreateStep(b) PROVE RowsSound' /\ PollsSound'
    <2>0. row[b] \in Row /\ RowSound(row[b]) /\ create[b].run \in RunId
      BY <1>0 DEF Typed, TypeOK, RowsSound
    <2>1. CASE CreateInserts(b)
      <3>1. PICK o \in {"ok", "lost"} : Persist(b, TRUE, NewRow, o)
        BY <2>1 DEF CreateInserts
      <3>2. RowSound(NewRow) /\ Grows(row[b], NewRow)
        BY <2>0, <2>1, RowUpdatesSound DEF CreateInserts, RowSound, NoRow, Grows
      <3>3. RowsSound' /\ Kept
        BY <1>0, <3>1, <3>2, PersistSound DEF Kept
      <3> QED
        BY <1>1, <2>1, <3>3 DEF CreateInserts
    <2>2. CASE CreateDispatchFails(b) \/ CreateDispatches(b)
      BY <1>2, <2>2 DEF CreateDispatchFails, CreateDispatches
    <2>3. CASE CreateSetsProvenance(b)
      <3>1. PICK o \in Outcomes :
              Persist(b, CanSetProvenance(row[b]),
                      WithProvenance(row[b], create[b].run), o)
        BY <2>3 DEF CreateSetsProvenance
      <3>2. RowsSound' /\ Kept
        BY <1>0, <2>0, <3>1, RowUpdatesSound, PersistSound DEF Kept
      <3> QED
        BY <1>1, <2>3, <3>2 DEF CreateSetsProvenance
    <2>4. CASE CreateFailsPending(b)
      BY <1>3, <2>4 DEF CreateFailsPending, Status
    <2>5. CASE CreateStartsPoll(b)
      BY <1>4, <2>5 DEF CreateStartsPoll
    <2> QED
      BY <1>7, <2>1, <2>2, <2>3, <2>4, <2>5 DEF CreateStep
  <1>8. CASE BootStep
    <2>1. ASSUME NEW c \in Builds, BootResumes(c) PROVE RowsSound' /\ PollsSound'
      BY <1>4, <2>1 DEF BootResumes
    <2>2. ASSUME NEW c \in Builds, BootCloses(c) PROVE RowsSound' /\ PollsSound'
      BY <1>3, <2>2 DEF BootCloses, Status
    <2>3. CASE BootQueries \/ BootSweeps \/ BootFinishes
      BY <1>2, <2>3 DEF BootQueries, BootSweeps, BootFinishes
    <2> QED
      BY <1>8, <2>1, <2>2, <2>3 DEF BootStep
  <1>9. CASE Environment
    <2>1. CASE Crash
      BY <1>0, <2>1, UnchangedSound
      DEF Crash, PollsSound, IdlePoll
    <2>2. CASE ~Crash
      BY <1>2, <1>9, <2>2 DEF Environment, TombstoneAges, OutputDamaged,
                              RunChanges, RunFails, ArtifactListingChanges
    <2> QED
      BY <2>1, <2>2
  <1> QED
    BY <1>5, <1>6, <1>7, <1>8, <1>9

\* A step of a poll that leaves the row alone.
LEMMA PollMoveSound ==
    ASSUME Inv, NEW w \in Workers, poll[w].pc # "idle", UNCHANGED row, NEW q,
           q.build = poll[w].build, poll' = [poll EXCEPT ![w] = q],
           PollSound(q, row[poll[w].build])
    PROVE  RowsSound' /\ PollsSound'
  <1>1. RowsSound' /\ \A c \in Builds : Grows(row[c], row'[c])
    BY UnchangedSound DEF Inv
  <1> QED
    BY <1>1, PollsSoundStep DEF Inv

\* A read that leads to a place before the head SHA is verified, or onwards
\* with the same locals.
LEMMA PollReadsSound ==
    ASSUME Inv, NEW w \in Workers, poll[w].pc # "idle", UNCHANGED row,
           NEW next \in PollPC, PollReads(w, next),
           \/ next \notin Verified
           \/ PollSound([poll[w] EXCEPT !.pc = next], row[poll[w].build])
    PROVE  RowsSound' /\ PollsSound'
  <1>0. Typed /\ PollsSound /\ poll[w] \in Poll
    BY DEF Inv, Typed, TypeOK
  <1>1. RowsSound' /\ \A c \in Builds : Grows(row[c], row'[c])
    BY UnchangedSound DEF Inv
  <1>2. "release" \in PollPC \ Verified
    BY DEF PollPC, Verified
  <1>3. CASE Goto(w, "release")
    BY <1>0, <1>1, <1>2, <1>3, GotoSound
  <1>4. CASE Goto(w, next) /\ next \notin Verified
    BY <1>0, <1>1, <1>4, GotoSound
  <1>5. CASE Goto(w, next) /\ next \in Verified
    <2> DEFINE q == [poll[w] EXCEPT !.pc = next]
    <2>1. poll' = [poll EXCEPT ![w] = q] /\ q.build = poll[w].build
      BY <1>0, <1>5 DEF Goto, Poll
    <2>2. PollSound(q, row[poll[w].build])
      BY <1>5
    <2> HIDE DEF q
    <2> QED
      BY <2>1, <2>2, PollMoveSound
  <1> QED
    BY <1>3, <1>4, <1>5 DEF PollReads

\* A guarded update by a poll, likewise.
LEMMA PollPersistsSound ==
    ASSUME Inv, NEW w \in Workers, poll[w].pc # "idle", NEW guard, NEW newRow,
           NEW next \in PollPC, PollPersists(w, guard, newRow, next),
           LET r == row[poll[w].build] IN
           /\ guard => RowSound(newRow) /\ Grows(r, newRow)
           /\ \/ next \notin Verified
              \/ PollSound([poll[w] EXCEPT !.pc = next], r)
    PROVE  RowsSound' /\ PollsSound'
  <1> DEFINE q == [poll[w] EXCEPT !.pc = next]
  <1>0. Typed /\ PollsSound /\ RowsSound /\ poll[w] \in Poll /\ poll[w].build \in Builds
    BY DEF Inv, Typed, TypeOK, PollsKnown
  <1>1. PICK o \in Outcomes :
          /\ Persist(poll[w].build, guard, newRow, o)
          /\ Goto(w, next) \/ GiveUpWithRetry(w)
    BY DEF PollPersists
  <1>2. RowsSound' /\ \A c \in Builds : Grows(row[c], row'[c])
    BY <1>0, <1>1, PersistSound
  <1>3. CASE GiveUpWithRetry(w)
    BY <1>0, <1>2, <1>3, GiveUpSound
  <1>4. CASE Goto(w, next) /\ next \notin Verified
    BY <1>0, <1>2, <1>4, GotoSound
  <1>5. CASE Goto(w, next) /\ next \in Verified
    <2>1. poll' = [poll EXCEPT ![w] = q] /\ q.build = poll[w].build
      BY <1>0, <1>5 DEF Goto, Poll
    <2>2. PollSound(q, row[q.build])
      BY <1>5, <2>1
    <2> HIDE DEF q
    <2>3. PollSound(q, row'[q.build])
      BY <1>0, <1>2, <2>1, <2>2 DEF PollSound, Grows
    <2> QED
      BY <1>0, <1>2, <2>1, <2>3, PollsSoundStep
  <1> QED
    BY <1>1, <1>3, <1>4, <1>5

\* Steps of a poll that read the row or the provider.
LEMMA PollReadingSound ==
    ASSUME Inv, NEW w \in Workers,
           \/ PollStarts(w) \/ PollLoops(w) \/ PollRefreshes(w)
           \/ PollRecovers(w) \/ PollLoadsConfig(w) \/ PollReadsStatus(w)
           \/ PollConcludes(w) \/ PollDownloads(w)
           \/ PollRereadsArtifactID(w) \/ PollRereads(w)
           \/ PollProvesCompletion(w) \/ PollFailsActive(w)
           \/ DeadlinePasses(w)
    PROVE  RowsSound' /\ PollsSound'
  <1> DEFINE p == poll[w]
             r == row[p.build]
             Kept == \A c \in Builds : Grows(row[c], row'[c])
  <1>0. Typed /\ PollsSound /\ RowsSound /\ p \in Poll
    BY DEF Inv, Typed, TypeOK
  <1>1. p.pc # "idle"
    BY DEF PollStarts, PollLoops, PollRefreshes, PollRecovers, PollLoadsConfig,
           PollReadsStatus, PollConcludes, PollDownloads, PollRereadsArtifactID,
           PollRereads, PollProvesCompletion, PollFailsActive, DeadlinePasses
  <1>2. p.build \in Builds /\ r \in Row /\ PollSound(p, r)
    BY <1>0, <1>1 DEF Typed, TypeOK, PollsKnown, PollsSound
  <1>3. UNCHANGED row
    BY DEF PollStarts, PollLoops, PollRefreshes, PollRecovers, PollLoadsConfig,
           PollReadsStatus, PollConcludes, PollDownloads, PollRereadsArtifactID,
           PollRereads, PollProvesCompletion, PollFailsActive, DeadlinePasses
  <1>4. RowsSound' /\ Kept
    BY <1>0, <1>3, UnchangedSound
  <1>5. ASSUME NEW pc \in PollPC \ Verified, Goto(w, pc) PROVE RowsSound' /\ PollsSound'
    BY <1>0, <1>1, <1>4, <1>5, GotoSound
  <1>6. ASSUME NEW pc \in PollPC \ Verified, PollReads(w, pc) PROVE RowsSound' /\ PollsSound'
    BY <1>1, <1>3, <1>6, PollReadsSound
  <1>7. CASE GiveUpWithRetry(w)
    BY <1>0, <1>1, <1>4, <1>7, GiveUpSound
  <1>8. ASSUME NEW q \in Poll, q.build = p.build, poll' = [poll EXCEPT ![w] = q],
               q.sha => r.sha, q.pc \notin Verified
        PROVE  RowsSound' /\ PollsSound'
    <2>1. PollSound(q, r)
      BY <1>8 DEF PollSound, Verified, Fetched, Validated
    <2> QED
      BY <1>1, <1>3, <1>8, <2>1, PollMoveSound
  <1>9. CASE Continue(w)
    <2> DEFINE q == [p EXCEPT !.pc = "loop", !.got = None, !.res = "unused"]
    <2>1. poll' = [poll EXCEPT ![w] = q] /\ q.build = p.build
      BY <1>0, <1>9 DEF Continue, Poll
    <2>2. q \in Poll
      BY <1>0 DEF Poll, PollPC, ArtId, RunState
    <2>3. q.pc = "loop" /\ q.sha = p.sha
      BY <1>0 DEF Poll
    <2> HIDE DEF q
    <2> QED
      BY <1>2, <1>8, <2>1, <2>2, <2>3 DEF PollSound, Verified
  <1> HIDE DEF Kept
  <1>10. CASE PollStarts(w)
    <2>1. CASE Goto(w, "release")
      BY <1>5, <2>1 DEF PollPC, Verified
    <2>2. CASE ~Goto(w, "release")
      <3> DEFINE pc == IF ~Present(r) THEN "release"
                       ELSE IF ~Complete(r) \/ r.run # p.run THEN "fail" ELSE "refresh"
                 q == [p EXCEPT !.pc = pc, !.stored = r.art, !.sha = r.sha]
      <3>0. poll' = [poll EXCEPT ![w].pc = pc, ![w].stored = r.art, ![w].sha = r.sha]
        BY <1>10, <2>2 DEF PollStarts
      <3>2. pc \in PollPC \ Verified
        BY DEF PollPC, Verified
      <3> HIDE DEF pc
      <3>1. poll' = [poll EXCEPT ![w] = q] /\ q.build = p.build
        BY <1>0, <3>0 DEF Poll
      <3>3. r.art \in ArtId /\ r.sha \in BOOLEAN
        BY <1>2 DEF Row
      <3>4. q \in Poll
        BY <1>0, <3>2, <3>3 DEF Poll
      <3>5. q.pc = pc /\ q.sha = r.sha
        BY <1>0 DEF Poll
      <3> HIDE DEF q
      <3> QED
        BY <1>8, <3>1, <3>2, <3>4, <3>5
    <2> QED
      BY <2>1, <2>2
  <1>11. CASE PollLoops(w)
    <2>1. (IF p.late THEN "failActive" ELSE "refresh") \in PollPC \ Verified
      BY DEF PollPC, Verified
    <2> QED
      BY <1>5, <1>11, <2>1 DEF PollLoops
  <1>12. CASE PollRefreshes(w)
    <2>1. (IF ~Polled(r, p.run) THEN "release" ELSE IF r.pub THEN "recover" ELSE "config")
            \in PollPC \ Verified
      BY DEF PollPC, Verified
    <2> QED
      BY <1>6, <1>12, <2>1 DEF PollRefreshes
  <1>13. CASE PollRecovers(w)
    <2>1. CASE Goto(w, "failActive")
      BY <1>5, <2>1 DEF PollPC, Verified
    <2>2. CASE ~Goto(w, "failActive")
      <3> DEFINE pc == IF ~Polled(r, p.run) THEN "config"
                       ELSE IF CompletionProven(r, p.run, r.art, out[p.build])
                       THEN "complete" ELSE "failActive"
                 q == [p EXCEPT !.pc = pc, !.got = r.art]
      <3>1. poll' = [poll EXCEPT ![w] = q] /\ q.build = p.build
        BY <1>0, <1>13, <2>2 DEF PollRecovers, Poll
      <3>2. pc \in PollPC \ Verified
        BY DEF PollPC, Verified
      <3> HIDE DEF pc
      <3>3. r.art \in ArtId
        BY <1>2 DEF Row
      <3>4. q \in Poll
        BY <1>0, <3>2, <3>3 DEF Poll
      <3>5. q.pc = pc /\ q.sha = p.sha
        BY <1>0 DEF Poll
      <3> HIDE DEF q
      <3> QED
        BY <1>2, <1>8, <3>1, <3>2, <3>4, <3>5 DEF PollSound
    <2> QED
      BY <2>1, <2>2
  <1>14. CASE PollLoadsConfig(w)
    <2>1. (IF p.late THEN "failActive" ELSE "status") \in PollPC \ Verified
      BY DEF PollPC, Verified
    <2> QED
      BY <1>5, <1>14, <2>1 DEF PollLoadsConfig
  <1>15. CASE PollReadsStatus(w)
    <2>0. {"failActive", "fail"} \subseteq PollPC \ Verified
      BY DEF PollPC, Verified
    <2>1. CASE Continue(w) \/ Goto(w, "failActive") \/ Goto(w, "fail")
      BY <1>5, <1>9, <2>0, <2>1
    <2>2. CASE ~(Continue(w) \/ Goto(w, "failActive") \/ Goto(w, "fail"))
      <3> DEFINE res == runState[p.run]
                 pc == IF p.sha THEN AfterStatus(res) ELSE "sha"
                 q == [p EXCEPT !.pc = pc, !.res = res]
      <3>1. poll' = [poll EXCEPT ![w] = q] /\ q.build = p.build
        BY <1>0, <1>15, <2>2 DEF PollReadsStatus, Poll
      <3>2. pc \in {"sha", "loop", "final"} /\ (pc = "final" => p.sha)
        BY DEF AfterStatus
      <3> HIDE DEF pc, res
      <3>3. q.pc = pc /\ q.sha = p.sha
        BY <1>0 DEF Poll
      <3> HIDE DEF q
      <3>4. PollSound(q, r)
        BY <1>2, <3>2, <3>3 DEF PollSound, Verified, Fetched, Validated
      <3> QED
        BY <1>1, <1>3, <3>1, <3>4, PollMoveSound
    <2> QED
      BY <2>1, <2>2
  <1>16. CASE PollConcludes(w)
    <2> DEFINE next == IF ~Present(r) THEN "release"
                       ELSE IF p.res = "success" THEN "downloading" ELSE "fail"
               q == [p EXCEPT !.pc = next]
    <2>1. next \in {"release", "downloading", "fail"} /\ PollReads(w, next)
      BY <1>16 DEF PollConcludes
    <2>2. p.pc = "final"
      BY <1>16 DEF PollConcludes
    <2> HIDE DEF next
    <2>3. q.pc = next /\ q.sha = p.sha
      BY <1>0 DEF Poll
    <2> HIDE DEF q
    <2>4. PollSound(q, r)
      BY <1>2, <2>1, <2>2, <2>3 DEF PollSound, Verified, Fetched, Validated
    <2> QED
      BY <1>1, <1>3, <2>1, <2>4, PollReadsSound DEF PollPC, q
  <1>17. CASE PollDownloads(w)
    <2>0. "fail" \in PollPC \ Verified
      BY DEF PollPC, Verified
    <2>1. CASE Continue(w) \/ Goto(w, "fail")
      BY <1>5, <1>9, <2>0, <2>1
    <2>2. CASE ~(Continue(w) \/ Goto(w, "fail"))
      <3>1. PICK a \in Selectable(p.run, p.stored) :
              poll' = [poll EXCEPT ![w].pc = "extracting", ![w].got = a]
        BY <1>17, <2>2 DEF PollDownloads
      <3>2. a # None /\ ArtifactRun[a] = p.run
        BY <1>0, <3>1, RowAssumption DEF Selectable, Typed, TypeOK
      <3>3. p.sha /\ (p.sha => r.sha)
        BY <1>2, <1>17 DEF PollDownloads, PollSound, Verified
      <3> DEFINE q == [p EXCEPT !.pc = "extracting", !.got = a]
      <3>4. poll' = [poll EXCEPT ![w] = q] /\ q.build = p.build
        BY <1>0, <3>1 DEF Poll
      <3>5. q.pc = "extracting" /\ q.sha = p.sha /\ q.got = a /\ q.run = p.run
        BY <1>0 DEF Poll
      <3> HIDE DEF q
      <3>6. PollSound(q, r)
        BY <3>2, <3>3, <3>5 DEF PollSound, Verified, Validated
      <3> QED
        BY <1>1, <1>3, <3>4, <3>6, PollMoveSound
    <2> QED
      BY <2>1, <2>2
  <1>18. CASE PollRereadsArtifactID(w)
    <2> DEFINE next == IF Present(r) /\ Complete(r) /\ r.art = p.got
                       THEN "reread" ELSE "release"
               q == [p EXCEPT !.pc = next]
    <2>1. next \in {"reread", "release"} /\ PollReads(w, next)
      BY <1>18 DEF PollRereadsArtifactID
    <2>2. p.pc = "rereadArtifact"
      BY <1>18 DEF PollRereadsArtifactID
    <2> HIDE DEF next
    <2>3. q.pc = next /\ q.sha = p.sha /\ q.got = p.got /\ q.run = p.run
      BY <1>0 DEF Poll
    <2> HIDE DEF q
    <2>4. PollSound(q, r)
      BY <1>2, <2>1, <2>2, <2>3 DEF PollSound, Verified, Fetched, Validated
    <2> QED
      BY <1>1, <1>3, <2>1, <2>4, PollReadsSound DEF PollPC, q
  <1>19. CASE PollRereads(w)
    <2>1. CASE Goto(w, "release")
      BY <1>5, <2>1 DEF PollPC, Verified
    <2>2. CASE ~Goto(w, "release")
      <3> DEFINE pc == IF Polled(r, p.run) THEN "publish" ELSE "release"
                 q == [p EXCEPT !.pc = pc, !.proof = r.pub]
      <3>1. poll' = [poll EXCEPT ![w] = q] /\ q.build = p.build
        BY <1>0, <1>19, <2>2 DEF PollRereads, Poll
      <3>2. pc \in {"publish", "release"} /\ p.pc = "reread"
        BY <1>19 DEF PollRereads
      <3> HIDE DEF pc
      <3>3. q.pc = pc /\ q.sha = p.sha /\ q.got = p.got /\ q.run = p.run
        BY <1>0 DEF Poll
      <3> HIDE DEF q
      <3>4. PollSound(q, r)
        BY <1>2, <3>2, <3>3 DEF PollSound, Verified, Fetched, Validated
      <3> QED
        BY <1>1, <1>3, <3>1, <3>4, PollMoveSound
    <2> QED
      BY <2>1, <2>2
  <1>20. CASE PollProvesCompletion(w)
    BY <1>5, <1>7, <1>20 DEF PollProvesCompletion, PollPC, Verified
  <1>21. CASE PollFailsActive(w)
    <2>1. (IF Polled(r, p.run) THEN "fail" ELSE "release") \in PollPC \ Verified
      BY DEF PollPC, Verified
    <2> QED
      BY <1>6, <1>21, <2>1 DEF PollFailsActive
  <1>22. CASE DeadlinePasses(w)
    <2> DEFINE q == [p EXCEPT !.late = TRUE]
    <2>1. poll' = [poll EXCEPT ![w] = q] /\ q.build = p.build
      BY <1>0, <1>22 DEF DeadlinePasses, Poll
    <2>2. /\ q.pc = p.pc /\ q.sha = p.sha /\ q.got = p.got /\ q.run = p.run
          /\ q.dig = p.dig
      BY <1>0 DEF Poll
    <2> HIDE DEF q
    <2>3. PollSound(q, r)
      BY <1>2, <2>2 DEF PollSound
    <2> QED
      BY <1>1, <1>3, <2>1, <2>3, PollMoveSound
  <1> QED
    BY <1>10, <1>11, <1>12, <1>13, <1>14, <1>15, <1>16, <1>17, <1>18, <1>19,
       <1>20, <1>21, <1>22

\* Steps of a poll that write the row or the output directory.
LEMMA PollWritingSound ==
    ASSUME Inv, NEW w \in Workers,
           \/ PollSetsSourceSha(w) \/ PollSetsDownloading(w)
           \/ PollSetsExtracting(w) \/ PollSetsArtifactID(w)
           \/ PollPublishes(w) \/ PollSwapsOutput(w) \/ PollRecordsOutput(w)
           \/ PollMarksPublished(w) \/ PollCompletes(w) \/ PollFails(w)
           \/ PollReleases(w)
    PROVE  RowsSound' /\ PollsSound'
  <1> DEFINE p == poll[w]
             r == row[p.build]
             Kept == \A c \in Builds : Grows(row[c], row'[c])
             Moved(q) == poll' = [poll EXCEPT ![w] = q] /\ q.build = p.build
  <1>0. Typed /\ PollsSound /\ RowsSound /\ p \in Poll
    BY DEF Inv, Typed, TypeOK
  <1>1. p.pc # "idle"
    BY DEF PollSetsSourceSha, PollSetsDownloading, PollSetsExtracting,
           PollSetsArtifactID, PollPublishes, PollSwapsOutput, PollRecordsOutput,
           PollMarksPublished, PollCompletes, PollFails, PollReleases
  <1>2. p.build \in Builds /\ r \in Row /\ RowSound(r) /\ PollSound(p, r)
    BY <1>0, <1>1 DEF Typed, TypeOK, PollsKnown, PollsSound, RowsSound
  <1>3. Active(r) => r.st # "none"
    BY DEF Active, ActiveStatus
  <1>4. ASSUME UNCHANGED row, NEW pc \in PollPC \ Verified, Goto(w, pc)
        PROVE  RowsSound' /\ PollsSound'
    BY <1>0, <1>1, <1>4, UnchangedSound, GotoSound
  <1>5. ASSUME UNCHANGED row, GiveUpWithRetry(w) PROVE RowsSound' /\ PollsSound'
    BY <1>0, <1>1, <1>5, UnchangedSound, GiveUpSound
  <1>6. ASSUME RowsSound', Kept, NEW q, Moved(q), PollSound(q, row'[q.build])
        PROVE  RowsSound' /\ PollsSound'
    BY <1>0, <1>1, <1>6, PollsSoundStep
  <1>7. ASSUME RowsSound', Kept, NEW pc \in PollPC, Goto(w, pc), p.sha,
               pc \in Fetched => p.pc \in Fetched, pc \in Validated => p.pc \in Validated,
               pc # "mark"
        PROVE  RowsSound' /\ PollsSound'
    <2> DEFINE q == [p EXCEPT !.pc = pc]
    <2>1. Moved(q)
      BY <1>0, <1>7 DEF Goto, Poll
    <2>2. q.pc = pc /\ q.sha = p.sha /\ q.got = p.got /\ q.run = p.run
      BY <1>0 DEF Poll
    <2> HIDE DEF q
    <2>3. row'[p.build].sha
      BY <1>2, <1>7 DEF PollSound, Grows
    <2>4. PollSound(q, row'[q.build])
      BY <1>2, <1>7, <2>1, <2>2, <2>3 DEF PollSound
    <2> QED
      BY <1>6, <1>7, <2>1, <2>4
  <1>8. ASSUME NEW st \in Status \ {"none", "done"}
        PROVE  RowSound(WithStatus(r, st)) /\ Grows(r, WithStatus(r, st))
    BY <1>2, RowUpdatesSound
  <1>9. CASE PollSetsSourceSha(w)
    <2> DEFINE guard == CanSetSourceSha(r, p.run)
    <2>1. PICK o \in Outcomes :
            /\ Persist(p.build, guard, WithSourceSha(r), o)
            /\ IF Acknowledged(guard, o)
               THEN poll' = [poll EXCEPT ![w].pc = AfterStatus(p.res), ![w].sha = TRUE]
               ELSE GiveUpWithRetry(w)
      BY <1>9 DEF PollSetsSourceSha
    <2>2. guard => RowSound(WithSourceSha(r)) /\ Grows(r, WithSourceSha(r))
      BY <1>2, <1>3, RowUpdatesSound DEF CanSetSourceSha
    <2>3. RowsSound' /\ Kept
      BY <1>0, <1>2, <2>1, <2>2, PersistSound
    <2>4. CASE GiveUpWithRetry(w)
      BY <1>0, <1>1, <2>3, <2>4, GiveUpSound
    <2>5. CASE ~GiveUpWithRetry(w)
      <3> DEFINE pc == AfterStatus(p.res)
                 q == [p EXCEPT !.pc = pc, !.sha = TRUE]
      <3>1. poll' = [poll EXCEPT ![w].pc = pc, ![w].sha = TRUE] /\ Acknowledged(guard, o)
        BY <2>1, <2>5
      <3>2. row' = [row EXCEPT ![p.build] = WithSourceSha(r)]
        BY <2>1, <3>1 DEF Persist, Acknowledged
      <3>3. row'[p.build].sha
        BY <1>0, <1>2, <3>2 DEF WithSourceSha, Row, Typed, TypeOK
      <3>4. pc \in {"loop", "final"}
        BY DEF AfterStatus
      <3> HIDE DEF pc
      <3>5. Moved(q)
        BY <1>0, <3>1 DEF Poll
      <3>6. q.pc = pc /\ q.sha = TRUE
        BY <1>0 DEF Poll
      <3> HIDE DEF q
      <3>7. PollSound(q, row'[q.build])
        BY <3>3, <3>4, <3>5, <3>6 DEF PollSound, Verified, Fetched, Validated
      <3> QED
        BY <1>6, <2>3, <3>5, <3>7
    <2> QED
      BY <2>4, <2>5
  <1>10. CASE PollSetsDownloading(w)
    <2> DEFINE q == [p EXCEPT !.pc = "download"]
    <2>1. p.pc = "downloading" /\ PollPersists(w, CanProgress(r, p.run),
            WithStatus(r, "downloading"), "download")
      BY <1>10 DEF PollSetsDownloading
    <2>2. q.pc = "download" /\ q.sha = p.sha
      BY <1>0 DEF Poll
    <2> HIDE DEF q
    <2>3. PollSound(q, r)
      BY <1>2, <2>1, <2>2 DEF PollSound, Verified, Fetched, Validated
    <2>4. "downloading" \in Status \ {"none", "done"} /\ "download" \in PollPC
      BY DEF Status, ActiveStatus, PollPC
    <2> QED
      BY <1>1, <1>8, <2>1, <2>3, <2>4, PollPersistsSound DEF q
  <1>11. CASE PollSetsExtracting(w)
    <2> DEFINE next == IF p.stored = None THEN "artifact"
                       ELSE IF p.got # p.stored THEN "fail" ELSE "reread"
               q == [p EXCEPT !.pc = next]
    <2>1. p.pc = "extracting" /\ PollPersists(w, CanProgress(r, p.run),
            WithStatus(r, "extracting"), next)
      BY <1>11 DEF PollSetsExtracting
    <2>2. next \in {"artifact", "fail", "reread"}
      OBVIOUS
    <2> HIDE DEF next
    <2>3. q.pc = next /\ q.sha = p.sha /\ q.got = p.got /\ q.run = p.run
      BY <1>0 DEF Poll
    <2> HIDE DEF q
    <2>4. PollSound(q, r)
      BY <1>2, <2>1, <2>2, <2>3 DEF PollSound, Verified, Fetched, Validated
    <2>5. "extracting" \in Status \ {"none", "done"} /\ next \in PollPC
      BY <2>2 DEF Status, ActiveStatus, PollPC
    <2> QED
      BY <1>1, <1>8, <2>1, <2>4, <2>5, PollPersistsSound DEF q
  <1>12. CASE PollSetsArtifactID(w)
    <2> DEFINE guard == CanSetArtifactID(r, p.run)
    <2>1. p.pc = "artifact"
      BY <1>12 DEF PollSetsArtifactID
    <2>2. p.sha /\ p.got \in Artifacts /\ ArtifactRun[p.got] = p.run
      BY <1>0, <1>2, <2>1 DEF PollSound, Verified, Fetched, Poll, ArtId
    <2>3. PICK o \in Outcomes :
            /\ Persist(p.build, guard, WithArtifactID(r, p.got), o)
            /\ Goto(w, "reread") \/ Goto(w, "rereadArtifact")
      BY <1>12 DEF PollSetsArtifactID
    <2>4. guard => RowSound(WithArtifactID(r, p.got)) /\ Grows(r, WithArtifactID(r, p.got))
      BY <1>2, <1>3, <2>2, RowUpdatesSound DEF CanSetArtifactID
    <2>5. RowsSound' /\ Kept
      BY <1>0, <1>2, <2>3, <2>4, PersistSound
    <2> HIDE DEF Kept
    <2> QED
      BY <1>7, <2>1, <2>2, <2>3, <2>5 DEF PollPC, Fetched, Validated
  <1>13. CASE PollPublishes(w)
    <2>1. p.pc = "publish" /\ p.sha /\ p.got # None /\ ArtifactRun[p.got] = p.run
      BY <1>2, <1>13 DEF PollPublishes, PollSound, Verified, Fetched
    <2>2. UNCHANGED row /\ RowsSound' /\ Kept
      BY <1>0, <1>13, UnchangedSound DEF PollPublishes
    <2>3. CASE Goto(w, "fail")
      BY <1>4, <2>2, <2>3 DEF PollPC, Verified
    <2>4. ASSUME NEW q, Moved(q), p.got \in ValidArtifacts, q.pc \in {"record", "swap"},
                 q.sha = p.sha, q.got = p.got, q.run = p.run
          PROVE  RowsSound' /\ PollsSound'
      <3>1. PollSound(q, row'[q.build])
        BY <1>2, <2>1, <2>2, <2>4 DEF PollSound, Verified, Fetched, Validated
      <3> QED
        BY <1>6, <2>2, <2>4, <3>1
    <2>5. CASE p.got \in ValidArtifacts /\ Goto(w, "record")
      <3> DEFINE q == [p EXCEPT !.pc = "record"]
      <3>1. Moved(q)
        BY <1>0, <2>5 DEF Goto, Poll
      <3>2. q.pc = "record" /\ q.sha = p.sha /\ q.got = p.got /\ q.run = p.run
        BY <1>0 DEF Poll
      <3> HIDE DEF q, Moved
      <3> QED
        BY <2>4, <2>5, <3>1, <3>2
    <2>6. CASE /\ p.got \in ValidArtifacts
               /\ poll' = [poll EXCEPT ![w].pc = "swap", ![w].backup = out[p.build]]
      <3> DEFINE q == [p EXCEPT !.pc = "swap", !.backup = out[p.build]]
      <3>1. Moved(q)
        BY <1>0, <2>6 DEF Poll
      <3>2. q.pc = "swap" /\ q.sha = p.sha /\ q.got = p.got /\ q.run = p.run
        BY <1>0 DEF Poll
      <3> HIDE DEF q, Moved
      <3> QED
        BY <2>4, <2>6, <3>1, <3>2
    <2> HIDE DEF Moved, Kept
    <2> QED
      BY <1>13, <2>3, <2>5, <2>6 DEF PollPublishes, Extracted
  <1>14. CASE PollSwapsOutput(w)
    <2>1. /\ p.pc = "swap" /\ p.sha /\ p.got # None /\ ArtifactRun[p.got] = p.run
          /\ p.got \in ValidArtifacts
      BY <1>2, <1>14 DEF PollSwapsOutput, PollSound, Verified, Fetched, Validated
    <2>2. UNCHANGED row /\ RowsSound' /\ Kept
      BY <1>0, <1>14, UnchangedSound DEF PollSwapsOutput
    <2>3. PICK pc \in {"record", "fail"} :
            poll' = [poll EXCEPT ![w].pc = pc, ![w].backup = None]
      BY <1>14 DEF PollSwapsOutput
    <2> DEFINE q == [p EXCEPT !.pc = pc, !.backup = None]
    <2>4. Moved(q)
      BY <1>0, <2>3 DEF Poll
    <2>5. q.pc = pc /\ q.sha = p.sha /\ q.got = p.got /\ q.run = p.run
      BY <1>0 DEF Poll
    <2> HIDE DEF q
    <2>6. PollSound(q, row'[q.build])
      BY <1>2, <2>1, <2>2, <2>3, <2>4, <2>5 DEF PollSound, Verified, Fetched, Validated
    <2> QED
      BY <1>6, <2>2, <2>4, <2>6
  <1>15. CASE PollRecordsOutput(w)
    <2> DEFINE dig == PublishedDigest(r, out[p.build])
    <2>1. /\ p.pc = "record" /\ p.sha /\ p.got # None /\ ArtifactRun[p.got] = p.run
          /\ p.got \in ValidArtifacts
      BY <1>2, <1>15 DEF PollRecordsOutput, PollSound, Verified, Fetched, Validated
    <2>2. UNCHANGED row /\ RowsSound' /\ Kept
      BY <1>0, <1>15, UnchangedSound DEF PollRecordsOutput
    <2>3. CASE GiveUpWithRetry(w)
      BY <1>5, <2>2, <2>3
    <2>4. CASE ~GiveUpWithRetry(w)
      <3> DEFINE pc == IF r.pub THEN "complete" ELSE "mark"
                 q == [p EXCEPT !.pc = pc, !.dig = dig]
      <3>1. /\ CanRecordOutput(r, p.run, p.got, out[p.build])
            /\ poll' = [poll EXCEPT ![w].pc = pc, ![w].dig = dig]
        BY <1>15, <2>4 DEF PollRecordsOutput
      <3>2. pc \in {"complete", "mark"} /\ (pc = "mark" => ~r.pub)
        OBVIOUS
      <3>3. r.prov /\ r.run = p.run /\ p.run # None /\ r.art = p.got
        BY <3>1 DEF CanRecordOutput, Complete
      <3>4. ~r.pub => dig = [run |-> p.run, art |-> p.got, files |-> p.got]
        BY <3>1, <3>3 DEF CanRecordOutput, PublishedDigest
      <3> HIDE DEF pc, dig
      <3>5. Moved(q)
        BY <1>0, <3>1 DEF Poll
      <3>6. q.pc = pc /\ q.sha = p.sha /\ q.got = p.got /\ q.run = p.run /\ q.dig = dig
        BY <1>0 DEF Poll
      <3> HIDE DEF q
      <3>7. PollSound(q, row'[q.build])
        BY <1>2, <2>1, <2>2, <3>2, <3>3, <3>4, <3>5, <3>6
        DEF PollSound, Verified, Fetched, Validated
      <3> QED
        BY <1>6, <2>2, <3>5, <3>7
    <2> QED
      BY <2>3, <2>4
  <1>16. CASE PollMarksPublished(w)
    <2> DEFINE guard == CanMarkPublished(r, p.run, p.got)
    <2>1. p.pc = "mark"
      BY <1>16 DEF PollMarksPublished
    <2>2. PICK o \in Outcomes :
            /\ Persist(p.build, guard, WithPublication(r, p.got, p.dig), o)
            /\ Goto(w, "complete") \/ GiveUpWithRetry(w)
      BY <1>16 DEF PollMarksPublished
    <2>3. /\ p.got \in ValidArtifacts /\ r.sha /\ r.prov /\ p.run # None
          /\ p.dig = [run |-> p.run, art |-> p.got, files |-> p.got]
      BY <1>2, <2>1 DEF PollSound, Verified, Fetched, Validated
    <2>4. p.dig \in Digest
      BY <1>0 DEF Poll
    <2>5. guard => /\ r.st # "none" /\ r.art = p.got /\ Complete(r)
                   /\ p.dig = PublishedDigest(r, p.got)
      BY <1>3, <2>3 DEF CanMarkPublished, Complete, PublishedDigest
    <2>6. guard => /\ RowSound(WithPublication(r, p.got, p.dig))
                   /\ Grows(r, WithPublication(r, p.got, p.dig))
      BY <1>2, <2>3, <2>4, <2>5, RowUpdatesSound
    <2>7. RowsSound' /\ Kept
      BY <1>0, <1>2, <2>2, <2>6, PersistSound
    <2>8. "complete" \in PollPC \ Verified
      BY DEF PollPC, Verified
    <2> QED
      BY <1>0, <1>1, <2>2, <2>7, <2>8, GotoSound, GiveUpSound
  <1>17. CASE PollCompletes(w)
    <2>1. PollPersists(w, CanComplete(r, p.run, p.got), WithStatus(r, "done"), "release")
      BY <1>17 DEF PollCompletes
    <2>2. CanComplete(r, p.run, p.got) =>
            RowSound(WithStatus(r, "done")) /\ Grows(r, WithStatus(r, "done"))
      BY <1>2, RowUpdatesSound DEF CanComplete
    <2>3. "release" \in PollPC \ Verified
      BY DEF PollPC, Verified
    <2> QED
      BY <1>1, <2>1, <2>2, <2>3, PollPersistsSound
  <1>18. CASE PollFails(w)
    <2>1. PollPersists(w, CanProgress(r, p.run), WithStatus(r, "failed"), "release")
      BY <1>18 DEF PollFails
    <2>2. RowSound(WithStatus(r, "failed")) /\ Grows(r, WithStatus(r, "failed"))
      BY <1>8 DEF Status
    <2>3. "release" \in PollPC \ Verified
      BY DEF PollPC, Verified
    <2> QED
      BY <1>1, <2>1, <2>2, <2>3, PollPersistsSound
  <1>19. CASE PollReleases(w)
    <2>1. UNCHANGED row /\ poll' = [poll EXCEPT ![w] = IdlePoll]
      BY <1>19 DEF PollReleases
    <2>2. RowsSound'
      BY <1>0, <2>1, UnchangedSound
    <2>3. PollsSound'
      BY <1>0, <2>1 DEF PollsSound, IdlePoll, Typed, TypeOK
    <2> QED
      BY <2>2, <2>3
  <1> QED
    BY <1>9, <1>10, <1>11, <1>12, <1>13, <1>14, <1>15, <1>16, <1>17, <1>18, <1>19

\* The initial states satisfy the inductive invariant.
LEMMA InitSound == Init => Inv
  <1> SUFFICES ASSUME Init PROVE Inv
    OBVIOUS
  <1>1. Typed
    BY InitTyped
  <1>2. ASSUME NEW b \in Builds PROVE RowSound(row[b])
    <2>1. row[b] = NoRow \/ row[b] \in LegacyRows
      BY DEF Init
    <2>2. CASE row[b] = NoRow
      BY <2>2 DEF RowSound, NoRow
    <2>3. CASE row[b] \in LegacyRows
      <3>1. PICK run \in RunId : row[b] = [NoRow EXCEPT !.st = "building", !.run = run]
        BY <2>3 DEF LegacyRows
      <3> QED
        BY <3>1 DEF RowSound, NoRow
    <2> QED
      BY <2>1, <2>2, <2>3
  <1>3. PollsSound
    BY DEF Init, PollsSound, IdlePoll
  <1> QED
    BY <1>1, <1>2, <1>3 DEF Inv, RowsSound

\* Inv is inductive.
LEMMA NextSound == Inv /\ [Next]_vars => Inv'
  <1> SUFFICES ASSUME Inv, [Next]_vars PROVE Inv'
    OBVIOUS
  <1>1. Typed'
    BY NextTyped DEF Inv
  <1>2. CASE UNCHANGED vars
    BY <1>1, <1>2 DEF Inv, RowsSound, PollsSound, vars
  <1>3. ASSUME NEW b \in Builds, CreateStep(b) \/ DeleteStep(b) \/ TimerStep(b)
        PROVE  Inv'
    BY <1>1, <1>3, OthersSound DEF Inv
  <1>4. ASSUME NEW w \in Workers, PollStep(w) \/ DeadlinePasses(w) PROVE Inv'
    BY <1>1, <1>4, PollReadingSound, PollWritingSound DEF Inv, PollStep
  <1>5. CASE BootStep \/ Environment
    BY <1>1, <1>5, OthersSound DEF Inv
  <1> QED
    BY <1>2, <1>3, <1>4, <1>5 DEF Next

\* A build is done only with the publication proof of one validated artifact
\* of its own run, whose head SHA was verified: no interleaving of polls,
\* retries and restarts, and no lost or repeated write of UpdateProgress,
\* SetArtifactID or RecordPublishedOutput, leads to any other done row.
THEOREM CompletionIsProven == Spec => []DoneIsProven
  <1>1. Inv => DoneIsProven
    BY DEF Inv, RowsSound, RowSound, DoneIsProven
  <1> QED
    BY <1>1, InitSound, NextSound, PTL DEF Spec

-----------------------------------------------------------------------------
(* Mutual exclusion *)

\* A step that starts no poll and no delete and takes no guard away.
LEMMA OwnersKept ==
    ASSUME Typed, OneLifecycleOwner, UNCHANGED owner,
           \A w \in Workers : poll'[w].pc # "idle" =>
               poll[w].pc # "idle" /\ poll'[w].build = poll[w].build,
           \A b \in Builds : del'[b] # "idle" =>
               del[b] # "idle"
    PROVE  OneLifecycleOwner'
  BY DEF OneLifecycleOwner

\* startGithubPoll hands the guard only to a goroutine it starts.
LEMMA StartExclusive ==
    ASSUME Typed, OneLifecycleOwner, NEW b \in Builds, NEW run, StartPoll(b, run),
           UNCHANGED del
    PROVE  OneLifecycleOwner'
  <1>1. CASE owner[b] # None
    BY <1>1 DEF StartPoll, OneLifecycleOwner
  <1>2. CASE owner[b] = None
    <2> DEFINE q == [IdlePoll EXCEPT !.build = b, !.pc = "start", !.run = run]
    <2>1. PICK w \in Workers : /\ poll[w].pc = "idle"
                               /\ owner' = [owner EXCEPT ![b] = w]
                               /\ poll' = [poll EXCEPT ![w] = q]
      BY <1>2 DEF StartPoll
    <2>2. q.build = b
      BY DEF IdlePoll
    <2> HIDE DEF q
    <2>3. ASSUME NEW v \in Workers, poll'[v].pc # "idle"
          PROVE  owner'[poll'[v].build] = v
      <3>1. CASE v = w
        BY <2>1, <2>2, <3>1 DEF Typed, TypeOK
      <3>2. CASE v # w
        <4>1. poll'[v] = poll[v] /\ owner[poll[v].build] = v /\ poll[v].build \in Builds
          BY <2>1, <2>3, <3>2 DEF Typed, TypeOK, PollsKnown, OneLifecycleOwner
        <4>2. poll[v].build # b
          BY <1>2, <4>1, LifecycleAssumption
        <4> QED
          BY <2>1, <4>1, <4>2 DEF Typed, TypeOK
      <3> QED
        BY <3>1, <3>2
    <2>4. ASSUME NEW c \in Builds, del[c] # "idle"
          PROVE  owner'[c] = Deleter
      <3>1. owner[c] = Deleter
        BY <2>4 DEF OneLifecycleOwner
      <3>2. c # b
        BY <1>2, <3>1, LifecycleAssumption
      <3> QED
        BY <2>1, <3>1, <3>2 DEF Typed, TypeOK
    <2> QED
      BY <2>3, <2>4 DEF OneLifecycleOwner
  <1> QED
    BY <1>1, <1>2

\* The poll of a worker keeps its build and leaves the guards alone.
LEMMA PollExclusive ==
    ASSUME Typed, OneLifecycleOwner, NEW w \in Workers,
           PollStep(w) \/ DeadlinePasses(w)
    PROVE  OneLifecycleOwner'
  <1> DEFINE p == poll[w]
  <1>0. p \in Poll /\ poll \in [Workers -> Poll]
    BY DEF Typed, TypeOK
  <1> USE DEF handlers
  <1>1. CASE PollReleases(w)
    <2>1. owner' = [owner EXCEPT ![p.build] = IF @ = w THEN None ELSE @]
      BY <1>1 DEF PollReleases, Release
    <2>2. poll' = [poll EXCEPT ![w] = IdlePoll] /\ del' = del
      BY <1>1 DEF PollReleases
    <2>3. p.pc # "idle" /\ p.build \in Builds /\ owner[p.build] = w
      BY <1>1 DEF PollReleases, Typed, PollsKnown, OneLifecycleOwner
    <2>4. ASSUME NEW v \in Workers, poll'[v].pc # "idle"
          PROVE  owner'[poll'[v].build] = v
      <3>1. v # w
        BY <1>0, <2>2, <2>4 DEF IdlePoll
      <3>2. poll'[v] = poll[v]
        BY <1>0, <2>2, <3>1
      <3>3. owner[poll[v].build] = v /\ poll[v].build \in Builds
        BY <2>4, <3>2 DEF OneLifecycleOwner, Typed, PollsKnown
      <3> QED
        BY <2>1, <2>3, <3>1, <3>2, <3>3 DEF Typed, TypeOK
    <2>5. ASSUME NEW c \in Builds, del[c] # "idle"
          PROVE  owner'[c] = Deleter
      <3>1. owner[c] = Deleter /\ Deleter # w
        BY <2>5, LifecycleAssumption DEF OneLifecycleOwner
      <3> QED
        BY <2>1, <3>1 DEF Typed, TypeOK
    <2> QED
      BY <2>2, <2>4, <2>5 DEF OneLifecycleOwner
  <1>2. CASE ~PollReleases(w)
    <2>1. p.pc # "idle"
      BY <1>2 DEF PollStep, PollStarts, PollLoops, PollRefreshes, PollRecovers,
        PollLoadsConfig, PollReadsStatus, PollSetsSourceSha, PollConcludes,
        PollSetsDownloading, PollDownloads, PollSetsExtracting, PollSetsArtifactID,
        PollRereadsArtifactID, PollRereads, PollPublishes, PollSwapsOutput,
        PollRecordsOutput, PollMarksPublished, PollProvesCompletion, PollCompletes,
        PollFails, PollFailsActive, DeadlinePasses
    <2>2. UNCHANGED <<owner, del>>
      BY <1>2 DEF PollStep, PollStarts, PollLoops, PollRefreshes, PollRecovers,
        PollLoadsConfig, PollReadsStatus, PollSetsSourceSha, PollConcludes,
        PollSetsDownloading, PollDownloads, PollSetsExtracting, PollSetsArtifactID,
        PollRereadsArtifactID, PollRereads, PollPublishes, PollSwapsOutput,
        PollRecordsOutput, PollMarksPublished, PollProvesCompletion, PollCompletes,
        PollFails, PollFailsActive, DeadlinePasses
    <2>3. PICK q : poll' = [poll EXCEPT ![w] = q] /\ q.build = p.build
      <3>1. CASE \E pc : Goto(w, pc)
        BY <1>0, <3>1 DEF Goto, Poll
      <3>2. CASE Continue(w)
        <4> DEFINE q == [p EXCEPT !.pc = "loop", !.got = None, !.res = "unused"]
        <4>1. poll' = [poll EXCEPT ![w] = q] /\ q.build = p.build
          BY <1>0, <3>2 DEF Continue, Poll
        <4> QED
          BY <4>1
      <3>3. ASSUME NEW next, PollReads(w, next) PROVE \E pc : Goto(w, pc)
        BY <3>3 DEF PollReads
      <3>4. ASSUME NEW guard, NEW newRow, NEW next, PollPersists(w, guard, newRow, next)
            PROVE  \E pc : Goto(w, pc)
        BY <3>4 DEF PollPersists, GiveUpWithRetry
      <3>5. CASE PollStarts(w)
        BY <1>0, <3>1, <3>5 DEF PollStarts, Poll
      <3>6. CASE PollLoops(w) \/ PollLoadsConfig(w)
        BY <3>1, <3>6 DEF PollLoops, PollLoadsConfig
      <3>7. CASE PollRefreshes(w) \/ PollConcludes(w) \/ PollRereadsArtifactID(w)
                 \/ PollFailsActive(w)
        BY <3>1, <3>3, <3>7 DEF PollRefreshes, PollConcludes, PollRereadsArtifactID,
                                PollFailsActive
      <3>8. CASE PollRecovers(w)
        BY <1>0, <3>1, <3>8 DEF PollRecovers, Poll
      <3>9. CASE PollReadsStatus(w)
        BY <1>0, <3>1, <3>2, <3>9 DEF PollReadsStatus, Poll
      <3>10. CASE PollSetsSourceSha(w)
        BY <1>0, <3>1, <3>10 DEF PollSetsSourceSha, GiveUpWithRetry, Poll
      <3>11. CASE PollSetsDownloading(w) \/ PollSetsExtracting(w)
                  \/ PollCompletes(w) \/ PollFails(w)
        BY <3>1, <3>4, <3>11 DEF PollSetsDownloading, PollSetsExtracting,
                                 PollCompletes, PollFails
      <3>12. CASE PollDownloads(w)
        BY <1>0, <3>1, <3>2, <3>12 DEF PollDownloads, Poll
      <3>13. CASE PollSetsArtifactID(w) \/ PollMarksPublished(w) \/ PollProvesCompletion(w)
        BY <3>1, <3>13 DEF PollSetsArtifactID, PollMarksPublished, GiveUpWithRetry,
                           PollProvesCompletion
      <3>14. CASE PollRereads(w)
        BY <1>0, <3>1, <3>14 DEF PollRereads, Poll
      <3>15. CASE PollPublishes(w)
        BY <1>0, <3>1, <3>15 DEF PollPublishes, Poll
      <3>16. CASE PollSwapsOutput(w)
        BY <1>0, <3>16 DEF PollSwapsOutput, Poll
      <3>17. CASE PollRecordsOutput(w)
        BY <1>0, <3>1, <3>17 DEF PollRecordsOutput, GiveUpWithRetry, Poll
      <3>18. CASE DeadlinePasses(w)
        <4> DEFINE q == [p EXCEPT !.late = TRUE]
        <4>1. poll' = [poll EXCEPT ![w] = q] /\ q.build = p.build
          BY <1>0, <3>18 DEF DeadlinePasses, Poll
        <4> QED
          BY <4>1
      <3> QED
        BY <1>2, <3>5, <3>6, <3>7, <3>8, <3>9, <3>10, <3>11, <3>12, <3>13, <3>14,
           <3>15, <3>16, <3>17, <3>18 DEF PollStep
    <2>4. \A v \in Workers : poll'[v].pc # "idle" =>
            poll[v].pc # "idle" /\ poll'[v].build = poll[v].build
      BY <1>0, <2>1, <2>3
    <2> QED
      BY <2>2, <2>4, OwnersKept
  <1> QED
    BY <1>1, <1>2

\* The delete handler works only between its acquire and its release.
LEMMA DeleteExclusive ==
    ASSUME Typed, OneLifecycleOwner, NEW b \in Builds, DeleteStep(b)
    PROVE  OneLifecycleOwner'
  <1> USE DEF DelGoto
  <1>1. UNCHANGED poll
    BY DEF DeleteStep, DeleteWait, DeleteWork, DeleteBegins, DeleteAcquires,
           DeleteCancelled, DeleteRereads,
           DeleteWritesTombstone, DeleteDeletesRow, DeleteRemovesDir,
           DeleteRemovesTombstone, DeleteReleases
  <1>2. CASE DeleteAcquires(b)
    <2>1. /\ owner[b] = None /\ owner' = [owner EXCEPT ![b] = Deleter]
          /\ del' = [del EXCEPT ![b] = "reread"]
      BY <1>2 DEF DeleteAcquires
    <2>2. ASSUME NEW w \in Workers, poll[w].pc # "idle"
          PROVE  owner'[poll[w].build] = w
      BY <2>1, <2>2, LifecycleAssumption
      DEF OneLifecycleOwner, Typed, TypeOK, PollsKnown
    <2>3. ASSUME NEW c \in Builds, del'[c] # "idle"
          PROVE  owner'[c] = Deleter
      BY <2>1, <2>3 DEF OneLifecycleOwner, Typed, TypeOK
    <2> QED
      BY <1>1, <2>2, <2>3 DEF OneLifecycleOwner
  <1>3. CASE DeleteReleases(b)
    <2>1. /\ owner' = [owner EXCEPT ![b] = IF @ = Deleter THEN None ELSE @]
          /\ del' = [del EXCEPT ![b] = "idle"] /\ owner[b] = Deleter
      BY <1>3 DEF DeleteReleases, Release, OneLifecycleOwner
    <2>2. ASSUME NEW w \in Workers, poll[w].pc # "idle"
          PROVE  owner'[poll[w].build] = w
      BY <2>1, <2>2, LifecycleAssumption
      DEF OneLifecycleOwner, Typed, TypeOK, PollsKnown
    <2>3. ASSUME NEW c \in Builds, del'[c] # "idle"
          PROVE  owner'[c] = Deleter
      BY <2>1, <2>3 DEF OneLifecycleOwner, Typed, TypeOK
    <2> QED
      BY <1>1, <2>2, <2>3 DEF OneLifecycleOwner
  <1>4. CASE ~DeleteAcquires(b) /\ ~DeleteReleases(b)
    <2>1. UNCHANGED owner
      BY <1>4 DEF DeleteStep, DeleteWait, DeleteWork, DeleteBegins,
                  DeleteCancelled, DeleteRereads,
                  DeleteWritesTombstone, DeleteDeletesRow, DeleteRemovesDir,
                  DeleteRemovesTombstone
    <2>2. \A c \in Builds : del'[c] # "idle" => del[c] # "idle"
      <3>1. CASE DeleteBegins(b) \/ DeleteCancelled(b)
        BY <3>1 DEF DeleteBegins, DeleteCancelled
      <3>2. CASE ~DeleteBegins(b) /\ ~DeleteCancelled(b)
        <4>1. del[b] # "idle" /\ \E pc : del' = [del EXCEPT ![b] = pc]
          BY <1>4, <3>2
          DEF DeleteStep, DeleteWait, DeleteWork, DeleteRereads,
              DeleteWritesTombstone, DeleteDeletesRow, DeleteRemovesDir,
              DeleteRemovesTombstone
        <4> QED
          BY <4>1 DEF Typed, TypeOK
      <3> QED
        BY <3>1, <3>2
    <2> QED
      BY <1>1, <2>1, <2>2, OwnersKept
  <1> QED
    BY <1>2, <1>3, <1>4

\* Create handlers, retry goroutines, start-up and crashes keep exclusion.
LEMMA OthersExclusive ==
    ASSUME Typed, OneLifecycleOwner,
           \/ \E b \in Builds : CreateStep(b) \/ TimerStep(b)
           \/ BootStep
           \/ Environment
    PROVE  OneLifecycleOwner'
  <1> USE DEF handlers
  <1>1. CASE UNCHANGED <<owner, poll, del>>
    BY <1>1 DEF OneLifecycleOwner
  <1>2. ASSUME NEW b \in Builds, CreateStep(b) PROVE OneLifecycleOwner'
    BY <1>1, <1>2, StartExclusive
    DEF CreateStep, CreateInserts, CreateDispatchFails, CreateDispatches,
        CreateSetsProvenance, CreateFailsPending, CreateStartsPoll
  <1>3. ASSUME NEW b \in Builds, TimerStep(b) PROVE OneLifecycleOwner'
    BY <1>1, <1>3, StartExclusive
    DEF TimerStep, TimerFires, TimerGivesUp, TimerStartsPoll, TimerClearsKey
  <1>4. CASE BootStep
    BY <1>1, <1>4, StartExclusive
    DEF BootStep, BootQueries, BootSweeps, BootResumes, BootCloses, BootFinishes
  <1>5. CASE Environment
    <2>1. CASE Crash
      BY <2>1 DEF Crash, OneLifecycleOwner, IdlePoll
    <2>2. CASE ~Crash
      BY <1>1, <1>5, <2>2 DEF Environment, TombstoneAges, OutputDamaged, RunChanges,
                              RunFails, ArtifactListingChanges
    <2> QED
      BY <2>1, <2>2
  <1> QED
    BY <1>2, <1>3, <1>4, <1>5

\* githubPollOwnership's claim and release make the polls and the deletes of
\* a build exclude each other, whoever starts them: the create handler, a
\* retry goroutine that waited on a released claim, or start-up.
THEOREM MutualExclusion == Spec => []OneLifecycleOwner
  <1>1. Init => Typed /\ OneLifecycleOwner
    BY InitTyped DEF Init, OneLifecycleOwner, IdlePoll
  <1>2. Typed /\ OneLifecycleOwner /\ [Next]_vars => Typed' /\ OneLifecycleOwner'
    <2> SUFFICES ASSUME Typed, OneLifecycleOwner, [Next]_vars PROVE OneLifecycleOwner'
      BY NextTyped
    <2>1. CASE UNCHANGED vars
      BY <2>1 DEF OneLifecycleOwner, vars
    <2>2. CASE Next
      BY <2>2, OthersExclusive, DeleteExclusive, PollExclusive DEF Next
    <2> QED
      BY <2>1, <2>2
  <1> QED
    BY <1>1, <1>2, PTL DEF Spec


(***************************************************************************)
(* The output directories: a published one stays while its row exists, and *)
(* that of a deleted row is gone or marked.                                *)
(***************************************************************************)
\* Where a poll is between the refresh that sees no publication and the last
\* look at the row, and where it is while it publishes.
Fetching   == {"config", "status", "sha", "final", "downloading", "download",
               "extracting", "artifact", "rereadArtifact", "reread"}
Publishing == {"publish", "swap", "record", "mark"}

\* What poll p knows of the row r and the files of its build.
PollOutput(p, r, files) ==
    /\ p.pc \in Fetching => ~(r.pub /\ Polled(r, p.run))
    /\ p.pc \in Publishing => ~r.pub /\ r.st # "deleted"
    /\ p.pc = "mark" => files \in {p.got, Damaged}

\* Only unpublished rows are published, so no proven output is replaced.
PollsOutput ==
    \A w \in Workers :
        poll[w].pc # "idle" => PollOutput(poll[w], row[poll[w].build], out[poll[w].build])

\* The delete handler has a tombstone on disk before the row is deleted and
\* until the directory is gone.
DeletesOutput ==
    \A b \in Builds :
        /\ del[b] \in {"row", "dir"} => tomb[b] # "none"
        /\ del[b] \in {"dir", "untomb"} => row[b].st = "deleted"
        /\ del[b] = "untomb" => out[b] = None

\* The start-up sweep runs before any handler, poll or retry.
BootAlone ==
    phase \in {"query", "sweep"} =>
        /\ \A w \in Workers : poll[w].pc = "idle"
        /\ \A b \in Builds : /\ del[b] = "idle" /\ waiting[b] = 0
                             /\ create[b].pc = "idle" /\ timers[b] = NoTimers

OutputInv ==
    /\ PublishedOutputStays
    /\ DeletedOutputTracked
    /\ PollsOutput
    /\ DeletesOutput
    /\ BootAlone

\* What the proofs of the steps start from.
Before == Inv /\ OneLifecycleOwner /\ OutputInv

\* What every update but RecordPublishedOutput and the delete does to a row:
\* it publishes nothing, revives nothing and deletes nothing.
Moves(r, n) ==
    /\ n.pub => r.pub /\ n.art = r.art
    /\ n.pub /\ Active(n) => Active(r) /\ n.run = r.run
    /\ n.pub /\ Present(n) => Present(r)
    /\ n.st = "deleted" <=> r.st = "deleted"

-----------------------------------------------------------------------------
LEMMA RowUpdatesMove ==
    ASSUME NEW r \in Row, RowSound(r)
    PROVE  /\ Moves(r, r)
           /\ r.st = "none" => Moves(r, NewRow)
           /\ \A st \in {"done", "failed"} :
                Present(r) => Moves(r, WithStatus(r, st))
           /\ \A st \in ActiveStatus : Active(r) => Moves(r, WithStatus(r, st))
           /\ \A run \in RunId : CanSetProvenance(r) => Moves(r, WithProvenance(r, run))
           /\ Moves(r, WithSourceSha(r))
           /\ \A a \in Artifacts : r.art = None => Moves(r, WithArtifactID(r, a))
  <1> USE DEF Moves, Present, Active
  <1>1. Moves(r, r)
    OBVIOUS
  <1>2. r.st = "none" => Moves(r, NewRow)
    BY DEF NewRow, NoRow
  <1>3. ASSUME NEW st \in {"done", "failed"}, Present(r)
        PROVE  Moves(r, WithStatus(r, st))
    BY <1>3 DEF WithStatus, Row, ActiveStatus
  <1>4. ASSUME NEW st \in ActiveStatus, Active(r) PROVE Moves(r, WithStatus(r, st))
    BY <1>4 DEF WithStatus, Row, ActiveStatus
  <1>5. r.art = None => ~r.pub
    BY RowAssumption DEF RowSound, PublicationSound
  <1>6. ASSUME NEW run \in RunId, CanSetProvenance(r) PROVE Moves(r, WithProvenance(r, run))
    BY <1>5, <1>6 DEF WithProvenance, CanSetProvenance, Row
  <1>7. Moves(r, WithSourceSha(r))
    BY DEF WithSourceSha, Row
  <1>8. ASSUME NEW a \in Artifacts, r.art = None PROVE Moves(r, WithArtifactID(r, a))
    BY <1>5, <1>8 DEF WithArtifactID, Row
  <1> QED
    BY <1>1, <1>2, <1>3, <1>4, <1>6, <1>7, <1>8

LEMMA PersistMoves ==
    ASSUME Inv, NEW b \in Builds, NEW guard, NEW newRow, NEW o,
           Persist(b, guard, newRow, o), guard => Moves(row[b], newRow)
    PROVE  \A c \in Builds : Moves(row[c], row'[c]) /\ (c # b => row'[c] = row[c])
  <1>1. row \in [Builds -> Row] /\ \A c \in Builds : Moves(row[c], row[c])
    BY RowUpdatesMove DEF Inv, Typed, TypeOK, RowsSound
  <1> QED
    BY <1>1 DEF Persist

LEMMA RowsStay ==
    ASSUME Inv, UNCHANGED row
    PROVE  \A c \in Builds : Moves(row[c], row'[c])
  BY RowUpdatesMove DEF Inv, Typed, TypeOK, RowsSound

\* Rows that only move keep what is known of them and of the files.
LEMMA MovesKeep ==
    ASSUME NEW r, NEW n, Moves(r, n), NEW p, NEW files
    PROVE  /\ PollOutput(p, r, files) => PollOutput(p, n, files)
           /\ (Present(r) /\ r.pub => files \in {r.art, Damaged})
                => (Present(n) /\ n.pub => files \in {n.art, Damaged})
  BY DEF Moves, PollOutput, Polled

\* A step in which rows only move, the disk stays, and polls and deletes go on,
\* start without knowledge or end.
LEMMA DiskKept ==
    ASSUME Before, UNCHANGED disk,
           \A c \in Builds : Moves(row[c], row'[c]),
           \A w \in Workers : poll'[w] = poll[w] \/ poll'[w].pc \in {"idle", "start"},
           \A c \in Builds : del'[c] = del[c] \/ del'[c] \in {"idle", "reread", "tombstone", "release"},
           BootAlone'
    PROVE  OutputInv'
  <1>0. OutputInv /\ Typed
    BY DEF Before, Inv
  <1>1. PublishedOutputStays'
    BY <1>0, MovesKeep DEF OutputInv, PublishedOutputStays, disk
  <1>2. DeletedOutputTracked'
    BY <1>0 DEF OutputInv, DeletedOutputTracked, disk, Moves
  <1>3. PollsOutput'
    <2> SUFFICES ASSUME NEW w \in Workers, poll'[w].pc # "idle"
                 PROVE  PollOutput(poll[w], row[poll[w].build], out[poll[w].build])'
      BY DEF PollsOutput
    <2>1. CASE poll'[w] = poll[w]
      <3>1. poll[w].build \in Builds
        BY <1>0, <2>1 DEF Typed, PollsKnown
      <3> QED
        BY <1>0, <2>1, <3>1, MovesKeep DEF OutputInv, PollsOutput, disk
    <2>2. CASE poll'[w].pc \in {"idle", "start"}
      BY <2>2 DEF PollOutput, Fetching, Publishing
    <2> QED
      BY <2>1, <2>2
  <1>4. DeletesOutput'
    BY <1>0 DEF OutputInv, DeletesOutput, disk, Moves
  <1> QED
    BY <1>1, <1>2, <1>3, <1>4 DEF OutputInv

\* A step of poll w that touches at most its own build.
LEMMA PollKeeps ==
    ASSUME Before, NEW w \in Workers, poll[w].pc # "idle", NEW b, b = poll[w].build,
           \A v \in Workers \ {w} : poll'[v] = poll[v],
           \A c \in Builds \ {b} : row'[c] = row[c] /\ out'[c] = out[c],
           UNCHANGED <<tomb, handlers, process>>,
           poll'[w].pc # "idle" => /\ poll'[w].build = b
                                   /\ PollOutput(poll'[w], row'[b], out'[b]),
           Present(row'[b]) /\ row'[b].pub => out'[b] \in {row'[b].art, Damaged},
           row'[b].st = "deleted" => row[b].st = "deleted" /\ (out'[b] = out[b] \/ out'[b] = None)
    PROVE  OutputInv'
  <1>0. OutputInv /\ Typed /\ OneLifecycleOwner
    BY DEF Before, Inv
  <1>1. b \in Builds /\ owner[b] = w /\ w # Deleter
    BY <1>0, LifecycleAssumption DEF Typed, PollsKnown, OneLifecycleOwner
  <1>2. del[b] = "idle"
    BY <1>0, <1>1 DEF OneLifecycleOwner
  <1>3. \A v \in Workers \ {w} : poll[v].pc # "idle" => poll[v].build \in Builds \ {b}
    BY <1>0, <1>1 DEF OneLifecycleOwner, Typed, PollsKnown
  <1>4. PublishedOutputStays'
    BY <1>0, <1>1 DEF OutputInv, PublishedOutputStays
  <1>5. DeletedOutputTracked'
    BY <1>0, <1>1 DEF OutputInv, DeletedOutputTracked
  <1>6. PollsOutput'
    BY <1>0, <1>3 DEF OutputInv, PollsOutput
  <1>7. DeletesOutput'
    BY <1>0, <1>2 DEF OutputInv, DeletesOutput, handlers
  <1>8. BootAlone'
    BY <1>0 DEF OutputInv, BootAlone, process
  <1> QED
    BY <1>4, <1>5, <1>6, <1>7, <1>8 DEF OutputInv

\* A step of a poll before or after publication: it leaves the disk alone.
LEMMA PollPlain ==
    ASSUME Before, NEW w \in Workers, poll[w].pc # "idle", NEW b, b = poll[w].build,
           \A v \in Workers \ {w} : poll'[v] = poll[v],
           \A c \in Builds \ {b} : row'[c] = row[c],
           Moves(row[b], row'[b]),
           UNCHANGED <<disk, handlers, process>>,
           poll'[w].pc # "idle" => poll'[w].build = b /\ poll'[w].run = poll[w].run,
           poll'[w].pc \notin Publishing,
           poll'[w].pc \in Fetching =>
               poll[w].pc \in Fetching \/ ~(row[b].pub /\ Polled(row[b], poll[w].run))
    PROVE  OutputInv'
  <1>0. OutputInv /\ Typed /\ b \in Builds
    BY DEF Before, Inv, Typed, PollsKnown
  <1>1. PollOutput(poll[w], row[b], out[b])
    BY <1>0 DEF OutputInv, PollsOutput
  <1>2. poll'[w].pc # "idle" => PollOutput(poll'[w], row'[b], out[b])
    <2>1. poll'[w].pc \in Fetching => ~(row[b].pub /\ Polled(row[b], poll[w].run))
      BY <1>1 DEF PollOutput
    <2>2. poll'[w].pc \in Fetching /\ poll'[w].run = poll[w].run
            => ~(row'[b].pub /\ Polled(row'[b], poll'[w].run))
      BY <2>1 DEF Moves, Polled
    <2>3. poll'[w].pc # "mark"
      BY DEF Publishing
    <2> QED
      BY <2>2, <2>3 DEF PollOutput, Fetching
  <1>3. Present(row'[b]) /\ row'[b].pub => out[b] \in {row'[b].art, Damaged}
    BY <1>0, MovesKeep DEF OutputInv, PublishedOutputStays
  <1>4. row'[b].st = "deleted" => row[b].st = "deleted"
    BY DEF Moves
  <1>5. UNCHANGED <<out, tomb>>
    BY DEF disk
  <1> QED
    BY <1>2, <1>3, <1>4, <1>5, PollKeeps

-----------------------------------------------------------------------------
LEMMA StartPlain ==
    ASSUME Before, NEW b, NEW run, StartPoll(b, run)
    PROVE  \A w \in Workers : poll'[w] = poll[w] \/ poll'[w].pc \in {"idle", "start"}
  <1>1. poll \in [Workers -> Poll]
    BY DEF Before, Inv, Typed, TypeOK
  <1>2. [IdlePoll EXCEPT !.build = b, !.pc = "start", !.run = run].pc = "start"
    BY DEF IdlePoll
  <1> QED
    BY <1>1, <1>2 DEF StartPoll

LEMMA TimerOutput == ASSUME Before, NEW b \in Builds, TimerStep(b) PROVE OutputInv'
  <1> USE DEF disk, handlers, process, provider
  <1>1. UNCHANGED <<row, disk, handlers, process>>
    BY DEF TimerStep, TimerFires, TimerGivesUp, TimerStartsPoll, TimerClearsKey
  <1>2. \A w \in Workers : poll'[w] = poll[w] \/ poll'[w].pc \in {"idle", "start"}
    BY StartPlain DEF TimerStep, TimerFires, TimerGivesUp, TimerStartsPoll, TimerClearsKey
  <1>3. timers[b] # NoTimers
    BY DEF TimerStep, TimerFires, TimerGivesUp, TimerStartsPoll, TimerClearsKey, NoTimers
  <1>4. BootAlone'
    BY <1>1, <1>3 DEF Before, OutputInv, BootAlone
  <1> QED
    BY <1>1, <1>2, <1>4, RowsStay, DiskKept DEF Before

LEMMA CreateOutput == ASSUME Before, NEW b \in Builds, CreateStep(b) PROVE OutputInv'
  <1> USE DEF disk, handlers, process, provider, retries
  <1>0. Inv /\ row[b] \in Row /\ RowSound(row[b]) /\ create[b].run \in RunId
    BY DEF Before, Inv, Typed, TypeOK, RowsSound
  <1>1. UNCHANGED <<disk, del, waiting, retries, process>>
    BY DEF CreateStep, CreateInserts, CreateDispatchFails, CreateDispatches,
           CreateSetsProvenance, CreateFailsPending, CreateStartsPoll
  <1>2. phase = "up" \/ create[b].pc # "idle"
    BY DEF CreateStep, CreateInserts, CreateDispatchFails, CreateDispatches,
           CreateSetsProvenance, CreateFailsPending, CreateStartsPoll
  <1>3. BootAlone'
    BY <1>1, <1>2 DEF Before, OutputInv, BootAlone
  <1>4. \A w \in Workers : poll'[w] = poll[w] \/ poll'[w].pc \in {"idle", "start"}
    BY StartPlain DEF CreateStep, CreateInserts, CreateDispatchFails, CreateDispatches,
           CreateSetsProvenance, CreateFailsPending, CreateStartsPoll
  <1>5. \A c \in Builds : Moves(row[c], row'[c])
    <2>1. CASE CreateInserts(b)
      <3>1. PICK o \in {"ok", "lost"} : Persist(b, TRUE, NewRow, o)
        BY <2>1 DEF CreateInserts
      <3>2. Moves(row[b], NewRow)
        BY <1>0, <2>1, RowUpdatesMove DEF CreateInserts
      <3> QED
        BY <1>0, <3>1, <3>2, PersistMoves
    <2>2. CASE CreateSetsProvenance(b)
      <3>1. PICK o \in Outcomes :
              Persist(b, CanSetProvenance(row[b]), WithProvenance(row[b], create[b].run), o)
        BY <2>2 DEF CreateSetsProvenance
      <3>2. CanSetProvenance(row[b]) => Moves(row[b], WithProvenance(row[b], create[b].run))
        BY <1>0, RowUpdatesMove
      <3> QED
        BY <1>0, <3>1, <3>2, PersistMoves
    <2>3. CASE CreateFailsPending(b)
      <3>1. PICK o \in Outcomes :
              Persist(b, CanFailPending(row[b]), WithStatus(row[b], "failed"), o)
        BY <2>3 DEF CreateFailsPending
      <3>2. CanFailPending(row[b]) => Moves(row[b], WithStatus(row[b], "failed"))
        BY <1>0, RowUpdatesMove DEF CanFailPending, Present
      <3> QED
        BY <1>0, <3>1, <3>2, PersistMoves
    <2>4. CASE UNCHANGED row
      BY <1>0, <2>4, RowsStay
    <2> QED
      BY <2>1, <2>2, <2>3, <2>4
      DEF CreateStep, CreateDispatchFails, CreateDispatches, CreateStartsPoll
  <1> QED
    BY <1>1, <1>3, <1>4, <1>5, DiskKept

LEMMA DeleteOutput == ASSUME Before, NEW b \in Builds, DeleteStep(b) PROVE OutputInv'
  <1> USE DEF disk, handlers, process, provider, retries, DelGoto
  <1>0. /\ Inv /\ Typed /\ OutputInv /\ OneLifecycleOwner
        /\ row \in [Builds -> Row] /\ del \in [Builds -> DelPC]
        /\ out \in [Builds -> Files] /\ tomb \in [Builds -> {"none", "fresh", "stale"}]
    BY DEF Before, Inv, Typed, TypeOK
  <1>1. UNCHANGED <<poll, create, process>>
    BY DEF DeleteStep, DeleteWait, DeleteWork, DeleteBegins, DeleteAcquires, DeleteCancelled,
           DeleteRereads, DeleteWritesTombstone, DeleteDeletesRow, DeleteRemovesDir,
           DeleteRemovesTombstone, DeleteReleases
  <1>2. phase \notin {"query", "sweep"}
    <2>1. CASE DeleteWait(b)
      BY <1>0, <2>1 DEF OutputInv, BootAlone, DeleteWait, DeleteBegins, DeleteAcquires,
                        DeleteCancelled
    <2>2. CASE DeleteWork(b)
      BY <1>0, <2>2 DEF OutputInv, BootAlone, DeleteWork, DeleteRereads, DeleteWritesTombstone,
                        DeleteDeletesRow, DeleteRemovesDir, DeleteRemovesTombstone, DeleteReleases
    <2> QED
      BY <2>1, <2>2 DEF DeleteStep
  <1>3. BootAlone'
    BY <1>1, <1>2 DEF BootAlone
  <1>4. ASSUME UNCHANGED <<row, out, tomb>>, NEW pc \in {"reread", "tombstone", "release", "idle"},
               UNCHANGED del \/ del' = [del EXCEPT ![b] = pc]
        PROVE  OutputInv'
    BY <1>0, <1>1, <1>3, <1>4, RowsStay, DiskKept
  <1>5. CASE DeleteWait(b)
    BY <1>4, <1>5 DEF DeleteWait, DeleteBegins, DeleteAcquires, DeleteCancelled
  <1>6. CASE DeleteRereads(b) \/ DeleteReleases(b)
    BY <1>4, <1>6 DEF DeleteRereads, DeleteReleases
  <1>7. ASSUME del[b] # "idle" PROVE \A w \in Workers : poll[w].pc # "idle" => poll[w].build \in Builds \ {b}
    BY <1>0, <1>7, LifecycleAssumption DEF OneLifecycleOwner, Typed, PollsKnown
  <1>8. CASE DeleteWritesTombstone(b)
    <2>1. /\ UNCHANGED <<row, out, poll>>
          /\ \A c \in Builds : tomb[c] # "none" => tomb'[c] # "none"
          /\ \A c \in Builds : c # b => del'[c] = del[c]
          /\ del'[b] = "release" \/ (del'[b] = "row" /\ tomb'[b] # "none")
      BY <1>0, <1>8 DEF DeleteWritesTombstone
    <2> QED
      BY <1>0, <1>3, <2>1 DEF OutputInv, PublishedOutputStays, DeletedOutputTracked, PollsOutput,
                              DeletesOutput
  <1>9. CASE DeleteDeletesRow(b)
    <2>1. WithStatus(row[b], "deleted").st = "deleted"
      BY <1>0 DEF WithStatus, Row
    <2>2. /\ UNCHANGED <<out, tomb, poll>>
          /\ del[b] = "row"
          /\ \A c \in Builds : c # b => del'[c] = del[c] /\ row'[c] = row[c]
          /\ row'[b] = row[b] \/ row'[b].st = "deleted"
          /\ del'[b] = "release" \/ (del'[b] = "dir" /\ row'[b].st = "deleted")
      BY <1>0, <1>9, <2>1 DEF DeleteDeletesRow, Persist, Outcomes
    <2>3. PublishedOutputStays'
      BY <1>0, <2>2 DEF OutputInv, PublishedOutputStays, Present
    <2>4. DeletedOutputTracked'
      BY <1>0, <2>2 DEF OutputInv, DeletedOutputTracked, DeletesOutput
    <2>5. PollsOutput'
      BY <1>0, <1>7, <2>2 DEF OutputInv, PollsOutput
    <2>6. DeletesOutput'
      BY <1>0, <2>2 DEF OutputInv, DeletesOutput
    <2> QED
      BY <1>3, <2>3, <2>4, <2>5, <2>6 DEF OutputInv
  <1>10. CASE DeleteRemovesDir(b)
    <2>1. /\ UNCHANGED <<row, tomb, poll>>
          /\ del[b] = "dir"
          /\ \A c \in Builds : c # b => del'[c] = del[c] /\ out'[c] = out[c]
          /\ del'[b] = "release" \/ (del'[b] = "untomb" /\ out'[b] = None)
      BY <1>0, <1>10 DEF DeleteRemovesDir
    <2>2. row[b].st = "deleted" /\ tomb[b] # "none"
      BY <1>0, <2>1 DEF OutputInv, DeletesOutput
    <2>3. PublishedOutputStays' /\ DeletedOutputTracked'
      BY <1>0, <2>1, <2>2 DEF OutputInv, PublishedOutputStays, DeletedOutputTracked, Present
    <2>4. PollsOutput'
      BY <1>0, <1>7, <2>1 DEF OutputInv, PollsOutput
    <2>5. DeletesOutput'
      BY <1>0, <2>1, <2>2 DEF OutputInv, DeletesOutput
    <2> QED
      BY <1>3, <2>3, <2>4, <2>5 DEF OutputInv
  <1>11. CASE DeleteRemovesTombstone(b)
    <2>1. /\ UNCHANGED <<row, out, poll>>
          /\ del[b] = "untomb"
          /\ \A c \in Builds : c # b => del'[c] = del[c] /\ tomb'[c] = tomb[c]
          /\ del'[b] = "release"
      BY <1>0, <1>11 DEF DeleteRemovesTombstone
    <2>2. out[b] = None
      BY <1>0, <2>1 DEF OutputInv, DeletesOutput
    <2> QED
      BY <1>0, <1>3, <2>1, <2>2 DEF OutputInv, PublishedOutputStays, DeletedOutputTracked,
                                    PollsOutput, DeletesOutput
  <1> QED
    BY <1>5, <1>6, <1>8, <1>9, <1>10, <1>11 DEF DeleteStep, DeleteWork

\* The sweep removes the outputs of rows that do not exist, and a marker only
\* after its output.
LEMMA SweepOutput == ASSUME Before, BootSweeps PROVE OutputInv'
  <1> USE DEF disk, handlers, process, provider, retries
  <1>0. OutputInv /\ phase = "sweep" /\ phase' = "resume" /\ UNCHANGED <<row, poll, del>>
    BY DEF Before, BootSweeps
  <1>1. (\A w \in Workers : poll[w].pc = "idle") /\ (\A b \in Builds : del[b] = "idle")
    BY <1>0 DEF OutputInv, BootAlone
  <1>2. \A b \in Builds :
          \/ out'[b] = out[b] /\ tomb'[b] = tomb[b]
          \/ ~Present(row[b]) /\ (out'[b] = None \/ (tomb'[b] = tomb[b] /\ out[b] # None))
    <2> DEFINE swept == {b \in Builds : Sweepable(b)}
    <2>1. \A b \in swept : ~Present(row[b])
      BY DEF Sweepable
    <2>2. CASE /\ out' = [b \in Builds |-> IF b \in swept THEN None ELSE out[b]]
               /\ tomb' = [b \in Builds |-> IF b \in swept THEN "none" ELSE tomb[b]]
      BY <2>1, <2>2
    <2>3. ASSUME NEW gone \in SUBSET swept, NEW torn \in SUBSET swept, NEW cleared \in SUBSET gone,
                 out' = [b \in Builds |-> IF b \in gone THEN None
                                         ELSE IF b \in torn /\ out[b] # None THEN Damaged
                                         ELSE out[b]],
                 tomb' = [b \in Builds |-> IF b \in cleared THEN "none" ELSE tomb[b]]
          PROVE  \A b \in Builds :
                    \/ out'[b] = out[b] /\ tomb'[b] = tomb[b]
                    \/ ~Present(row[b]) /\ (out'[b] = None \/ (tomb'[b] = tomb[b] /\ out[b] # None))
      BY <2>1, <2>3
    <2> QED
      BY <2>2, <2>3 DEF BootSweeps
  <1>3. PublishedOutputStays'
    BY <1>0, <1>2 DEF OutputInv, PublishedOutputStays
  <1>4. DeletedOutputTracked'
    BY <1>0, <1>2 DEF OutputInv, DeletedOutputTracked
  <1> QED
    BY <1>0, <1>1, <1>3, <1>4 DEF OutputInv, PollsOutput, DeletesOutput, BootAlone

LEMMA BootOutput == ASSUME Before, BootStep PROVE OutputInv'
  <1> USE DEF disk, handlers, process, provider, retries
  <1>0. Inv /\ OutputInv /\ Typed
    BY DEF Before, Inv
  <1>1. CASE BootQueries \/ BootFinishes
    <2>1. UNCHANGED <<row, disk, poll, handlers, timers>>
      BY <1>1 DEF BootQueries, BootFinishes
    <2>2. BootAlone'
      BY <1>0, <1>1, <2>1 DEF BootQueries, BootFinishes, OutputInv, BootAlone
    <2> QED
      BY <1>0, <2>1, <2>2, RowsStay, DiskKept
  <1>2. ASSUME NEW b \in Builds, BootResumes(b) PROVE OutputInv'
    <2>1. UNCHANGED <<row, disk, handlers, phase>> /\ phase = "resume"
      BY <1>2 DEF BootResumes
    <2>2. \A w \in Workers : poll'[w] = poll[w] \/ poll'[w].pc \in {"idle", "start"}
      BY <1>2, StartPlain DEF BootResumes
    <2>3. BootAlone'
      BY <2>1 DEF BootAlone
    <2> QED
      BY <1>0, <2>1, <2>2, <2>3, RowsStay, DiskKept
  <1>3. ASSUME NEW b \in Builds, BootCloses(b) PROVE OutputInv'
    <2>1. UNCHANGED <<disk, poll, handlers, phase>> /\ phase = "resume"
      BY <1>3 DEF BootCloses
    <2>2. PICK guard, o : Persist(b, guard, WithStatus(row[b], "failed"), o) /\ (guard => Active(row[b]))
      BY <1>3 DEF BootCloses, CanFailRunless, CanProgress
    <2>3. Active(row[b]) => Moves(row[b], WithStatus(row[b], "failed"))
      BY <1>0, RowUpdatesMove DEF Inv, Typed, TypeOK, RowsSound, Active, Present, ActiveStatus
    <2>4. \A c \in Builds : Moves(row[c], row'[c])
      BY <1>0, <2>2, <2>3, PersistMoves
    <2>5. BootAlone'
      BY <2>1 DEF BootAlone
    <2> QED
      BY <2>1, <2>4, <2>5, DiskKept
  <1> QED
    BY <1>1, <1>2, <1>3, SweepOutput DEF BootStep

LEMMA EnvironmentOutput == ASSUME Before, Environment PROVE OutputInv'
  <1> USE DEF disk, handlers, process, provider, retries
  <1>0. Inv /\ OutputInv /\ Typed /\ out \in [Builds -> Files] /\ tomb \in [Builds -> {"none", "fresh", "stale"}]
    BY DEF Before, Inv, Typed, TypeOK
  <1>1. CASE Crash
    <2>1. /\ UNCHANGED <<row, tomb>>
          /\ \A b \in Builds : out'[b] = out[b] \/ del[b] = "dir"
          /\ \A w \in Workers : poll'[w].pc = "idle"
          /\ \A b \in Builds : /\ del'[b] = "idle" /\ waiting'[b] = 0
                               /\ create'[b].pc = "idle" /\ timers'[b] = NoTimers
      BY <1>1 DEF Crash, IdlePoll, IdleCreate
    <2>2. PublishedOutputStays'
      BY <1>0, <2>1 DEF OutputInv, PublishedOutputStays, DeletesOutput, Present
    <2>3. DeletedOutputTracked'
      BY <1>0, <2>1 DEF OutputInv, DeletedOutputTracked, DeletesOutput
    <2> QED
      BY <2>1, <2>2, <2>3 DEF OutputInv, PollsOutput, DeletesOutput, BootAlone
  <1>2. ASSUME NEW b \in Builds, TombstoneAges(b) PROVE OutputInv'
    <2>1. /\ UNCHANGED <<row, out, poll, handlers, phase, timers>>
          /\ \A c \in Builds : tomb[c] # "none" => tomb'[c] # "none"
      BY <1>0, <1>2 DEF TombstoneAges
    <2> QED
      BY <1>0, <2>1 DEF OutputInv, PublishedOutputStays, DeletedOutputTracked, PollsOutput,
                        DeletesOutput, BootAlone
  <1>3. ASSUME NEW b \in Builds, OutputDamaged(b) PROVE OutputInv'
    <2>1. /\ UNCHANGED <<row, tomb, poll, handlers, phase, timers>>
          /\ \A c \in Builds : out'[c] = out[c] \/ (out'[c] = Damaged /\ out[c] # None)
      BY <1>0, <1>3, RowAssumption DEF OutputDamaged
    <2>2. PollsOutput'
      BY <1>0, <2>1 DEF OutputInv, PollsOutput, PollOutput, Typed, PollsKnown
    <2> QED
      BY <1>0, <2>1, <2>2 DEF OutputInv, PublishedOutputStays, DeletedOutputTracked,
                              DeletesOutput, BootAlone
  <1>4. CASE /\ ~Crash
             /\ ~\E b \in Builds : TombstoneAges(b) \/ OutputDamaged(b)
    <2>1. UNCHANGED <<row, out, tomb, poll, handlers, phase, timers>>
      BY <1>4 DEF Environment, RunChanges, RunFails, ArtifactListingChanges
    <2> QED
      BY <1>0, <2>1 DEF OutputInv, PublishedOutputStays, DeletedOutputTracked, PollsOutput,
                        DeletesOutput, BootAlone
  <1> QED
    BY <1>1, <1>2, <1>3, <1>4

-----------------------------------------------------------------------------
(* The poll goroutine *)

\* A poll that goes on to a place where it does not publish.
LEMMA GotoPlain ==
    ASSUME Before, NEW w \in Workers, poll[w].pc # "idle", NEW b, b = poll[w].build,
           NEW next \in PollPC \ Publishing, Goto(w, next),
           UNCHANGED <<disk, handlers, process>>,
           \A c \in Builds : Moves(row[c], row'[c]) /\ (c # b => row'[c] = row[c]),
           next \in Fetching =>
               poll[w].pc \in Fetching \/ ~(row[b].pub /\ Polled(row[b], poll[w].run))
    PROVE  OutputInv'
  <1>1. poll \in [Workers -> Poll] /\ poll[w] \in Poll /\ b \in Builds
    BY DEF Before, Inv, Typed, TypeOK, PollsKnown
  <1>2. /\ poll'[w].pc = next /\ poll'[w].build = b /\ poll'[w].run = poll[w].run
        /\ \A v \in Workers \ {w} : poll'[v] = poll[v]
    BY <1>1 DEF Goto, Poll
  <1> QED
    BY <1>1, <1>2, PollPlain

LEMMA ReadsPlain ==
    ASSUME Before, NEW w \in Workers, poll[w].pc # "idle",
           NEW next \in PollPC \ Publishing, PollReads(w, next) \/ Goto(w, next),
           UNCHANGED <<row, disk, handlers, process>>,
           LET r == row[poll[w].build] IN
           next \in Fetching => poll[w].pc \in Fetching \/ ~(r.pub /\ Polled(r, poll[w].run))
    PROVE  OutputInv'
  <1>1. \A c \in Builds : Moves(row[c], row'[c])
    BY RowsStay DEF Before
  <1>2. "release" \in PollPC \ Publishing /\ "release" \notin Fetching
    BY DEF PollPC, Publishing, Fetching
  <1>3. CASE Goto(w, "release")
    BY <1>1, <1>2, <1>3, GotoPlain
  <1>4. CASE Goto(w, next)
    BY <1>1, <1>4, GotoPlain
  <1> QED
    BY <1>3, <1>4 DEF PollReads

LEMMA PersistsPlain ==
    ASSUME Before, NEW w \in Workers, poll[w].pc # "idle", NEW guard, NEW newRow,
           guard => Moves(row[poll[w].build], newRow),
           NEW next \in PollPC \ Publishing, PollPersists(w, guard, newRow, next),
           UNCHANGED <<disk, handlers, process>>,
           next \in Fetching => poll[w].pc \in Fetching
    PROVE  OutputInv'
  <1>0. Inv /\ poll[w].build \in Builds
    BY DEF Before, Inv, Typed, PollsKnown
  <1>1. PICK o \in Outcomes : Persist(poll[w].build, guard, newRow, o)
    BY DEF PollPersists
  <1>2. \A c \in Builds : Moves(row[c], row'[c]) /\ (c # poll[w].build => row'[c] = row[c])
    BY <1>0, <1>1, PersistMoves
  <1>3. "release" \in PollPC \ Publishing /\ "release" \notin Fetching
    BY DEF PollPC, Publishing, Fetching
  <1>4. CASE Goto(w, "release")
    BY <1>2, <1>3, <1>4, GotoPlain
  <1>5. CASE Goto(w, next)
    BY <1>2, <1>5, GotoPlain
  <1> QED
    BY <1>4, <1>5 DEF PollPersists, GiveUpWithRetry

\* Steps that read the row, the provider or the clock.
LEMMA PollReadingOutput ==
    ASSUME Before, NEW w \in Workers,
           \/ PollStarts(w) \/ PollLoops(w) \/ PollRefreshes(w) \/ PollRecovers(w)
           \/ PollLoadsConfig(w) \/ PollReadsStatus(w) \/ PollConcludes(w)
           \/ PollDownloads(w) \/ PollRereadsArtifactID(w) \/ PollProvesCompletion(w)
           \/ PollFailsActive(w) \/ PollReleases(w) \/ DeadlinePasses(w)
    PROVE  OutputInv'
  <1> USE DEF disk, handlers, process, provider
  <1>0. /\ Inv /\ Typed /\ OutputInv
        /\ poll \in [Workers -> Poll] /\ poll[w] \in Poll
    BY DEF Before, Inv, Typed, TypeOK
  <1>1. poll[w].pc # "idle"
    BY DEF PollStarts, PollLoops, PollRefreshes, PollRecovers, PollLoadsConfig,
           PollReadsStatus, PollConcludes, PollDownloads, PollRereadsArtifactID,
           PollProvesCompletion, PollFailsActive, PollReleases, DeadlinePasses
  <1>2. UNCHANGED <<row, disk, handlers, process>>
    BY DEF PollStarts, PollLoops, PollRefreshes, PollRecovers, PollLoadsConfig,
           PollReadsStatus, PollConcludes, PollDownloads, PollRereadsArtifactID,
           PollProvesCompletion, PollFailsActive, PollReleases, DeadlinePasses
  <1>3. \A c \in Builds : Moves(row[c], row'[c])
    BY <1>0, <1>2, RowsStay
  <1>4. poll[w].build \in Builds
    BY <1>0, <1>1 DEF Typed, PollsKnown
  <1>5. ASSUME \A v \in Workers \ {w} : poll'[v] = poll[v],
               poll'[w].pc # "idle" =>
                   poll'[w].build = poll[w].build /\ poll'[w].run = poll[w].run,
               poll'[w].pc \notin Publishing,
               poll'[w].pc \in Fetching =>
                   \/ poll[w].pc \in Fetching
                   \/ ~(row[poll[w].build].pub /\ Polled(row[poll[w].build], poll[w].run))
        PROVE  OutputInv'
    BY <1>1, <1>2, <1>3, <1>4, <1>5, PollPlain
  <1> USE DEF Publishing, Fetching
  <1>6. CASE PollStarts(w)
    <2>1. /\ \A v \in Workers \ {w} : poll'[v] = poll[v]
          /\ poll'[w].build = poll[w].build /\ poll'[w].run = poll[w].run
          /\ poll'[w].pc \in {"release", "fail", "refresh"}
      BY <1>0, <1>6 DEF PollStarts, Goto, Poll
    <2> QED
      BY <1>5, <2>1
  <1>7. CASE PollLoops(w)
    BY <1>1, <1>2, <1>7, ReadsPlain DEF PollLoops, PollPC
  <1>8. CASE PollRefreshes(w)
    <2> DEFINE r == row[poll[w].build]
               next == IF ~Polled(r, poll[w].run) THEN "release"
                       ELSE IF r.pub THEN "recover" ELSE "config"
    <2>1. PollReads(w, next)
      BY <1>8 DEF PollRefreshes
    <2>2. next \in PollPC \ Publishing /\ (next \in Fetching => ~r.pub)
      BY DEF PollPC
    <2> HIDE DEF next
    <2> QED
      BY <1>1, <1>2, <2>1, <2>2, ReadsPlain
  <1>9. CASE PollRecovers(w)
    <2>1. /\ \A v \in Workers \ {w} : poll'[v] = poll[v]
          /\ poll'[w].build = poll[w].build /\ poll'[w].run = poll[w].run
          /\ poll'[w].pc \in {"complete", "failActive", "config"}
          /\ poll'[w].pc = "config" => ~Polled(row[poll[w].build], poll[w].run)
      BY <1>0, <1>9 DEF PollRecovers, Goto, Poll
    <2> QED
      BY <1>5, <2>1
  <1>10. CASE PollLoadsConfig(w)
    BY <1>1, <1>2, <1>10, ReadsPlain DEF PollLoadsConfig, PollPC
  <1>11. CASE PollReadsStatus(w)
    <2>1. /\ \A v \in Workers \ {w} : poll'[v] = poll[v]
          /\ poll'[w].build = poll[w].build /\ poll'[w].run = poll[w].run
          /\ poll'[w].pc \in {"loop", "failActive", "fail", "sha", "final"}
          /\ poll[w].pc = "status"
      BY <1>0, <1>11 DEF PollReadsStatus, Goto, Continue, AfterStatus, Poll
    <2> QED
      BY <1>5, <2>1
  <1>12. CASE PollConcludes(w)
    BY <1>1, <1>2, <1>12, ReadsPlain DEF PollConcludes, PollPC
  <1>13. CASE PollDownloads(w)
    <2>1. /\ \A v \in Workers \ {w} : poll'[v] = poll[v]
          /\ poll'[w].build = poll[w].build /\ poll'[w].run = poll[w].run
          /\ poll'[w].pc \in {"loop", "fail", "extracting"}
          /\ poll[w].pc = "download"
      BY <1>0, <1>13 DEF PollDownloads, Goto, Continue, Poll
    <2> QED
      BY <1>5, <2>1
  <1>14. CASE PollRereadsArtifactID(w)
    BY <1>1, <1>2, <1>14, ReadsPlain DEF PollRereadsArtifactID, PollPC
  <1>15. CASE PollProvesCompletion(w)
    BY <1>1, <1>2, <1>15, ReadsPlain DEF PollProvesCompletion, GiveUpWithRetry, PollPC
  <1>16. CASE PollFailsActive(w)
    BY <1>1, <1>2, <1>16, ReadsPlain DEF PollFailsActive, PollPC
  <1>17. CASE PollReleases(w)
    <2>1. /\ \A v \in Workers \ {w} : poll'[v] = poll[v]
          /\ poll'[w].pc = "idle"
      BY <1>0, <1>17 DEF PollReleases, IdlePoll
    <2> QED
      BY <1>5, <2>1
  <1>18. CASE DeadlinePasses(w)
    <2>1. /\ \A v \in Workers \ {w} : poll'[v] = poll[v]
          /\ poll'[w].build = poll[w].build /\ poll'[w].run = poll[w].run
          /\ poll'[w].pc = poll[w].pc /\ poll'[w].got = poll[w].got
      BY <1>0, <1>18 DEF DeadlinePasses, Poll
    <2>2. PollOutput(poll[w], row[poll[w].build], out[poll[w].build])
      BY <1>0, <1>1 DEF OutputInv, PollsOutput
    <2>3. PollOutput(poll'[w], row[poll[w].build], out[poll[w].build])
      BY <2>1, <2>2 DEF PollOutput
    <2>4. Present(row[poll[w].build]) /\ row[poll[w].build].pub
            => out[poll[w].build] \in {row[poll[w].build].art, Damaged}
      BY <1>0, <1>4 DEF OutputInv, PublishedOutputStays
    <2> QED
      BY <1>1, <1>2, <2>1, <2>3, <2>4, PollKeeps
  <1> QED
    BY <1>6, <1>7, <1>8, <1>9, <1>10, <1>11, <1>12, <1>13, <1>14, <1>15, <1>16, <1>17, <1>18

\* Steps that write the row before or after publication.
LEMMA PollWritingOutput ==
    ASSUME Before, NEW w \in Workers,
           \/ PollSetsSourceSha(w) \/ PollSetsDownloading(w) \/ PollSetsExtracting(w)
           \/ PollSetsArtifactID(w) \/ PollCompletes(w) \/ PollFails(w)
    PROVE  OutputInv'
  <1> DEFINE p == poll[w]
             r == row[p.build]
  <1> USE DEF disk, handlers, process, provider
  <1>0. /\ Inv /\ Typed /\ OutputInv
        /\ poll \in [Workers -> Poll] /\ p \in Poll
    BY DEF Before, Inv, Typed, TypeOK
  <1>1. p.pc # "idle"
    BY DEF PollSetsSourceSha, PollSetsDownloading, PollSetsExtracting, PollSetsArtifactID,
           PollCompletes, PollFails
  <1>2. UNCHANGED <<disk, handlers, process>>
    BY DEF PollSetsSourceSha, PollSetsDownloading, PollSetsExtracting, PollSetsArtifactID,
           PollCompletes, PollFails
  <1>3. p.build \in Builds /\ r \in Row /\ RowSound(r) /\ PollSound(p, r)
    BY <1>0, <1>1 DEF Inv, Typed, TypeOK, PollsKnown, RowsSound, PollsSound
  <1>4. /\ Moves(r, WithSourceSha(r))
        /\ Active(r) => /\ \A st \in {"downloading", "extracting", "done", "failed"} :
                             Moves(r, WithStatus(r, st))
        /\ \A a \in Artifacts : r.art = None => Moves(r, WithArtifactID(r, a))
    <2>1. Active(r) => Present(r)
      BY DEF Active, Present, ActiveStatus
    <2>2. {"downloading", "extracting"} \subseteq ActiveStatus
      BY DEF ActiveStatus
    <2> QED
      BY <1>3, <2>1, <2>2, RowUpdatesMove
  <1>5. CASE PollSetsSourceSha(w)
    <2>1. PICK o \in Outcomes : Persist(p.build, CanSetSourceSha(r, p.run), WithSourceSha(r), o)
      BY <1>5 DEF PollSetsSourceSha
    <2>2. \A c \in Builds : Moves(row[c], row'[c]) /\ (c # p.build => row'[c] = row[c])
      BY <1>0, <1>3, <1>4, <2>1, PersistMoves
    <2>3. /\ \A v \in Workers \ {w} : poll'[v] = poll[v]
          /\ poll'[w].build = p.build /\ poll'[w].run = p.run
          /\ poll'[w].pc \in {"loop", "final", "release"}
          /\ p.pc = "sha"
      BY <1>0, <1>5 DEF PollSetsSourceSha, GiveUpWithRetry, Goto, AfterStatus, Poll
    <2>4. poll'[w].pc \notin Publishing /\ p.pc \in Fetching
      BY <2>3 DEF Publishing, Fetching
    <2> QED
      BY <1>1, <1>2, <1>3, <2>2, <2>3, <2>4, PollPlain
  <1>6. CASE PollSetsDownloading(w)
    <2>1. CanProgress(r, p.run) => Moves(r, WithStatus(r, "downloading"))
      BY <1>4 DEF CanProgress
    <2>2. "download" \in PollPC \ Publishing /\ p.pc \in Fetching
      BY <1>6 DEF PollPC, Publishing, Fetching, PollSetsDownloading
    <2>3. PollPersists(w, CanProgress(r, p.run), WithStatus(r, "downloading"), "download")
      BY <1>6 DEF PollSetsDownloading
    <2> QED
      BY <1>1, <1>2, <2>1, <2>2, <2>3, PersistsPlain
  <1>7. CASE PollSetsExtracting(w)
    <2> DEFINE next == IF p.stored = None THEN "artifact"
                       ELSE IF p.got # p.stored THEN "fail" ELSE "reread"
    <2>1. CanProgress(r, p.run) => Moves(r, WithStatus(r, "extracting"))
      BY <1>4 DEF CanProgress
    <2>2. next \in PollPC \ Publishing /\ p.pc \in Fetching
      BY <1>7 DEF PollPC, Publishing, Fetching, PollSetsExtracting
    <2>3. PollPersists(w, CanProgress(r, p.run), WithStatus(r, "extracting"), next)
      BY <1>7 DEF PollSetsExtracting
    <2> HIDE DEF next
    <2> QED
      BY <1>1, <1>2, <2>1, <2>2, <2>3, PersistsPlain
  <1>8. CASE PollSetsArtifactID(w)
    <2>1. PICK o \in Outcomes :
            Persist(p.build, CanSetArtifactID(r, p.run), WithArtifactID(r, p.got), o)
      BY <1>8 DEF PollSetsArtifactID
    <2>2. p.pc = "artifact" /\ p.got \in Artifacts
      BY <1>0, <1>3, <1>8 DEF PollSetsArtifactID, PollSound, Fetched, Poll, ArtId
    <2>3. CanSetArtifactID(r, p.run) => Moves(r, WithArtifactID(r, p.got))
      BY <1>4, <2>2 DEF CanSetArtifactID
    <2>4. \A c \in Builds : Moves(row[c], row'[c]) /\ (c # p.build => row'[c] = row[c])
      BY <1>0, <1>3, <2>1, <2>3, PersistMoves
    <2>5. Goto(w, "reread") \/ Goto(w, "rereadArtifact")
      BY <1>8 DEF PollSetsArtifactID
    <2>6. {"reread", "rereadArtifact"} \subseteq PollPC \ Publishing /\ p.pc \in Fetching
      BY <2>2 DEF PollPC, Publishing, Fetching
    <2> QED
      BY <1>1, <1>2, <2>4, <2>5, <2>6, GotoPlain
  <1>9. CASE PollCompletes(w)
    <2>1. CanComplete(r, p.run, p.got) => Moves(r, WithStatus(r, "done"))
      BY <1>4 DEF CanProgress, CanComplete
    <2>2. "release" \in PollPC \ Publishing /\ "release" \notin Fetching
      BY DEF PollPC, Publishing, Fetching
    <2>3. PollPersists(w, CanComplete(r, p.run, p.got), WithStatus(r, "done"), "release")
      BY <1>9 DEF PollCompletes
    <2> QED
      BY <1>1, <1>2, <2>1, <2>2, <2>3, PersistsPlain
  <1>10. CASE PollFails(w)
    <2>1. CanProgress(r, p.run) => Moves(r, WithStatus(r, "failed"))
      BY <1>4 DEF CanProgress
    <2>2. "release" \in PollPC \ Publishing /\ "release" \notin Fetching
      BY DEF PollPC, Publishing, Fetching
    <2>3. PollPersists(w, CanProgress(r, p.run), WithStatus(r, "failed"), "release")
      BY <1>10 DEF PollFails
    <2> QED
      BY <1>1, <1>2, <2>1, <2>2, <2>3, PersistsPlain
  <1> QED
    BY <1>5, <1>6, <1>7, <1>8, <1>9, <1>10

\* Publication: the row read last was not published, and stays so until the
\* poll that owns the build marks it, with the files it put there.
LEMMA PublishOutput ==
    ASSUME Before, NEW w \in Workers,
           \/ PollRereads(w) \/ PollPublishes(w) \/ PollSwapsOutput(w)
           \/ PollRecordsOutput(w) \/ PollMarksPublished(w)
    PROVE  OutputInv'
  <1> DEFINE p == poll[w]
             b == p.build
             r == row[b]
  <1> USE DEF disk, handlers, process, provider
  <1>0. /\ Inv /\ Typed /\ OutputInv
        /\ poll \in [Workers -> Poll] /\ p \in Poll /\ out \in [Builds -> Files]
    BY DEF Before, Inv, Typed, TypeOK
  <1>1. p.pc # "idle"
    BY DEF PollRereads, PollPublishes, PollSwapsOutput, PollRecordsOutput, PollMarksPublished
  <1>2. UNCHANGED <<tomb, handlers, process>>
    BY DEF PollRereads, PollPublishes, PollSwapsOutput, PollRecordsOutput, PollMarksPublished
  <1>3. b \in Builds /\ r \in Row /\ RowSound(r) /\ PollSound(p, r) /\ PollOutput(p, r, out[b])
    BY <1>0, <1>1 DEF Inv, Typed, TypeOK, PollsKnown, RowsSound, PollsSound, OutputInv, PollsOutput
  <1>4. CASE PollRereads(w)
    <2>1. /\ \A v \in Workers \ {w} : poll'[v] = poll[v]
          /\ poll'[w].build = b /\ poll'[w].run = p.run
          /\ poll'[w].pc \in {"release", "publish"}
          /\ poll'[w].pc = "publish" => Polled(r, p.run)
          /\ p.pc = "reread" /\ UNCHANGED <<row, out>>
      BY <1>0, <1>4 DEF PollRereads, Goto, Poll
    <2>2. PollOutput(poll'[w], r, out[b])
      BY <1>3, <2>1 DEF PollOutput, Fetching, Publishing, Polled, Active, ActiveStatus
    <2>3. Present(r) /\ r.pub => out[b] \in {r.art, Damaged}
      BY <1>0, <1>3 DEF OutputInv, PublishedOutputStays
    <2> QED
      BY <1>1, <1>2, <2>1, <2>2, <2>3, PollKeeps
  <1>5. p.pc \in Publishing => ~r.pub /\ r.st # "deleted"
    BY <1>3 DEF PollOutput
  <1>6. CASE PollPublishes(w)
    <2>1. /\ \A v \in Workers \ {w} : poll'[v] = poll[v]
          /\ poll'[w].build = b
          /\ poll'[w].pc \in {"fail", "record", "swap"}
          /\ p.pc = "publish" /\ UNCHANGED row
      BY <1>0, <1>6 DEF PollPublishes, Goto, Poll
    <2>2. \A c \in Builds \ {b} : out'[c] = out[c]
      BY <1>0, <1>6 DEF PollPublishes
    <2>3. ~r.pub /\ r.st # "deleted"
      BY <1>5, <2>1 DEF Publishing
    <2>4. PollOutput(poll'[w], r, out'[b])
      BY <2>1, <2>3 DEF PollOutput, Fetching, Publishing
    <2> QED
      BY <1>1, <1>2, <2>1, <2>2, <2>3, <2>4, PollKeeps
  <1>7. CASE PollSwapsOutput(w)
    <2>1. /\ \A v \in Workers \ {w} : poll'[v] = poll[v]
          /\ poll'[w].build = b
          /\ poll'[w].pc \in {"fail", "record"}
          /\ p.pc = "swap" /\ UNCHANGED row
      BY <1>0, <1>7 DEF PollSwapsOutput, Poll
    <2>2. \A c \in Builds \ {b} : out'[c] = out[c]
      BY <1>0, <1>7 DEF PollSwapsOutput
    <2>3. ~r.pub /\ r.st # "deleted"
      BY <1>5, <2>1 DEF Publishing
    <2>4. PollOutput(poll'[w], r, out'[b])
      BY <2>1, <2>3 DEF PollOutput, Fetching, Publishing
    <2> QED
      BY <1>1, <1>2, <2>1, <2>2, <2>3, <2>4, PollKeeps
  <1>8. CASE PollRecordsOutput(w)
    <2>1. p.pc = "record" /\ UNCHANGED <<row, out>>
      BY <1>8 DEF PollRecordsOutput
    <2>2. ~r.pub /\ r.st # "deleted"
      BY <1>5, <2>1 DEF Publishing
    <2>3. /\ \A v \in Workers \ {w} : poll'[v] = poll[v]
          /\ poll'[w].build = b /\ poll'[w].got = p.got
          /\ poll'[w].pc \in {"release", "mark"}
          /\ poll'[w].pc = "mark" => CanRecordOutput(r, p.run, p.got, out[b])
      BY <1>0, <1>8, <2>2 DEF PollRecordsOutput, GiveUpWithRetry, Goto, Poll
    <2>4. PollOutput(poll'[w], r, out[b])
      BY <2>2, <2>3 DEF PollOutput, Fetching, Publishing, CanRecordOutput
    <2> QED
      BY <1>1, <1>2, <2>1, <2>2, <2>3, <2>4, PollKeeps
  <1>9. CASE PollMarksPublished(w)
    <2>1. p.pc = "mark" /\ UNCHANGED out
      BY <1>9 DEF PollMarksPublished
    <2>2. ~r.pub /\ r.st # "deleted" /\ out[b] \in {p.got, Damaged}
      BY <1>3, <1>5, <2>1 DEF Publishing, PollOutput
    <2>3. /\ \A v \in Workers \ {w} : poll'[v] = poll[v]
          /\ poll'[w].build = b
          /\ poll'[w].pc \in {"release", "complete"}
      BY <1>0, <1>9 DEF PollMarksPublished, GiveUpWithRetry, Goto, Poll
    <2> DEFINE n == WithPublication(r, p.got, p.dig)
    <2>4. n.art = r.art /\ n.st = r.st
      BY <1>3 DEF WithPublication, Row
    <2>5. /\ \A c \in Builds \ {b} : row'[c] = row[c]
          /\ row'[b] = r \/ (row'[b] = n /\ CanMarkPublished(r, p.run, p.got))
      BY <1>0, <1>3, <1>9 DEF PollMarksPublished, Persist, Inv, Typed, TypeOK
    <2> HIDE DEF n
    <2>6. /\ row'[b].st = r.st
          /\ row'[b].pub => row'[b].art = p.got
      BY <2>2, <2>4, <2>5 DEF CanMarkPublished
    <2>7. PollOutput(poll'[w], row'[b], out[b])
      BY <2>3 DEF PollOutput, Fetching, Publishing
    <2> QED
      BY <1>1, <1>2, <2>1, <2>2, <2>3, <2>5, <2>6, <2>7, PollKeeps
  <1> QED
    BY <1>4, <1>6, <1>7, <1>8, <1>9

-----------------------------------------------------------------------------
LEMMA OutputInitial == Init => OutputInv
  <1> SUFFICES ASSUME Init PROVE OutputInv
    OBVIOUS
  <1>1. \A b \in Builds : ~row[b].pub
    <2> SUFFICES ASSUME NEW b \in Builds PROVE ~row[b].pub
      OBVIOUS
    <2>1. row[b] = NoRow \/ row[b] \in LegacyRows
      BY DEF Init
    <2>2. CASE row[b] \in LegacyRows
      <3>1. PICK run \in RunId : row[b] = [NoRow EXCEPT !.st = "building", !.run = run]
        BY <2>2 DEF LegacyRows
      <3> QED
        BY <3>1 DEF NoRow
    <2> QED
      BY <2>1, <2>2 DEF NoRow
  <1>2. PublishedOutputStays /\ DeletedOutputTracked
    BY <1>1 DEF Init, PublishedOutputStays, DeletedOutputTracked
  <1>3. PollsOutput /\ DeletesOutput /\ BootAlone
    BY DEF Init, PollsOutput, DeletesOutput, BootAlone, IdlePoll, IdleCreate
  <1> QED
    BY <1>2, <1>3 DEF OutputInv

LEMMA OutputStep == Before /\ [Next]_vars => OutputInv'
  <1> SUFFICES ASSUME Before, [Next]_vars PROVE OutputInv'
    OBVIOUS
  <1>1. CASE UNCHANGED vars
    BY <1>1 DEF vars, Before, OutputInv, PublishedOutputStays, DeletedOutputTracked, PollsOutput,
                DeletesOutput, BootAlone
  <1>2. ASSUME NEW b \in Builds, CreateStep(b) \/ DeleteStep(b) \/ TimerStep(b) PROVE OutputInv'
    BY <1>2, CreateOutput, DeleteOutput, TimerOutput
  <1>3. ASSUME NEW w \in Workers, PollStep(w) \/ DeadlinePasses(w) PROVE OutputInv'
    BY <1>3, PollReadingOutput, PollWritingOutput, PublishOutput DEF PollStep
  <1>4. CASE BootStep \/ Environment
    BY <1>4, BootOutput, EnvironmentOutput
  <1> QED
    BY <1>1, <1>2, <1>3, <1>4 DEF Next

LEMMA OutputInvariant == Spec => []OutputInv
  <1>1. Spec => []Inv
    BY InitSound, NextSound, PTL DEF Spec
  <1>2. Inv /\ OneLifecycleOwner /\ OutputInv /\ [Next]_vars => OutputInv'
    BY OutputStep DEF Before
  <1> QED
    BY <1>1, <1>2, OutputInitial, MutualExclusion, PTL DEF Spec

\* While its row exists, the output a build was published with is never removed
\* or replaced: publishDownloadedArtifactWithManifest only runs for rows without
\* a publication, Delete removes files only after the row, and the start-up
\* sweep only those of rows it found gone, whatever fails or crashes.
THEOREM PublishedOutputIsKept == Spec => []PublishedOutputStays
  <1>1. OutputInv => PublishedOutputStays
    BY DEF OutputInv
  <1> QED
    BY <1>1, OutputInvariant, PTL

\* Every output left behind by a delete that failed or was cut off by a crash
\* has its tombstone, so a later start-up sweep finds it.
THEOREM DeletedOutputIsTracked == Spec => []DeletedOutputTracked
  <1>1. OutputInv => DeletedOutputTracked
    BY DEF OutputInv
  <1> QED
    BY <1>1, OutputInvariant, PTL
=============================================================================
