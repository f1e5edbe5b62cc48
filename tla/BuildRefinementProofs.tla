----------------------- MODULE BuildRefinementProofs -----------------------
(***************************************************************************)
(* BuildLifecycle implements BuildRecord: every step of handlers, polls,   *)
(* retries, start-up and environment changes the view of at most one row,  *)
(* by a step the record allows.                                            *)
(***************************************************************************)
EXTENDS BuildSafetyProofs

\* The updates that a row of the lifecycle can see.
Allowed(r, n) ==
    \/ View(n) = View(r)
    \/ r = NoRow /\ n = NewRow
    \/ CanSetProvenance(r) /\ \E run \in Runs : n = WithProvenance(r, run)
    \/ /\ Active(r) /\ r.art = None
       /\ \E a \in Artifacts : r.run = ArtifactRun[a] /\ n = WithArtifactID(r, a)
    \/ /\ Active(r) /\ r.art \in ValidArtifacts /\ ~r.pub
       /\ \E a \in ArtId, dig \in Digest : n = WithPublication(r, a, dig)
    \/ Active(r) /\ r.pub /\ n = WithStatus(r, "done")
    \/ (Active(r) \/ r.st = "pending") /\ n = WithStatus(r, "failed")
    \/ Present(r) /\ n = WithStatus(r, "deleted")

\* A handler past the dispatch knows its run, and a delete past its re-read a
\* row that exists: only that delete can take it away.
HandlersSound ==
    /\ \A b \in Builds : create[b].pc = "provenance" => create[b].run \in Runs
    /\ \A b \in Builds : del[b] \in {"tombstone", "row"} => Present(row[b])

RInv == Inv /\ HandlersSound

\* The view of a row that was updated.
LEMMA ViewsUpdate ==
    ASSUME Typed, NEW b \in Builds, NEW n, row' = [row EXCEPT ![b] = n]
    PROVE  views' = [views EXCEPT ![b] = View(n)]
  BY DEF Typed, TypeOK, views

\* The view of a row, field by field.
LEMMA ViewFields ==
    ASSUME NEW r
    PROVE  /\ Active(r) => View(r) = [st |-> "active", run |-> r.run, art |-> r.art, pub |-> r.pub]
           /\ ~Active(r) => View(r) = [st |-> r.st, run |-> r.run, art |-> r.art, pub |-> r.pub]
           /\ Active(r) => View(r).st = "active"
           /\ ~Active(r) => View(r).st = r.st
           /\ View(r).run = r.run /\ View(r).art = r.art /\ View(r).pub = r.pub
  BY DEF View

\* Every allowed update of a row is a step of its record.
LEMMA AllowedRefines ==
    ASSUME Typed, NEW b \in Builds, NEW n, row' = [row EXCEPT ![b] = n],
           Allowed(row[b], n)
    PROVE  [Record!Next]_views
  <1> DEFINE r == row[b]
  <1>0. r \in Row /\ views[b] = View(r) /\ views = [views EXCEPT ![b] = View(r)]
    BY DEF Typed, TypeOK, views
  <1>1. views' = [views EXCEPT ![b] = View(n)]
    BY ViewsUpdate
  <1> DEFINE v == views[b]
  <1>f. v = View(r) /\ v.run = r.run /\ v.art = r.art /\ v.pub = r.pub
    BY <1>0, ViewFields
  <1> USE DEF Record!Move, Record!Write
  <1> HIDE DEF v
  <1>2. CASE View(n) = View(r)
    BY <1>0, <1>1, <1>2 DEF v
  <1>3. CASE r = NoRow /\ n = NewRow
    <2>1. /\ r.st = "none" /\ r.run = None /\ r.art = None /\ r.pub = FALSE
          /\ n.st = "pending" /\ n.run = None /\ n.art = None /\ n.pub = FALSE
      BY <1>3 DEF NoRow, NewRow
    <2>2. ~Active(r) /\ ~Active(n)
      BY <2>1 DEF Active, ActiveStatus
    <2>3. View(r) = Record!Absent
      BY <2>1, <2>2 DEF View, Record!Absent
    <2>4. View(n) = [st |-> "pending", run |-> v.run, art |-> v.art, pub |-> v.pub]
      BY <1>f, <2>1, <2>2 DEF View
    <2>5. Record!Create(b)
      BY <1>f, <1>1, <2>3, <2>4 DEF Record!Create, v
    <2> QED
      BY <2>5 DEF Record!Next
  <1>4. CASE CanSetProvenance(r) /\ \E run \in Runs : n = WithProvenance(r, run)
    <2>1. PICK run \in Runs : n = WithProvenance(r, run)
      BY <1>4
    <2>2. /\ r.st = "pending" /\ r.run = None
          /\ n.st = "building" /\ n.run = run /\ n.art = r.art /\ n.pub = r.pub
      BY <1>0, <1>4, <2>1 DEF WithProvenance, CanSetProvenance, Row
    <2>3. ~Active(r) /\ Active(n)
      BY <2>2 DEF Active, ActiveStatus
    <2>4. View(n) = [st |-> "active", run |-> run, art |-> v.art, pub |-> v.pub]
      BY <1>f, <2>2, <2>3 DEF View
    <2>g. v.st = "pending"
      BY <1>f, <2>2, <2>3, ViewFields
    <2>5. Record!Dispatch(b, run)
      BY <1>f, <1>1, <2>2, <2>4, <2>g DEF Record!Dispatch, v
    <2> QED
      BY <2>5 DEF Record!Next
  <1>5. CASE /\ Active(r) /\ r.art = None
             /\ \E a \in Artifacts : r.run = ArtifactRun[a] /\ n = WithArtifactID(r, a)
    <2>1. PICK a \in Artifacts : r.run = ArtifactRun[a] /\ n = WithArtifactID(r, a)
      BY <1>5
    <2>2. n.st = r.st /\ n.run = r.run /\ n.art = a /\ n.pub = r.pub
      BY <1>0, <2>1 DEF WithArtifactID, Row
    <2>3. Active(n)
      BY <1>5, <2>2 DEF Active
    <2>4. View(n) = [st |-> "active", run |-> v.run, art |-> a, pub |-> v.pub]
      BY <1>f, <2>2, <2>3 DEF View
    <2>g. v.st = "active"
      BY <1>f, <1>5, ViewFields
    <2>5. Record!Select(b, a)
      BY <1>f, <1>1, <1>5, <2>1, <2>4, <2>g DEF Record!Select, v
    <2> QED
      BY <2>5 DEF Record!Next
  <1>6. CASE /\ Active(r) /\ r.art \in ValidArtifacts /\ ~r.pub
             /\ \E a \in ArtId, dig \in Digest : n = WithPublication(r, a, dig)
    <2>1. n.st = r.st /\ n.run = r.run /\ n.art = r.art /\ n.pub = TRUE
      BY <1>0, <1>6 DEF WithPublication, Row
    <2>2. Active(n)
      BY <1>6, <2>1 DEF Active
    <2>3. View(n) = [st |-> "active", run |-> v.run, art |-> v.art, pub |-> TRUE]
      BY <1>f, <2>1, <2>2 DEF View
    <2>g. v.st = "active"
      BY <1>f, <1>6, ViewFields
    <2>4. Record!Publish(b)
      BY <1>f, <1>1, <1>6, <2>3, <2>g DEF Record!Publish, v
    <2> QED
      BY <2>4 DEF Record!Next
  <1>7. CASE Active(r) /\ r.pub /\ n = WithStatus(r, "done")
    <2>1. n.st = "done" /\ n.run = r.run /\ n.art = r.art /\ n.pub = r.pub
      BY <1>0, <1>7 DEF WithStatus, Row
    <2>2. ~Active(n)
      BY <2>1 DEF Active, ActiveStatus
    <2>3. View(n) = [st |-> "done", run |-> v.run, art |-> v.art, pub |-> v.pub]
      BY <1>f, <2>1, <2>2 DEF View
    <2>g. v.st = "active"
      BY <1>f, <1>7, ViewFields
    <2>4. Record!Complete(b)
      BY <1>f, <1>1, <1>7, <2>3, <2>g DEF Record!Complete, v
    <2> QED
      BY <2>4 DEF Record!Next
  <1>8. CASE (Active(r) \/ r.st = "pending") /\ n = WithStatus(r, "failed")
    <2>1. n.st = "failed" /\ n.run = r.run /\ n.art = r.art /\ n.pub = r.pub
      BY <1>0, <1>8 DEF WithStatus, Row
    <2>2. ~Active(n)
      BY <2>1 DEF Active, ActiveStatus
    <2>3. View(n) = [st |-> "failed", run |-> v.run, art |-> v.art, pub |-> v.pub]
      BY <1>f, <2>1, <2>2 DEF View
    <2>4. v.st \in {"pending", "active"}
      BY <1>f, <1>8, ViewFields
    <2>5. Record!Fail(b)
      BY <1>f, <1>1, <2>3, <2>4 DEF Record!Fail, v
    <2> QED
      BY <2>5 DEF Record!Next
  <1>9. CASE Present(r) /\ n = WithStatus(r, "deleted")
    <2>1. n.st = "deleted" /\ n.run = r.run /\ n.art = r.art /\ n.pub = r.pub
      BY <1>0, <1>9 DEF WithStatus, Row
    <2>2. ~Active(n)
      BY <2>1 DEF Active, ActiveStatus
    <2>3. View(n) = [st |-> "deleted", run |-> v.run, art |-> v.art, pub |-> v.pub]
      BY <1>f, <2>1, <2>2 DEF View
    <2>4. v.st \notin {"none", "deleted"}
      BY <1>f, <1>9, ViewFields DEF Present
    <2>5. Record!Delete(b)
      BY <1>f, <1>1, <2>3, <2>4 DEF Record!Delete, v
    <2> QED
      BY <2>5 DEF Record!Next
  <1> QED
    BY <1>2, <1>3, <1>4, <1>5, <1>6, <1>7, <1>8, <1>9 DEF Allowed

\* A row that exists still exists after the step.
Kept == \A c \in Builds : Present(row[c]) => Present(row'[c])

\* So is a guarded update, whatever its outcome.
LEMMA PersistRefines ==
    ASSUME Typed, NEW b \in Builds, NEW guard, NEW n, NEW o,
           Persist(b, guard, n, o), guard => Allowed(row[b], n)
    PROVE  /\ [Record!Next]_views
           /\ (guard => Present(n)) => Kept
  <1>1. CASE row' = row
    BY <1>1 DEF views, Kept
  <1>2. CASE row' # row
    <2>1. guard /\ row' = [row EXCEPT ![b] = n]
      BY <1>2 DEF Persist
    <2>2. [Record!Next]_views
      BY <2>1, AllowedRefines
    <2>3. Present(n) => Kept
      BY <2>1 DEF Kept, Typed, TypeOK
    <2> QED
      BY <2>1, <2>2, <2>3
  <1> QED
    BY <1>1, <1>2

\* The guards of the updates make them allowed ones.
LEMMA GuardsAllow ==
    ASSUME NEW r \in Row, NEW run \in RunId
    PROVE  /\ r = NoRow => Allowed(r, NewRow) /\ Present(NewRow)
           /\ CanSetProvenance(r) /\ run \in Runs =>
                Allowed(r, WithProvenance(r, run)) /\ Present(WithProvenance(r, run))
           /\ \A st \in {"downloading", "extracting", "failed"} :
                CanProgress(r, run) => Allowed(r, WithStatus(r, st)) /\ Present(WithStatus(r, st))
           /\ CanFailPending(r) \/ CanFailRunless(r) =>
                Allowed(r, WithStatus(r, "failed")) /\ Present(WithStatus(r, "failed"))
           /\ \A a \in ArtId : CanComplete(r, run, a) =>
                Allowed(r, WithStatus(r, "done")) /\ Present(WithStatus(r, "done"))
           /\ CanSetSourceSha(r, run) =>
                Allowed(r, WithSourceSha(r)) /\ Present(WithSourceSha(r))
           /\ \A a \in Artifacts : CanSetArtifactID(r, run) /\ ArtifactRun[a] = run =>
                Allowed(r, WithArtifactID(r, a)) /\ Present(WithArtifactID(r, a))
           /\ \A a \in ValidArtifacts, dig \in Digest : CanMarkPublished(r, run, a) =>
                Allowed(r, WithPublication(r, a, dig)) /\ Present(WithPublication(r, a, dig))
  <1>1. ASSUME r = NoRow PROVE Allowed(r, NewRow) /\ Present(NewRow)
    BY <1>1 DEF Allowed, Present, NewRow, NoRow
  <1>2. ASSUME CanSetProvenance(r), run \in Runs
        PROVE  Allowed(r, WithProvenance(r, run)) /\ Present(WithProvenance(r, run))
    <2>1. Present(WithProvenance(r, run))
      BY DEF Present, WithProvenance, Row
    <2> QED
      BY <1>2, <2>1 DEF Allowed
  <1>3. ASSUME NEW st \in {"downloading", "extracting"}, CanProgress(r, run)
        PROVE  Allowed(r, WithStatus(r, st)) /\ Present(WithStatus(r, st))
    <2> DEFINE n == WithStatus(r, st)
    <2>1. n.st = st /\ n.run = r.run /\ n.art = r.art /\ n.pub = r.pub
      BY DEF WithStatus, Row
    <2>2. Active(r) /\ Active(n) /\ Present(n)
      BY <1>3, <2>1 DEF CanProgress, Active, ActiveStatus, Present
    <2> HIDE DEF n
    <2>3. View(n) = View(r)
      BY <2>1, <2>2 DEF View
    <2> QED
      BY <2>2, <2>3 DEF n, Allowed
  <1>4. ASSUME CanProgress(r, run) \/ CanFailPending(r) \/ CanFailRunless(r)
        PROVE  Allowed(r, WithStatus(r, "failed")) /\ Present(WithStatus(r, "failed"))
    <2>1. Present(WithStatus(r, "failed"))
      BY DEF Present, WithStatus, Row
    <2> QED
      BY <1>4, <2>1 DEF Allowed, CanProgress, CanFailPending, CanFailRunless
  <1>5. ASSUME NEW a \in ArtId, CanComplete(r, run, a)
        PROVE  Allowed(r, WithStatus(r, "done")) /\ Present(WithStatus(r, "done"))
    <2>1. Present(WithStatus(r, "done"))
      BY DEF Present, WithStatus, Row
    <2> QED
      BY <1>5, <2>1 DEF Allowed, CanComplete, CanProgress
  <1>6. ASSUME CanSetSourceSha(r, run)
        PROVE  Allowed(r, WithSourceSha(r)) /\ Present(WithSourceSha(r))
    <2> DEFINE n == WithSourceSha(r)
    <2>1. n.st = r.st /\ n.run = r.run /\ n.art = r.art /\ n.pub = r.pub
      BY DEF WithSourceSha, Row
    <2>2. Active(r) /\ Active(n) /\ Present(n)
      BY <1>6, <2>1 DEF CanSetSourceSha, Active, ActiveStatus, Present
    <2> HIDE DEF n
    <2>3. View(n) = View(r)
      BY <2>1, <2>2 DEF View
    <2> QED
      BY <2>2, <2>3 DEF n, Allowed
  <1>7. ASSUME NEW a \in Artifacts, CanSetArtifactID(r, run), ArtifactRun[a] = run
        PROVE  Allowed(r, WithArtifactID(r, a)) /\ Present(WithArtifactID(r, a))
    <2>1. Present(WithArtifactID(r, a))
      BY <1>7 DEF Present, WithArtifactID, CanSetArtifactID, Active, ActiveStatus, Row
    <2> QED
      BY <1>7, <2>1 DEF Allowed, CanSetArtifactID
  <1>8. ASSUME NEW a \in ValidArtifacts, NEW dig \in Digest, CanMarkPublished(r, run, a)
        PROVE  Allowed(r, WithPublication(r, a, dig)) /\ Present(WithPublication(r, a, dig))
    <2>1. Present(WithPublication(r, a, dig))
      BY <1>8 DEF Present, WithPublication, CanMarkPublished, Active, ActiveStatus, Row
    <2>2. a \in ArtId
      BY RowAssumption DEF ArtId
    <2> QED
      BY <1>8, <2>1, <2>2 DEF Allowed, CanMarkPublished
  <1> QED
    BY <1>1, <1>2, <1>3, <1>4, <1>5, <1>6, <1>7, <1>8

\* A step that does not write the table changes no view.
LEMMA RowUnchanged ==
    ASSUME UNCHANGED row
    PROVE  [Record!Next]_views /\ Kept
  BY DEF views, Kept

\* Every step of a poll.
LEMMA PollRefines ==
    ASSUME Inv, NEW w \in Workers, PollStep(w) \/ DeadlinePasses(w)
    PROVE  [Record!Next]_views /\ Kept /\ UNCHANGED <<create, del>>
  <1> DEFINE p == poll[w]
             r == row[p.build]
  <1> USE DEF handlers
  <1>0. poll[w].pc # "idle"
    BY DEF PollStep, DeadlinePasses, PollStarts, PollLoops, PollRefreshes,
           PollRecovers, PollLoadsConfig, PollReadsStatus, PollSetsSourceSha,
           PollConcludes, PollSetsDownloading, PollDownloads,
           PollSetsExtracting, PollSetsArtifactID, PollRereadsArtifactID,
           PollRereads, PollPublishes, PollSwapsOutput, PollRecordsOutput,
           PollMarksPublished, PollProvesCompletion, PollCompletes, PollFails,
           PollFailsActive, PollReleases
  <1>1. /\ Typed
        /\ p.build \in Builds /\ r \in Row /\ p.run \in RunId
        /\ p.got \in ArtId /\ p.dig \in Digest
        /\ PollSound(p, r)
    BY <1>0 DEF Inv, Typed, TypeOK, PollsKnown, PollsSound, Poll
  <1>2. CASE UNCHANGED <<row, create, del>>
    BY <1>2, RowUnchanged
  <1>3. ASSUME NEW guard, NEW n, NEW next, PollPersists(w, guard, n, next),
               guard => Allowed(r, n) /\ Present(n)
        PROVE  [Record!Next]_views /\ Kept
    BY <1>1, <1>3, PersistRefines DEF PollPersists
  <1>4. CASE PollSetsSourceSha(w)
    <2>1. PICK o : Persist(p.build, CanSetSourceSha(r, p.run), WithSourceSha(r), o)
      BY <1>4 DEF PollSetsSourceSha
    <2> QED
      BY <1>1, <1>4, <2>1, GuardsAllow, PersistRefines DEF PollSetsSourceSha
  <1>5. CASE PollSetsDownloading(w)
    BY <1>1, <1>3, <1>5, GuardsAllow DEF PollSetsDownloading
  <1>6. CASE PollSetsExtracting(w)
    BY <1>1, <1>3, <1>6, GuardsAllow DEF PollSetsExtracting
  <1>7. CASE PollSetsArtifactID(w)
    <2>1. PICK o : Persist(p.build, CanSetArtifactID(r, p.run), WithArtifactID(r, p.got), o)
      BY <1>7 DEF PollSetsArtifactID
    <2>2. p.got \in Artifacts /\ ArtifactRun[p.got] = p.run
      BY <1>1, <1>7 DEF PollSetsArtifactID, PollSound, Fetched, ArtId
    <2>3. CanSetArtifactID(r, p.run) =>
            Allowed(r, WithArtifactID(r, p.got)) /\ Present(WithArtifactID(r, p.got))
      BY <1>1, <2>2, GuardsAllow
    <2> QED
      BY <1>1, <1>7, <2>1, <2>3, PersistRefines DEF PollSetsArtifactID
  <1>8. CASE PollMarksPublished(w)
    <2>1. PICK o : Persist(p.build, CanMarkPublished(r, p.run, p.got),
                           WithPublication(r, p.got, p.dig), o)
      BY <1>8 DEF PollMarksPublished
    <2>2. p.got \in ValidArtifacts
      BY <1>1, <1>8 DEF PollMarksPublished, PollSound, Validated
    <2>3. CanMarkPublished(r, p.run, p.got) =>
            /\ Allowed(r, WithPublication(r, p.got, p.dig))
            /\ Present(WithPublication(r, p.got, p.dig))
      BY <1>1, <2>2, GuardsAllow
    <2> QED
      BY <1>1, <1>8, <2>1, <2>3, PersistRefines DEF PollMarksPublished
  <1>9. CASE PollCompletes(w)
    BY <1>1, <1>3, <1>9, GuardsAllow DEF PollCompletes
  <1>10. CASE PollFails(w)
    BY <1>1, <1>3, <1>10, GuardsAllow DEF PollFails
  <1> QED
    BY <1>2, <1>4, <1>5, <1>6, <1>7, <1>8, <1>9, <1>10
    DEF PollStep, DeadlinePasses, PollStarts, PollLoops, PollRefreshes,
        PollRecovers, PollLoadsConfig, PollReadsStatus, PollConcludes,
        PollDownloads, PollRereadsArtifactID, PollRereads, PollPublishes,
        PollSwapsOutput, PollRecordsOutput, PollProvesCompletion,
        PollFailsActive, PollReleases

\* Handlers that a step leaves alone stay sound while their rows are kept.
LEMMA HandlersKept ==
    ASSUME HandlersSound, Kept, UNCHANGED <<create, del>>
    PROVE  HandlersSound'
  BY DEF HandlersSound, Kept, Present

\* Every step of a create handler.
LEMMA CreateRefines ==
    ASSUME RInv, NEW b \in Builds, CreateStep(b)
    PROVE  [Record!Next]_views /\ HandlersSound'
  <1> DEFINE r == row[b]
  <1>1. Typed /\ HandlersSound /\ r \in Row /\ RowSound(r) /\ create[b].run \in RunId
    BY DEF RInv, Inv, Typed, TypeOK, RowsSound
  <1>2. UNCHANGED del
    BY DEF CreateStep, CreateInserts, CreateDispatchFails, CreateDispatches,
           CreateSetsProvenance, CreateFailsPending, CreateStartsPoll, handlers
  <1>3. ASSUME NEW c \in Builds, create'[c].pc = "provenance"
        PROVE  create'[c].run \in Runs
    <2>0. create \in [Builds -> [pc : CreatePC, run : RunId]]
      BY <1>1 DEF Typed, TypeOK
    <2>1. create'[c] = create[c] => create'[c].run \in Runs
      BY <1>1, <1>3 DEF HandlersSound
    <2>2. CASE c # b
      <3>1. create'[c] = create[c]
        BY <2>0, <2>2
        DEF CreateStep, CreateInserts, CreateDispatchFails, CreateDispatches,
            CreateSetsProvenance, CreateFailsPending, CreateStartsPoll
      <3> QED
        BY <2>1, <3>1
    <2>3. CASE c = b /\ CreateDispatches(b)
      BY <2>0, <2>3 DEF CreateDispatches
    <2>4. CASE c = b /\ ~CreateDispatches(b)
      <3>1. create' = create \/ create'[b].pc # "provenance"
        <4>1. CASE CreateInserts(b)
          BY <2>0, <4>1 DEF CreateInserts
        <4>2. CASE CreateDispatchFails(b)
          BY <2>0, <4>2 DEF CreateDispatchFails
        <4>3. CASE CreateSetsProvenance(b)
          <5>1. PICK pc \in {"startPoll", "pendingFailure"} :
                  create' = [create EXCEPT ![b].pc = pc]
            BY <4>3 DEF CreateSetsProvenance
          <5> QED
            BY <2>0, <5>1
        <4>4. CASE CreateFailsPending(b) \/ CreateStartsPoll(b)
          BY <2>0, <4>4 DEF CreateFailsPending, CreateStartsPoll, IdleCreate
        <4> QED
          BY <2>4, <4>1, <4>2, <4>3, <4>4 DEF CreateStep
      <3> QED
        BY <1>3, <2>1, <2>4, <3>1
    <2> QED
      BY <2>2, <2>3, <2>4
  <1>4. ASSUME Kept PROVE HandlersSound'
    BY <1>1, <1>2, <1>3, <1>4 DEF HandlersSound, Kept, Present
  <1>5. CASE UNCHANGED row
    BY <1>4, <1>5, RowUnchanged
  <1>6. CASE CreateInserts(b)
    <2>1. PICK o : Persist(b, TRUE, NewRow, o)
      BY <1>6 DEF CreateInserts
    <2>2. r = NoRow
      BY <1>1, <1>6 DEF CreateInserts, RowSound
    <2> QED
      BY <1>1, <1>4, <2>1, <2>2, GuardsAllow, PersistRefines
  <1>7. CASE CreateSetsProvenance(b)
    <2>1. PICK o : Persist(b, CanSetProvenance(r), WithProvenance(r, create[b].run), o)
      BY <1>7 DEF CreateSetsProvenance
    <2>2. create[b].run \in Runs
      BY <1>1, <1>7 DEF CreateSetsProvenance, HandlersSound
    <2> QED
      BY <1>1, <1>4, <2>1, <2>2, GuardsAllow, PersistRefines
  <1>8. CASE CreateFailsPending(b)
    <2>1. PICK o : Persist(b, CanFailPending(r), WithStatus(r, "failed"), o)
      BY <1>8 DEF CreateFailsPending
    <2> QED
      BY <1>1, <1>4, <2>1, GuardsAllow, PersistRefines
  <1> QED
    BY <1>5, <1>6, <1>7, <1>8
    DEF CreateStep, CreateDispatchFails, CreateDispatches, CreateStartsPoll

\* Every step of a delete handler: only its own deletion takes a row away, and
\* the handler has left the states that rely on it.
LEMMA DeleteRefines ==
    ASSUME RInv, NEW b \in Builds, DeleteStep(b)
    PROVE  [Record!Next]_views /\ HandlersSound'
  <1> DEFINE r == row[b]
  <1>1. Typed /\ HandlersSound /\ r \in Row
    BY DEF RInv, Inv, Typed, TypeOK
  <1>2. UNCHANGED create
    BY DEF DeleteStep, DeleteWait, DeleteWork, DeleteBegins, DeleteAcquires,
           DeleteCancelled, DeleteRereads, DeleteWritesTombstone,
           DeleteDeletesRow, DeleteRemovesDir, DeleteRemovesTombstone,
           DeleteReleases
  <1>3. CASE DeleteDeletesRow(b)
    <2>1. PICK o \in Outcomes :
            /\ Persist(b, TRUE, WithStatus(r, "deleted"), o)
            /\ DelGoto(b, IF o = "ok" THEN "dir" ELSE "release")
      BY <1>3 DEF DeleteDeletesRow
    <2>2. Present(r)
      BY <1>1, <1>3 DEF DeleteDeletesRow, HandlersSound
    <2>3. Allowed(r, WithStatus(r, "deleted"))
      BY <2>2 DEF Allowed
    <2>4. [Record!Next]_views
      BY <1>1, <2>1, <2>3, PersistRefines
    <2>5. ASSUME NEW c \in Builds, del'[c] \in {"tombstone", "row"}
          PROVE  Present(row'[c])
      <3>1. c # b
        BY <1>1, <2>1, <2>5 DEF DelGoto, Typed, TypeOK
      <3>2. del'[c] = del[c] /\ row'[c] = row[c]
        BY <1>1, <2>1, <3>1 DEF DelGoto, Persist, Typed, TypeOK
      <3> QED
        BY <1>1, <2>5, <3>2 DEF HandlersSound, Present
    <2> QED
      BY <1>1, <1>2, <2>4, <2>5 DEF HandlersSound
  <1>4. CASE ~DeleteDeletesRow(b)
    <2>1. UNCHANGED row
      BY <1>4
      DEF DeleteStep, DeleteWait, DeleteWork, DeleteBegins, DeleteAcquires,
          DeleteCancelled, DeleteRereads, DeleteWritesTombstone,
          DeleteRemovesDir, DeleteRemovesTombstone, DeleteReleases
    <2>2. ASSUME NEW c \in Builds, del'[c] \in {"tombstone", "row"}
          PROVE  Present(row[c])
      BY <1>1, <1>4, <2>2
      DEF DeleteStep, DeleteWait, DeleteWork, DeleteBegins, DeleteAcquires,
          DeleteCancelled, DeleteRereads, DeleteWritesTombstone,
          DeleteRemovesDir, DeleteRemovesTombstone, DeleteReleases, DelGoto,
          HandlersSound, Typed, TypeOK
    <2> QED
      BY <1>1, <1>2, <2>1, <2>2, RowUnchanged DEF HandlersSound, Present
  <1> QED
    BY <1>3, <1>4

\* Every other step.
LEMMA OthersRefine ==
    ASSUME RInv,
           \/ \E b \in Builds : TimerStep(b)
           \/ BootStep
           \/ Environment
    PROVE  [Record!Next]_views /\ HandlersSound'
  <1> USE DEF handlers
  <1>1. Typed /\ HandlersSound
    BY DEF RInv, Inv
  <1>2. CASE UNCHANGED <<row, create, del>>
    BY <1>1, <1>2, RowUnchanged, HandlersKept
  <1>3. ASSUME NEW b \in Builds, BootCloses(b)
        PROVE  [Record!Next]_views /\ HandlersSound'
    <2> DEFINE r == row[b]
               guard == IF r.run = None THEN CanFailRunless(r) ELSE CanProgress(r, r.run)
    <2>1. PICK o : Persist(b, guard, WithStatus(r, "failed"), o)
      BY <1>3 DEF BootCloses
    <2>2. r \in Row /\ r.run \in RunId
      BY <1>1 DEF Typed, TypeOK, Row
    <2>3. guard => Allowed(r, WithStatus(r, "failed")) /\ Present(WithStatus(r, "failed"))
      BY <2>2, GuardsAllow
    <2>4. [Record!Next]_views /\ Kept
      <3> HIDE DEF guard
      <3> QED
        BY <1>1, <2>1, <2>3, PersistRefines
    <2>5. UNCHANGED <<create, del>>
      BY <1>3 DEF BootCloses
    <2> QED
      BY <1>1, <2>4, <2>5, HandlersKept
  <1>4. CASE Crash
    <2>1. UNCHANGED row
      BY <1>4 DEF Crash
    <2>2. HandlersSound'
      BY <1>4 DEF Crash, HandlersSound, IdleCreate
    <2> QED
      BY <2>1, <2>2, RowUnchanged
  <1>5. ASSUME NEW b \in Builds, TimerStep(b) PROVE UNCHANGED <<row, create, del>>
    BY <1>5 DEF TimerStep, TimerFires, TimerGivesUp, TimerStartsPoll, TimerClearsKey
  <1>6. ASSUME BootStep, \A b \in Builds : ~BootCloses(b)
        PROVE  UNCHANGED <<row, create, del>>
    BY <1>6 DEF BootStep, BootQueries, BootSweeps, BootResumes, BootFinishes
  <1>7. ASSUME Environment, ~Crash PROVE UNCHANGED <<row, create, del>>
    BY <1>7 DEF Environment, TombstoneAges, OutputDamaged, RunChanges, RunFails,
                ArtifactListingChanges
  <1> QED
    BY <1>2, <1>3, <1>4, <1>5, <1>6, <1>7

\* Empty rows and rows of an older version are initial records.
LEMMA InitRefines == Init => RInv /\ Record!Init
  <1> SUFFICES ASSUME Init PROVE RInv /\ Record!Init
    OBVIOUS
  <1>1. HandlersSound
    BY DEF Init, HandlersSound, IdleCreate
  <1>2. ASSUME NEW b \in Builds
        PROVE  View(row[b]) \in {Record!Absent} \cup Record!Inherited
    <2>1. CASE row[b] = NoRow
      <3>1. row[b].st = "none" /\ row[b].run = None /\ row[b].art = None /\ row[b].pub = FALSE
        BY <2>1 DEF NoRow
      <3>2. ~Active(row[b])
        BY <3>1 DEF Active, ActiveStatus
      <3> QED
        BY <3>1, <3>2 DEF View, Record!Absent
    <2>2. CASE row[b] \in LegacyRows
      <3>1. PICK run \in RunId : row[b] = [NoRow EXCEPT !.st = "building", !.run = run]
        BY <2>2 DEF LegacyRows
      <3>2. /\ row[b].st = "building" /\ row[b].run = run
            /\ row[b].art = None /\ row[b].pub = FALSE
        BY <3>1 DEF NoRow
      <3>3. Active(row[b])
        BY <3>2 DEF Active, ActiveStatus
      <3>4. View(row[b]) = [st |-> "active", run |-> run, art |-> None, pub |-> FALSE]
        BY <3>2, <3>3 DEF View
      <3> QED
        BY <3>4 DEF Record!Inherited, RunId
    <2> QED
      BY <2>1, <2>2 DEF Init
  <1>3. Record!Init
    BY <1>2 DEF Record!Init, views
  <1> QED
    BY <1>1, <1>3, InitSound DEF RInv

\* The whole lifecycle implements the record: whatever fails, is retried or
\* restarts, a row's run, artifact and publication are written once and in
\* that order, only a published build becomes done, done and failed rows only
\* change by deletion, and a deleted id is never used again.
THEOREM ImplementsRecord == Spec => KeepsRecord
  <1>1. RInv /\ [Next]_vars => RInv' /\ [Record!Next]_views
    <2> SUFFICES ASSUME RInv, [Next]_vars
                 PROVE  HandlersSound' /\ [Record!Next]_views
      BY NextSound DEF RInv
    <2>1. CASE UNCHANGED vars
      BY <2>1, RowUnchanged, HandlersKept DEF vars, RInv
    <2>2. ASSUME NEW w \in Workers, PollStep(w) \/ DeadlinePasses(w)
          PROVE  HandlersSound' /\ [Record!Next]_views
      BY <2>2, PollRefines, HandlersKept DEF RInv
    <2>3. CASE Next
      BY <2>2, <2>3, CreateRefines, DeleteRefines, OthersRefine DEF Next
    <2> QED
      BY <2>1, <2>3
  <1> QED
    BY <1>1, InitRefines, PTL DEF Spec, KeepsRecord, Record!Spec

=============================================================================
