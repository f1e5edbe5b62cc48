# DeskForge: a verification project

DeskForge is a self-hosted RustDesk-compatible server: two Rust servers (hbbs
for rendezvous, hbbr for relaying), a Go API with an admin UI, and a builder of
custom clients that runs on GitHub Actions.  This directory models the parts of
it in which several actors change shared state, checks them with TLC and proves
the central properties with TLAPS.

## 1. Inventory

Paths are relative to `src/`.  The same list, with the reasons for what is left
out, is in `PROJECT.json` under "components".

| component | state | operations | interacts with | hard behaviours | correct when |
|---|---|---|---|---|---|
| custom build row (`api/service/custom_build.go`, `api/model/custom_build.go`) | table `custom_builds` | insert, SetProvenance, SetSourceSha, SetArtifactID, RecordPublishedOutput, UpdateProgress, Update{NoRun,Pending}Failure, Delete | handlers, polls, start-up | guarded updates by several writers, unacknowledged commits | identities are write-once, done needs a publication |
| build lifecycle (`api/http/controller/admin/custom_build.go`) | lifecycle guard, retry keys, goroutines | Create, Delete, pollAndDownload, retry scheduling, ResumePendingPolls | row, output directory, GitHub | interleaving of handlers, polls and timers; restarts; reads before long waits | one owner at a time; active builds end; a done build is proven |
| build output (`api/service/build_output_cleanup.go`, `published_output.go`) | output directories, staging, tombstones | publish by rename, replace, delete, sweep | lifecycle | crash between two file operations, removal failures | published output stays, deleted output is removed or remembered |
| GitHub client (`api/service/github_build_config.go`) | token and config row | dispatch, run status, artifact listing and download | lifecycle | re-runs, expired and duplicate artifacts, timeouts | only the run's own artifact is used |
| workflow mapping, presets, manifests, catalog (`api/service/workflow_mapping.go`, `custom_build_spec.go`, `producer_manifest.go`, ...) | none | pure translation and validation | Create, publish | - | output is the image of the input |
| login limiter (`api/utils/login_limiter.go`, `http/middleware/limiter.go`, the login handlers) | attempts, bans, captchas | check, record, verify, forget, clean up | login handlers | a check long before the record, time windows, thresholds at their edge | the ban bounds the passwords one address can try |
| caches, locks (`api/lib/cache`, `api/lib/lock`) | map, LRU list, expiry heap, byte count | get, set, evict, collect | OAuth, sessions | none in use: `cache.New` passes no size limit | - |
| hbbs (`server/src/rendezvous_server.rs`, `peer.rs`, `database.rs`) | peer map over SQLite, IP blocker, relay list | register, look up, punch hole, relay request, relay-servers command, periodic check | clients, hbbr, server commands | check under a read lock and write later, failed writes, checks of older lists that report late | a key is replaced only by its owner; a configured list prevails |
| hbbr (`server/src/relay_server.rs`) | waiting streams by uuid, usage, block lists and their files | pair, relay, time out, block, save | clients, server commands | remove-then-insert race, late timers, saves of older copies, crashes | two streams of one uuid meet, none is leaked; an answered command is kept |
| server commands (`api/service/serverCmd.go`, `api/cmd`, `model/server_cmd_state.go`) | table `server_cmd_states` | send, persist, replay at start-up | hbbs, hbbr | lost answers, a stored row after the fact, aliases, replay while commands arrive, a server that exits alone | a replay reproduces the settings |
| build page (`admin-ui/src/views/custom-client/index.vue`) | history list, request generations, form, errors, presets, uploads | load, poll, create, delete, edit, select, upload | API | answers out of order, awaits with edits in between, unmounting | the history never goes back; what the user typed is not lost |
| web client (`api/resources/web/js/src/connection.ts`, `websock.ts`) | one connection's sockets, buffers, key | start, handshake, message loop, user input, close, reconnect | rendezvous server, peer | coroutines sharing `_ws`, input and closes at any await, resolvers kept across sockets | no socket is lost, both ends agree on encryption |
| users, OAuth, LDAP, address books, peers, uploads, secrets | database rows | create, read, update, delete | UI and clients | few | - |
| other admin pages, `libs/hbb_common`, the generated part of `api/resources/web`, frozen builders | - | - | - | presentation, third-party, generated or frozen code | not modelled |

The lifecycle of a custom build is the system's hardest part and the first one
modelled: a request handler, a goroutine that polls for up to 90 minutes, retry
timers, a delete handler and the start-up hook all work on one row and one
directory, over a database that may fail, and must leave a proven build.

## 2. Modules

    BuildRow            the row, its guarded updates, publication proof
      BuildLifecycle    every actor on the row, the guard and the directory
        MCBuildLifecycle    small instances for TLC
        BuildTypeProofs     type correctness
          BuildSafetyProofs   proven completion, mutual exclusion, output directories
            BuildRefinementProofs   BuildLifecycle implements BuildRecord
    BuildRecord         abstract specification of the row (INSTANCEd by
                        BuildLifecycle as Record, checked as KeepsRecord)

    AdminPage           BuildHistory and BuildForm      (MCAdminPage, AdminPageProofs)
    WebClient           one connection                  (MCWebClient, WebClientProofs)
    RelayServer         RelayPairing and IpSetFile      (MCRelayServer, RelayServerProofs)
    RendezvousServer    PeerRegistry and RelayRotation  (MCRendezvousServer,
                                                         RendezvousServerProofs)
    AdminApi            LoginLimiter and ServerCommands (MCAdminApi, AdminApiProofs)

**BuildRow.** A row is a record with the status, the run id, the artifact id,
the manifest, and the publication marker and digest.  A `Can...` operator is the
WHERE clause of one UPDATE (with the reads the service does just before it where
they are one step), a `With...` operator what it writes.  Columns that are only
written together are one flag (`prov` for the provenance columns).  An artifact
stands for its contents: the digest of a directory is the triple of run,
artifact and files, so two digests are equal exactly when these are.

**BuildLifecycle.** The variables are the database (`row`), the disk (`out`,
`tomb`), the process (`owner`, `poll`, `create`, `del`, `waiting`, `keys`,
`timers`, `phase`, `todo`), the provider (`runState`, `avail`) and two budgets (`faults`,
`crashes`).  Correspondence with the code:

| model | code |
|---|---|
| `owner[b]` | `activeGithubPolls.active[b]`: the claim and who made it |
| `poll[w]` | locals and program counter of one `pollAndDownloadWithClock`; `start` to `release` follow the function from top to bottom |
| `create[b]` | position of the create handler, with `tryGithubDispatch` |
| `del[b]`, `waiting[b]` | position of the delete handler that holds the guard, and the number of those waiting in `acquire` |
| `keys`, `timers[b]` | `scheduledGithubPollRetries.keys` and the retry goroutines, counted by where they are: before the one-minute timer, waiting on a claim, ready to start, before the deferred clear |
| `phase`, `todo` | how far `ResumePendingPolls` has come, and the rows its query returned |
| `tomb[b]` | the deletion marker: none, fresh, or older than its TTL |

A step is what an actor does between two points where another can be observed:
one SQL statement, one rename, one provider call.  `Persist` is
`persistBuildMutation`: three attempts of one statement have three outcomes,
acknowledged, not executed, and executed without an acknowledgement; a statement
that matches no row is an error to the caller, as in the code.  A crash keeps the
database, the disk and the provider.  The provider may re-run a run, list a
second artifact, or let one expire at any time; a dispatch that failed may have
created a run.

**BuildRecord** states what readers of the row may rely on: run, artifact and
publication are written once and in this order, only an active build changes
them, done needs a publication, done and failed are left only by deletion, and a
deleted id stays deleted.

**AdminPage** joins two modules over `index.vue`.
- *BuildHistory*: `loadBuilds` with its request generation, the 12-second poll,
  refreshes after a create or a delete, mounting and unmounting.  The code only
  compares a generation with the newest one, so a request in flight carries the
  result of that comparison (`current`).  `server` is the API's list; `shown` is
  `builds.value`.
- *BuildForm*: five fields for the kinds the code tells apart.  `call` holds the
  snapshots sent by `submitBuild` and `saveCurrentAsPreset`, `err` the value a
  field had when `serverFieldErrors` got its entry, `explicit` is
  `explicitPresetFields`.  A preset whose JSON does not parse (`Unreadable`) is
  selected over the form that was there.  Every await is a step boundary except the ones on
  promises that are already settled.

**WebClient.** `pc[a]` is the await at which the coroutine of one `start` or
`reconnect` rests, `wait[a]` the socket whose `next()` it awaits; `ws` is `_ws`.
`UserSends` is `setByName`: a key, the mouse or an option goes out on whatever
`_ws` is, with no look at the state, so it can precede the key that `secure()`
sends; the history variable `early` names the attempts where it did.
The rendezvous server and the peer are external: `peer`, `toPeer` and `fromPeer`
are what a RustDesk peer does with the messages of the handshake.

**RelayServer** joins two modules over `relay_server.rs`.
- *RelayPairing*: a task per connection.  `PEERS` is a map from uuid to a
  stream; taking a waiter and inserting oneself are two locks, the sleep of 30
  seconds and the relay loop are steps, usage entries are keyed as in the code.
- *IpSetFile*: a command changes the set, copies it under `DISK_WRITE_LOCK`,
  writes a temporary file and renames it; any of these can fail, and the process
  can crash between any two.

**RendezvousServer** joins two modules.
- *PeerRegistry*: `handle_register_pk` over `PeerMap` and the table `peer` for
  one id.  Every lock and every database await is a step boundary; entries are
  objects, so a task can go on with one that has left the map.  The history
  variables say whether tasks overlapped since the start, whether the last write
  of the row failed (`failed`), and which machines passed the check while the id
  was free (`sawEmpty`); a request the address limiter refuses is not among them.
- *RelayRotation*: the relay-servers command, the periodic
  `check_relay_servers` and the channel through which its result comes back.
  The configured list may be empty, as it is by default.

**AdminApi** joins two modules.
- *LoginLimiter*: one address; the middleware, the two login routes, the captcha
  route and the clean-up share the attempts, with the password check outside the
  mutex.  Time is a small counter.  The code appends times to a list and only
  counts and prunes them, so a list is a set of stamps, each a time and a number
  that tells the stamps of one tick apart.
- *ServerCommands*: `SendCmd` over two loopback sockets, `PersistCmd` as its SQL
  statements, `ReplayServerCmds` over the rows it read once.  The table is a set
  of rows with ids, and a replay sends the row with the least id next.  Two
  settings stand for all, the relay list of hbbs and the block list of hbbr; a
  command goes out under its name or under the alias `rs`, `Ba` or `Br`.
  `PersistCmd` looks at the suffix of the name, so `Ba` and `Br` are stored like
  commands that replace a value (`single`), whatever hbbr takes them for.
  `Restart` is a start of the API, alone or with servers, and a replay follows;
  `ServerExits` is a server that exits alone and is started again, and none
  does.  hbbs then has its default list, hbbr what its file kept, or nothing.
  Three history variables carry the conditions of the properties: `want`, what
  administrators last applied; `unsure`, the settings whose last command was not
  stored, was not alone, or went through `Ba` or `Br`; and `gone`, the settings
  that a lone exit took.  The constant `Faults` turns failures and restarts off.

*Joined modules.*  The two components of such a module share no variable, and
neither reads the other, so every property of one is a property of the pair.
The variable `part` says which one moves while the other rests in its initial
state: TLC then explores the sum of the two state spaces instead of their
product, and loses no behaviour of either.  Where a component reads what another
could change, it lets that change happen at any time: RelayPairing's block list,
the server list of BuildHistory.

## 3. Runs

| run | checks | instance |
|---|---|---|
| `build_safety` | `TypeOK`, `DoneIsProven`, `OneLifecycleOwner`, `PublishedOutputStays`, `DeletedOutputTracked`, refinement `KeepsRecord` | 1 build that may be inherited, 2 workers (symmetric), a valid and an invalid artifact, 2 failures, 1 restart; 0.9 million states |
| `build_liveness` | `ActiveEnds`, `ResumedEnds`, `DeleteEnds`, `RetriesEnd` under `FairSpec` | 1 build, 1 worker, 1 artifact, 1 failure, 1 restart; 0.1 million states |
| `legacy_retries` | violates `RetriesEnd` | as above with an inherited row |
| `retry_bound` | violates `AtMostOneRetry` | 3 failures, no restart |
| `dispatch_identity` | violates `NoDurableIdentity` | 1 failure |
| `proven_publication` | violates `ProvenPublicationKept` | 2 failures, no restart |
| `table_is_exact` | violates `TableIsExact` | 1 administrator, 2 commands, 2 addresses, no failure |
| `admin_page` | `TypeOK`, `OwnBuildsShown`, `HistoryMovesForward`, `HistoryCatchesUp`, `ErrorsMatchForm`, `PresetValuesKept`, `UnsentEditsKept` | 1 build, 2 list requests in flight, 2 failures; 3 presets, one of which does not parse, 1 upload, 2 edits; 0.2 million states |
| `web_client` | `TypeOK`, `OpenSocketsAreHeld`, `DroppedIsSilent`, `CipherAgreed`, `StartsEnd` | 2 attempts, 1 message in flight each way, user input while none is; 1.2 million states |
| `relay_server` | `TypeOK`, `OneSessionPerStream`, `PairsShareUuid`, `WaitersAreTimed`, `UsageIsLive`, `LoneWaiterKept`, `WaitersLeave`, `BlockedRelayEnds`, `FileMatchesSet`, `AnsweredIsSaved` | 4 connections, 2 uuids, 3 of them from one address; 3 commands on 2 addresses, 4 changes; 0.2 million states |
| `rendezvous_server` | `TypeOK`, `ForeignKeyNeedsRace`, `MemoryIsTheRow`, `CommandTakesEffect` | 3 tasks, 2 machines with 3 keys, 2 addresses; 5 relays in 3 lists and the empty list, 2 checks, 2 commands; 0.5 million states |
| `admin_api` | `TypeOK`, `GuessesBounded`, `ReplayReproduces`, `SettingsSurvive` | 3 logins, captcha after 1 and ban after 2 failures, window and ban of 2; 2 administrators, 3 commands under names and aliases, on one address or all; 0.5 million states |

*What the build runs show.*  A done build has the marker, digest and manifest of
one validated artifact of its own run whose head SHA was verified.  A poll past
its claim and a delete past `acquire` never work on a build together.  The
output of an existing, published build is never removed or exchanged, a stale
tombstone of a failed delete included.  The output of a deleted build is gone or
has a tombstone.

*What the other runs show.*  The page never replaces a list by an older one,
shows every build it saw created, and catches up with the server under the
fairness below; an error at a field is about the value shown, and the answer to
a create clears only what was sent.  In the web client a socket that is open is
the connection's, or a relay socket that opened late; a connection that the user
closed stays silent, and both ends read each message in the mode it was written
in, unless `close()` finds an attempt busy with something other than a `next()`
(`interrupted`).  The exception that `CipherAgreed` names is real: input that
goes out before the key becomes the first message of the peer, which then stays
in the clear while the client goes on with its key.  hbbr relays a stream in one
session, with a peer of its uuid; its usage table lists the running relays, but
for those whose entry, shared by address, went with another; its list files
follow the memory through failures and crashes.  In hbbs a
foreign key needs a machine that found the id free; memory equals the table as
long as nothing overlapped and the last write did not fail, so one write that
succeeds repairs an earlier one that did not.  The limiter lets at most the
threshold plus two per further concurrent request through in a window.  The
table of commands reproduces each setting whose last command went out under its
full name and was stored alone, and such a setting is back after the next start
of the API; a removal leaves an address unsure when a row that is left adds it
again, and an addition when a stored `Br` follows its row.

*Bounds of the build runs.*  Builds meet only in the provider's run ids, which the dispatch keeps
apart, so one build shows the interleavings of its own actors; the theorems
cover any number.  The guard admits one poll per build: the second worker is
there so that a broken guard would show.  Two failures allow a failed write
followed by a failed recovery.  `MaxClearing` bounds the retry goroutines
between their start of a poll and the deferred clear of their key; a goroutine
beyond it waits, which only delays it.  `MaxWaiting` bounds the deletes waiting
in `acquire`; one beside the one at work meets the deleted row.  `CHECK_DEADLOCK FALSE` because an idle
server whose builds have ended does legitimately nothing.

*Bounds of the other runs.*  Two list requests are enough for an answer to
overtake another; a third would be a second superseded one.  Two edits allow an
edit after a submission and one after its answer.  Two attempts are what
`reconnect` can make overlap; one message in flight on a connection is enough
for the user's input to come before the key or after it.
Three connections of one uuid are needed for two
to insert themselves while a third takes, and one more shows another uuid.
Three commands let an old copy be written while a newer waits and a third
changes the set.  Three tasks let a look-up publish a row over an entry that two
registrations share.  Three logins pass the limiter before a ban of two
failures, and five units of time let a window and a ban end.  Three server
commands add, remove and add again; options of several addresses that overlap
in part are left to the proofs, which hold for every set of options.  `CHECK_DEADLOCK FALSE` where a
server or a page may rest: all clients done, nothing left to send.  The API
always has a clean-up or a restart left, and is checked for deadlock.

*Fairness of the build runs.*  Go runs every started goroutine and handler on, timers fire, and the
90-minute deadline passes: weak fairness of start-up, of every poll and its
deadline, of retries, of a started create handler and of a delete that holds the
guard.  A delete waiting in `acquire` has no fairness (the client may leave, and
polls may be preferred), nor do clients, the provider, failures and restarts.
`ActiveEnds` assumes a behaviour without failures: with one, a poll may end
without a successor, and the code relies on the next start-up, which is
`ResumedEnds`.

*Fairness of the other runs.*
- `HistoryFairness`: the server finishes its builds, `setInterval` fires while
  the page is mounted, every request is answered or fails; strong fairness of
  the newest request says that now and then an answer comes before the next
  poll supersedes it, without which the list would never change (see below).
- `WebClient`: the timers of `open` and `next` fire, and a coroutine whose await
  is settled goes on.  Nothing is assumed of the server, the peer or the user.
- `RelayServer`: Tokio runs every ready task, the sleep and the receive timeout
  end, and the relay loop turns at least every three seconds.  Nothing makes a
  client close or an administrator act.
- `RendezvousServer`: the main loop and its timer go on, a check ends within its
  connection timeout, and again and again some configured server is up (strong
  fairness; with all of them down the code keeps the old answer).

*Disagreements.*  Five runs show where a comment of the code says something the
code does not do; each is listed with the quoted line in `PROJECT.json` under
"findings".  Shortest accounts:
- a row of an older version, closed by an update that was not acknowledged, is
  polled, found incomplete, closed again without effect and retried each minute;
- the key of a retry is cleared by the goroutine of the retry before it, so two
  retries of one build/run can be under way;
- SetProvenance may have committed when all its attempts report errors: the
  client is told the dispatch failed while the row is building;
- a failed read during the recovery of a recorded publication is taken for a
  mismatched proof and fails a build whose output is valid;
- two additions to the block list under the alias `Ba` leave one row, so a
  replay does not reproduce the list that the table should always reflect.

Other disagreements, met while modelling and kept out of the listed properties
by the condition named:
- start-up closes active rows without a run (`custom_build.go:1650`,
  `BootCloses`), which the comment at 1607 says "remain untouched";
- hbbs that exits alone (`rendezvous_server.rs:246`) gets no replay: the hook is
  part of the start of the API, and its comment speaks of a restart of the
  container (`api/http/controller/admin/rustdesk.go:240`); `gone` leaves the
  lost settings out until the API starts again;
- user input that precedes the key (`connection.ts:146`, `globals.js:194`):
  `early` in `CipherAgreed`;
- a list that takes longer than the 12 seconds of the poll is always superseded
  (`index.vue:1446`), so the rows it should refresh (comment at 1443) stay as
  they are: `HistoryCatchesUp` assumes that now and then an answer is in time;
- when a silent poll supersedes a visible load, the spinner stays on
  (`index.vue:1437`, against 1195-1198);
- an upload error is not cleared by a later successful upload (`index.vue:981`,
  against 1321), and the link of an upload can enter the form of a preset
  selected meanwhile (981, against 1545): `ErrorsMatchForm` leaves upload fields
  out, `edited` counts the upload as a change;
- `blocklist-remove all` leaves the stored additions, which the next start-up
  replays (`api/service/serverCmd.go:59`, against `server_cmd_state.go:13`), and
  so does the removal of an address that was added together with others, since
  only a row with exactly the same option goes; an addition whose older row is
  kept may precede a stored `Br`, which undoes it in the replay: `settled` leaves
  these settings unsure;
- a negative captcha threshold with a ban threshold asks for a captcha at every
  login (`login_limiter.go:189`, against `conf/config.yaml:6`);
- a check of an older list that reports after a command with a single server
  overwrites it for good, as a single server is not checked again
  (`rendezvous_server.rs:321`; `CHANGELOG.md:133` has the relay settings survive
  even a restart): `CommandTakesEffect`
  speaks of lists of several servers;
- an unknown permission ends the web client's message loop without closing the
  connection (`connection.ts:522`).

## 4. Proofs

The theorems hold for any sets of builds, workers, tasks, machines, presets and
so on, and any number of failures and restarts.  Each rests only on the named
assumptions of its module, which say that the constants have the right type and
that `None` and the like are not members of the sets they complement
(`RowAssumption`, `LifecycleAssumption`, `PresetAssumption`, `EditAssumption`,
`RegistryAssumption`, `CommandsAssumption` and so on).  `LimiterAssumption` also
says that the requests of one address are finitely many and at least one.
Every invariant, every action property and the refinement that a run checks is
proved; liveness is left to TLC.

Builds:

- `BuildTypeProofs!TypeCorrect`: `Spec => []TypeOK`.  `TypeOK` is not inductive:
  a poll reads the row of its build and the state of its run.  `Typed` adds
  `PollsKnown`: a working poll has a build, and a run of the provider once it
  has compared its run with the row's provenance.
- `BuildSafetyProofs!CompletionIsProven`: `Spec => []DoneIsProven`.  The
  invariant `Inv` adds `RowsSound` (a row's artifact belongs to its run; a
  publication is sound) and `PollsSound`, what the locals of a poll say of the
  row while other actors change it: from the verified SHA on the row has one,
  from the download on the archive is the run's, from the validation on it is
  valid, and before the marker is written the digest is that of the validated
  files and the row's provenance is complete.  Updates only add to what the
  locals rely on (`Grows`), so a poll's knowledge survives the steps of others.
- `BuildSafetyProofs!MutualExclusion`: `Spec => []OneLifecycleOwner`, inductive
  together with `Typed`.
- `BuildSafetyProofs!PublishedOutputIsKept` and `DeletedOutputIsTracked`.
  `OutputInv` adds to the two properties what a poll and a delete know of the
  directory between two file operations: a poll on its way to publish found no
  publication and an existing row (`PollsOutput`), the files it marks as
  published are those it swapped in, a delete has its tombstone on disk from
  before the row is deleted until the directory is gone (`DeletesOutput`), and
  the start-up sweep runs before any poll or delete (`BootAlone`).  Mutual
  exclusion turns "no other poll or delete of this build" into these facts, and
  the refreshed row is the reason why no proven output is replaced.
- `BuildRefinementProofs!ImplementsRecord`: `Spec => KeepsRecord`, the safety
  specification of `BuildRecord` under the mapping `views` (the three active
  statuses are one, and the columns readers do not rely on are dropped).  `RInv`
  adds `HandlersSound` to `Inv`: a create handler past its dispatch knows its
  run, and a delete past its re-read still has a present row.  The argument goes
  through `Allowed`, the updates that a row can see: each is a step of the record
  (`AllowedRefines`), each guard of the service only lets such an update through
  (`GuardsAllow`), and an update whose outcome is lost is one or none
  (`PersistRefines`).  The publication step is the one that needs `PollsSound`:
  the UPDATE compares the artifact id, and only the poll's locals say that this
  artifact was validated.

Page, web client, servers and API:

- `AdminPageProofs`, form: `ErrorsAreCurrent`, `PresetsOutlastDefaults` and the
  action property `EditsSurviveCreate`.  `FormInv` adds to the two invariants
  that `explicit` is the domain of the loaded preset, which is what keeps a
  late `loadConfig` off the stored fields; the last theorem needs the type of
  the snapshot, since a form equals it when all fields do.
- `AdminPageProofs`, history: `OwnBuildsAreShown` and the action property
  `HistoryNeverGoesBack`.  `HistoryInv`: at most one request is current
  (`OneCurrent`), lists are snapshots of the server and the list of the current
  request is no older than what is shown (`ListsBehind`), a build whose create
  or delete was answered is a row of the server (`OwnOnServer`), and it is shown
  or a current request will bring it, or the last load failed (`OwnOnTheWay`).
- `WebClientProofs`: `ClientTypeCorrect`, `OpenSocketsStayHeld`,
  `DroppedStaysSilent`, `CipherStaysAgreed`.  `Inv` says for each attempt which
  sockets exist at which await and which of them `_ws` is (`AttemptHolds`), that
  a close leaves nobody at work (`DroppedEnds`), and what the key exchange has
  put into the two queues.  For an attempt without early input that is
  `ModesAgree`: the client has a key exactly when the peer has read it or reads
  it first, nothing of the client precedes it, and each queue is in the mode its
  reader will be in.  For one with early input it is `PlainSoFar`, until the
  client uses a key: nothing is encrypted, and no key is on its way.  All of it
  holds until a close finds an attempt busy, which is the condition of the
  properties.
- `RelayServerProofs`, pairing: `StreamsHaveOneOwner`, `RelaysShareUuid`,
  `WaitersHaveTimers`, `UsageOfLiveRelays`, `LoneWaitersStay`.  `PairingInv`
  says where each stream can be: a stream in `PEERS` is that of a sleeping task
  of its uuid, the task of a stream that a relay took sleeps or is over and the
  stream has left `PEERS` (`PairSound`), and no two relays took one stream; that
  a relay has taken a stream is also what marks an ended relay in `UsageIsLive`.
- `RelayServerProofs`, files: `IpSetTypeCorrect`, `FileIsNewest`, `AnswersSurviveCrash`.
  `IpSetInv` numbers the changes: a copy is taken under the lock, so it is as
  new as the last change at that time and newer than the file (`CopyIsNew`), a
  copy that has grown old has a newer command waiting for the lock
  (`NewerWaits`), and the newest set is saved, at work, or a save failed
  (`NewestIsSaved`).
- `RendezvousServerProofs!KeysOfOwners`.  A machine is `Legit` when it found the id
  unregistered or the row names it; the row never changes its machine, so
  `Legit` is stable, and entries, rows read earlier and accepted requests only
  name such machines.  `HeldSound` adds that an entry in use keeps its guid, or
  an UPDATE could hit no row with an empty one.

- `RendezvousServerProofs!MemoryFollowsTable`.  `RunsAlone`: while tasks have
  not overlapped, at most one task runs, and between two tasks `MapIsRow` holds:
  the entry in the map is new or the row's, but for what a failed write left
  behind.  At each await of the task `StepAlone` says how far the entry is ahead
  of the row.
- `AdminApiProofs!BanBoundsGuesses`.  The argument matches guesses with records.
  Without a ban, all guesses of the window but a set of at most `n - 1` are
  recorded, at the time of the guess or later, or belong to a request about to
  record: `Counted` says this for every cutoff, so that it survives pruning and
  the clock (`CountHolds`).  During a ban no request joins those that may still
  try, so the guesses and the requests that may still try are bounded together,
  and so are the guesses made after the ban with them (`BanHolds`); when the ban
  ends, all older guesses have left the window, because a ban lasts at least as
  long, and what is left is the next set of uncounted guesses.  The proof needs
  `Logins # {}`: without requests the bound would be below zero.
- `AdminApiProofs!StoredSettingsSurvive` and `TableReproduces`.  `CommandsInv`:
  for a certain setting, the table says what administrators want (`TableSays`),
  and so do the servers together with the rows a replay has yet to send
  (`LiveSays`, with the whole table while the replay waits); the settings of a
  command at work are unsure, a command that will make them certain is alone
  with them (`CommandsAlone`) and has been applied (`CommandsApplied`).  Ids are
  given out in order and a replay follows them, so the newest row is sent last.
  For the block list, an address that is in has a row that `lasting` describes,
  which no stored alias can take away, or is in hbbr's file with no row against
  it; one that is out has no row that adds it.
- Type correctness of the joined modules: `PageTypeCorrect`, `ServerTypeCorrect`
  (of both servers) and `ApiTypeCorrect`, each from a lemma that says that the
  joined specification implies the specifications of its two parts.

Only model-checked: the liveness properties `ActiveEnds`, `ResumedEnds`,
`DeleteEnds`, `RetriesEnd`, `HistoryCatchesUp`, `StartsEnd`, `WaitersLeave`,
`BlockedRelayEnds` and `CommandTakesEffect`, since liveness under fairness is
out of the prover's reach.  `Replayed` is stated in closed form, the newest row
and the sum of the additions, so that no induction over the table is needed;
that the row-by-row replay ends there is `StoredSettingsSurvive`.

## 5. Not modelled

- In the lifecycle: the global mutex that also serialises deletes of different
  builds (the guard already excludes within a build), the download, export and
  re-validation handlers, staging and archive temporaries and their sweep, and
  reuse of a deleted id by the database.
- A pending row whose handler died before `SetProvenance`: the code accepts it
  in a comment, and there is no promise to check.
- A second API process on the same database, which the code declares out of
  scope at `githubPollOwnership`.
- In hbbs: hole punching and the heartbeat (`update_addr`), which write one
  address last-come; in hbbr: bandwidth limits and the numeric commands.
- In the web client: decoding, drawing, and what the input messages say.  `main.dart.js`, `message.ts`,
  `rendezvous.ts`, `gen_js_from_hbb.ts`, `libopus.js` and the libraries beside
  them are generated or third-party code; they are most of the repository's
  JavaScript, so the modelled share of its lines is small by necessity.
- In the admin UI: the other pages, tables over requests that keep no state
  between two answers.
- The size limit of the memory cache, which no caller sets; the text of build
  logs, URLs, HTTP and archive limits.
- The other components marked not_modelled in `PROJECT.json`, for the reason
  given there.

## 6. Plan

1. An abstract specification of hbbr's pairing (a uuid is free, waiting or
   joined) that RelayPairing implements, with a proof of the refinement.
2. `OutputStore`: staging directories, archive temporaries and the start-up
   sweeps, composed with publication and deletion; download handlers with their
   slots and the export lock.
3. Operators for the pure algorithms (artifact selection, status mapping,
   workflow inputs) against reference definitions.
