# RenoP: formal models of the server and its web client

RenoP is an artifact repository server written in Go (`src/main.go`,
`src/internal/...`) that serves a web client written in JavaScript
(`src/internal/service/frontend/renop-html/js`). This directory holds TLA+ models of the
parts whose correctness depends on the order of events: on the server, background
scheduling, the publication pipeline of signed Maven artifacts, multi-part uploads, the
queue of outgoing mail, and the locks under which all repository mutations run; in the
client, everything that waits for an answer while the user goes on. TLC checks the models
on small instances; TLAPS proves every safety property the passing runs check, of the server
and of the client, for every value of the constants. Every definition is translated from the
code; `PROJECT.json` gives the lines.

Contents: 1 inventory, 2 plan, 3 modules and their correspondence with the code,
4 runs and bounds, 5 fairness, 6 proofs, 7 findings, 8 what is left out.

## 1. Inventory

| Part (directory under `src/internal`) | State it keeps | Operations | Hard behaviour | What makes it correct |
|---|---|---|---|---|
| Background scheduler (`service/tasks`) | map of tasks with `next`, atomics `running`, `triggered`, `closed`; channels `wake`, `stop`, `done` | `Schedule`, `Trigger`, `Close`, `loop`, `startTask`, `finishTask` | atomics touched with and without the mutex; dropped wake-ups; Close racing a start | no overlap of a task with itself; no lost turn or trigger; Close returns after the last callback; cadence kept |
| GPG publication (`service/storage/gpg_upload.go`, `gpg_worker.go`, `database/gpg_releases.go`) | rows `gpg_releases` and `gpg_signatures`, quarantine directories, stored files, hidden paths of the index | stage artifact, signature or checksum; claim, verify, publish; fail, clean up; expire; discard on deletion; restore at start | verification outside the mutex; a publication is many durable steps in two stores; crash and failure between any two; cleanup retried later | a record vouches only for stored bytes; one active release per artifact; an ended release stays ended; a failure leaves nothing; every release ends |
| Upload, deletion and download (`service/storage`) | files in the local or S3 store, sizes and digests, `maven-metadata.xml` | `HandlePut`, `HandleDelete`, `RemoveMavenVersion`, `handleProxy`, `commitUploadedFile` | the destination is examined long before it is replaced; multi-step commit with rollback | no redeployment unless allowed; consistent companions; siblings of a deleted file |
| Repository gate and path locks (`service/repositorygate`, `core/inflight.go`) | striped RWMutexes, a map of in-flight paths | `AcquireMutation(s)`, `AcquireMigration`, `AcquireAllMigrations`, `TryAcquireMaintenance`, `LockPath`, `AcquirePath`, `UnlockPath` | writer preference makes nested or reordered read locks deadlock | a migration is alone; no circular wait |
| Chunked uploads (`service/upload`) | sessions with received ranges and claims, temporary files | create, write chunk, complete, abort, expire, remove orphans | completion, cancellation, expiry and chunk writes race for one temporary file; limits with pending reservations | one owner of the file; limits; no loss of a session in use |
| Mail queue (`service/mailqueue`, `database/mail.go`) | lease, queued messages with attempts and a sending mark | queue, acquire the lease, recover, announce audit entries, mark, send, check, complete | two processes, a lease lost during a slow delivery, a crash between sending and recording, failing saves | no message is sent twice; one delivery at a time; what is charged is counted; no notification is lost |
| Settings (`service/settings`) | the configuration and its file | update, migrate, delete a repository, change the storage path | nested locks; a multi-step change that is rolled back | exclusion of mutations; rollback |
| File index (`service/index`) | tree of files, hidden paths, metadata lock | rebuild, add, remove, block, unblock | a rebuild races with mutations | hidden paths stay hidden; nothing stored is lost |
| Proxy and mirrors (`service/proxy`) | cached artifacts, negative cache | fetch, revalidate, health | concurrent fetches of one path; upstream failure | one fetch per path; stale data bounded |
| Quota and capacity (`service/publicationquota`, `repositorycapacity`) | used and reserved bytes and counts | reserve, commit, release, expire | a failed or abandoned upload must return its reservation | usage never exceeds the limit |
| Authentication, sessions, tokens, captcha (`service/auth`, `token`, `captcha`) | sessions, challenges, rate windows | log in, refresh, revoke, verify | revocation racing use; windows at a limit | a revoked session is not usable; a challenge is used once |
| Caches, traffic, statistics (`cache`, `service/traffic`, `statistics`) | bounded maps, counters awaiting a flush | get, set, evict, flush | flush racing increments, crash before flush | no double counting; size bound |
| Updater (`service/updater`) | the state of an update, downloaded files | check, download, apply | failure and restart in the middle | never an unverified binary |
| Package registries (`service/cargo`, `npm`, `docker`, `conan`, `nativepkg`, `maven`) | layouts of package formats | publish, yank, list | mostly parsing | layout rules |
| Teams, tickets, messages, audit; status, legal, frontend; API, middleware, bootstrap; core types, configuration, utilities | rows behind single transactions, static data | requests | little | not a matter of ordering |

The web client (`js` under `service/frontend/renop-html`):

| Part | State it keeps | Operations | Hard behaviour | What makes it correct |
|---|---|---|---|---|
| Challenges (`captcha.js`, `captcha-widget.js`) | chain of challenges, dialog, provider frame | `captchaFetch`, `challenge`, `cancelChallenges` | several denied requests, cancellation, timeouts, withdrawn consent at every wait | one dialog at a time, none left over; every request is answered; no frame without consent |
| Agreements (`legal-consent.js`, `cookie-consent.js`) | revision read last, boxes of the forms, stored choice | read, tick, submit, open and save preferences | the revision changes between reading, ticking and submitting | an agreement counts for the revision that was shown |
| Availability (`backend-availability.js`) | failure under confirmation, notice | note success or failure, probe, resume | two probes with a delay race successes and the visibility of the page | no outage after one failure; a lasting one is announced |
| Uploads (`browser/upload.js`, `chunked-upload.js`) | pending files, batch, policy of the directory; chunks and workers of a transfer | add, remove, send, navigate; init, put, retry, complete, abort | animations, awaits and navigation interleave; answers are lost | signature after artifact; reported success is true; a failure cleans up |
| Tickets (`tickets.js`) | filters, page, generation of loads; bundle under download | open, filter, turn page, decide, download | answers overtake each other; the last page disappears | the page shows the last request; a bundle is whole |
| Repository settings (`repositories.js`) | settings shown, settings taken for saved, numbers of saves | edit, save, create, delete, read | saves overlap | an answer that comes after the next save is silent |
| Shell and identity (`main.js`, `auth.js`, `login-route.js`, `api.js`) | who is signed in, tab, path, navigation bar | sign in and out, switch tab, ended session | pages awaited while the session changes | nothing is shown to nobody; the bar shows who is signed in |
| Profile cache (`user-profiles.js`) | map with expiry, batch, requests under way | get, flush, save, invalidate, clear | answers older than the last change | never behind a change made here; bounded |
| Directory browser (`browser.js`, `browser/stats.js`) | directory asked for, list, card | open, reload, delete | answers of directories left long ago | what is on show belongs to the last request |
| Messages (`messages.js`) | list with cursor, marks, badge, polling | poll, page, read, delete, decide, clear | pages shift while they are read | each message once; the badge recovers |
| Cargo page (`browser/cargo.js`) | route, catalog, package, operations | open, page, mutate, ask | all of it in module variables that the next route overwrites | once its answer came the view shows the route; it does not stay busy |
| Other pages, documentation site | settings, profile, the other formats | the same schemes | as above | planned, section 2 |

Interaction. Handlers call into storage under the repository gate and, for uploads,
the in-flight path; storage serialises release mutations with
`gpgReleaseStorageMutation`. Upload handlers leave rows and quarantined files for the
release worker and wake it; the worker also polls. Deletions change the rows the
worker is about to act on. The scheduler calls the maintenance tasks of uploads,
sessions, statistics and others. Settings exclude storage through the gate, the
configuration lock and the metadata lock of the index. Handlers queue mail in the database
and wake the mail worker of their process; the workers of all processes share the queue
through a lease. The client talks to the server by requests only: its chunked transfer is
the counterpart of the server's upload sessions, and the two are modelled against one
specification of a session (`UploadSession`).

`PROJECT.json` lists these parts under `components` and what can go wrong in them
under `hazards`.

## 2. Plan

Order: what the server promises about published bytes comes first.

1. `Scheduler`, `GpgRelease`, `RepositoryLocks`, with their type invariants, the
   safety properties aimed at the hazards, liveness, and proofs. *Done.*
2. `ChunkedUpload` (`service/upload/chunked.go`, `cleanup.go`, `routes.go`), the same.
   *Done*, except `NormalizeChunkSize` and the offsets of chunks, to be checked as
   functions against the ranges they must tile.
3. `MailQueue` (`mailqueue/worker.go`, `database/mail.go`): two processes, lease,
   sending mark, recovery, completion. *Done*, with its proofs.
4. `UploadSession`: what a session promises; `ChunkedUpload` as its refinement and
   `ChunkTransfer`, the browser's side, as its user. *Done*; the refinement is proved.
5. The web client's parts that wait: entry, transfers, identity, pages. *Done* for the
   parts in the second table; the pages of the other formats, `settings.js` and
   `profile.js` follow the same schemes.
6. An abstract specification of a publication (an artifact and its signature change
   in one step, or not at all, as seen by a reader who honours hidden paths) and
   `GpgRelease` as its refinement.
7. The stripes of the gate (`AcquireMutations`, `AcquireAllMigrations`) in
   `RepositoryLocks`; quota reservations; the cache; session revocation.
8. Theorems. *Done* for every invariant and action property of the passing runs and for
   the refinement of 4. Left: those of 6 and 7 when they are stated, and the absence of
   deadlock with the stripes.

## 3. Modules

### Scheduler

`service/tasks/scheduler.go`. One loop goroutine, callback goroutines (`Workers`), and
one goroutine inside `Schedule` or `Trigger` at a time (a bound; both hold the mutex
for all but a check before and a notification after).

| Variable | Code |
|---|---|
| `registered`, `next`, `running`, `triggered` | `scheduler.tasks` and the fields of `periodicTask` |
| `closed` | `scheduler.closed`, with the context cancelled and `stop` closed |
| `mu` | `scheduler.mu`, while it is kept between two steps |
| `wake`, `done` | the channels |
| `loop`, `caller`, `worker` | program counters and local variables of the goroutines |
| `now` | the clock; `Tick` advances it at any time |
| `owed` | history variable: a trigger no run has answered yet |

A section under the mutex is one step unless it also touches an atomic that others
touch without the mutex: `Trigger` stores `triggered` and then loads `running`,
`startTask` swaps `running` and then clears `triggered`, `finishTask` clears
`running`, swaps `triggered` and only then locks. Each of these is a step of its own.
The timer delivers the instant at which it fired, which may be earlier than the instant
at which the loop receives it, so `SelectTimer` chooses it. `Schedule` reads the clock
before it gets the mutex.

### GpgRelease

`service/storage/gpg_upload.go`, `gpg_worker.go`, `put.go`, `delete.go`,
`maven_version.go`, `database/gpg_releases.go`, for one repository.

| Variable | Code |
|---|---|
| `rows`, `record` | tables `gpg_releases` and `gpg_signatures` |
| `art`, `sig` | stored artifact and detached signature |
| `dirs` | quarantine directories |
| `blocked` | hidden paths of the file index |
| `lock` | `gpgReleaseStorageMutation` |
| `put` | for each artifact the upload in flight (it holds the path lock) |
| `op` | the request that holds the mutex |
| `w` | the worker goroutine: place, the lists of this pass, the claimed release, the verified record |
| `requests`, `faults`, `crashes` | how often the environment has acted (bounds) |

Data. Bytes are members of `Contents`. A signature is the content it signs; it is valid
for exactly that content, which is what verification tells apart. A staging path is the
staged content. The age of a queued release is one of fresh, past the grace of optional
signatures, past the time to live. A row is identified by its number of creation.

Actions. An upload is `BeginPut` (the destination is examined, then the body is
received), then `Stage` and `SaveStaged` (quarantine), `StageCompanion` (checksums),
`DirectUnsign` and `DirectCommit` (no signature required or expected), or `AbandonPut`. A
deletion discards releases first (`BeginDelete`, `BeginDeleteTree`) and removes
signature, record, file and siblings step by step. The worker's pass is `StartPass`,
`SweepClean`, `SweepExpire`, `EndSweep`, `Claim`, `Verify` (without the mutex),
`LockRelease` (with the second look at the row), `PublishUnsign`, `PublishArtifact`,
`PublishSignature`, `PublishRecord`, `PublishSuccess`, `Reveal`; a failure goes through
`FailClaimed`, and `CleanFiles`, `CleanDir`, `CleanSave`, `CleanUnblock` are
`cleanupTerminalGPGRelease`. Every one of these steps that calls the store or the
database has an alternative in which the call fails, with every state the failed call
can leave behind. `Crash` keeps only tables and files; `Restore` is
`RestoreGPGReleaseState`, which runs before requests are served.

Abstractions. The worker polls, so a wake-up needs no state of its own: `StartPass` is
always possible. The cleanup in the code works on the row as listed at the start of the
pass; a row that awaits cleanup is changed by nothing else, so the model reads the
current one. A failed `SaveGPGRelease` is taken to have written nothing except for the
save of success, whose lost answer the model includes because the code's reaction to it
differs. The POM generator behaves as a direct upload.

### ChunkedUpload

`service/upload/chunked.go`, `cleanup.go` and the handlers of `routes.go`.

| Variable | Code |
|---|---|
| `sessions`, `pending` | `Manager.sessions` (its keys) and `Manager.pending` |
| `init` | for each upload id, where its `CreateSession` is |
| `sess` | `Session.received`, `done`, `closed`, `aborting` |
| `open`, `temp`, `data` | the descriptor, whether the temporary file exists, and for each chunk whether its range is a hole, torn or whole |
| `old`, `stale` | `SessionTTL` has passed since `Session.created`, since the last write of the file |
| `wr`, `comp`, `ab`, `sw` | the requests that write, and for each session its completion and its `Abort`; the cleanup task |
| `delivered` | history variable: what a completion handed over |
| `faults`, `crashes` | bounds |

Actions. `Reserve`, `CreateFile`, `CreateFails`, `Register` are `CreateSession`. `Get`,
`LoadDone`, `ClaimChunk`, `RefuseChunk`, `BeginWrite`, `EndWrite`, `InterruptWrite`,
`ReleaseClaim`, `FinishChunk` are `handlePutChunk` with `WriteChunk` or `WriteChunkBytes`;
a write is two steps, so that it can break off, and a write that has begun survives `Close`
of the file as it does in Go. `BeginCompletion` and `CheckComplete` are
`BeginSessionCompletion`: the first swaps `done`, which writers read without the mutex, and
keeps the manager's mutex (`MuFree`) until the second has looked at the chunks. `CloseFile`,
`Reject`, `DeliverStorage`, `ExtractPackage`, `RemovePackage`, `MarkCompleted` are the rest
of `handleComplete`. `AbortClaim`, `AbortRemove`, `AbortStore` are `Session.Abort` for
whoever called it: `AbortOwned`, a failed completion, or the expiry (`CleanupExpired`,
`AbortExpired`, `ExpiredAborted`). `StartWalk`, `VisitPartial`, `EndWalk` are the sweep.
A completion may be refused before the file is moved (`Reject`), succeed (`DeliverStorage`),
or fail after the move (`DeliveryFails`): `commitUploadedFile` returns an error when companions
or superseded snapshots cannot be removed or checksums cannot be saved, and
`finishMavenPublication` may fail after it (`put.go:431`, `464`, `gpg_upload.go:516`). The file
is then in the store, or deleted again, while `completeStorage` aborts the session and reports
a failure (finding 15). `OneOwner` names this as the only abort of a session handed over.

Abstractions. Offsets and lengths are left out: a chunk is a range that no other chunk
touches, and a request of the wrong length is refused. The walks over the storage directory
and over the system's temporary directory are one walk, since a session has one file. The
file is created, sized and its session's creation time taken at one instant of the clock.
Requests for sessions of another user change nothing and are left out. After a crash the
contents of files are forgotten, because nobody reads them again.

### RepositoryLocks

`service/repositorygate/gate.go`, `core/inflight.go`, and the handlers that lock: a
goroutine is its handler's sequence of locks, and of what it does between them: `"files"`
(files of the repository are written or deleted), `"change"` (its configuration or catalog),
`"remove"` (all its files), `"tidy"` (the files of an ended release). `PutLocks`,
`CompleteLocks`, `MigrateLocks`, ... are these sequences, translated handler by handler;
`"native"` stands for the stripes of `nativepkg.AcquireMutation` and `AcquireAllMutations`,
which the handlers of managed native repositories take between the gate and the release mutex
(`NativePutLocks`, `NativeCompleteLocks`, `NativeDeleteLocks`). `Request` and `Acquire` take a
lock, `Proceed` does the work, `Drop` gives the configuration locks back before the handler
goes on. A handler may return early wherever it is not blocked, and its deferred unlocks run one
by one. `sync.RWMutex` is modelled with its writer preference: `Lock` announces the writer,
which holds new readers back, and then waits for the readers inside. `held` gives each
goroutine's locks, `pos` its place in the sequence.

`MigrationAlone` is about the work and not about the gate: it fails when a handler forgets to
enter the gate (the mutant `PomUngated`), gives it back too early, or works before it has it.
The clean-up of an ended release is such a handler in the code (`gpg_worker.go:111`, `655`):
it takes the release mutex only. It may overlap a change of the configuration; that it does not
overlap the removal of the files is due to the release mutex, and is the second conjunct.

### MailQueue

`service/mailqueue/worker.go`, `notifications.go`, `queue.go` and the transactions of
`database/mail.go`. Every server process (`Mailers`) runs one worker; they share tables.

| Variable | Code |
|---|---|
| `job`, `account`, `cursor` | `mail_jobs.status`, the counters of `mail_accounts`, `mail_control.audit_cursor` |
| `lease`, `nextSend` | `mail_control.lease_owner`/`lease_until` and `next_send_at` |
| `mailer` | for each worker its place in `step`, the job in hand, `pending` (an unsaved result), whether it has recovered, whether it lost the lease since |
| `submitted`, `billed` | external: what the provider received and charges |
| `late` | history: a result was saved after another worker had had the lease |
| `site`, `logged`, `restarts` | the installation (processes, limits, entries) and bounds |

One action per transaction or network call of `step`: `AcquireLease`, `Recover`, `Notify`,
`AdvanceCursor`, `NextJob`/`NoJob`, `GiveUp`, `Postpone`, `FailPreparation`, `Checked`,
`Mark` (the sending mark with the reservation), `Submit` and `Answer`, `LoadRefund`,
`SaveResult`. Each may fail (`StepFails`), find the lease gone (`Refused`) or be followed by
`MailCrash` or `StopMailer`. Of the clock only the order of three instants is kept: the end
of the lease, `next_send_at`, and the deadline of a worker's network calls, which the mark
sets before `next_send_at`. `MailConsistent` names the conjuncts `MailTypeOK`,
`OneSubmission`, `QuotaCounted`, `RecordTrue`, `NotificationsQueued`, `MarksAreFollowed`.

### UploadSession and its two implementations

`UploadSession` says what a multi-part session promises: a chunk stored while the session is
open stays stored, the session closes only with all of its chunks, it is published whole and
once, and an ended session is never published. `ChunkedUpload!KeepsPromise` states that the
server's manager implements it under a mapping (`Abstract == INSTANCE UploadSession WITH
...`: `Phase` from where creation, table and completion are, `Stored` from the chunks received,
published if what was delivered is whole; a property of `chunked_live`); `ChunkTransfer` takes
`UploadSession`'s actions as its server, so what holds of the browser's transfer holds with
any server that keeps the promise.

### The web client

A browser runs one handler at a time, up to its next `await`, timer or callback; what comes
after an `await` is an action of its own, and answers arrive in any order. Each module
translates one part; names of variables are those of the code (`let currentLoadSeq`, ...),
variables such as `configured`, `mailbox` and `onServer` stand for the server. The parts share no state that matters here, so
the `MC_Client*` modules put several of them into one run: a behaviour chooses a component
at the start and the others rest.

| Module | Code | Actions | What is checked |
|---|---|---|---|
| `Captcha` | `captcha.js`, `captcha-widget.js` | a request from `Fetch` through `Deny`, `Begin` (its turn in the chain of promises), `MetadataEnds`, `OpenDialog`, `Render`, `VerifyEnds` to `Resend`; `CancelChallenges`, `PreferencesChange`, `AbortSignal`, `DialogTimeout` | `OneChallenge`, `PendingExact`, `NoStaleDialog`, `ConsentKept`; `ChallengesSettle` |
| `LegalConsent` | `legal-consent.js`, `cookie-consent.js`, `cookie-preferences.js` | `PublishPolicy`, `Refresh`, `Deliver`, `ReadFails`, `Toggle`, `EnsureLegalConsent`, `OpenPreferences`, `SaveDialog`, `NoticeChoice` | `CheckedIsCurrent`, `OptionalWasAccepted`; `PassedOnSteadyConsent`, `FormsAnswered` |
| `Availability` | `backend-availability.js` | `NoteFailure`, `NoteSuccess`, the two probes, `DelayEnds`, `ConfirmationSettles`, `VisibilityChange`, `Online`, `RetryConnection` | `FailureUnderConfirmation`; `OfflineConfirmed`, `VerdictReached` |
| `UploadQueue` | `browser/upload.js`, `components/upload-entry.js` | `Choose`, `RemoveClick`/`RemoveCleanup`, `ClearClick`/`ClearTimer`, `UploadClick`, `StartBatch`, `FileEnds`, `FinishBatch`, `Navigate`, `ZoneAnswer`, `RefreshTimer` | `SignatureAfterArtifact`, `PanelFollowsDirectory`, `UploadingIsABatch`; `BatchEnds`, `RefreshEnds` |
| `ChunkTransfer` | `chunked-upload.js` | `InitAnswered`, `TakeIndex`, `PutLoads`, `PutErrors`, `DelayOver`, `SendComplete`, `CompleteAnswered`, `CompleteErrors`, `SendAbort`; the requests at the server | `OutcomeTrue`, `CompleteOnlyWhole`, `FailureCleansUp`; `NoPutAfterError`, `TransferEnds` |
| `ReviewBundle` | `tickets.js` (download of a publication) | `FilesListed`, `TakeFile`, `FileArrives`, `EndBundle` | `BundleWhole`, `FileTakenOnce`; `BundleEnds` |
| `RepositoryForm` | `repositories.js` | `Edit`, `Save`, `ServeSave`, `SaveAccepted`, `SaveRefused`, `SaveLost`, `DeleteRepository`, `Deleted`, `ReadSettings`, `SettingsRead` | `NoStaleFeedback`; `SavesReturn` |
| `ClientShell` | `main.js`, `auth.js`, `login-route.js`, `api.js` | `Boot`, `ClickTab`, `Navigate`, `PageLoaded`, `SubmitPassword`, `SubmitPasskey` and their answers, `ClickLogout`, `LogoutAnswered`, `CallAnswered`, `ProfileArrives`, `ProfileChanged`, `ProfileInvalidated` | `SignedOutSeesNothing`; `IdentityFollowsSession`, `LogoutEnds` |
| `ProfileCache` | `user-profiles.js` | `GetUserProfile`, `FlushUserProfileBatch`, `LookupEnds`, `SaveHere` (at the server) and its answer, `SyncUserProfile` or `InvalidateUserProfile`; `SaveElsewhere`, `ClearUserProfileCache`, `EntryExpires` | `CacheNotBehind`, `CacheBounded`, `SharedIsLive` |
| `DirectoryView` | `browser.js`, `browser/stats.js` | `LoadDirectory`, `DetailsArrive`, `Loaded`, `LoadFailed`, `DeleteFile`, `FileDeleted` | `ViewIsLatest`, `NoCardAtHome`; `LoadingEnds` |
| `MessageCenter` | `messages.js` | `PollTick`, `PollAnswered`, `OpenCenter`, `LoadMoreMessages`, `MessagesArrive`, `MarkRead`, `Delete`, `Decide`, `ClearAll`, `SignedIn`, `SignedOut` | `OnePoller`, `ListedOnce`; `BadgeRecovers`, `FetchEnds`, `ClearEnds` |
| `TicketCenter` | `tickets.js` | `OpenTicketCenter`, `ChooseFilter`, `TurnPage`, `OpenTicket`, `SendQuery`, `TasksArrive`, `TicketArrives`, `Decision`, `DecisionAnswered` | `TicketPageIsLatest`, `PageExists`, `FiltersOfOwner`; `TicketLoadEnds` |
| `CargoPage` | `browser/cargo.js` | `OpenCargo`, `LoadArrives`, `LoadFails`, `Animated`, `LoadMoreCargoPackages`, `MoreArrives`, `ClickOperation`, `AnswerQuestion`, `OperationEnds`, `RefreshArrives` | `CargoShowsRoute`, `CargoCatalogWhole`; `CargoBusyEnds` |

`EntrySafe`, `TransferSafe`, `IdentitySafe` and `PagesSafe` are the conjunctions of the
invariants of a run's components, each component's type invariant among them;
`EntryProgress`, `TransferProgress`, `IdentityProgress` and `PagesProgress` those of the
temporal properties (after the semicolons above). Each component has its own mutants.

Abstractions. Where an `await` leaves the order of several answers open, the operator that
says what may come of it is a set: the orders of a batch (`UploadOrders`: signatures last,
otherwise any), the lists after a page or a poll (`Filtered`, `Newest`, `Appended` of
`MessageCenter`). Messages are numbers, newer ones greater; `ClearAll` deletes one message
after another and keeps those to come in `clearing.rest`. A further page of a catalog is
known by the request it answers, since two may be under way for the same page.

Three properties of the client carry a condition, because the code does not keep them without.
`NoStaleFeedback`: an answer to a save that comes after the next save is never shown
(`~feedback.late`), but a refusal whose text is being read while the next save is made is
(finding 13). `CargoShowsRoute` and `CargoCatalogWhole` speak from the route's own answer on
(`~Awaited`), whatever loads, pages and operations of earlier routes are under way; the history
`cargoPast` is `"crossed"` from the moment a refresh of an earlier page's operation, or a further
page asked for before the route's answer, is shown over the view, until the next route's answer
(finding 14). `OutcomeTrue`: a transfer reported as failed is not published, unless the server
itself answered with a failure after it had stored the file (`finish = "stored"`, finding 15).

The `MC_` modules name the instances and compose, the `_proofs` modules hold the theorems:
`Scheduler_proofs`, `GpgRelease_proofs`, `ChunkedUpload_proofs`, `Exclusion_proofs` (locks and
mail queue), and one for each of the four runs of the client.

## 4. Runs

| Run | Question | Result |
|---|---|---|
| `scheduler` | One task with interval 2, two callback goroutines, clock 0..3, Close at any time: `NonReentrant`, `DoneIsQuiescent`, `CadenceKept`, `NoBurst`, and with fairness `DueIsTaken`, `CloseCompletes` (no wake-up is lost, Close returns) | hold |
| `gpg_release` | One artifact, two contents, redeployment allowed, four requests, two releases, one failure, one crash: `RecordMatchesArtifact`, `OneActiveRelease`, `HiddenHasReason`, `StagingKept`, `TerminalIsFinal`, `SuccessIsComplete`, `FailureLeavesNothing` | hold |
| `gpg_release_pair` | A `.jar` and its `.pom`, four requests, one release per user, one failure: `PendingBounded`, `SiblingsSpared` | hold |
| `gpg_release_live` | The same artifact with signatures required, one crash, no failure: `ReleasesEnd`, `OnlyVerifiedBytes` | hold |
| `exclusion` | The locks: an upload, the POM generator, the clean-up of a release and the removal of a repository: `NoCircularWait`, `MigrationAlone`. Or the mail queue: `SubmittedOnce`, `MailConsistent` | hold |
| `locks_upload` | `NoCircularWait` when handlers disagree on the order | violated, section 7 |
| `chunked` | Two sessions for one place in the table, an update package of one chunk and an empty file, one failure, one crash: `OneOwner`, `LimitKept`, `DeliveredWhole` | hold |
| `chunked_live` | One session of two chunks to be stored, two requests that write, one failure, one crash: `ClaimsHeld`, `RetryPossible`, the refinement `KeepsPromise`, and with fairness `TempsVanish` | hold |
| `client_entry` | `Captcha`, `LegalConsent` or `Availability` at work: `EntrySafe`, `EntryProgress` | hold |
| `client_transfer` | `UploadQueue`, `ChunkTransfer`, `ReviewBundle` or `RepositoryForm`: `TransferSafe`, `TransferProgress` | hold |
| `client_identity` | `ClientShell` or `ProfileCache`: `IdentitySafe`, `IdentityProgress` | hold |
| `client_pages` | `DirectoryView`, `MessageCenter`, `TicketCenter` or `CargoPage`: `PagesSafe`, `PagesProgress` | hold |

Bounds. Scheduler: interval 2, a first turn at 1 and a clock of four instants let a task
fall behind past its next turn; two callback goroutines let a late `finishTask` overlap the
next run of its task. Tasks meet only in the loop, and what concerns several of them
(`NonReentrant`, `DoneIsQuiescent`) is proved for any number. GpgRelease: two releases of
one artifact are what it takes for an older release's cleanup to meet a newer release; four
requests cover artifact, signature and a deletion or a replacement afterwards; two contents
tell a replaced artifact from its predecessor; one failure at any operation and one crash at
any step, together, include a failed undoing after a crash. In the pair, four requests store
both artifacts, stage a new release of the `.pom` and delete the `.jar`; only the limit per user binds, since
one user is at work. The exception of `SiblingsSpared` (finding 7) takes five requests; with
five the property holds as well (7.5 million states), and the theorem covers any number. Locks: a circular wait among
these scripts needs at most three goroutines (two and a waiting writer); four run, two of
them on one path. The theorem `DeadlockFreedom` covers any number, and the handlers that
lock the path before the gate as long as no configuration changes; it and `MigrationExclusive`
cover the sequences that do not run here, those of native repositories among them. Mail: one process that
announces an entry with a queue and a quota of one (the queue is full, the quota used up),
or two processes with two jobs; one crash or stop at any point, every statement may fail and
the lease run out anywhere, so a job can be taken over while its first worker is anywhere.
ChunkedUpload: two sessions and one place make a reservation meet a full table; two
requests are what it takes to contend for a chunk or to write one while the other is
interrupted; one failure and one crash leave files to the sweep in every way the code can. The
update packages are in `chunked` only (`Updates`), the liveness of stored files in `chunked_live`.

Client. Captcha: three requests, of which two may be pending (the code: eight), so that one
is refused, one holds the dialog and one waits; two cancellations, two frames. LegalConsent:
two revisions, two forms, two changes of the boxes. UploadQueue: a `.jar` and its signature,
two directories with different policies, two clicks. ChunkTransfer: three chunks and two
workers, so that one gives up while the other sends and a chunk is left; one retry.
ReviewBundle: three files, two workers. RepositoryForm: one repository (the numbers are per
repository), two settings, two saves that overlap. ClientShell: a manager and another user,
three changes of identity, so that a session ends and another begins while answers of the
first are under way. ProfileCache: two names and room for one. DirectoryView: three loads,
one directory of another repository, one with a view of its own. MessageCenter and
TicketCenter: two items on pages of one, so that the last page can disappear. CargoPage: two
repositories, a crate, two catalog pages, three routes, one operation; further pages that
overlap take two operations and three catalog pages and are covered by the theorem. Symmetry
is used for contents and for mail processes, which the models treat alike, and only in runs
without liveness. Deadlock checking is off where bounded requests, releases, clocks or page loads
let the model come to rest; `exclusion` keeps it on.

## 5. Fairness

`Scheduler!FairSpec`: goroutines that can run are run and callbacks return (weak
fairness). A `sync.Mutex` hands itself to a goroutine that has waited a millisecond, and
`select` picks at random among ready channels, so steps that lock and branches of
`select` get strong fairness. No call of `Schedule`, `Trigger` or `Close` is assumed to
come, and the clock is not assumed to go on: `DueIsTaken` speaks of tasks that are due.

`GpgRelease!FairSpec`: the worker goroutine gets on, also with the mutex it shares with
requests (strong fairness); a request that holds the mutex continues; a queued release
grows older; a stopped process is started again. Uploads and deletions are not assumed.

`ChunkedUpload!FairSpec`: a completion, cancellation or expiry that has begun continues, the
scheduler goes on calling the cleanup task and its walk goes on, and time passes (weak
fairness). The task must get the manager's mutex although completions keep taking it; Go's
mutex serves whoever has waited a millisecond, hence strong fairness for `CleanupExpired`.
Clients are assumed to do nothing, nor is a write assumed to end.

The client: an answer of a request arrives, or its failure, and a timer fires (weak fairness
of each); the user is assumed to do nothing. `CaptchaFairness` has the five minutes of the
dialog, not the answer of the provider. `MessageFairness` lets the interval tick and does not let
every poll fail for ever (strong fairness of an answer that is taken).
`ChunkTransfer` assumes that every request of the browser ends, in an answer or an error;
that the server serves it is not assumed. `UploadSession` and `MailQueue` have no fairness:
their properties are about safety.

## 6. Proofs

The assumptions are those named in the modules: the sentinel values are outside the sets,
intervals are positive, bounds are natural numbers, every goroutine runs one of the known
handlers.

`Scheduler_proofs` proves `TypeCorrect`, `NonReentrancy` and `Quiescence` for any tasks,
callback goroutines, intervals and clock. `NonReentrant` is not inductive, since it says
nothing of `running`. `IInv` adds that `running[t]` holds while a callback of `t` runs and
from the compare-and-swap of `startTask` to `workers.Go`, that only one of the two is the
case, and that `done` implies an exited loop on a closed scheduler with no callbacks.
`Cadence` and `TakenOnce` are action properties; behind both is what `takeDue` computes, a
whole number of intervals that passes the instant of the timer by one at most (`AdvanceWhole`).

`GpgRelease_proofs` proves `TypeCorrect`, `OneRelease`, `StagingSafe` and `EndedIsFinal`
for any artifacts, contents, users and bounds. The inductive invariant `Core` is the
conjunction of
`TypeInv` (types, and the worker has a release where it needs one),
`Lifecycle` (which combinations of status, key, cleanup mark and artifact a row may have),
`LockInv` (who is at a place that holds the mutex; a crashed process holds nothing),
`SaveInv` (a staged upload that is about to be saved has its directory and belongs to the
active release of its artifact, or to a fresh number while there is none),
`WorkInv` (what the worker may assume of its row: while it publishes, the row is active
and validating; while it cleans, the row has ended),
`OneActiveRelease` and `StagingKept`.
`SaveInv` is why a second active release cannot appear between the look at the table and
the save, and `WorkInv` is why the second look at the row under the mutex is needed: with
`LockRelease` not checking the status (a mutant of the project), a discarded release is
published. `EndedIsFinal` is an action property; it follows from `Core` step by step.

The second part of the module proves the other seven properties of the publication from an
invariant `Pub` that adds to `Core`
`HiddenInv` (a hidden artifact has a pending release, or the cleanup that is about to reveal
it),
`LimitInv` (a request about to save a new release has counted what counts now, since it
holds the mutex),
`RequestInv` (a direct commit found no release and removed the record; what a deletion is
about to remove belongs to no release that can still be published),
`RequireInv` (where signatures are required, releases with an artifact require one),
`VerifiedInv` (from verification on, as long as the row is still claimed, the record in the
worker's hands is the staged signature and was made for the staged artifact, or for the
stored one when the release brings none),
`PublishedInv` (what the worker has done when it is at one of the places of a publication), and
`CleanInv` (a failed release keeps its key as long as it awaits its cleanup, and behind the
first step of the cleanup nothing is left of a partial publication).
`HiddenForReason` and `QueueBounded` need the first two, `RecordsTrue` all of them: a record
is written last and removed first, so it never stands beside other bytes. `SuccessComplete`,
`FailureClean`, `SiblingsSafe` and `OnlyVerified` are action properties. `SuccessComplete`
says what the proof showed to be true and no more: the artifact of a lone signature may be
missing when it is a sibling that the deletion of a `.jar` removed (finding 7). `SiblingsSafe`
rests on `CoverInv`: the path of a release that can still be published is hidden, unless an
earlier success of the same artifact was cleaned late (`CoveredInv`); a success awaits a clean-up
behind the worker's back only after a failure or a crash (`LateInv`), and while the worker cleans
or reveals a release, no other one of the artifact is active, unless the one in its hands is such
a success (`SoleInv`).

`Exclusion_proofs` proves of the locks `TypeCorrect`, `MigrationExclusive` and `DeadlockFreedom`
for any number of goroutines and paths. `GateInv` says that a writer has announced itself,
that there is one announcement, and that idle goroutines hold nothing. `DeadlockFreedom`
assumes either that every handler that runs enters the gate first (`GateFirst`) or that no
configuration changes (`NoConfigChange`). Locks get levels, one for holding and one for
waiting, such that whatever a goroutine holds lies below what it waits for (`OrderInv`,
`ScriptOrder`); in a circular wait every goroutine would be blocked by one that waits
higher still, but there are only finitely many levels. The run
`locks_upload` shows that one of the two assumptions is needed. `MigrationExclusive` has no
such assumption. It does not follow from the exclusion of the gate alone: `ScriptHeld` says
that a goroutine holds every lock its sequence has named so far and not given back, and
`WorkIsGated`, proved sequence by sequence, that each kind of work comes after the gate (or,
for a clean-up, after the release mutex). A sequence without the gate makes `WorkIsGated` false.

Of the mail queue the module proves `OnceSubmitted` and `MailStaysConsistent` for any number
of processes, jobs, installations and restarts. A job is submitted once because the mark is
written before it is sent, what was submitted never returns to the queue, and an attempt stays
in the hands of one worker, which may have lost the lease (`AttemptInv`). The conjuncts of
`MailConsistent` that speak of one owner rest on `LeaseInv` (who is busy and has not lost the
lease owns it), `ReadInv` (what the owner has read is what the tables say), and on `PacedInv`,
`SendInv` and `AloneInv` (a worker that submits has set `next_send_at` beyond its own
deadline, so nobody else passes the check of that instant before). The last two, and what
depends on them, hold until a result is saved by a worker that lost the lease (`late`), which
is what finding 8 is about. The actions are first classified by what they change of the tables
and the worker (`StepKinds`), and each part of `MailInv` is then proved over the classes.

`ChunkedUpload_proofs` proves `TypeCorrect`, `ExclusiveOwner`, `SessionLimit`,
`TableUsable`, `ClaimsMatch` and `CompleteIsWhole` for any sessions, chunks, requests and
bounds. The inductive invariant `IInv` is the conjunction of
`TypeOK`;
`OwnerInv` (a session is in the table, with a completion, on the list of the expiry or with an
abort, and only the completion that owns it has handed anything over);
`LimitKept`, which is inductive because every path out of `CreateSession` returns its
reservation once, and which gives `TypeOK` that `pending` does not become negative;
`UsableInv` (a session in the table has an open file, and its mark `done` only while its
completion holds the mutex);
`ClaimInv` (a chunk is marked exactly when a request is between claim and return, and no two
requests are there for the same chunk);
`WholeInv` (a chunk that is done, or whose writer has written everything, is whole; a session
that a completion has taken over has every chunk done; what was handed over was whole).
`ClaimInv` is why `WholeInv` holds: only the holder of a claim writes, so a range that is
done is never torn again, not by a writer that passed the check of `done` long ago either.

`PromiseKept` is the refinement: every step of the manager is a step of `UploadSession` under
the mapping or changes nothing in it. `OwnerInv` makes the phases of the mapping exclude each
other, `ClaimInv` keeps a stored chunk from being written again, and `WholeInv` gives that what
is handed over is all of the file. A completion that fails after the move maps to
`PublishFile` or, when the file is deleted again, to `EndSessions`.

The four modules of the client prove `EntrySafe`, `TransferSafe`, `IdentitySafe` and
`PagesSafe` for their whole composition. Components of a composition do not touch each
other's variables, so each has an invariant of its own and the composed one is their
conjunction. The arguments, where they are more than the types:

- `ClientEntry_proofs`. `ChainInv`: the chain of promises holds exactly the challenges that
  have not settled, each once, and only its first has begun; hence one dialog, and the count
  `pending` is exact. `ControllerInv` ties the dialog to the challenge it belongs to, and
  `FramesInv` counts nonces. `BoxesFollow` and `FlowsSteady`: every box carries the revision
  the client knows, and a flow that saw no change has had its box checked all along, which
  gives `PassedSteadily`. `ProbesCounted` gives `NoticeConfirmed`.
- `ClientTransfer_proofs`. Upload: the list holds each file once, so it is bounded by the files
  (a pigeonhole lemma), every order that is sent has signatures last, and at most one request
  for a policy is of the directory on show. Transfer: what was asked and answered agrees with
  the server's session (`FinishTrue`, `CancelTrue`, `RepliesTrue`), and `ChunksHeld` says of
  every chunk taken that it is stored, on its way, or lost with the call or the session; with
  all workers stopped without an error nothing is left but stored chunks. This uses that
  there is a worker when there is a chunk (`WorkersAssumption`, `min(3, chunks)` in the code).
  `ErrorStopsPuts` is an action property.
- `ClientIdentity_proofs`. Every way to draw a section goes through `SwitchTab`, which shows
  nobody no section of an account (`SwitchFits`, `DisplayFits`); the last load of a profile is
  for the account signed in (`LoadsOfSession`). The cache: an answer of the current generation
  is not behind the last change made here (`AnswersCurrent`), so that putting it into the
  cache keeps `CacheFits`.
- `ClientPages_proofs`. Directory and tickets: numbers of calls are distinct and the latest one
  is for what is chosen now (`LatestIsHere`, `CallsNumbered`, `ChosenByOwner`). Messages: lists
  without repetition, and that filtering, appending and taking the newest keep them so. Cargo:
  `CargoTold` ties the view to its history `cargoPast`: with `"own"` the view is the route's, or
  its answer is awaited, and what was begun since then is about what the view shows
  (`OwnMore`, `OwnOperation`); what was begun before carries an older number.

Attempts that failed corrected the models. The number of checks of a challenge under way is
bounded by its frames. The artifacts a batch announces as signed are those its signatures
name, chosen or not. `CargoCatalogWhole` said that the
rows are those of the pages up to the number of the page read last; with two operations and
three pages they can be of more (finding 14), and it now says that they are those of the
pages up to some page not before it. Further pages are told apart by request since then.

Only model-checked are the liveness properties: `DueIsTaken`, `CloseCompletes`,
`ReleasesEnd`, `TempsVanish`, and those in `EntryProgress`, `TransferProgress`,
`IdentityProgress` and `PagesProgress` other than `PassedOnSteadyConsent`, `OfflineConfirmed`,
`NoPutAfterError` and `IdentityFollowsSession`, which are proved. Liveness needs fairness, that
is ENABLED, which is beyond the prover.

## 7. Findings

With a run that exhibits it:

1. *Deadlock of uploads and a migration* (`locks_upload`). `HandlePut` enters the gate and
   waits for the path (`put.go:93`, `105`); `completeStorage` holds the path
   (`routes.go:370`) and enters the gate; a waiting migration holds the second reader back.

The following were met while modelling. A property that states the expectation stands in the
module with the remark that the code does not keep it; it belongs to no run.

Server:

2. *A trigger can be lost* (`TriggerNotLost`, `scheduler.go:246`). `finishTask` clears
   `running` and then swaps `triggered`. If the loop starts the task again in between and a
   trigger meets that new run, the older `finishTask` consumes the trigger and makes the task
   due while it runs; `startTask` drops the turn until the next period.
3. *Redeployment without permission* (`NoRedeployment`, `put.go:138`). Whether the
   destination exists is read before the body is received and travels with the release; the
   worker may publish an earlier release of the artifact in between.
4. *A release that does not end* (`ReleasesEnd` with one failed save, `gpg_worker.go:687`).
   If the save in `failGPGRelease` fails the row stays in `validating`, which no later pass
   looks at before a restart.
5. *The sweep takes files in use* (`FinalizedKeepsTemp`, `cleanup.go:61`).
   `CleanupOrphanPartials` and `CleanupStaleOSTempUploads` go by name and time of a file and
   do not ask the session table. `TempsVanish` and `DeliveredWhole` hold nevertheless: the
   completion fails, it does not publish a part.
6. The release mutex is taken around the metadata lock in deletions and inside it by the
   storage settings (`ChangeStorageLocks`, `domains.go:304`), so these two can wait for each
   other; the passing run leaves the latter out.
7. Hidden paths are per path, not per release: the late cleanup of an older successful
   release reveals the path of a newer one (`CleanUnblock`). Deleting a `.jar` then takes its
   sibling although a release of it waits, and a lone signature is published for an artifact
   that is gone. `SiblingsSpared` and its theorem say exactly when: a success of the same
   artifact must have been left with its cleanup, which takes a failed or lost save or a crash,
   and be cleaned after the newer release was staged; `SuccessIsComplete` makes the exception.
   The comment of `SessionTTL` speaks of an idle lifetime; `CleanupExpired` measures from the
   creation of the session.
8. Mail. A worker that lost the lease may save a result late. That takes `next_send_at` back,
   so that two workers may submit at once; it can overwrite what a worker that is sending has
   recorded; and the snapshot of the account that `failPreparation` keeps overwrites newer
   counters. `OneSubmission`, `QuotaCounted` and `RecordTrue` therefore speak of behaviours
   without such a save (`late`); `SubmittedOnce` needs no such condition. Recovery runs once
   per worker: a job left as being sent by a process that crashed is not recovered while a
   process that has recovered before keeps the lease (`MarksAreFollowed` counts on a worker
   that has yet to recover).

Web client:

9. *Requests for another package than the question was about* (`CargoTargets`,
   `cargo.js:146`). The path is made from the package on show when the question is answered.
10. *Rows of another directory* (`RowsOfDirectory`, `browser.js:621`, `709`). Rows that are
    kept when a name occurs again keep the handlers of the directory they were made for.
11. *A manager's section on show for others* (`ManagerSectionsForManagers`, `main.js:393`): a
    tab is opened before the answer that says who is a manager.
12. *A signature announced but not sent* (`SignedMeansInBatch`, `upload.js:452`). Which
    artifacts are signed is taken when the button is pressed, the batch after the space check.
13. *A save that is not sent* (`repositories.js:1640`). Settings are compared with what is
    taken for saved, which a save that is not yet answered changes. The number of a save is
    compared before its refusal is read and not again after, so a refusal is shown although the
    repository was saved again meanwhile (`1672`, against the comment at `1633`;
    `NoStaleFeedback` makes this exception and no other). Deleting and
    creating a repository starts its numbers of saves again.
14. Smaller ones. The card of a repository may be missing after two loads of its directories
    (`browser.js:705`, `732`). `deleteMessage` restores the list it saw when it began;
    answers of polls and fetches are taken after a sign-out. A decision on a ticket's page
    leaves the list at the ticket's path; a denied load that was given up leaves the page;
    overlapping calls load older tickets twice. `refreshCargoPackagePage` compares no number
    (`cargo.js:1499`), so the package read again after an operation is shown under the route
    the user has gone to meanwhile, until that route or the next is answered; and a further page
    asked for while the route's answer is awaited is numbered after the list on show then, and
    may be added to the rows that answer brings. A Cargo route that is not found leaves the view busy; loading more may skip a page, and a
    late second answer for a page sets the number of the page read last back
    (`cargo.js:1482`). Two saves of one profile that are answered out of order leave the older
    one on show (`CacheNotBehind` speaks of the answer that came last).

Server and client:

15. *A completion reported as failed whose file is in the store* (`DeliveryFails`,
    `put.go:431`, `464`, `gpg_upload.go:516`, `routes.go:427`). After the move, companions,
    superseded snapshots, checksums or the record of the publication may fail. The error
    aborts the session and the client is told that the upload failed, although the artifact is
    there (with checksums it is deleted again, if that works).
16. *A clean-up outside the gate* (`CleanUpLocks`, `gpg_worker.go:111`, `655`). The clean-up of an
    ended release deletes files of a repository without entering its gate, so a migration may
    be under way.

## 8. Left out

In `GpgRelease`: publication review, quotas, the reindexing that follows a change, the
contents of checksum companions, `maven-metadata.xml`, S3 as a second store, the removal
of a whole repository's storage, and the wording of failures. In `RepositoryLocks`: the
stripes of the gate and of the native packages, the rollback of a migration (it takes the
locks of the replacement again), maintenance that tries the lock, waiting with a timeout. In
`ChunkedUpload`: the arithmetic of chunk sizes, requests of other users, and the extracted
binaries of the updater. In `MailQueue`: mail switched off and on again (`enabled_since`),
rate windows, budgets and calibration, refreshed tokens, notifications of messages, the
removal of old jobs, transactions whose commit is in doubt, processes with different clocks;
that jobs end is not stated. In the client: markup, texts and their translation, layout,
animation other than as a wait, progress and speed of transfers, digests, avatars, search,
registration and recovery, the individual settings, and the old name of a renamed profile.

The client has about 97000 lines of JavaScript; most of it makes markup, checks input and
looks up texts, and keeps no state whose order of changes matters. The modules take the parts
that wait: what is left of `browser/maven.js`, `docker.js`, `npm.js`, `settings.js` and
`profile.js` repeats the schemes of `CargoPage` and `RepositoryForm` with other markup, and
documentation site, translations and vendored code have none. That is why the share of mapped
lines stays low although the parts whose interleavings matter are modelled.

Cryptography, parsing of package formats, HTTP routing and text are out of scope. The other
parts of the inventory are planned (section 2) or, as `PROJECT.json` says per component, keep
no state whose order of changes matters.
