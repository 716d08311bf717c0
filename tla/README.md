# Verification of the CAR-dano backend

TLA+ models of `cardano-backend`, a NestJS service that takes used-car
inspections through review, PDF reports and NFT minting on Cardano. The models
are checked by TLC on small instances; the theorems are proved by TLAPS for all
values of the constants.

Repository paths below are relative to the repository root, `IS` is
`src/inspections/inspections.service.ts`, `BS` is
`src/blockchain/blockchain.service.ts`.

## 1. The system

One Node.js process serves HTTP requests. Handlers are asynchronous: they
interleave at every `await`. State lives in PostgreSQL (through Prisma), on
disk (`./pdfarchived`, `./uploads`), on IPFS, on the Cardano ledger, and in
memory (queues, mutexes, circuit breakers), where it is lost by a restart.

| Component | State | Operations | Talks to |
|---|---|---|---|
| Inspection lifecycle (`IS` 1582-3096) | inspection rows: status, reviewer, report hash and urls, asset, transaction, timestamps; PDF files | approve, archive, build/confirm client mint, deactivate, activate, rollback, revert, delete | queues, Blockchain, IPFS, disk, PostgreSQL |
| Bulk approval (`IS` 293-376) | summary of one request | bulkApproveInspections | approval, one inspection after the other |
| Task queues (`IS` 59-214) | waiting list, running counter, error counters, breaker deadline | add, processQueue | called by approval (5 slots) and archive (1 slot) |
| PDF rendering (`IS` 427, 1515, 1947) | a browser for each attempt | generatePdfFromUrl, retryWithBackoff | Chromium, IPFS node, disk; runs in the PDF queue |
| NFT minting (`BS` 86-132, 250-895) | a mutex for each wallet address; the wallet's UTxOs on the ledger | mintInspectionNft | Blockfrost, MeshWallet |
| Creation and ids (`IS` 488-742) | one counter row for each branch code and day (`InspectionSequence`, `prisma/schema.prisma:225`) | create: an upsert that increments the counter inside the Serializable transaction; P2002 is answered with a conflict | PostgreSQL |
| Editing and change log (`IS` 756-835, 1000-1284, 1657-1805) | change-log rows, JSON columns | update; application of the logs at approval | PostgreSQL |
| Inspection queries (`IS` 844-996, 1299-1460, 2738-2800; `src/public-api`) | none | lists in pages, single rows, the list of the public page | PostgreSQL |
| Photos (`src/photos/photos.service.ts`) | photo rows, uploaded files | add, replace, delete, batch | disk, PostgreSQL |
| Branches (`src/inspection-branches`) | branch cities, active flag | create, update, remove, toggle | PostgreSQL; creation takes the id's code from them |
| Users, Auth (`src/users`, `src/auth`) | users, PINs, refresh tokens, blacklisted access tokens | registration, logins, refresh, logout, administration; the guards of every route | PostgreSQL |
| Dashboard (`src/dashboard`) | none | counters, trend, distribution over branches | PostgreSQL |
| Prisma service, IPFS | connection; none | executeWithReconnect; add | PostgreSQL; IPFS node |

What is hard here:

- **Check, then await, then act.** `processToArchive` checks the status before
  it waits in the minting queue and mints; its final update is by id, without
  the status. The superadmin operations read and write in two statements of a
  READ COMMITTED transaction. A failed approval restores what it found minutes
  earlier.
- **Two sources of truth.** An NFT cannot be taken back; the row that names it
  can fail to be written, or the node's answer can be lost.
- **Restarts.** Everything a handler holds is lost, and no code repairs rows at
  startup. The approval's temporary status survives the restart.
- **Reads in several queries.** Dashboard numbers, lists in pages and the guards
  ask the database several times, outside a transaction, while others write.
- **Rows and files.** A photo is a row and a file; no transaction spans both.
- **Hand-written concurrency control.** Queue slots, a circuit breaker that
  counts outcomes of concurrent tasks, a mutex with hand-over, two nested retry
  loops around a provider that may lag behind the ledger.

What each component has to guarantee:

- *Lifecycle*: nothing is published that was not reviewed; the report, the
  reviewer, the asset and the transaction of a row belong together; an archived
  row has its evidence; a handler always answers. Where the code guarantees less,
  the property says up to what: a superadmin's rollback, or a confirmation of a
  transaction that nobody submitted.
- *Queues*: never more than the limit in flight, never idle with work waiting,
  first come first served, correct counters, a breaker that opens exactly after
  a run of failures.
- *Minting*: one builder at a time per wallet, no lost hand-over, no spent
  inputs while the provider is current, at most one token per call, bounded
  retries.
- *Rendering*: no more browsers than slots, none left over.
- *Creation*: unique, gap-free ids per branch code and day. *Editing*: an
  approval stores the newest logged value of each path, at the place to which the
  code takes it; relation and copied name agree. *Bulk approval*: an answer, and one that is true.
- *Photos*: no listed photo without its file, no file out of sight.
- *Queries and dashboard*: what was there all the time, and in one city for the
  counts of cities, is seen, and counted once.
- *Users and sessions*: unique accounts, found under their address; handlers run
  for users who still have the role at hand and a token that was valid.

`PROJECT.json` lists every hazard at its line with the properties that cover
it, or the reason why none does.

## 2. Modules

| Module | Models | Role |
|---|---|---|
| `InspectionLifecycle` | the lifecycle operations of `IS` | component |
| `MCInspectionLifecycle` | | TLC instances (hash functions, symmetry) |
| `LifecycleClaims` | | what comments, messages and tests say and the code does not do |
| `InspectionLifecycleProofs`, `ReviewProofs` | | theorems about `InspectionLifecycle`; the second also about `BulkApproval` |
| `BulkApproval`, `MCBulkApproval` | `bulkApproveInspections`, composed with `InspectionLifecycle` | component, TLC instance |
| `InspectionEditing` | `update` and the application of the change log, composed with `InspectionLifecycle` | component |
| `MCInspectionEditing` | | TLC instance; the loop of the code as a reference for its operator |
| `EditingClaims`, `EditingProofs` | | a refuted message; theorems |
| `TaskQueue` | the two queue classes of `IS` | component |
| `SlotServer` | | abstract specification of a queue |
| `PdfRendering` | what a task of the PDF queue does, composed with `TaskQueue` | component |
| `TaskQueueProofs` | | theorems about both, among them the refinement and that a rendering is a task |
| `MintService` | `mintInspectionNft` and `SimpleMutex` of `BS` | component |
| `MintServiceProofs` | | theorems |
| `Routes` | which roles may call what, from the controllers' `@Roles` | constants of the following |
| `InspectionCreation` | `create`, ids, branches | component |
| `InspectionPhotos` | photos, uploaded files, permanent deletion; extends `InspectionCreation` | component |
| `InspectionQueries` | lists, searches, single rows; extends `InspectionPhotos` | component |
| `DashboardPeriods` | ranges and periods of the trend | pure operators |
| `Dashboard` | counters, distribution, trend; extends `InspectionQueries` | component |
| `Accounts` | users, sessions, guards; extends `InspectionCreation` | component |
| `Backend` | the composition of `Dashboard` and `Accounts` | composition |
| `MCBackend` | | TLC instance |
| `BackendProofs`, `AccountsProofs`, `DashboardProofs` | | theorems about `Backend`: numbers and files; users and sessions; rows and what is read of them |

### InspectionLifecycle

Every HTTP request is a process (`Request`) about one inspection (`on`). A
handler is cut at the awaits after which it acts on what it read: `pc` says
where it stands, `snap` holds the row it read. `db` and `live` are the
inspection table, `files` the PDF directory, `chain` the ledger.

| Operation | Actions |
|---|---|
| `approveInspection` | `ApproveTransaction` (the Serializable transaction), `GenerateReports` / `GenerationFails`, `SaveReport` / `SaveReportFails`, `RollbackStatusAfterError`, `ApprovalStranded` |
| `processToArchive` | `ArchiveRead`, `MintSucceeds` / `MintFails`, `ArchiveSave` / `FailedMintSave`, `ArchiveSaveConflict`, `ArchiveSaveWithoutAsset` (P2002), `ArchiveSaveFails` |
| `buildArchiveTransaction`, wallet, `confirmArchive` | `BuildArchiveTransaction`, `ClientSubmits` (external), `ConfirmArchive` (may repeat), `ConfirmUnfounded` |
| `deactivateArchive`, `activateArchive` | one guarded `updateMany` each |
| `rollbackInspectionStatus` | `RollbackRead`, `RollbackWrite`, `SuperadminAborts` |
| `revertInspectionToApproved` | `RevertRead`, `RevertWrite`, `SuperadminAborts` |
| `deleteInspectionPermanently` | `DeleteRead`, `DeleteUnlink`, `DeleteCommit` / `DeleteFails` |
| server restart | `Crash` |

Abstractions: a report is named by the approval that generated it (file names
and hashes contain the time), a transaction by the request that submitted it,
the reviewer by the approval request. The two PDFs of an approval are written by
one update and stand for one field. `ShortHash` is the eight-character prefix
of a hash and an arbitrary function, so prefixes may collide. Rejected requests
change nothing and are left out; so is the approval rejected because the breaker
is open. Form data and change logs are in `InspectionEditing`. Some decisions
deserve a comment:

- A Serializable transaction is one step: PostgreSQL aborts it otherwise. The
  READ COMMITTED transactions of the superadmin operations are two steps, since
  nothing makes them fail when the row changes in between.
- `MintFails` may leave the NFT on the ledger: the answer of the node can be
  lost after the transaction was accepted.
- A client that never submits or confirms is a behaviour; nothing forces it.
- `confirmArchive` looks only whether the row exists, and stores what the body
  says (`IS` 2709-2727). `ConfirmArchive` is the confirmation of what a client built
  and submitted; `ConfirmUnfounded` any other, in whatever status the row is, with a
  body from `Bodies` that was not submitted for this inspection. It ends in a state of
  its own, so that `Founded(i)`, no such confirmation for `i`, can be the proviso of
  what fails then, and of nothing more. `Claim_confirm` shows that they happen.
- An approval may end and leave the row as its transaction left it
  (`ApprovalStranded`): `config.getOrThrow` (`IS` 1828) stands after the commit and
  outside the inner `try`, and the outer `catch` (1913-1938) restores nothing; and an
  error of the rollback itself is only logged (403).
- `Faults` names what may fail by itself: a statement of the database, the deletion
  of a file, the lookup of an environment variable. Whatever fails because of other
  requests (a row that is gone, an asset that is taken) needs none.

### BulkApproval

Each id of the request's list is an approval request of `InspectionLifecycle`
(`Items`); `item` is the loop's index. `ItemStarts` is the approval's
transaction, `ItemRejected` its refusal, `ItemSucceeds` and `ItemFails` the end of
the awaited call, which is recorded in the summary (`successful`, `failed`).
`LifecycleStep` is everything else: the handlers of the items and all other
requests. The list may name one inspection twice, or one that is gone.

### InspectionEditing

Extends `InspectionLifecycle`: its requests, their steps and its crashes are
those of that module, and every step here is a step there or changes none of its
variables (`EditingRefinesLifecycle`). An edit is a process of its own with two
steps. `UpdateRead` reads the row, checks the status and computes the entries;
`UpdateLog` stores them (one `createMany`, all or nothing), `UpdateFails` when
the database refuses or the row is gone. `ApproveAndApply` is the approval's
transaction with the application of the log; `DeleteWithLogs` the cascade;
`OtherSteps` everything else, which touches neither columns nor log.

`logs` keeps a batch for each `createMany`, in the order of the statements
(`changedAt`). A batch gives a new value or `None` for each path, `fieldName`
and its sub-fields. `Applied` is the outcome of the loop of `approveInspection`
written without the loop: the newest entry of each path counts, and where a
sub-object was logged as a whole and by leaves, the entry applied last is the
*older* one, since the map is iterated newest first. `notes` is a
column whose documented keys contain a dot, as `inspectionSummary.mesinNotes` of
`notesFontSizes` (`create-inspection.dto.ts:153`): the loop joins the parts of a path
with "." (`IS` 1665) and splits the key again (1691), so that the newest value goes
to `mesinNotes` in an object `inspectionSummary` and the field itself keeps its old
value (`JoinedAndSplit`; `flat` and `nested` are the two places). `MCInspectionEditing`
states the loop entry by entry and TLC compares the two on all logs of up to
three batches (`AppliedIsTheLoop`). `create` requires every column, so only rows
older than a column or sub-object (`LegacyData`) lack one; entries for a whole
column name no field the loop knows and are dropped, as in the code.

Abstractions: the inspector with the name copied into `identityDetails` stands
for the branch too; one JSON sub-object with its leaves stands for all; the name
of a user is the user. Left out: the deletion of users, which sets the reviewer and
the inspector to NULL; the status entries of rollback and revert (their `fieldName`
is not updatable); the JSON parsing of `estimasiPerbaikan`. Batches are totally
ordered: the order of two `createMany` in the same millisecond, of whose entries the
code may take any as the newest (`IS` 1660), is left out too.

### TaskQueue and SlotServer

`PdfGenerationQueue` and `BlockchainMintingQueue` have the same code, so one
module with `MaxConcurrent` and `MaxConsecutiveErrors` stands for both. An
action is a piece of code the event loop runs without a break: `Add` up to the
return of `add()` (with the call of `processQueue`), the settlement of a task in
its wrapper (`TaskResolves`, `TaskRejects`), and the `finally` block
(`Release`), which runs later. `CooldownEnds` abstracts the clock. `accepted`,
`started` and `outcomes` are history variables for the properties.

`SlotServer` is what callers rely on: a first-come-first-served server with
`Slots` slots. `ImplementsServer` is the refinement: `line` is `queue`,
`serving` the tasks in a slot, `seen` the tasks that were added or refused.

### MintService

Calls of `mintInspectionNft` on the server's wallet. `Acquire` and `Release` are
`SimpleMutex` with its hand-over; `EnterRound` to `NoUsableOutput` a round of the
outer loop; `SubmitSucceeds`, `SubmitFails`, `SubmitRejected`, `Rebuild`,
`RebuildFails` the submission loop. The ledger is external: unspent outputs
numbered by creation. `Views` is what a provider may answer: the outputs now, or
those before the last transaction; the history variable `stale` records whether a
call signed from an old view. Amounts are abstract: any nonempty subset may be
selected and all outputs may be too small. The random delay and the backoffs are
interleaving. Although the minting queue has one slot, `mintInspectionNft` is a
public method of the service and its unit test runs ten calls at once
(`blockchain.service.spec.ts:111`), so the model allows concurrent calls.

### PdfRendering

Extends `TaskQueue`: while a task is `running` there, its rendering goes through
`stage`: launch, load (a second time, waiting for less), print, close, pin, write.
A failed attempt is repeated up to `MaxAttempts` times (`AttemptOver`, which
stands for `retryWithBackoff`); pinning and writing are tried once. Only `Writes`,
`SavingFails` and the last failed attempt settle the task, so every step is a
step of `TaskQueue` or changes none of its variables (`RenderingsAreTasks`).
`browsers` are those that run. Every wait has a timeout, which is one of the
failures.

### Routes, InspectionCreation, InspectionPhotos

One process is one request, `op` what it asks for; `memo` is what its handler
keeps between its steps, `pc` where it stands.

| Operation | Actions |
|---|---|
| `create`, `generateNextInspectionId` | `ReadInspector`, `ReadBranch` / `ReadBranchFails`, `BeginCreate` (the snapshot of the counter), `CommitCreate` / `AbortCreate` |
| `InspectionBranchesService` | `CreateBranch`, `UpdateBranch`, `RemoveBranch`, `ReadActive` and `ToggleActive` / `ToggleFails` |
| `addPhoto`, batch upload | `Upload` (Multer), `InvalidFile`, `RefuseUpload`, `EnsureInspectionExists`, `RecordPhotos` / `RecordFails` |
| `updatePhoto` | `UploadReplacement`, `FindPhoto`, `ReplacePath` / `ReplaceFails`, `UnlinkFile` |
| `deletePhoto` | `ReadPath`, `DeletePhotoRow` / `DeletePhotoFails`, `UnlinkFile` |
| `deleteInspectionPermanently` | `ReadForDeletion`, `UnlinkNext`, `CommitDeletion` / `DeletionFails` |
| server restart | `Restart` |

A Serializable transaction is two steps here, since its snapshot is what is of
interest: it commits only if nobody wrote the counter row since. `issued` keeps
every id ever given. In `InspectionPhotos`, `hand` are the files a handler has to
give a row or to delete; `leaked` is a history variable of the files that an
error, a restart or an overlapping request has left behind, `condemned` one of the
inspections whose permanent deletion has begun. Columns other than path, branch
and id are abstract.

### InspectionQueries and Dashboard

Reads are cut at each query. `findAll` is followed by a client that turns page
after page: `AskForPages`, `CountRows`, `ListRows`; `findByVehiclePlateNumber` is
`FindPlate` and `ReadPlate`, `findLatestArchivedInspections` `ReadLatest` and
`ReadViews`, since Prisma loads the photos by a second query. The lifecycle of a
status is in `InspectionLifecycle`; here `ChangeStatus` may make any of its moves at
once (`Moves`: operation, status before, status after), and an approval also connects
any branch, since its log may hold one (`Connected`, `IS` 1697-1701). `createdAt` is
chosen before the INSERT commits: rows may share it, and commit in another order. `steady` is a history variable of the rows that
were in a list all the time.

`Dashboard` keeps in each counter the set of inspections counted. Main counters
are four queries under way at once (`CountPeriod`), the distribution one query
after the other (`CountTotal`, `CountBranch`, `CountPreviousTotal`). The history
variable `moved` takes note of the inspections whose city changed: by an approval, or
by another name or the removal of the branch.
`DashboardPeriods` is the date arithmetic of the trend over whole hours:
`UsedRange` (`getValidatedDateRange`), `HourlyPeriods`, `DailyPeriods`,
`MonthlyPeriods` (the loops), `CountedIn` (the queries). The reference is
`MeantRange`, and that each instant is in one period.

### Accounts and Backend

`Arrive`, `CheckBlacklist` and `LoadUser` are the JWT strategy and the roles guard,
in two queries; `Admits` begins the handler of a guarded route, of this module or
of the others. Then: `CheckAddress`, `RegisterUser`; `GoogleUpsert`;
`LoginLocal`, `LoginInspector` and `StoreSession`; `Refresh`, `RefreshTokens`;
`Logout`; `CheckNewUser`, `InsertUser` (inspectors and admins); `FindTarget` with
`WriteRole`, `WriteInspector`, `WritePin`; `UpdateUser`; `DeleteUser`. A token is
named by the request it was issued to and carries user and role. Where a branch is
removed, `ReleasesBranches` takes it from its users, as the foreign key does
(`prisma/schema.prisma:73`). `Norm` is
`normalizeEmail`, any idempotent function. `roles`, `fresh` and `admitted` are
history: the roles the user had since the request came, and whether token and
user were valid then. `Backend` lets requests of all these modules interleave.

## 3. Runs

| Run | Instance | States | What it shows |
|---|---|---|---|
| `Lifecycle_full` | 2 inspections, one of them a legacy row with a report, 4 requests, all operations, a colliding prefix, unfounded confirmations, every fault, 1 crash | 2,126,207 | every safety property of the lifecycle |
| `Lifecycle_live` | a bulk approval of 2 items, 2 more requests, 2 inspections, all prefixes collide, unfounded confirmations, a missing environment variable, no other fault, no crash | 459,681 | handlers answer, the temporary APPROVED ends or is stranded, the bulk approval answers truly |
| `Editing` | 1 inspection, 3 edits, 3 requests (approve, delete), 1 crash, complete and legacy data, a key with a dot | 946,107 | inspector and name agree; approvals store the newest values where the code puts them |
| `Queue` | 5 tasks, 2 slots, breaker after 2 errors | 339,646 | slots, order, counters, breaker, refinement |
| `Rendering` | 3 reports, 2 slots, 3 attempts, breaker after 2 errors | 123,769 | browsers, and that accepted reports are finished or given up |
| `Mint` | 3 calls, 2 rounds, 2 resubmissions, a provider that may lag | 611,368 | mutex, tokens, inputs, bounds, every call answers |
| `Backend` | 3 requests, 2 branches, 3 cities, 1 old inspection, 3 users, 5 addresses, batches of 2 | 1,329,447 | ids, files, accounts, access, lists and counts |
| `Claim_*` | 2 to 4 requests or edits | | a claim of the repository is refuted (section 5) |

Bounds. The number of requests is the bound of the lifecycle: every request is
served once. Four are enough for approve, roll back, approve again and archive
to overlap; each known race needs at most four. Rows interact only through the
unique asset id, so two inspections are enough: in `Lifecycle_full` one request's
report and the legacy report share their prefix, and all others differ, so that
both the conflict (P2002) and a stale report are told apart; in `Lifecycle_live`
all prefixes collide. Unfounded confirmations carry the transaction of one request
with either of the two assets it may mint (`TwinBodies`): what its client submitted,
possibly for the other inspection, what the server may have minted for it, or what
nobody sent; in `Lifecycle_live` one that is never sent (`OneBody`). `MaxCrashes` = 1, as a second crash meets no
state a first one does not leave. Three edits and three requests give two
approvals, the first of which fails and reopens the review, with entries before,
between and after them; two users and two values make setting a field back possible. In the queue
the number of tasks exceeds slots plus breaker limit, so that tasks wait while
the breaker opens. In the rendering three reports on two slots make one wait, and
three attempts are the code's. In the minting run three calls give a holder, a
waiter and a late caller; two rounds and two resubmissions reach every exit of
both loops.

The three requests of `Backend` are (`MCWorkloads`): any three of the writing
operations on records and the distribution; or a distribution with approvals,
renamings and removals of branches and deletions; or one read of several queries with
any two writes; or any three operations on users, or on sessions; or one operation on
records at the guards, one for each set of roles a route asks for, with two of
role change, deletion of a user and logout; or one trend. Three suffice for a check,
a write that invalidates it and the act, and for two writers that meet between a
third one's queries. The old inspection has the id that the second creation of its
branch and day would take. Two cities share their first letters and so their code.
Two addresses have one normal form. Trends cover all ranges of up to 8 days over
months of 3 to 5 days, for four timezones of viewer and server.

The proofs remove these bounds for the safety properties they cover. Requests,
edits and values are interchangeable (symmetry) in `Lifecycle_full` (but for the
request with the colliding report), `Editing`, `Backend` and three of the claims;
runs with fairness have no symmetry.

`CHECK_DEADLOCK FALSE` everywhere: a behaviour ends when every request, task or
call was served.

Fairness. `BulkSpec` has weak fairness of `Continue(r)`, a handler's next step,
and of the bulk loop: the event loop resumes a handler whose awaited call has
settled and every awaited call settles, since the navigation of a page and the
transactions of the database have timeouts. Clients get no fairness, nor do arrivals.
`RenderFairSpec` is weak fairness of each rendering's next step and of the finally
block of the queue, that of `MintService` weak fairness of each call's next
step. There, and where a handler waits for a mint or for IPFS, this presumes
that the calls of the provider and of the IPFS node settle: the code configures no
timeout for them. No fairness favours a success: a task or an attempt may always fail, a
provider may always lag.

Each property of a passing run is paired in `PROJECT.json` with a faulty variant
of one action that violates it; these operators stand in a section of their own
of each module and are not part of the models.

## 4. Proofs

Assumed are only the named assumptions on the constants:
`LifecycleAssumption` (finitely many requests, distinct names, `ShortHash` a
function, bodies of confirmations that name a transaction and an asset), `EditingAssumption` (NULL is no value), `QueueAssumption` (finitely
many tasks, positive limits), `RenderingAssumption` (positive number of attempts),
`MintAssumption` (positive number of rounds), and for `Backend` those of its modules:

| Assumption | Says | Because |
|---|---|---|
| `CreationAssumption`, `AccountsAssumption` | names are distinct; the first rows keep the unique columns; `Norm` is idempotent | constraints of the schema; `normalizeEmail` of its result changes nothing |
| `RowAssumption`, `PhotoAssumption` | a row is not the same as no row | NULL is no row |
| `BatchAssumption`, `QueriesAssumption`, `PeriodAssumption` | positive batches and pages; the first rows have a status and a period | limits of the controllers; column types |
| `FiniteAssumption` | finitely many inspections | a count is a number |
| `PeriodsAssumption` | first days of months are finitely many integers | a `Date` has a finite range |
| `TrendAssumption` | hours and days are integers; the calendar reaches a month beyond the days asked for; the server is less than a day behind the viewer | see below |

The last part of `TrendAssumption` excludes the extreme pairs of timezones, as of a
server at UTC-12 and a viewer at UTC+12: there the monthly periods may lose a
month that begins on the last day of the range.

- **Types** (`TypeCorrect` in three modules). For the lifecycle the invariant is
  strengthened by `HoldsReport`: a handler between `ArchiveRead` and its update
  holds a row with a report, so that the asset it computes is well formed.
- **`ArchivedEvidence`**. `ArchivedHasEvidence` is inductive relative to the
  types: every write that sets ARCHIVED sets time and transaction, the writes
  that clear them set another status, and a revert decides by the row it read
  but always leaves the status APPROVED.
- **`AssetsAreMinted`**. A row is *backed* when its asset and its transaction are on
  the ledger, were sent for its inspection and belong together, up to a collision or
  an asset that an unfounded confirmation gave to another row. The invariant says so
  of every row that no unfounded confirmation reached (`Founded`), and of what handlers still hold: the row that a revert may write
  back, the asset of a mint that succeeded, the asset it met in another row, the
  transaction of a client. The ledger only grows, and no request forgets that it was
  unfounded, so what is backed stays so.
- **`ReportsAreOnDisk`**. Each report belongs to one inspection: it is its
  legacy report or was saved by an approval of it (`ReportOf`), in rows and in what
  handlers read. So a deletion unlinks only reports of its own inspection, and none
  that an approval has generated and not yet saved.
- **`ApprovalsAreBounded`**. The tokens of the right to approve: each approval
  in flight, and an approvable status, hold one; only a rollback issues one.
  The invariant counts them against the rollbacks that took effect; each action
  moves at most one of them, a crash only drops some. `ApprovalsSerialized` is
  the corollary for an inspection that was never rolled back.
- **Review** (`ReviewProofs`). `ReportNamesItsReviewer`,
  `MintedReportStaysCurrent`, `ReportsAreFinal` and `NothingPublishedUnreviewed`
  share the invariant `ReviewInv`: while an inspection was never rolled back, and, for
  the parts about archiving and assets, met no unfounded confirmation, a
  row in NEED_REVIEW has no report, no reviewer, no asset, and no request is in
  the middle of archiving or reverting it; an approval in flight is the one the
  row names, the row has no report yet, and what a handler read is still what
  the row holds. `ApprovalsSerialized` excludes the second approval.
- **Bulk approval** (`ReviewProofs`). `BulkRefinesLifecycle` makes the theorems
  about `InspectionLifecycle` available. `SummariesAreTrue` needs that the items
  passed have ended as the summary says (`SummaryInv`), that an item which succeeded
  has stored the report its inspection shows until a rollback (`ItemsInv`, by
  `ReviewInv`), and that a report in the table is that of an approval which ended with
  success (`ReportsStored`), so none is that of a failed item.
- **Editing**. `EditingRefinesLifecycle` makes every theorem about
  `InspectionLifecycle` one about rows that are edited meanwhile.
  `NamesAreConsistent` needs that the two entries of a change of inspector are in
  one batch, stored or staged (`NamesInv`): then the newest entries of the two
  paths, which the approval looks up separately, are of the same batch.
  `ApprovalsApplyLatest` is about a step: `OnlyApprovalsGenerate` excludes all
  others, `AppliedIsLatest` evaluates `Applied` at the place to which joining and
  splitting takes each path, and at the field itself where that is another. That a nonempty set of batches
  has a newest one follows from the well-foundedness of strict inclusion on
  finite sets.
- **Queue**. `SlotsAreCounted` relates the counter to the cardinality of the
  set of tasks in a slot; `ServedInOrder` needs that exactly the queued tasks are
  in the queue, each once; `OutcomesAreCounted` counts settled tasks;
  `StreakIsCounted` is about the suffix of the outcomes. `QueueImplementsServer`
  maps every action to `Arrives`, `Departs` or a stutter from these invariants:
  that the line is empty when a slot is free is `NeverStalls`, that the server is
  full when a task must wait is `SlotsCounted`. `BreakerOpensInTime` is a step of
  `TaskRejects`, the only one that opens the breaker, and `StreakCounted` after it.
- **Minting**. `MintsAreExclusive` and `WaitersAreQueued` are proved together:
  the handed-over waiter must be the head of the queue and must not be in it
  any more. `CallsMintOnce` needs that only a call that has not answered can
  submit and that acceptance ends the call. `InputsDoNotConflict` uses mutual
  exclusion: nobody else spends an output between signing and submission, so a
  transaction signed from a current view has no spent input when it is submitted,
  and only a stale view leads to a rejection.
- **Rendering**. `RenderingsAreTasks` makes the theorems of `TaskQueue` ones about
  reports. `BrowsersStayWithinSlots`: a browser belongs to a running task and its
  current attempt (`RenderInv`), so the browsers map one to one into the tasks in a
  slot, whose number `SlotsCounted` bounds.
- **Numbers and files** (`BackendProofs`). `NumbersInv` (for `NumbersAreDense`) says
  that the ids issued for a key are exactly 1 to its counter; a commit finds the
  counter its snapshot saw. `FilesInv` (for `PhotosHaveFiles`) says that every photo
  has a path of its own, that files which a handler is about to give to a row are on
  disk and nobody else's, and that those about to be deleted are no photo's any more.
  `AccountedInv` (for `FilesAreAccounted`) adds whose files a handler has in hand: a
  step loses track of none if what it had in hand, and what it takes from a row, is
  afterwards a row's, in hand, left behind or off the disk. Most steps of the
  composition touch none of it; the frames `Numbering`, `Serving`, `Holding` and
  `Aside` say what they leave alone, once for each module.
- **Users and sessions** (`AccountsProofs`). A user is named by the request that
  created it, and a request runs once, so a user who is gone never comes back
  (`Born`). Hence a user whom the guards find now existed when the request came, in a
  role it has had since, and a token that is not blacklisted now was not then: this is
  `Guarding`, from which `GuardsHold` follows. `SignUpsAreFound` needs that the stored
  address is the normal form of the one typed, until an administrator gives the user
  another one, and that addresses are unique. `AccountsTyped` are the types,
  unique columns and the foreign key to the branches.
- **Rows** (`DashboardProofs`, `RowsInv`). An inspection is never made again (`Made`,
  `Lasting`), and a change of its city is noted (`Noted`); unique columns and foreign
  keys hold. With the previous point this is `BackendTyped`.
- **Reads** (`ReadsInv`). What the queries so far have counted of a row that was
  there at the beginning: while it stays, it is in the totals taken so far and in no
  other (`InTotals`); while it also stays in its city, it is counted there or that city
  is still to be counted (`CountedAtHome`); under one status of its period once that period's groups are read
  (`CountedInPeriod`). Other requests only remove rows or change what the properties
  except. `DistributionIsRight`, `CountersAreRight` and `LatestAnswers` are what is
  left at the end.
- **Pages** (`PagesInv`). A row that the walk should meet is seen, or more rows are
  ahead of it than the pages turned have held (`WalkSound`); such a row shares its time
  with no other, so `OrderRank` finds it at its rank in whatever order the database
  lists the rest. Rows that join the list meanwhile only push it back (`MoreAhead`);
  when one leaves, the walk gives up, as `Watch` says. `PageArithmetic` closes the
  step: a row of the page is seen, the others are behind it, and behind the last page
  there is none.
- **Trend**. `TrendIsRight` is arithmetic about the operators of `DashboardPeriods`:
  the range used consists of whole days of the viewer (`UsedIsDays`), and each instant of it
  is in one day (`DailyOnce`), one pair of hours (`HourlyOnce`) and one month
  (`MonthlyOnce`), whose next month exists since the calendar is finite and reaches far
  enough.

Only model-checked is the liveness, which is outside the prover's reach:
`TemporaryApprovalEnds`, `HandlersEnd`, `BulkAnswers`, `AcceptedTasksFinish` and
`CallsAnswer`. `AppliedIsTheLoop`, which compares an operator with the loop it stands
for, is checked by TLC too: the loop is recursive.

## 5. What the code does differently from what the repository says

Each claim is a property of `LifecycleClaims` or `EditingClaims`, refuted by a run:

| Run | Claim | Source |
|---|---|---|
| `Claim_failedmint` | a failed mint keeps the row as it is; it overwrites ARCHIVED with APPROVED | `IS` 2398 |
| `Claim_asset` | asset names do not collide; two archive requests mint one asset twice | `IS` 2345 |
| `Claim_temporary` | APPROVED without a report is temporary; after a restart, without `CLIENT_BASE_URL_PDF`, or when the rollback fails it is not | `IS` 1652 |
| `Claim_nochange` | "No significant changes": an edit that sets a field back leaves a pending change in force | `IS` 1281 |
| `Claim_confirm` | the transaction of a confirmation was submitted; the body is stored as it comes, also for an inspection that nobody reviewed | `src/inspections/dto/confirm-mint.dto.ts:11` |

The properties of `InspectionLifecycle` say what holds instead: many carry the
proviso that no superadmin rolled the inspection back, those about reviews, assets
and transactions also that no unfounded confirmation reached it, and
`TemporaryApprovalEnds` names what may leave a row APPROVED without a report.

Seen while reading, without a run.

*Lifecycle.* The claimed status does not prevent concurrent approvals (`IS` 1648)
when a superadmin rolls back in between, which `ApprovalsBoundedByRollbacks`
quantifies. After the retry of P2002 a row keeps the asset it had, or none, with
the transaction of another one (`AssetMintedByTx` has the proviso). Nothing
writes ARCHIVING (`prisma/schema.prisma:42`); a failed approval ends in the status
it came from, not in FAIL_ARCHIVE (`inspections.service.spec.ts:266`) nor always in
NEED_REVIEW (`IS` 1909); the final update of an approval does not name the
reviewer (`inspections.service.spec.ts:221`); an edit in flight can log changes of a
row that was approved meanwhile (`IS` 1023); an entry for a column that was NULL is
dropped at the approval, and an older entry for a whole sub-object overwrites newer
entries for its leaves (`IS` 1676); an approval stores the newest value of a key
of `notesFontSizes` that contains a dot at another place than the key
(`LatestChangesApplied` says where), so that the edit has no effect on the field.

*Creation, branches, photos.* "Please try again" (`IS` 716) does not help when the
number is taken by a row older than the counters: the transaction rolls the
counter back and the next attempt draws the same number. Renaming a branch
keeps its code; `create` does not look at `isActive`. Files of a rejected upload
stay on disk, but for the first invalid one; a deletion leaves files that were
written after it read the row (`IS` 2795).

*Queries.* `GET /inspections/queue-stats` (controller 1534) is shadowed by
`GET /inspections/:id` (910); `GET /inspections/search` is described as publicly
accessible (685) and has the JWT guard; `status=DATABASE` (`IS` 1334) is refused
by the controller; the role by which `findAll` filters is a query parameter; the
public `findOne` looks at no status although its description speaks of roles
(`public-api.controller.ts:216`). Pages are ordered by `createdAt` alone: rows with
the same time, a row that leaves the list, or one that joins it between the count
and the rows of a page, may make a walk miss a row.

*Dashboard.* The distribution counts one city after the other: an inspection that an
approval moves to another branch (`IS` 1700) between two counts is counted in both
cities or in neither, while the total counts it once; the same holds for a branch that
gets another name. `DistributionAddsUp` leaves those inspections (`moved`) out of the
counts of cities and keeps them in the totals. Days are read on the server's clock, so that a viewer in another
timezone gets another range than asked for (`dashboard.service.ts:84`): with a
server in UTC and the default `Asia/Jakarta` it ends one day late, and the daily
trend adds one more day. The hourly lookup assumes seven hours ahead of UTC; the
monthly periods of a viewer behind the server may miss the end of the range.
`TrendCountsOnce` states what holds.

*Users.* Users created by administrators are stored under the address in lower case
(`src/users/users.service.ts:789` and 1265; 895 and 990 for a change) and looked up
under its normal form, without dots and tags (70): one whose address has them is not found
by it. `SelfRegisteredFound` states what holds. That a PIN is unused is checked before it is stored
(`src/users/users.service.ts:744`); nothing keeps two requests from storing the same
one. The functions that link Google and wallet accounts have no caller.

## 6. Not modelled

- *IPFS, Prisma service*: one call each. What `executeWithReconnect` may repeat are
  reads: the health check's `SELECT 1`, the list of inspectors
  (`src/users/users.service.ts:857`) and that of the branches
  (`src/inspection-branches/inspection-branches.service.ts:50`).
- *Blockchain queries*: single reads of the Blockfrost API. The builder of the
  Aiken transaction appears as the client's transaction.
- *Metrics, logging, generated API documentation, deployment and monitoring*:
  without influence on the program's state.
- *Formats*: DTOs and their validation, metadata, JSON columns beyond the abstract
  one, templates and styles of the PDF, percentages, rate limits.
- *Single queries without a decision*: keyword search, the change log of an
  inspection, the photos of an inspection, lists of users, inspector performance.
- *Login by wallet* is a placeholder in the code. Expiry of tokens and the
  matching of passwords and PIN hashes are abstract, `username` and `walletAddress` are
  unique columns like `email`.

Left to do: the queue with one slot composed with `MintService`, which would show
that the mutex is never contended there; `InspectionQueries` composed with
`InspectionLifecycle` instead of the moves of a status.
