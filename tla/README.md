# A TLA+ model of the Binance futures review assistant

The repository is an invite-only review assistant for Binance USDⓈ-M futures: a
browser workspace (plain, or end-to-end encrypted and shared by devices), Supabase Edge
functions, a Postgres data plane that reads a user's trading history, and operations that
archive, back up, delete and recover it. The repository's tests read the SQL as text and
run the browser code step by step; interleavings, crashes and lost answers are exercised
nowhere else. They are what this model is about.

Short names below: `DP` is `src/supabase/migrations/20260831000100_invite_beta_rv2_data_plane.sql`,
`RS` is `20260831000200_restore_v2_lineage.sql`, `PV` is `20260829000100_production_vault.sql`
beside it, `lib` is `src/app/src/lib`, `fn` is `src/supabase/functions`.

## 1. The system

### 1.1 Parts

| part | where | state | operations | modules |
|---|---|---|---|---|
| Sync queue | DP, `fn/binance-beta/internal-handler.mjs`, `runtime.mjs` | connections, credential versions, partitions, jobs, attempts, worker control | connect, rotate, disconnect, enqueue, claim, renew, commit, quarantine, fail | `SyncQueue`, `LeasedLog` |
| Pages, outbox, generations | DP | source events, conflicts, watermarks, post-commit work, generations | store or quarantine a page, claim/complete/fail work, publish | `SyncPlane` |
| Edge sync worker | `runtime.mjs`, `binance-client.mjs` | a claim, a cursor | fetch a page, check it, compute the next cursor, commit or report | `ProviderPages` |
| Archive jobs | DP 5441-5775 and 7230-7940, `archive.mjs`, `fn/beta-operations/handler.mjs` | archive job, staged link, archive, batches | request, poll, link; claim, attest, ingest, finalize, fail | `ArchiveJobs` |
| Tenant writes | DP 3184-3780, `fn/binance-beta/handler.mjs`, `lib/cloud-beta-*.ts` | reviews, actions, journal, risk rules, reports, credentials, idempotency keys | write with an expected version and a key; create, rotate, disconnect | `TenantWrites` |
| Trade and ledger projection | `fn/binance-beta/ledger.mjs`, `trade-projector.mjs`, `src/frontend/net-position.js` | promotion state | reduce fills to cycles, trades, postings; reconcile; promote | `PositionCycles`, `LedgerPromotion` |
| CSV fill ledger | `lib/csv-fill-ledger.ts`, `src/frontend/engine.js` (statements) | fills and batches | merge a statement, replay, verify | `FillLedger` |
| Browser storage | `lib/browser-restore-transaction.ts` | localStorage keys, generation, epoch, journal | replace, clear, recover, repair | `BrowserStorage`, `AtomicStore` |
| Reviews and actions | `store.tsx`, `lib/action-plan-storage.ts`, `practice-state.ts`, `review-storage.ts`, `workspace-snapshot.ts` | reviews, actions, experiments, rules | save, set status, configure, observe, decide | `ReviewActions` |
| Classic migration | `lib/legacy-review-migration.ts`, `LegacyMigrationPanel.tsx` | a plan, a selection | prepare, select, apply | `LegacyMigration` |
| Browser store | `src/app/src/store.tsx` | session, queues, epochs, the vault's last committed session | every mutation, import, archive, restore, load, clear, hydration | `WorkspaceStore` |
| Encrypted workspaces | `lib/workspace-*.ts*`, `lib/vault-repository.ts`, PV, `fn/publish-vault-head` | objects, head, keys in memory, phases | create, commit, unlock, lock, save | `VaultWorkspace`, `VersionedRegister` |
| Encrypted objects | `lib/vault-crypto.ts`, `vault-signing.ts` | stored rows | seal, sign, open | `VaultObjects` |
| Deletion | `fn/delete-account`, `lib/account-deletion-client.ts`, PV, RS | operation rows, journal, receipts, a recovery file | begin, execute, resume, status | `AccountDeletion` |
| Backup and recovery | `fn/beta-operations`, `fn/restore-v2`, RS | grants, intents, exports, runs, owner claims | exchange, freeze, sign, stage, claim, publish | `OperationsGrants`, `BackupRestore` |
| Tenant limits | DP | memberships, limits | provision | only the connection limit, in `SyncQueue` |
| Capacity guards, admission controls | `20260831000300_*.sql`, `20260830000*.sql` | counters | refuse calls | no |
| Analysis engine | `src/frontend/engine.js` | none | statistics | no |
| Views, release configuration, scripts | `src/app/src/views`, `src/scripts` | none | rendering, checks | no |

### 1.2 How they interact

pg_cron (DP 7941-8052) enqueues due connections and wakes one sync worker a minute and one
archive worker every ten. A worker is an Edge invocation: it may die anywhere, run late, or
beside another one. It speaks to the database through functions that are one transaction
each, and all coordination is in rows: one egress lease over sync and archive jobs; a claim
token and a credential version as the fence of every later call; an outbox row per committed
page whose completion moves the trusted watermark and tries to publish; rotation and
disconnection that close everything of the old credential at once. Users write through the
public handler, under versions and idempotency keys.

In the browser one store owns the session. A mutation goes either through the Web Lock and
the journal of `browser-restore-transaction.ts`, or through a queue to the unlocked vault:
`workspace-context.tsx` → controller → service → repository → `rv_upload_vault_object` and
`publish-vault-head`, which compares and sets the head. Every `await` in between is a point
where a lock, a sign-out, another tab or another device may act, and every step afterwards
compares an epoch, a token or a generation it captured.

A deletion is a chain of transactions over Postgres, an R2 journal and Auth. A backup is
frozen in one transaction, signed, and restored into an empty project after the final
deletion journal has been applied; each owner recovers a tenant by an invite or a verified
address, and everything is published in one transaction.

### 1.3 What is hard here

Two workers on one job; a claim, enqueue or completion that races a rotation; a lost answer
followed by a retry or a failure report; a partition that must stay quarantined; a
publication tried only when some completion happens to be last; rows that move between two
pages; a page and an archive that write the same event; a tab that dies between two
`setItem` calls at full quota; a queued save that outlives the session it was computed from;
a superseded unlock that answers; a stored row mixed up with its sibling; a deletion that
dies half way, or straddles an export; statements that overlap; a clock that goes back.
`PROJECT.json` lists each at its line, with the properties that watch it.

## 2. Modules

| module | content |
|---|---|
| `LeasedLog` | abstract: page logs that share one lease |
| `SyncQueue` | the queue, one action per SQL function; implements `LeasedLog` |
| `SyncPlane` | extends it with pages, outbox and publication; implements `SyncQueue` |
| `ProviderPages`, `ArchiveJobs`, `TenantWrites` | the Edge worker's pages, one archive, one user's requests; joined by `MCEdge` |
| `AtomicStore`, `BrowserStorage` | abstract: a fenced content replaced as a whole; the journal over localStorage that implements it |
| `PositionCycles`, `FillLedger`, `LedgerPromotion` | the three reductions of fills; CSV statements; the server's ledger |
| `ReviewActions`, `LegacyMigration` | the user's own records; classic reviews carried over into them |
| `VaultObjects` | what of the encrypted objects still opens |
| `WorkspaceStore` | the store of one tab |
| `VersionedRegister`, `VaultWorkspace` | abstract: a list of versions nobody overwrites; devices, requests, objects and heads that implement it |
| `AccountDeletion` | deletions and their retries |
| `OperationsGrants`, `BackupRestore` | grants of workflow runs; backups and recoveries, which extend them |
| `MC*` | instances for TLC; `MCRecords` joins storage, CSV, ledger, reviews, migration and objects, one part in a behaviour |
| `SyncQueueProofs`, `SyncPlaneProofs` | theorems of the queue and its abstract log; of the plane |
| `EdgeProofs` | of `TenantWrites`, `ArchiveJobs` and `ProviderPages` |
| `DeletionProofs` | of `AccountDeletion` |
| `RecordsProofs` | of reviews, actions and their migration; of the ledger's promotion; of the browser's storage; of the ledger of statements and the step of the three reductions |
| `StoreProofs` | of `WorkspaceStore` |
| `VaultProofs` | of `VaultWorkspace`, its abstract register, and `VaultObjects` |
| `BackupRestoreProofs` | of grants, backups and recoveries |

Joined parts share no variable and never act in the same behaviour: the variable `where`
says which one does. They are in one instance because their questions are of one kind, and
their states add up instead of multiplying. Definitions that serve only as a plausible
mistake (say `LeaseHeldBySync`, `DigestPresent`) stand directly before the definition they
would replace; no action uses them.

### 2.1 The data plane: `SyncQueue` and `SyncPlane`

| variable | table |
|---|---|
| `conn` | `rv2_connections`: status, `permission_state` (`verified`), `credential_version`, `next_due_at <= now` (`due`) |
| `known` | `rv2_sync_partitions` |
| `job`, `attempt` | `rv2_sync_jobs`, `rv2_sync_attempts` |
| `before` | the order of `available_at`, then `job_id`, of the jobs in line |
| `reading` | the version an `rv2_enqueue_sync` call has read and not used yet |
| `circuitOpen`, `archiveHolder` | `rv2_worker_control`, the live lease of an archive job |
| `event`, `conflict`, `coverage`, `work`, `generation`, `current` | `rv2_source_events`, `rv2_source_event_conflicts`, `rv2_sync_coverage`, `rv2_post_commit_work`, `rv2_generations`, `current_generation` |

Actions carry the names of the functions. A function is atomic: it takes row locks before
it decides and holds them to the end, and where two take them in opposite order Postgres
aborts one, which then changes nothing. The exception is `rv2_enqueue_sync`, which reads the
credential version without a lock and inserts later (`EnqueueRead`, `EnqueueInsert`).
Rotation is another: it closes attempts (DP 2605-2616) before it cancels jobs (2633-2639), and
a claim does not lock the connection, so a claim that commits in between has its job cancelled
and its attempt left CLAIMED. `RotateConnection` may miss any attempt whose lease is still full
(`JustClaimed`), which is at least these. A
call of a lease holder is an action of job `j` and *attempt number* `n`, which stands for
the claim token: any attempt ever made may still have calls under way, so late and doubled
calls are all there, and `Holds(j, n)` is the fence. Time is ticks of the lease and flags
(`available`, `due`, `circuitOpen`) that actions of their own set and clear. Tenants and
memberships are ACTIVE; a job that is not CLAIMED has `lease = 0`; `skip locked` never
meets a held row, as functions are atomic.

An action of `SyncPlane` is one of `SyncQueue` with the rest of the transaction conjoined:
`StorePage` and `StoreConflict` are the two outcomes of `rv2_service_commit_sync_page`,
`CompletePostCommitWork` contains the watermark and `PublishGeneration`. A page is a set of
(identity, digest) rows. `FinalCursorIsNull` and `ManifestGuarded` say whether two defects of
the deployed code (section 4) are looked past: all passing runs set them FALSE, because
with them nothing is ever finished or published and the rest could not be seen.

### 2.2 The Edge worker, archives and a tenant's requests

`ProviderPages` is the layer below: a provider with rows of one dataset, the query each
endpoint gets (`from id`, `start time`, page number, open interval), the page the provider
answers, the checks of the page and the cursor made of it, with invocations that stop between
any two calls. `NullCursorFails` is FALSE for the reason above. `ArchiveJobs` has one job, the
stages of `runArchiveStep`, and runs of the private workflow, whose program is not in the
repository: it is taken to send what is true of the file it downloaded, in any order, any
number of times. Pages of the sync worker write the same events meanwhile; the statements of
`rv2_ops_finalize_archive` (scan, then write) are separate steps from theirs.
`TenantWrites` follows requests of one user through the handler and the database function:
copies, late arrivals, lost answers, versions read before a credential is sealed. `wish` is
what the browser was told, `story` the versions of each record with their authors.

### 2.3 Ledgers

`PositionCycles` has the three reductions of a sequence of fills, written independently in the
code, as folds. `FillLedger` hides an account's history behind statements: whole or partial,
with or without exchange identifiers, oldest or newest first, with rows doubled or damaged;
`mergeCsvFillBatch` takes a statement or refuses it. The ghost field `exec` of a row says which
execution it reports, and no operator of the program reads it. `LedgerPromotion` fetches fills
and income of thirteen accounts at different paces and reconciles at any moment. Amounts are
small integers, digests are what they digest, the tolerance of `quantitiesEqual` is equality.
Two statements without identifiers and with different time precision, or with and without a
position side, are outside what the model calls one history: the code counts those
executions twice.

### 2.4 The browser

`BrowserStorage` has a step for every `setItem` and `removeItem`, a quota that refuses a write
that grows the total too far, tabs that die, and writers with tokens captured at any time.
`Step` is the tab that holds the Web Lock. `ReviewActions` takes one mutation as one step, which
is what `BrowserStorage` promises, and models what each operation computes from the stored
workspace, the strict encoder, and both readers. Status, experiment and decision depend on a
clock that is set back. `LegacyMigration` splits `prepare` and `apply` at their awaits.

`WorkspaceStore` has the refs of `store.tsx` (`requestEpoch`, intents, the queue tails, the
committed vault session) in `ep`, `vaultQ`, `importQ`, `seen`; a task per asynchronous call with
the place where it waits (`at`) and what it captured. A review or action is a *mark*, a dataset
a set of files: what a property asks is whose work is where. `kept` is the browser's storage.
`owed`, `unseen`, `blanked` and `overtaken` are ghosts: what has been reported as saved, and the
three ways in which it can be lost (4.2, 4.3). A mark whose display was superseded answers false
and is owed to nobody; a migration then still returns its receipt, since its head was committed
(1054-1058, 2196), and is owed. `Load` shows the empty session at once: its dispatch is taken as
rendered before anything else reads `sessionRef`.

`VaultWorkspace` has devices with a context (phase, epoch, keys), a controller session and one
operation with its request; objects, heads and published history on the server. A request may
be applied after its sender stopped listening. `VaultObjects` opens what `VaultWorkspace` keeps
closed: associated data, wrapped keys, digest, signature and parent of each row, and a database
that returns a row with a part of another or with garbage. Ciphers, digests and signatures are
ideal; a box opens with the key and the associated data it was closed with.

### 2.5 Deletion, backup, recovery

`AccountDeletion` is the chain of `fn/delete-account/handler.mjs` with a stop before every step,
recovery capabilities of the browser, status queries, expiry and pruning of rows, and an
operator. `BackupRestore` compares two times the code compares: a deletion event's
`committedAt` and a snapshot's `createdAt`, both taken when a statement starts. An intent
remembers which exports had started before it and which were frozen before it was written. One
connection with its data stands for a tenant's rows; a user's moves are followed until the
recovery is published. Deletions of one tenant overlap, as RS 882-897 refuse only the same
operation; an intent keeps what the tenant had when it asked (`version`) and what its execution
removed (`removed`). An event is in R2 before the database is told (`AppendDeletionEvent`,
`AttestDeletionJournal`). A quarantined run is not at its end: the next call of
`rv2_restore_v2_publish` makes it NOT_READY (2335, 2448-2456) and the one after may publish it. In
the model that happens to a run whose owners are all deleted, which publishes nothing; the others
that are quarantined stay refused, their graph, their journal proof, the inhabited project or the
deleted owner being what it was. `OperationsGrants` is the OIDC exchange in front of every call.

## 3. Runs

| run | instance | shows |
|---|---|---|
| `queue_safety` | 1 connection, 2 jobs of up to 2 pages, 3 attempts, 2 failures, lease of 2 ticks, 1 lost lease, rotation, archive work | `SharedLease`, `ClaimsUseCurrentCredential`, `SettledForever`, `PagesNeedTheLease`, `ImplementsLeasedLog` |
| `plane_pages` | 2 jobs of up to 2 pages, one identity with 2 digests, a rotation | `PublicationsAreSound`, `ConflictsAreQuarantined`, `HistoryIsAppendOnly`, `QuarantineIsPermanent` |
| `plane_live` | 2 jobs of an empty page, a lost lease, failed completions, lost outbox leases, archive work | `JobsSettle`, `SucceededJobsPublished` under fairness |
| `edge` | 2 invocations, 4 datasets of 3 to 4 rows and pages of 2; 2 links, 2 runs; 10 sets of requests, each sent twice at most | `NothingIsSkipped`; `CompletedIsWhole`; `AnswersAreTrue`, `NothingReplacedUnseen`, `CredentialsOpen` |
| `records` | one part in a behaviour: 2 writers, 3 keys, quota 10, 1 crash; 4 histories of 4 executions, 8 kinds of statement, 3 batches; 13 accounts, 5 generations; 2 trades, 2 lessons, 1 action, 1 rule, a clock of 3; 4 classic files; 3 devices in 2 workspaces, 3 objects, 1 spoiled part | `ImplementsAtomicStore`, `ClearsComplete`; `ReopensAsShown`, `CountedOnce`, `TrustedReplayFollowsHistory`; `PrimaryIsEarned`, `BookedOnce`, `ProjectionsAgree`; `StoredIsShownWhole`, `ActionFollowsLesson`; `OwnReviewsStay`; `OpenedAsSaved` |
| `store_safety` | 2 tasks of 7 kinds, 2 workspaces, 2 files, 2 moves of anyone else | `AcknowledgedWorkIsKept`, `WorkspacesDoNotMix`, `NoClearedData`, `NothingIsStuck` |
| `vault` | 2 devices, 2 kits, 3 operations, 1 lock, sign-out, selection or damage | `NothingIsOverwritten` (each workspace implements `VersionedRegister`), `UnlockedIsPublished`, `BusyPhaseEnds` |
| `deletion` | 1 workspace, 2 connections, 2 requests, 3 calls, 1 move | `CompletedIsDone`, `DeletionsAreAuthorised` |
| `recovery` | 2 tenants, 2 deletions that may be one tenant's, 2 versions, 2 invites, 1 backup job and its recovery | `DeletedStaysGone`, `RestoredExactly`, `LiveGrantsAreRecorded` |

Bounds, and why they are enough. Two of a kind are the least with which a lease is contended,
a line has an order, a save meets another device's, a restore meets a queued mutation, or a
publication has other work open; two pages the least with which a page is requeued, a boundary
has two sides and a watermark covers work still pending; two attempts beyond the first allow a
takeover and a retry after it; two versions a rotation under every call. `MaxFailures = 2`
stands for 8, `ParityGenerations = 3` for 7, `PageLimit = 2` for 1000, `MaxActions = 1` for 2000,
`MaxGeneration = 1` for `Number.MAX_SAFE_INTEGER`: each is compared with its limit and nowhere
else, and both sides of the comparison occur. Four executions are the least with which a
position crosses zero within a millisecond that two statements share. One crash, one lost
lease, one spoiled part or one late move per behaviour finds every hazard whose steps are not
all faults; the theorems have no bound. `CompletedIsDone` holds with one move of
the user or of time (`MaxMoves = 1`) and not with three: see the deletion's entry in 4.3. Symmetry is used in safety
runs only, over names the properties treat alike.

Deadlock is not checked: with every job settled, request answered or bound used up, an
instance stops. Where stopping would be wrong, a property says so: `JobsSettle`,
`ClearsComplete`, `NothingIsStuck`, `BusyPhaseEnds`.

### Fairness

`plane_live`: `SF` on claiming, because the circuit breaker and other leases make claims
possible only now and then, while the cron schedule tries for ever; `WF` on the report of a
lease holder, because a worker that keeps its lease to the end answers with a page or a failure
(losing the lease is a separate, unfair action); `WF` on the passing of backoffs, of the breaker
and of archive leases. `PlaneFairness` adds the same for outbox rows: each worker run drains
one before it claims a job. Nobody is obliged to connect, rotate, enqueue or lose a lease.
`records`: `WF` on the tab that holds the lock (`Step`) and on a tab that starts (`Start`): a
user opens the page again after a crash, and JavaScript runs on. `BusyPhaseEnds` and
`NothingIsStuck` are state predicates, not liveness: whoever waits has somebody who can act.


## 4. What the code does otherwise

### 4.1 Runs that end in a counterexample

| run | property | source | disagreement |
|---|---|---|---|
| `manifest` | `PublicationFinalizes` | DP 1926, 6439, 6542 | the trigger that freezes a generation refuses the update that replaces its placeholder manifest, so every publication, and the completion that tried it, rolls back |
| `final_cursor` | `JobsSucceed` | `runtime.mjs` 1245, DP 579, 4803 | a last page is committed with a null cursor, which the column refuses: the job fails on its last page; the worker's test asserts that null |
| `same_lesson` | `SameLessonIsSaved` | `lib/action-plan-storage.ts` 257-259, 400 | saving the same lesson over an adopted experiment moves `updatedAt` and keeps `completedAt`; the strict encoder then refuses the whole workspace |

The passing runs of the plane and of the pages look past the first two (`ManifestGuarded` and
`FinalCursorIsNull` FALSE in `SyncPlane`, `NullCursorFails` FALSE in `ProviderPages`); the proofs
hold for both values.

### 4.2 Further counterexamples, kept as configurations

Each `.cfg` checks a property that a document, a comment or a reader would suggest and the
code does not keep; `tlc -config X.cfg M` shows the steps. The one with two properties shows both
with `-continue`.

| configuration | module | property | what happens |
|---|---|---|---|
| `SyncQueue_rate_limit` | `MCSyncQueue` | `DelayedJobsRetried` | a 429 sets the connection RATE_LIMITED (DP 5428); claim, enqueue and schedule require ACTIVE, and only a rotation sets it back: the delayed job is never tried again (`docs/INVITE-BETA-BACKEND.md:156`) |
| `SyncQueue_stale_enqueue` | `MCSyncQueue` | `OldVersionsCancelled` | an enqueue reads the version without a lock (DP 2704) and inserts after a rotation a job nobody serves or cancels (line 106 of that document) |
| `SyncPlane_trust` | `MCSyncPlane` | `TrustedPagesAreDone` | completing one page's work trusts the partition up to pages whose own work is pending (DP 5208, comment 5204) |
| `SyncPlane_last_failure` | `MCSyncPlane` | `SucceededJobsPublished` | a publication is tried only by a completion (DP 5233): if the other work open at that time ends in a failure, pages that succeeded stay unpublished until some later job completes, here for ever as no more jobs come; so `plane_live` has a provider that does not fail |
| `WorkspaceStore_late_answer` | `MCWorkspaceStore` | `LateAnswersLeaveTheVault` | a cloud load that began before the unlock answers after it (`store.tsx` 1794, 1803; the comment at 1773 says the epoch protects completed transitions); an error (367) empties the data and leaves persistence `vault`, and the next mutation saves that |
| `WorkspaceStore_late_answer` | `MCWorkspaceStore` | `ReceiptsAreKept` | a migration's head is committed after a cancelled restore has changed the mutation epoch: the receipt is returned (`store.tsx` 1058, 2196; `store-vault.test.tsx` 1273-1390), but the session is neither displayed nor made the base of what follows (1059-1080), and the next save, from the session that is still on screen (1037), replaces the head without the migrated reviews |
| `VaultWorkspace_refused` | `MCVaultWorkspace` | `RefusedIsNotApplied` | a save reported as a conflict had been applied, its first answer being lost (`workspace-vault-service.ts:268`) |
| `AccountDeletion_pending` | `MCAccountDeletion` | `PendingMeansUntouched` | the status is still pending after the journaled part has deleted the data (`delete-account/handler.mjs` near 314); the panel says the server has not begun (`WorkspacePanel.tsx:243`) |
| `BackupRestore_resurrect` | `MCBackupRestore` | `NothingDeletedReturns` | a deletion's statement starts before an export and writes its intent after the freeze: its time is the earlier one, so the recovery brings the deleted rows back (comment RS 2893) |
| `BackupRestore_restore_grant` | `MCBackupRestore` | `FirstExchangeIsGranted` | the Edge function accepts the assertion of a `beta-restore` job (`beta-operations/handler.mjs:771`) and `rv2_ops_claim_oidc_jti` (DP 6683) refuses it, so no recovery run gets a grant (`docs/PRODUCTION-DEPLOYMENT.md:235`) |
| `BackupRestore_unrestorable` | `MCBackupRestore` | `SignedSnapshotsAreWhole` | the export leaves out revoked connections and keeps their events (RS 2951-2953); admission refuses an event without its connection (RS 1708-1717), so the signed snapshot can never be recovered |

### 4.3 Read while modelling

No run stands behind these; the model follows the code in each.

Data plane and worker:

- `on conflict (job_id) do nothing` (DP 4778): `job_id` is also a result column, which PL/pgSQL
  by default reports as ambiguous; a page with a history gap would not commit.
- Disconnect retires envelopes where `docs/INVITE-BETA-BACKEND.md:107` says destroyed; an
  authentication error leaves other jobs QUEUED where line 159 says cancelled.
- A third, smaller digest of one identity violates the row's check (`RowAccepted`) and rolls back
  the evidence the comment at DP 4605 wants to survive. `normalizeCommit`
  (`internal-handler.mjs:487`) does not know CONFLICT; the failure report that follows is
  refused, as the job is settled.
- `orders`, `algo_orders` and `positions` are living records: a changed payload quarantines
  their partition for good. Income identity is `tranId` alone (`runtime.mjs:632`), the ledger's is
  `incomeType:symbol:tranId` (`ledger.mjs:208`). One malformed row fails every job of its
  partition. `force_orders` skips rows that share the boundary millisecond; income pages skip
  rows when older ones leave. Coverage stays PARTIAL.
- Archives: a claim that finds nothing raises and rolls back its own sweep (DP 7243-7268). A link
  is claimable in its last ten minutes only, while the workflow runs hourly
  (`docs/PRODUCTION-DEPLOYMENT.md:313`). A STAGED job whose link expires is lost; the ATTESTED
  archive of a dead run stays. QUOTA_EXHAUSTED and COVERAGE_UNAVAILABLE are unreachable.
  Finalization overwrites coverage CONFLICT by PARTIAL (7774), and scans for conflicts (7751)
  before it inserts (7849) without a lock it shares with a page commit.
- Tenant writes: a successful review write is answered 503, since the function returns
  `review_id` and the handler (683-697) expects exactly three other keys; its test mocks the
  answer without it. A fresh key per call (`binance-source.ts:765`) makes a repeated rotation
  a conflict for ever, lets a repeated disconnect revoke a newer credential, and lets a rotation
  that read before a disconnect revive the connection. `experiments` is always DENY (DP 6517).
  `pollBinanceUntilTerminal` always ends in SYNC_TIMEOUT (`store.tsx:1825-1841`).

Ledgers and records:

- Statements without identifiers that differ in time precision or position side count an
  execution twice; a single newest-first file replays one millisecond in file order; a missing
  middle statement imported later is refused; a copy without order information downgrades a
  trusted marker. `reconcile`, `advanceLedgerPromotion` and `projectTradeReadModels` have no
  deployed caller.
- At 2,000 actions no review with a lesson for a new trade can be saved, and no action can be
  deleted. A clock behind an action's time refuses every save until it catches up. The success
  criterion is shown but not enforced; a lesson deleted from a review leaves its action open;
  any commit resets a draft being typed (`TradesView.tsx` near 77).
- Classic migration: `busy` stays TRUE when the trades change during `prepare`
  (`LegacyMigrationPanel.tsx:81-88`); a migration that was written can be reported as cancelled
  (line 190); migrated lessons create no action.

Browser, vault, deletion, recovery:

- Importing a batch that the session shows already, into an unlocked empty vault, returns true
  without a save (`store.tsx` near 1312). A mutation whose head was committed but whose display
  was suppressed is overwritten by the next. `queueVaultSave` has no caller.
- A hydration compares epochs and the workspace, not the generation (`store.tsx` 1150-1158). With
  four marks and archives, TLC breaks `AcknowledgedWorkIsKept` without its exception
  `overtaken`: the answer of a save that a newer intent superseded changes the unlocked head
  without the committed session, so a render starts to hydrate it; a later mark is saved and
  acknowledged; the hydration ends before the effect of that answer's render cancels it, and shows
  the older head again; the next mark is saved from there, over the one acknowledged. The window
  is one render. With two operations (`store_safety`) it cannot happen.
- A review of a trade that an import has just replaced is saved and answered true (line 1898
  looks at the trades of cloud sessions only), and the next import drops it (1328): `Promise`
  counts a mark only when its file is in the dataset saved.
- A marker beside a damaged journal waits for the next explicit clear; a repair journal whose
  epoch exceeds the quota blocks what follows.
- Overlapping saves leave the controller a generation ahead until it is locked again; a
  superseded unlock that completes replaces the live signing session; a renewed session locks
  the workspace and aborts a save; a failing `refresh` leaves an empty panel.
- Deletion: with three moves TLC breaks `CompletedIsDone` (no workspace, 2 connections, 1 request,
  2 calls). A call has executed the journaled part and stops before its last step; the row
  expires, is pruned, and the user connects again and repeats the request, which begins a new
  row; the old call then completes the new row, which covers the new connection. A row lives an
  hour, pruning runs every five minutes and a call has ten seconds, so all of it would have to
  fall into the last seconds of the old row. When the row expires between the journaled part and the Auth deletion, a user can no
  longer delete the identity; a status 404 before a late begin discards the recovery file.
- Recovery: an owner claimed and then deleted rolls back every publication (RS 2805); a publication in AWAITING strands the owners; a quarantined first claim
  keeps a snapshot unrestorable. When an account deletion is executed before another deletion of
  its tenant, that one never can be (DP 3910-3919, RS 1200): its intent stays JOURNALED, and RS
  2891-2900 refuse every later export, of all tenants. A lost signing answer is not repeated for its run attempt.

## 5. Proofs

Every theorem is checked by TLAPS for all values of the constants, under the assumptions named
in the modules (`...Assumption`): the constants have the types their use needs, limits are
natural numbers, sentinels are outside the sets they are sentinels of.

**The queue.** `TypeOK`, `SharedLease`, `AttemptsAgree` and `ClaimsUseCurrentCredential` are not
inductive: that a claim leaves one lease needs every other lease to have run out, which holds
because the claim's guard reads `job`; that an attempt number is fresh needs the attempts table
to agree with the rows: the claim in force has an open attempt, and an open attempt is the last
of its job, which is claimed by it or was cancelled by a rotation that missed it. That a failure
report keeps the count within its check needs the bound on jobs that are still open.
`QueueInvariant` proves their conjunction with `OpenJobsMayFail`, `UnusedJobsAreFresh` and
`JobsHaveConnections`, one step per action and under it one per conjunct the action can disturb. `TypeCorrect`, `LeaseIsShared`, `AttemptsAlwaysAgree`, `ClaimsStayCurrent`
follow, then the action properties `SettlesForever` and `PagesAreFenced`, and `QueueRefinesLog`:
a page is added in the abstract log exactly when a commit holds an unexpired lease, and every
other action maps to taking or giving up the lease, or to a stutter.

**The plane.** `PlaneImplementsQueue`: each action of `SyncPlane` is one of `SyncQueue` or leaves
its variables alone. The queue's theorems carry over (`PlaneLeaseIsShared`,
`PlaneClaimsStayCurrent`, `PlaneRefinesLog`) without a second induction. What the plane adds rests
on `DataInv`. Neither `ConflictsAreQuarantined` nor `PublicationsAreSound` is inductive: that a
publication takes each job once and loses nothing of the last one needs outbox rows numbered as
the pages were committed (`OutboxNumbered`), a trusted watermark that follows the committed one
(`TrustFollows`), and what was published to be still under the watermarks (`RootsCovered`). One
lemma per transaction shows `DataInv'` together with what the step leaves alone (`DataKept`), so
`HistoryGrows` and `QuarantineHolds` need no second pass.

**The user's records** (`RecordsProofs`). `WorkspaceInvariant` says every stored action and rule passes the strict
reader; it is inductive only because the encoder refuses what the reader would (which is also what
`same_lesson` runs into). From it `StoredWorkIsShownWhole` and `ActionsFollowLessons`, for any
clock, trades, lessons and limit; `MigrationKeepsWork` and `OwnReviewsAlwaysStay` for a migration
beside another tab.

**Tenant writes** (`EdgeProofs`). The version of a record is the number of writes in its story, a
receipt stands for exactly one of them, and what was refused asked for a version that is past.
Versions only grow, so no copy that arrives late can change an answer (`ToldTheTruth`), and an
author who is applied has seen the last text (`TextsAreSeen`). `CredentialsAlwaysOpen` needs that
at most one wish creates a connection, and that envelopes are numbered up to its version.

**Archives** (`EdgeProofs`). A file being finalized has every page staged, one digest for each id,
and was compared with what was stored (`FinalizesWhole`). Between the scan and the write only a
page of the sync worker writes events, and finalization leaves what it wrote alone. `FileOf` is
assumed to give finite files, as a worker stages them page by page.

**Pages** (`EdgeProofs`). `PagesInv` says what a cursor means: what is behind it was stored or
falls under one of the two exceptions of the code (`NothingBehind`), it is not past what existed
when it was made (`NothingAhead`), whoever holds the lease reads from it, and the page it holds
begins there (`PagesAreNext`). `NothingAhead` is the half that cannot be left out: without it a
row the provider gets later could be behind a cursor already. A page is found by its least or
greatest row; `LeastNatural` takes that from the well-foundedness of finite sets, where an
induction over sequences would be out of reach.

**The ledger's promotion** (`RecordsProofs`). The last `streak` of the outcomes remembered all
passed, their generations ascend to the last one judged, and only a whole window carries the stages
of a ledger that may be primary. The window forgets its oldest outcome when it is full, which is
where `StreakIsCounted` could have gone wrong.

**The ledger of statements** (`RecordsProofs`). `CsvInv` says that every batch was read from
executions of the account (`BatchReads`), can be rebuilt from its new rows and the fills before it,
and that no execution is held twice (`LedgerInv`). A copy of a statement changes evidence alone
(`DowngradedKeeps`). A statement that joins is the hard case (`AppendedKeeps`): its digest is new, so
the batches before it verify by the same fills as they did; each of its rows is one of its new rows
or has the identifier of a fill that has the same content (`NewBatchRebuilds`, from the conflict
refusal and unique references); a new row reports no execution of the ledger, or it would be at the
point of a fill with its own number and be refused (`NewRowsApart`). From it `LedgersReopen`,
`ExecutionsCountedOnce` and `TrustedReplayIsHistory`, for any account and any number of imports.
Assumed are two things of what comes from outside: within a symbol identifiers ascend with the order
of execution (`HistoriesAssumption`; that is what Binance's are), and a statement without identifiers
does not repeat its own row (`KindsAssumption`; the code takes two equal rows without one for two
executions).

**The three reductions** (`RecordsProofs`). `ReductionsStayInStep` is one step of `ProjectionsAgree`
for all integers: if the browser's, the projector's and the ledger's reductions of a book are in step
before a fill, they are after it: the trades closed with their prices, results and lineage, the open
cycle, the signed position, and the refusal. They start in step (`ReductionsStartInStep`). That a
fold over all fills keeps what its step keeps is the induction left to TLC, and with it what the
property says of sums of fees and of results the browser computes itself.

**Browser storage** (`RecordsProofs`). `StorageIsAtomic` proves `ImplementsAtomicStore`. A disk is of
one of three kinds, and each says what a reader finds (`PlainDisk`, `FencedDisk`, or a repair under
way; `Disks`): the token and the content depend on the journal and the marker, and the stored
generation and epoch count only where no clear is under way. `StorageInv` says that a clear under way
can be read off what it has or has not moved (`Fenced`), that there is one marker at most and none
beside a journal written whole (`MarkersOK`), and what each point of an operation may rely on
(`RunOK`): for the undo, that the keys after `left` are already those of the journal; for the writes,
that the writer's token is the one in force, which is why the commit is a `Replace`. Each step then
leaves what a reader finds alone (`Unmoved`), empties it under a later token (`Emptied`: the journal
or the marker of a clear, or the journal of a repair, is the only write that does), or renews it
(`Renewed`: the commit alone). That a marker replaces a value at all needs a largest value
(`LargestOf`), hence the assumption that a browser has finitely many keys (`KeysAssumption`).

**The browser store** (`StoreProofs`). Each of the 33 actions has a lemma that says what it does to
the tab, the storage, the vault and its operation (`EffectMark`, ...); what follows uses those
alone, so that an epoch or a guard is looked at once. `StoreShape` says which steps a kind of
operation goes through and what it carries there. `ClearedStaysCleared` proves `NoClearedData`,
which is not inductive: what is on screen comes from what the browser keeps (`KeptUnder`), from an
operation that holds a token between two steps (`Bound`), or from an import whose place in the
queue says whether the workspace is still the one it was called for. `WorkspacesStayApart` proves
`WorkspacesDoNotMix` from where everything is that can still reach a head: the screen, the browser's
storage, the unlocked vault, the last committed session, the hydration under way, and what each
operation in the queue or on its way to the server is about to save (`PlacesInv`). Operations, files,
workspaces and moves are any number; assumed is only that the names of workspaces, scopes and the
two sentinels differ.

`SavedWorkIsKept` proves `AcknowledgedWorkIsKept` from three more invariants. Operations wait for
their turn by epoch only, so one of an older epoch may still be on its way when the next epoch's
first one is taken; but of one epoch at most one has left its place (`QueueInv`, `OneUnderWay`).
Hence what a live save has put in the head is still the head when its answer comes, and a hydration
of the generation that is unlocked holds what is unlocked (`SendingInv`). `KeptInv` then names every
place the next head of a workspace can come from - the head, what is unlocked, the session and the
reducer's session, the last confirmed session, and the content an operation of the queue's epoch is
about to send - and says that each of them holds what was acknowledged there, a mark together with
its dataset. The last confirmed session is needed even when nothing is on screen: an import into a
workspace that showed no archive adds to it, and only a workspace in which nothing was acknowledged
has none. Migrations whose receipt was returned without a display are in none of these places but
the head; `unseen` takes them out until a save shows them. All of it is under the exceptions of
the property. The induction goes over the kinds
of steps that matter (`StepsOfTheStore`): all others are `Quiet` and done once.

**Encrypted workspaces** (`VaultProofs`). `VaultInv` has five parts. On the server, generations
follow their parents and an object keeps its place (`ServerInv`). A signing session names a
published parent of its own workspace, and a save goes out with a session that does (`SessionsInv`).
A device has at most one current operation, which is the one its phase waits for, and what it shows
is published (`ContextInv`). A save reported is in the history, one refused is not and has no late
copy that could bring it there (`ToldInv`). `StepsFollow` says where each operation has been. From
it `UnlockedAlwaysPublished` and `EveryBusyPhaseEnds`. `VaultIsARegister` proves the refinement: for
each workspace a step tells nothing, refuses a save, reports one that the head holds, or adds the
version that follows the head (`VersionStep`), and each of the four is a step of
`VersionedRegister` or a stutter; that the head holds every save reported (`HeldInv`) is carried
along. Devices, workspaces and overlapping operations are any number.

**Encrypted objects** (`VaultProofs`). `OnlySavedOpens`: for any number of spoiled or exchanged
parts, a row that opens is one a save of its workspace sent, with an unbroken line of parents. The
run has one spoiled part; the theorem has no bound.

**Deletion** (`DeletionProofs`). `DeletionInv` follows a receipt: the row and the call that hold it,
and the intent it stands for, are about one operation, the intent is recent, and an operation has
one recent intent (`OneRecent`). So once a row of an operation is complete, the only intent that a
call could still execute has been executed, and `execute` finds nothing to delete. What a call has
yet to do is in the chain's order (`Follows`), so `complete` comes after the identity is gone.
From it `OnlyAuthorisedDeletions`, and `ReceiptsMeanDeletion`: what a completed row promises when
any number of moves may follow, the part of `CompletedIsDone` that holds without bounds.
`CompletedRowsAreDone` is the whole of it under one hypothesis about behaviours,
`RowsOutliveCalls`: no row is pruned while a call that works for it runs. It is what the times of
the code give except in the last seconds of a row (4.3), and the theorem shows that this is the
only way a completed row can speak for something that is still there. `DoneInv` carries along that
what a row covers was there when it was begun, that a call works under its row's receipt, and that
an executed intent has left no connection of its row. The
assumption that the model value `None` is neither a number nor a capability is what TLC takes of a
model value.

**Backup and recovery** (`BackupRestoreProofs`). `LiveGrantsRecorded` is proved of
`OperationsGrants` and carried to backups and recoveries by `BackupImplementsGrants`
(`BackupGrantsRecorded`). For `RestoresAreExact` and `DeletedDataStaysGone`: deletions of a tenant
may overlap, so the argument is about numbers. A connection gives its data the number after all
that were removed (`NumbersGrow`), and what a deletion asked for or removed has an older number
once it is executed (`NumberIsOld`); no export is frozen between a deletion's intent and its
execution. So a frozen export that holds what a deletion was about either began before that
deletion's statement or was frozen before it was written (`SnapshotsSeen`). The second alternative
is the exception that `DeletedStaysGone` names and `BackupRestore_resurrect` shows. Neither needs a
run to end where it is quarantined: `RunMoves` lets it move as it likes before it is published.

Only model-checked, and why:

- Liveness (`JobsSettle`, `SucceededJobsPublished`, `ClearsComplete`): fairness and ENABLED are
  beyond the prover.
- `BookedOnce` and `ProjectionsAgree` of `LedgerPromotion`: they are about folds and sums over
  sequences of any length, which needs induction over data. Of the second the step is proved.
- `NothingIsStuck` of `WorkspaceStore`: it is about ENABLED.

Recursive operators stand only in modules without theorems.

## 6. Not modelled

- Capacity observability and admission controls: a call they refuse changes nothing, which every
  module already allows of a call.
- The analysis engine: floating-point statistics, apart from the three cycle reductions and the
  parsing of statements as far as `FillLedger` needs it.
- Views, release configuration, repository scripts, the local development API.
- Sign-in tokens, kept by Supabase Auth: only the effect of a renewed or ended session on a
  workspace. Tenants, seats and memberships: an operator's single transactions.
- Within modelled parts: signatures, hosts and byte limits of calls; journal entries; the older
  CLEAR journal of the browser; pruning of vault objects; `pendingVaultSaves` and the
  `beforeunload` prompt; the statement-level interleavings of READ COMMITTED, except where a
  module says so (`EnqueueRead`, `RotateConnection`, the archive's finalization); the lock orders that make Postgres
  abort a transaction, which then changes nothing.

## 7. Plan

Done: the queue, its plane, its abstract log and proofs; pages, archives and tenant writes;
browser storage and its abstract store; ledgers; records and migration; encrypted objects;
the browser's store; the vault and its abstract register; deletion; backup and recovery with
their grants. Proved: every safety property of the queue, the plane, pages, archives, tenant writes,
records, migration, encrypted objects, the vault and its register, backup and recovery; the
promotion of a ledger; the authorisation of deletions and what a completed one means; every safety
property of the browser's store; the storage of the browser and its abstract store; the ledger of
statements, and one step of the three reductions.

Left: instances with two connections of a tenant, two crashes, and a generation of more than
`MaxDelta` jobs.
