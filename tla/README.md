# TLA+ models of the POAP continuation platform

The platform lets an issuer hand out event badges (ERC-1155 tokens on Base). A visitor claims a slot
with a link, a code or a verified Email, gets a signed mint authorization or asks the platform to
sponsor the mint, and sees the badge on a wallet page that is fed by a chain indexer. The service is
one Cloudflare Worker (`src/worker/index.ts`, Hono routes and a minute cron) over several D1
databases, one Durable Object class for the relayer account, and one upgradeable contract. Beside it
stand command-line tools with which an operator exports, preserves and loads the archive the service
reads from.

This directory models the parts that write shared state: modules translated from the source, TLC
configurations for small instances, and theorems checked by TLAPS for every value of the constants.
`PROJECT.json` maps each definition to the lines it models and lists runs, mutants (one plausible bug
per property, which the property catches), findings, hazards and theorems. Paths below are relative
to the repository; `worker/` is `src/worker/`.

## 1. Inventory

| Component | State | Operations | Interacts with |
|---|---|---|---|
| Sponsored mint relay: `worker/mint-jobs.ts`, `mint-relay-coordinator.ts`, `minting.ts` | `live_mint_jobs`, the hash columns of `live_claim_codes`, the object's `nextNetworkNonce` and alarm, the relayer account | create, reuse, revive a job; the alarm's cycle: poll, confirm, submit, retry, schedule | relay routes, `/mints`, cron recovery, Base RPC, badge contract |
| Badge contract: `contracts/contracts/AssociationBadges*.sol` | events and caps, `hasClaimed`, `usedNonces`, balances, signer, pause, owner | `claim`, `claimFor`, transfers, administration | recipients' callbacks, relay, indexer |
| Claim slots: `worker/live.ts`, `email-reservations.ts`, `email-wallets.ts`, routes of `index.ts` | `live_claim_codes`, Email challenges and sessions, Magic identities | claim, reserve, verify, bind, reconcile, relay, record a mint | Email and Magic, relay, contract |
| Chain indexer: `worker/chain-indexer.ts`, `migrations/live/0005` | `live_chain_cursors` (cursor), `live_chain_events`, `live_token_balances` by triggers | one run per minute: read finalized, read logs, commit a chunk | Base RPC, holdings pages |
| Holdings pages: `worker/live.ts` | none of its own | `fetchLiveHoldings`, `fetchLiveCollectors` | claim rows and the index |
| Gas monitor: `worker/gas-monitor.ts` | `gas_monitor_state` (lease, level, last alert), `gas_receipts` | claim the lease, backfill receipts, report, fence, alert, record | RPC, Telegram, relay and index tables |
| Email wallet provisioning: `worker/wallet-provisioning.ts`, `email-wallets.ts` | `live_email_wallets` with a two-minute lease | begin, ask Magic, ready, failure | Magic API |
| Issuer administration: `worker/issuer-admin.ts` | `live_events`, `live_event_revisions`, artwork and metadata in R2 | update, publish, close | every route that asks whether an event is open |
| Archive media mirror: `worker/archive-media-mirror.ts` | cursor object in R2 | copy one page, save the cursor | archive origin, R2 |
| Personal archive: `react-app/personal-export.ts`, export routes and `worker/exports.ts` | a browser tab's archive; edge caches | manifest, pages, Drop batches | several versions of the worker during a rollout |
| Multipart upload: `tools/moments-media/lib/recovery-executor.mjs`, the R2 bridge worker | an upload journal, R2's uploads and objects | create, part, complete, resume, abandon | R2 |
| Moments media: `tools/moments-media` | media plan, capture and recovery journals, manifest, proof, reports | capture, plan a recovery, recover, verify, build | sources, R2, D1 build |
| D1 loaders: four tools for Moments, Collections, archive and Holdings | target databases, journals, reports | load, verify, activate | wrangler, D1 |
| Snapshot exports: `tools/moments-backup`, `tools/collections-backup` | pages on disk, state file, manifest | snapshot, resume, normalize, verify | Compass |
| Compass capture: `tools/compass-holdings` | SQLite file, drop list, build | snapshot, referenced-drops, build-d1, package | Compass |
| Holdings artwork: `tools/compass-holdings/artwork.mjs` | one checkpoint, reports, release, D1 shards | capture, review, finalize, load, back up | sources, R2, D1 |
| Readers, media, caching, validation, access control | none that a request changes | queries and checks | |
| Frontends, admin gateway, other operator tools, deployment scripts | none in the service | calls of the API, one-off steps | API |

What is hard in each, and what makes it right:

* **Relay.** Every `await` of the alarm handler is a point where the object may be evicted, a nonce is
  read from three places at different times, a poll races the receipt, and a retry may follow a
  transaction that is still in the pool. Right means: a job is never paid for twice, what is called
  minted is minted, settled rows stay settled, and no job is forgotten.
* **Badge contract.** `_mint` and transfers call a recipient that has code before they return; the
  callback may claim, transfer or administer, and may refuse and so revert everything nested in it.
  Right means caps, one badge per account and event, one nonce per claim, and a pause that holds.
* **Claim slots.** Requests read, wait and write; two of them compete for the last slot, for the same
  magic link, or move a reservation that another one has moved already. Right means one slot each, no
  verified reservation lost, one session per link, and nobody authorized without a slot.
* **Chain indexer.** Cron runs overlap; a run notices that it lost the cursor only after its rows are
  committed; events are registered while a chunk is being read. Right means that no final transfer is
  skipped or counted twice and the published balances are those of one finalized block.
* **Holdings.** Two sources catch up at different times. Right means that the index, when shown,
  is the owners at a finalized block, and that a claim record gives way to it.
* **Gas monitor.** A run may outlive its lease, die between the alert and its record, or see a balance
  that is gone. Right means an alert only on what the row says at that moment, and that the operators
  know the level in the end. Receipts must be final and must not starve each other.
* **Wallet provisioning, issuers, mirror.** Late answers of a request whose lease was taken over;
  versions that are milliseconds and files written after the commit; a cursor object that overlapping
  runs write without a condition.
* **Personal archive.** Hundreds of requests are answered by versions of the worker that are bound to
  different releases and by caches. Right means an archive of one edition, complete, or an error.
* **Tools.** Each may be killed between any two writes and is simply run again; several may overlap;
  an answer or an import may arrive after its sender is gone; sources change under a reader. Right
  means that what a tool declares sealed, verified, ready or backed up is so, and that running it again
  ends.

## 2. Modules

| Module | Models | Extends / instantiates |
|---|---|---|
| `MintPromise` | abstract: what a collector is told of a sponsored mint | |
| `MintRelay` | the relay, the relayer account and the chain | refines `MintPromise` |
| `BadgeContract` | the contract with nested callbacks and reverts | |
| `ClaimSlots` | slots, reservations, links, binding, reconciliation | |
| `OwnershipFeed` | abstract: published holders are the owners at one final block | |
| `ChainIndexer` | chain, registration, overlapping runs, journal, balances, cursor | refines `OwnershipFeed` |
| `Holdings` | the pages, composed with the indexer and with recorded hashes | `ChainIndexer` |
| `GasMonitor`, `GasReceipts` | the monitor's lease and alerts; the receipts behind its figures | |
| `ArchiveMirror` | the mirror's cursor and overlapping pages | |
| `WalletProvisioning` | leases and late answers of wallet requests | |
| `IssuerAdmin` | versions, audit log, files of one event | |
| `PersonalExport` | a tab, the versions of the worker and the edge caches | |
| `MultipartUpload` | two rows that upload the same object | |
| `MomentsMedia` | capture, recovery, proof, verification and what the build asks of them | |
| `SnapshotLoaders` | load, verify and activate of the four loaders | |
| `SnapshotExport` | snapshot and verify of one Compass table of each kind | |
| `CompassCapture` | the capture of every POAP and the files made of it | |
| `HoldingsArtwork` | the checkpoint, the releases and their load | |
| `MCBadge`, `MCSlots` | instances and symmetry for TLC | the module they name |
| `MCHoldings` | an instance for TLC | `Holdings` |
| `MCExport` | rows and editions of an archive | `PersonalExport` |
| `MCUpkeep` | the six small parts of the service, one at a time | the modules of those parts |
| `MCTools` | the seven tools, one at a time | the modules of the tools |
| `*_proofs` | theorems (section 5) | the module they name |

### MintRelay

One shard (one chain and one relayer key). `job` and `claim` are the rows; `co` is the coordinator's
program counter and local variables, so that `co.job`, `co.attempts`, `co.nonce` and `co.hash` are
what the handler read earlier and may be stale; `cachedNonce` and `alarm` are the object's storage;
`pool`, `minted`, `reverted`, `chainNonce` are the chain. `Crash` ends the handler between any two
steps. The alarm handler's actions follow its awaits in order, the catch block included.

* Reads that come before one D1 write are one step with it: only the object writes active rows, and
  what it reads of the chain never becomes untrue.
* Time is two booleans per row: `due` (next_attempt_at has come) and `age` (the 120 s receipt timeout
  counted from `submitted_at`, which the code keeps over resubmissions). A timeout of a submitted job
  whose transaction may be mined (`MayBeMined`: a hash in the pool, no lower nonce missing) is a slow
  chain and spends a fault; any other is only the clock.
* Errors of RPC and chain (lost answers, evictions, reverts, expired authorizations, failing writes)
  spend `faults`; crashes, lost wake calls and lost alarms spend `crashes`.
* A gas estimate for a badge that exists already reverts, and spends no fault.
* The node's pending count may lag behind the pool (`PendingCounts`).
* Attempts that fail before submission leave `attempt_count` alone, as in the code.
* The relay route for Email sessions (`index.ts` 1066-1132) has the same shape as the one for codes
  and is the same action. Chain reorganisations of an unfinalized receipt are not modelled.

### BadgeContract

`store` is the contract's storage; `frames` is the stack of calls whose callback runs, each with the
storage that a revert would bring back. `Deliver` is the end of a mint or transfer: if the recipient
has code, its callback starts (`Return` accepts, `Revert` refuses). During a transaction only code
runs; `Sign` and `Expire` happen between two. Left out: metadata URIs, ERC-1155 approvals
(`Transfer` does not name its caller), and the UUPS upgrade. The contract has no burn operation.

### ClaimSlots

The rows of one event with one access code. Each statement or D1 batch is a step; `req[r]` is what a
running request read, and `Abandon` ends it anywhere. The route of `/claims` reads and reserves in one
step, because the reserve statement repeats the conditions of the read; bind updates, reads back and
signs in one step, and the read that decides whether to bind is a step of its own. No unique index is
assumed except the one whose error bind turns into a 409; `OneSlotEach` says that no other statement
would trip one. Left out: authorization deadlines, the answer by recorded hash (both in `MintRelay`),
login links without a reservation, session expiry, rate limits, several events in one table.

### ChainIndexer and Holdings

`chain` is a sequence of blocks, `owners` the contract's balances after each. A run keeps its cursor
and what it read in `run[r]`; `Commit` is the one D1 batch with the triggers that update balances and
reject an overdrawn source: `Post` takes what an address gave and adds what it got, counted badge by
badge (`Given`, `Got`) so that it needs no order, and `Refused` looks at each new transfer with those
before it counted. A block has at most one
transaction with transfers, a batch of at most `MaxItems` items; finalized blocks stay; an RPC call
answers completely or fails. A badge of an event is minted only after the event is registered, because
the platform's signer signs for registered events only (`Circulating`).

`Holdings` adds the transaction hash and the minted flag of each wallet's claim and defines the page.
A hash is named by the block of its transaction, and `Unmined` when it has not minted or never will
(replaced, dropped, reverted). The relay may write it before anybody knows which transaction mints.

### The small parts of the service

`GasMonitor` keeps every time relative to now, so that time may pass for ever in a finite model: the
row has what remains of its lease and of the next check, a run the age of the `now` it computes
everything from. A run's calls are a step each; a fault is a failed call, a lost answer of Telegram
(the message may have arrived), a crash, or a run that outlives its lease. `GasReceipts` is the queue
of receipts that two overlapping runs ask for; a hash may never be mined.

`ArchiveMirror` has one cursor object and runs that read it, copy a page in any order and write it
back. `WalletProvisioning` has the lease of one row per Email and the requests that Magic answers late,
with another address, or not at all. `IssuerAdmin` has the row, its audit log and its files; two
requests may draw the same millisecond, which is their version.

`PersonalExport` is a tab that walks the routes while versions of the worker are rolled out: a version
is bound to an edition of each release, the edge caches answers under the keys the code builds, and
the tab compares what an answer says of its releases with the manifest. The lists are read page by page
with the code's cursors and counts.

### The tools

Each tool's state is what is on disk, in R2 or in D1; a running tool is a program counter with what it
read. `MultipartUpload` has two plan rows whose bytes are equal, so that both write one object through
their own journals; they are not public, and a row in `WithFallback` has an `hls_derivative` strategy
too, which the same run tries when the upload fails and which ends the row (`Derived`). `MomentsMedia` counts a journal's records where the code compares its digest.
`SnapshotLoaders` has the four loaders in one module, because they differ in which guard they use:
whether the schema is read, how a shard is marked, what activation asks for; an import may land after
its wrangler is gone, and rows may be written by something else. `SnapshotExport` has the entities'
pagination and counts as the configuration gives them. `CompassCapture` has shards, final counts and
reconciliation, and the files derived from a capture with the digests that bind them.
`HoldingsArtwork` has one checkpoint to which captures append and the files that finalize, load and
backup replace one by one.

The modules of `MCUpkeep` and `MCTools` share no variable with each other: a behaviour is one of them at
work while the rest stay where they are, so that one run explores the sum of their states and not the
product.

## 3. Runs

Bounds are the constants of the `.cfg` files. `CHECK_DEADLOCK FALSE` is set where the system may
come to rest: all jobs settled and budgets spent, the chain at its bound, or a tool finished.

| Run | Instance | Shows |
|---|---|---|
| `RelayJobs` | 2 jobs, 1 slot in flight, 2 attempts, 1 revival each, 1 fault | nonces and badges of jobs that share one account (`OneLiveTransactionPerJob`, `ActiveNoncesDistinct`, `ConfirmedIsMinted`), and refinement of `MintPromise` |
| `RelaySolo` | 1 job, 3 attempts, 1 revival, 2 crashes, 1 fault, fair | deep retry histories: the polled hash, settled rows, attempts that end (`AttemptsAreCounted`), no lost wake-up; every job settles, and ends minted if nothing but crashes went wrong |
| `BadgeReentry` | a visitor and a contract wallet that owns the badge contract, 1 event, caps 1 and 2, 2 nonces, 3 authorizations, 2 nested callbacks | caps, supply, balances, nonces, pause, commitment |
| `Slots` | 2 slots, 2 requests; 2 wallets and 1 Email with 2 nonces, or 2 Emails and 2 links and 1 wallet with 3 nonces | `OneSlotEach` (and one session per link), `GrantsHoldSlots` (types included), `ReservationKept` |
| `IndexerRuns` | 2 wallets, 1 token, 2 runs, 3 blocks, chunks of 2, batches of 2, amounts up to 1 | nothing skipped or stored before it is final; `IndexIsRight`: no batch refused, a shown index is the owners at a final block; cursor forward; refinement of `OwnershipFeed` |
| `HoldingsCatchUp` | 1 wallet, 2 runs, 2 blocks, one chunk a run, fair | `PagesCatchUp`: indexing catches up unless a chunk is too crowded, and claim records give way |
| `Upkeep` | see below | `AlertsAreRight`, `RecordedIsFinal`, `CursorCoversMirror`, `WalletsAreKept`, `ChangesAreKept`, `ArchivesAreRight`; and that alerts, receipts, the mirror and exports get done (`UpkeepSucceeds`) |
| `Tools` | see below | `ExportsAreFaithful`, `CapturesAreSound`, `UploadsResume`, `MediaIsPreserved`, `EvidenceIsCurrent`, `TargetsAreSound`, `ReleasesAreRight`; and that tools that are run again end (`ToolsEnd`) |
| `RelayNonceGap` | 2 jobs, 1 crash, fair | finding: `CrashesLoseNothing` fails with a second job |
| `SlotsMoved` | 2 wallets, 1 Email | finding: a slot that a bound reservation leaves stays taken |
| `HoldingsPassedOn` | 2 wallets | finding: a claim confirmed under a hash that did not mint is shown for ever |
| `ExportStops` | a catalog with a snapshot of its own | finding: every export that names a Drop it does not hold stops |

`Upkeep`: 2 overlapping gas runs, balances below, between and above the thresholds, a lease and a fence
of 2 ticks, 1 fault; 2 hashes, 2 backfills of 1 receipt, 1 fault; 4 Drops in pages of 2, 3 mirror runs,
1 fault; 2 Emails, 2 requests, 2 addresses, 1 fault; 2 edits, 2 texts, 4 milliseconds, 1 fault; an
export in pages of 2 with 3 versions and one busy answer.

`Tools`: 5 kinds of table with 4 keys in pages of 2, 2 changes at Compass, 1 fault; 4 POAPs in pages of
1, 2 changes, 2 faults; 2 uploaders (one with an HLS copy to fall back on), 2 parts, 4 upload ids, 2 faults; 2 media, 3 captures, 2
recoveries, 2 proofs and reports; 4 loaders with 3 shards and 2 runs at a time, 1 killed run and 1 stray
write (for the two databases of the archive one of the two); 2 Drops to capture from 2 sources each, 2 captures, 3
checkpoint records and 2 releases. `MCTools` lets the evidence of media be built with fewer outcomes of a
capture, and the second capture of artwork start only before there is a release.

Several properties are conjunctions of named parts, one idea each: `GrantsHoldSlots` and `OneSlotEach`,
`IndexIsRight` (`NeverRefused`, `IndexShowsFinalizedOwners`), `AlertsAreRight` (`NoStaleAlert`,
`AlertIsDue`), `ChangesAreKept` (`EveryChangeIsAudited`, `PublishedFilesExist`, `MetadataKeepsUp`),
`ReleasesAreRight` (`NamedIsStored`, `LeftOutForGood`, `BackedUpIsServed`), and so on; each module
states them at its end. `PagesCatchUp`, `UpkeepSucceeds` and `ToolsEnd` join the liveness properties of the parts of
a run.

Why the bounds are enough. Two jobs are what it takes to share or to lose an account nonce, one slot in
flight makes the second job wait, and two attempts let a job fail and be revived. A crash at every
program counter appears already with one job; two of them meet in the same job in `RelaySolo`. In the
contract the second nested callback is the first whose revert leaves a changed outer call behind, and
two nonces tell a spent authorization from a fresh one. Two slots, two requests and two holders of each
kind are what every race of the slot table takes (two wallets, or two Emails); three nonces allow a
rebind. Two overlapping runs and three blocks in chunks of two give two chunks, one of them
full. Pages and shards come in numbers that give a full page, a page that is not full and an empty one.
One fault meets every step, and a tool that is run again after it may overlap a second one. What a run's
bound leaves open, the theorems of section 5 cover for the properties they name.

Symmetry is used for names that are only compared: nonces in `MCBadge`, wallets, Emails, links and
requests in `MCSlots`; never in a run with a liveness property.
`MCHoldings` explores the cron runs with claims at rest, and claims with fewer blocks.

### Fairness

`MintRelay!Fairness`: weak fairness of the coordinator (the platform runs alarms and retries them), of
the cron recovery, of the inclusion of the next transaction of the account, of a request handler that
has read its claim, and of the clock: a delay passes, and so does the receipt timeout of a submitted
job whose transaction cannot be mined as things are. Nobody has to send a request and nothing has to
fail: no fair action spends a fault, so `CrashesLoseNothing` speaks of every behaviour without one.
`ChainIndexer!FairSpec`: weak fairness of starting a run (the minute cron) and strong fairness of the
calls of a run, which may fail any number of times but not always. `CatchesUp` excepts chunks with more
transfers than `MAX_TRANSFERS_PER_CHUNK`, on which the code throws in every run.
`MCUpkeep!UpkeepSpec`: the cron starts runs, runs go on, time passes, a tab goes on with its export;
nobody has to send a request or to give up. `MCTools!ToolsSpec`: somebody runs a tool again until it is
through, but does not resume what is finished. A row that ended with its HLS copy is finished.

## 4. Disagreements between the code and its documents

Four are runs that expect a violation, each with its quotation in `PROJECT.json`:

* `RelayNonceGap`: a job that crashed after its nonce was written to D1 and whose collector minted by
  himself is confirmed without a broadcast; the next job waits behind the gap until its attempts are
  spent.
* `SlotsMoved`: a reservation that was bound to another wallet is moved off its slot, which keeps that
  wallet.
* `HoldingsPassedOn`: a job confirmed by `hasMintedBadge` records the hash it has, whichever transaction
  minted.
* `ExportStops`: a batch of Drop details answers with the catalog's snapshot, and the tab compares it
  with the Holdings snapshot (`react-app/personal-export.ts:841`); the deployed ids differ
  (`wrangler.jsonc:110-111`), the test uses one id for both (`test/personal-export.spec.ts:255`).

Met on the way, without a run of their own. In the service:

* `fetchNextMintJob` applies the in-flight limit to pending jobs only (`mint-jobs.ts:196`); a job
  confirmed without a hash leaves its claim row unminted (`:332`); `/relay` answers with a recorded hash
  before it looks at the job, so that a job that failed after a broadcast is never revived
  (`index.ts:1330`).
* Two bind requests of one reservation may draw two nonces. An authorization signed before the signer was
  rotated is refused on chain only.
* While the index is behind and has stored the mint already, a wallet's page shows neither source.
* Two issuer requests that draw the same millisecond may leave an audit entry for a change that did not
  happen (`issuer-admin.ts:214-236`).
* Overlapping mirror runs may clear the mark that the mirror is complete.
* An export never compares the Holdings media release (`personal-export.ts:253-262`), and sends all held
  Drop ids, the unavailable included, to the Collection resolver (`:139`).

In the tools:

* A media recovery goes on to `hls_derivative` after any failure, a broken network included
  (`recovery-executor.mjs:600-634`; `recovery.mjs:142-152`, `:228-243` plan both for one row). For a row
  that is not public the copy is terminal (`:178-181`), so an original too large for one request whose
  upload failed once is never stored, and its journal stays active with nobody to read it again. The
  tool's README says that such originals "are not silently replaced by their HLS representation"
  (`tools/moments-media/README.md:163-164`) and that multipart failures "remain `failed` and resumable"
  (`:189-191`). `MultipartUpload!AfterFailure` does what the code does, and `UploadEnds` promises the
  original only for a row without such a copy.
* A Moments activation killed between its binding rows and the `ready` update cannot be activated any
  more; a half-applied Compass schema is refused for good; a lost answer of the Collections finalizer is
  reported as an error although the target serves.
* The Compass reconciliation key restarts at 1 in every process: a resumed run that must reset a recorded
  shard fails with a UNIQUE error (`snapshot.mjs:582-642`). A run killed between `CREATE` and the rows of
  `capture_meta` cannot be resumed.
* A Collections export of an uncounted table that left an orphan page before its rows vanished never
  verifies. `build-d1` and `package` do not check the digest of the Holdings database that the drops
  manifest records (`d1.mjs:473-489`, `backup.mjs:124-148`).
* `drop-supplement` records a transient failure of the first source followed by a source that is not
  allowed as quarantined, which is never retried (`drop-supplement.mjs:1266-1320`).
* `finalize` of the Holdings artwork replaces the release file before it meets a shard that differs
  (`artwork.mjs:560-590`), after which load and backup refuse. Two first captures both write a header, and
  a capture killed within a line leaves a checkpoint that no phase reads.

## 5. Proofs

All theorems are about `Spec` with the named assumptions of the modules only (bounds are natural
numbers, `Contracts` are among `Accounts`, sets of names are finite, and so on), for any number of jobs,
crashes, faults, accounts, nesting, runs, blocks.

**MintRelay_proofs.** First, for each update of a row, what it writes and that it leaves the other rows
alone; then `TypeCorrect`; then the inductive invariant `IInv`. The safety properties are not inductive:
that all pending transactions of a job carry its current nonce survives a retry only because every hash
that was ever made belongs to its job (`HashesOwned`), the pool holds no nonce the chain has passed
(`PoolOrderly`), and the coordinator's locals still agree with the row they were read from
(`Remembers`): a nonce is dropped only when the node called it too low. From `IInv` follow `OneTransaction`,
`DistinctNonces`, `ConfirmedMinted`, `SubmittedTracks`, the action property
`SettledFinal`, and `RelayKeepsPromise`, the refinement of `MintPromise` step by step.
`WorkIsNotForgotten` needs the type invariant only. `AttemptsCounted` is an argument about money: an
attempt beyond the eight of the code is paid for by one crash, one failing call or one revival
(`AttemptInv`). A job that will be submitted again has room for one more attempt, unless the
coordinator is at it; a renewed authorization, which the code does not count, follows a failing call.

**BadgeContract_proofs.** A revert may bring back any store on the stack, so the invariant speaks of all
of them: each is sound, was not paused, and everything it committed to is still in every later store
(`Follows`). A step either advances from the store or unwinds the stack. From it: `CapAlwaysHeld`,
`OneBadgePerClaim`, `OneNoncePerClaim`, `PauseStopsBadges`, `CommitsAreFinal`. The supply is related to the
balances by counting badges one by one (`Badges`): a claim adds one, a transfer takes one and adds one, so
that no induction over accounts is needed (`CreditedCount`, `DebitedCount`). From that: `BadgesAddUp`.

**ChainIndexer_proofs.** The invariant relates a run's cursor to the stored one (never ahead; if equal, its
finalized block is no older than the recorded one), says that a run's logs were read with every token
that was registered when its range had transfers, and that the journal is complete below the cursor and
final throughout. From it: `NoTransferSkipped`, `FinalOnly`, and `CursorForward`: the cursor never goes
back, and after any commit it is past the block where that run began, whichever run moved it, so that
overlapping runs cannot hold each other up.

A second invariant (`IBook`) is about the balances. What a set of transfers leaves everyone with (`Net`) is
badges got less badges given, counted; the counts of disjoint sets add up (`Adds`), so neither the contract's
loop nor the triggers call for an induction. The contract's balances after a block are the `Net` of all
transfers so far, each of which found its source's badges; the journal is the event transfers of the blocks
up to one between the cursor and the finalized block, and the balances are its `Net`. A batch that comes
after another run stored part of it adds just what is missing (`BatchRows`), so what the trigger sees before a
transfer is what the contract saw: `NoBatchRefused`. From it: `IndexImplementsFeed`, the refinement of
`OwnershipFeed` step by step (a commit publishes a later block or stutters), `PagesShowOwners` (`IndexIsRight`
under `HSpec`, which steps as `Spec` does), and `TypeCorrect`: that no balance is negative follows from the
last transfer an address gave (`NetIsNat`).

**ClaimSlots_proofs.** A reconciliation moves a reservation on the strength of rows it read earlier. The
invariant says what of them still stands (`RequestStands`, `MoveStands`): an identity is recorded once, a
wallet never loses its slot and has only one (`IOneSlot`), a reservation belongs to the Email of its link
(`IReservations`), so a reservation that is to be moved is still where it was read or on the very slot it is
to be moved to. From it: `OneSlotEver`, `GrantsAreHeld`, and `ReservationIsKept`, an action property.

**NaturalSets.** Facts about sets of numbers that the proofs below share: a set of numbers has a least
element, a finite one has a greatest, and so has what a page takes of it (`LeastOf`, `GreatestOf`,
`MaxOf`, `MinOf`, `FirstOf`); the elements of a finite set can be numbered (`NthOf`, `RankOf`).

**Upkeep_proofs.** Six components in one module, each with an invariant of its own, for any number of
overlapping runs or requests.

* *Mirror* (`MirrorInv`): what a run has copied is a prefix of what lay behind the cursor it read, so that
  the last number of a page never jumps over a hole. From it: `CursorNeverSkips`.
* *Issuers* (`IssuerInv`): as long as the row has the version a request named, it is the row the request
  read, and the files it will refer to are stored (`EditStands`); while nothing fails and no two changes
  share a millisecond, at most one request has a change to publish, and it is the event's (`OnePublishes`).
  From it: `IssuerChangesAreKept`.
* *Gas monitor* (`GasInv`): a run that owns the lease remembers the level and the time that are in the row
  (`RunStands`); without faults a run owns the lease as long as it works, and the row says what was told
  unless the run that told it has still to record it (`RowStands`). From it: `GasAlertsAreRight`.
* *Receipts* (`ReceiptsInv`): the hashes a run asks for keep their rows, what it knew to be final stays
  final, its answers are the final chain's, and the queue has each row once, none before its time. From it:
  `ReceiptsAreFinal`.
* *Wallets* (`WalletInv`): what a late answer may still mean: an answer that waits to be recorded was
  generated for its Email (`AnswersAreTheirs`), the row that is shown is kept, and an address belongs to one
  Email. From it: `WalletIsKept`, and `LateAnswers`: only the attempt whose lease is in the row ends it.
* *Personal archive* (`ExportInv`): what the tab holds is a beginning of the manifest's releases: the lists
  it has left behind are complete, the one it reads is complete up to its cursor (`PlainRead`,
  `RecordsRead`), and every Drop it refers to is described once or known to be gone (`ReferencesRead`,
  `DetailsRead`). While no version was rolled out one version answers, and it describes each Drop as the
  manifest's releases do (`OneVersion`, `Undisturbed`). The counts the tab compares play no part in that a
  finished archive is whole; they are used where it stops, which is shown not to happen undisturbed. From
  it: `ArchivesStayRight`.

**Tools_proofs.** Three tools, each for any number of rows, media or shards and any overlap of runs.

* *Uploads* (`UploadInv`): an active journal names an upload that R2 has opened and whose parts it has
  (`RowIsSound`), and an open upload is named by a journal, by an event that waits to be written, or is known
  to be left open (`AllNamed`). From it: `UploadsGoOn`.
* *Media* (`MediaInv`): an evaluation that was complete when it was read still is, because a result that
  counts is kept; a running recovery has before it only rows that are not terminal; a build that reads its
  rows is bound to a complete evaluation. From it: `MediaStaysPreserved` and the action property
  `EvidenceStaysCurrent`.
* *Loaders* (`LoadInv`): a shard is in its target once and with its marker, so that a journal that is complete
  and a row count that fits leave no room for a stray row (`RowsCounted`). A finalizer that does not look at
  the journal - of the archive and of Compass - may land late, after its run was killed: what makes it harmless
  is that it was sent only when the journals were complete, and the catalogue's only after the holdings
  served (`MayFinish`), and that targets lose nothing (`TargetsGrow`). From it: `TargetsStaySound`.

**Snapshots_proofs.** The two captures of Compass and the archive of artwork, for any rows, Drops, page
sizes and sequences of killed runs, while rows and sources come and go.

* *Exports* (`ExportInv`): the state of a table has every row up to its cursor that was there all the time
  (`Reaches`); the pages on disk are the state's own and at most one more, the one whose record was lost
  (`PagesAgree`); what a run still holds in memory fits what it has written (`RunIsSound`). From it:
  `ExportsStayFaithful`.
* *POAPs* (`CompassInv`): a shard has counted the rows it has and read everything up to its cursor
  (`FileIsSound`); what each step of a capture finds (`CaptureIsSound`); a file that matches its manifest was
  read through and counted equal (`EditionsAgree`), and drops, builds and packages are of the edition they
  name (`FilesAgree`). From it: `CapturesStaySound`.
* *Artwork* (`ArtworkInv`): a record that a release names is stored, because the checkpoint is only ever
  appended to; releases are told apart by when they were made (`Knows`), so a report that answers for one
  answers for no other; shards are of rising Drops, so no Drop is in two (`ArtShardsAreSound`); and what a
  loader has passed of its release is in D1 (`RowsAreSound`). From it: `ReleasesStayRight`.

Only model-checked: liveness under fairness and ENABLED (`UpkeepSucceeds`, `ToolsEnd`,
`EveryJobSettles`, `CrashesLoseNothing`, `PagesCatchUp`), which are out of this prover's reach. Every
other property of the passing runs is stated by a theorem.

## 6. Not modelled

Frontends (their one stateful procedure, the personal archive, is modelled), the admin gateway, deployment
scripts and token metadata: they act on the service through its API or before it runs. The readers,
media, caching and validation helpers change nothing. Other operator tools turn one finished file into
another or copy single objects with a checkpoint per object: what their consumers check of the files is in
`MomentsMedia`, `SnapshotLoaders`, `CompassCapture` and `HoldingsArtwork`. Cryptography, HTTP, D1, R2,
Durable Objects, Compass and the RPC provider are external: they appear as the outcomes the code
distinguishes. Much of the repository is user interface, SQL text, parsing and formatting: the map covers
the part that keeps state.

## 7. Plan

Every safety property that a run checks is proved. Liveness stays with TLC.
