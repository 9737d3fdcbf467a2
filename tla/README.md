# Verification of the erasure platform

TLA+ specifications, TLC configurations and TLAPS proofs for the compliance
platform: a control plane (`src/api`) that accepts erasure requests, hands
tasks to a worker and collects its evidence, and a worker
(`src/compliance-engine`) that vaults, notifies about and shreds a subject's
data inside the client's network.

## 1. Inventory

| Component | State | Operations | What is hard |
|---|---|---|---|
| Request intake (`service/index.ts`, `repository/jobs.ts`) | `erasure_jobs`, one `VAULT_USER` task each | create (idempotent, burn-in gate), cancel while cooling down | two creations with one key; cancel against claim |
| Task queue (`repository/tasks.ts`) | `task_queue`, unique per job and type | materialise due tasks, claim with `SKIP LOCKED` and a lease, ack completed or failed, backoff, dead letter, requeue | leases expire while the worker still runs; acks carry no lease; requeue revives a failed job |
| Outbox ingestion and audit ledger (`ingestWorkerOutbox`, `repository/audit.ts`, `guards.ts`) | `audit_ledger`, whose last row is the chain head | check transition, check head, append, update the job; heartbeat per configuration | every check is a statement of its own, used later |
| Certificates, webhooks, usage (`terminal.ts`, `certificates.ts`, `usage.ts`) | `certificates`, `usage_events` | mint or compare, announce, bill | the call may die between any two; a replay repeats them all |
| Client registry and burn-in (`repository/clients.ts`, `modules/admin`) | `clients` | activate, deactivate, rotate, count shadow successes | the count is a second transaction after the ack; `ensureClient` writes the bootstrap key back; rotation leaves no overlap of the two tokens |
| Worker loop (`worker.ts`, `index.ts`, `errors.ts`, `network/control-plane.ts`) | what it read at boot; two replicas are deployed | sync, execute, ack, flush the outbox; exit on a fatal error | lost answers, crash between execution and ack; an error that skips the flush; misclassified errors |
| Worker outbox chain (`engine/support/outbox.ts`) | `outbox` rows linked by hash | enqueue inside the mutation's transaction | the advisory lock is taken under an older snapshot; `created_at` is the task's start |
| Outbox relay (`network/outbox/*`) | `outbox.status`, lease, attempts | claim a batch, deliver, mark processed / failed / dead letter, release on a fatal answer | delivery order against chain order, expired leases, lost answers |
| Vault engine (`engine/vault/*`, `engine/satellite.ts`) | root and satellite rows, `pii_vault`, `user_keys` | vault, hard-delete, shadow run | repeat of a task, two requests for one subject; rows locked, changed or inserted by the application during the transaction |
| Notifier (`engine/notifier/*`) | the notice lease and `notification_sent_at` | reserve, decrypt, mail, record | mail between two transactions |
| Shredder (`engine/shredder.ts`) | `user_keys`, vault sentinel | destroy key and ciphertext | retention and notice preconditions |
| Blob erasure (`engine/blob/*`, `network/s3-client.ts`) | `blob_objects`, S3 versions | protect, overwrite, shred | S3 effects survive a rollback |
| Retention, dependency graph, drift (`vault/retention.ts`, `db/graph.ts`, `db/drift.ts`) | none | choose the rule, walk the foreign keys, compare the schema | evidence under an old snapshot; keys the walk does not see; cycles and depth |
| Configuration and keys (`config/*`, `bootstrap/*`) | the file, its signature, the key sources | read, verify, resolve at boot | the file is read three times; keys and schema change under a running process |
| HTTP shell, rate limit, signing, webhook vetting (`src/api/src/http`, `webhook.ts`) | per-process counters | check requests | window boundaries |
| Cryptography, dashboard, deployment | none that this project follows | | |

How they interact: the worker polls `/worker/sync` (heartbeat, materialise,
claim), executes the task against its own database, acknowledges it, and
separately relays the outbox rows its transactions wrote to `/worker/outbox`.
Acknowledgement and evidence are independent: a job's lifecycle advances by
evidence only.  Everything on the control plane's side is HTTP handlers of one
or more Node processes over one Postgres, so two handlers interleave at every
awaited statement.

## 2. Plan

Written in this order, all done but the last.

1. `ErasurePromise` (what the platform promises about a request),
   `ControlPlane` (the API's tables and handlers), their runs, and the proofs
   `ControlPlaneProofs` (types and the inductive invariant) and
   `ControlPlaneSafety` (what follows from it, and the refinement).
2. `WorkerEngine`: the worker's database transactions under snapshot isolation
   (vault, notice, shred), and the outbox chain they write;
   `WorkerEngineProofs`.
3. `OutboxRelay`: leases, attempts and delivery against a control plane that
   may refuse, fail or lose its answer; liveness of catch-up;
   `OutboxRelayProofs`.
4. `BlobErasure`: the file of a subject in S3 against transactions that roll
   back, and objects that several subjects refer to; `BlobErasureProofs`.
5. `ErasureSystem`: `ControlPlane` and `WorkerEngine` joined by the worker's
   three calls; a certificate exists only when the subject's data is gone, and
   what becomes of every request under fairness; `ErasureSystemProofs`.
6. `WorkerProcess`: the process around the engine, from boot to exit, with its
   configuration, keys, schema and credentials, and the classification of
   errors; `WorkerProcessProofs`.
7. `VaultTransaction`: the vault transaction statement by statement against a
   live application schema: dependency graph, retention, satellites, files;
   `VaultTransactionProofs`.
8. Open: several tenants in one engine database; the rate limiter and the
   webhook address vetting as pure algorithms.

## 3. ControlPlane

A handler is a process; `call[h]` is its program counter together with what it
read before an `await`.  A statement outside a transaction is one action, a
`sql.begin` block is one action.

| Variable | Code |
|---|---|
| `job` | `erasure_jobs`: status, shadow mode, whether a webhook is set, whether the deadlines are stored (`scheduled`), `applied_rule_name` |
| `task` | `task_queue`, keyed by job and type (`task_queue_job_type_uidx`): status, `attempt_count`, `ready` for `next_attempt_at <= now`, `leased` for `lease_expires_at > now`, `counted` for the burn-in mark |
| `ledger`, `heartbeats`, `head` | the two kinds of rows of `audit_ledger`, and `current_hash` of the row with the highest `ledger_seq` |
| `certs`, `billed`, `delivered` | `certificates`, `usage_events`, and what webhook receivers got |
| `client` | the worker's row in `clients` |
| `age` | which of the job's deadlines have passed, in the order they fall due |

Actions and code: `BeginCreate`/`FinishCreate` are `createErasureRequest`
before and inside its transaction; `Cancel` is `cancelErasureRequest`;
`BeginSync`, `InsertHeartbeat`, then `ClaimTask` or `ClaimNothing` are
`syncWorker`; `AckCompleted`, `AckReplayed`, `AckFailed` and
`RecordShadowSuccess` are `ackWorkerTask`; `ReceiveEvent`, `LookupEvent`,
`CheckHead`, `AppendLedger`, `ApplyTransition`, `Certify`, `DispatchWebhook`
and `Bill` are `ingestWorkerOutbox` with `applyOutboxLifecycle` and
`finalizeTerminalOutboxEvent`; `RequeueDeadLetter` and `SetClientActive` are
the admin routes; `DeadlinePasses`, `LeaseExpires`, `BackoffElapses` and
`Crash` are time and failure.  A rejected request that changes nothing has no
action of its own; a rejection after an earlier step is a disjunct that ends
the handler.

Abstractions.  A hash is the key of the row it belongs to, which is injective
because the ledger holds a key once.  Timestamps are kept as far as they are
compared.  The worker is the environment: it may send any event of
`WorkerEvents` and any ack, at any time and repeatedly, which includes the
real worker.  One client; authorisation is its activation.

`ErasurePromise` is the abstract specification: a request waits, is cancelled
or taken up once and for all; evidence is only added, one event per stage and
each stage after its predecessor; at most one certificate per request, for
evidence that is there; announcements and charges follow.  `KeepsPromise` is
`ControlPlane` refining it.

## 4. The worker's modules

### WorkerEngine

The subject lifecycle in the client's own database.  A worker is a replica of
the process; `proc[w]` is the task it runs, the time the task started (the code
takes one timestamp per task), and the tail of the chain in the snapshot of its
current transaction.

| Variable | Code |
|---|---|
| `root` | the row of the configured root table: live, masked or deleted |
| `vault` | `pii_vault`: the request it was written for, how far its deadlines have passed (`age`), `notification_sent_at`, `shredded_at`, `notification_lock_id` and whether that lease still runs |
| `keys` | `user_keys` |
| `outbox` | event key, `previous_hash`, `created_at` |
| `mailed`, `acks` | what the mail gateway and the control plane were told |
| `clock` | the number of tasks started, hence the order of their timestamps |

Actions and code: `BeginVault` and `CommitVault` are `runVaultMutation`
before and after its first statements, with the shadow rollback of
`shadow.ts`; `ReserveNotice`, `SendMail`, `BeginRecord`, `CommitRecord`,
`FailRecord` and `ClearLease` are `dispatchPreErasureNotice` and its two
transactions; `BeginShred` and `CommitShred` are `shredUser`; `StartTask`,
`Ack`, `Retry`, `FailTask` and `Crash` are the branches of `processNextTask`
and of the loop around it.

Two-step transactions.  Under REPEATABLE READ the snapshot is fixed by the
first statement, which is also the one that locks the subject's row, and the
advisory lock of the chain is only taken by `enqueueOutboxEvent` near the end.
So a transaction is a Begin step (lock, snapshot, early returns) and a Commit
step (all its writes, with the tail of the old snapshot).  The advisory lock
is held from inside the Commit step to its end and is not visible between
steps, which is why it cannot help.  A transaction that had to wait for a row
lock has a still older snapshot and shows the same staleness, or ends in a
serialization failure, which is `Crash`.

Abstractions.  The control plane may hand out any task to any worker at any
time, repeatedly; that includes every retry the queue makes.  One tenant,
one root table.  Satellite rows live and die with the transaction and are in
`VaultTransaction`, blob objects in `BlobErasure`; `Dependent` says which
subjects have any dependants, which is what decides between vaulting and hard
deletion.  Ciphertexts are not represented:
`keys` and `shredded` say what can still be read.  A lease token is fresh for
every reservation; a replica runs one task at a time, so the replica stands
for it.

### OutboxRelay

`processOutbox` of several replicas over one outbox.  `row` holds status,
attempts, lease holder (`token`), whether the lease still runs (`held`) and
whether the backoff is over (`due`); `batch[w]` what a replica has claimed and
not handled yet, `reply[w]` the answer to its last delivery, `accepted` how
much of the chain the control plane has stored.  `Claim` is
`claimOutboxBatch`, `MarkProcessed`, `MarkFailed` and `Release` the updates of
`store.ts`, `LoseLease` their common failure, `Accept`, `Refuse` and `Lose`
the three ways a delivery ends.

The control plane appears as what it does to a chain: it stores the next row,
answers a stored one as a replay and refuses any other (`CheckHead` and
`LookupEvent` in `ControlPlane`).  Row i extends row i - 1: that is
`ChainLinear`, which holds of one worker.

### BlobErasure

The step inside the vault and the shred transaction that works on S3.

| Variable | Code |
|---|---|
| `cell` | the subject's blob column: a URL, pinned to a version or not, or none (empty, or masked by the vault) |
| `object` | the versions of each object in S3: a document or the placeholder, under legal hold or not, deleted or not |
| `blob` | the subject's row of `blob_objects` with its receipt |
| `due` | the preconditions of `shredUser`: retention expired and notice sent |
| `proc` | the transaction a worker is in, at which S3 request, with the version captured or the versions left to delete |
| `uploads`, `failures` | bounds |

Actions and code: `BeginVault` is `collectBlobCandidates` under the lock of
the root row; `HeadObject`, `PutLegalHold`, `PutPlaceholder` and `CommitVault`
are the rest of `protectBlobTargets`; `BeginShred` is `shredBlobObjects` up to
the count of other references, `ReleaseHold`, `ListObjectVersions`,
`DeleteObjectVersion` and `CommitShred` its requests and its end.  Every
request is a step, because the application, the other worker and a failure may
come between two of them.  `Fail` is a crash, a request that fails or whose
answer is lost, or a commit that fails: the transaction's writes are gone,
what S3 did stays.  A rejected request (`Abort`) does the same.

S3 is external.  Assumed of it: a request without a version id is about the
current version; a version that was deleted answers 404 to all but a delete,
which succeeds; a version under legal hold cannot be deleted.  Buckets are
versioned with Object Lock, as docs/runbooks/s3-blob-erasure.md asks, so every
captured version has an id.  Retention dates of Object Lock, which the worker
never sets, and delete markers are left out, and a subject has one blob cell:
several are protected and purged one after another in the same transaction.

### VaultTransaction

One vault transaction, `runVaultMutation`, while the application writes to the
same tables.

| Variable | Code |
|---|---|
| `schema` | the foreign keys of the application schema, with their delete actions |
| `root`, `row` | the subject's root row, and each row of another table that names the subject: absent, plain, masked, gone |
| `app` | what an open transaction of the application does to a row, whose lock it holds |
| `moved` | rows changed since the snapshot, which REPEATABLE READ refuses to lock (40001) |
| `tx` | the transaction: its place, the rows in its snapshot, the retention chosen, the satellites left, the rows swept or passed over, the files found |
| `outcome` | what the task came to; for a committed one, with what it saw |
| `blank`, `shadow`, `rootFile` | satellites without a lookup value, a shadow run, whether the root row's own column names a file |
| `writes`, `replays` | bounds |

Actions and code: `Snapshot`, `LockRoot` and `LoseRoot` are the first
statement, `SELECT ... FOR UPDATE` of the root row; `AlreadyDone`,
`RootMissing` and `Refuse` the early ends; `Plan` is `getDependencyGraph`
(`Walk`, `Graphs`, `Accepted`) and `evaluateRetention` (`Longest`); `Sweep`,
`EndSweep`, `LoseSweep` and `BlockedSweep` are `redactSatelliteTable` and
`hardDeleteSatelliteRows`, batch after batch; `Collect` and `LoseFiles` are
`hasBlobTargetValues` with `collectBlobCandidates`, which takes the file of the
root row from the locked row and those of other tables by the root id, after
the sweep (`Files`, `Linked`, `Hidden`); `Commit` and
`ShadowRollback` the end; `Replay` a task that comes again.  `Write` and
`EndWrite` are the application: a row is locked by one and released, with or
without its change, by the other.

The recursive query is a function over levels, `Walk[d]`, and DISTINCT ON, which
has no tie-break within one depth, is any of the graphs in `Graphs`.
Retention years stand for the deadlines computed from them.  A delete's
referential actions are recorded (`silent`), not carried out.

### WorkerProcess

One process and what it depends on.

| Variable | Code |
|---|---|
| `disk` | compliance.worker.yml, and the release its signature signs |
| `schema`, `material` | the application schema, and what each key source holds |
| `client`, `held`, `clobbered` | the row in `clients`, the token of the worker's deployment, and whether `ensureClient` wrote the bootstrap hash back since the rotation |
| `proc` | the process: where it is, the release it verified, reports and runs, its key, task and error |
| `queue`, `store` | the tasks as the control plane and the engine's database show them; evidence is also `refused`, when the ledger can never take it |
| `mood` | what executing a task would throw now |
| `changed`, `budget` | what changed under the process, for the properties; bounds |

Actions and code: `Start` to `Inspect` are `main` up to the loop
(`verifySignedWorkerConfig`, the hash of the second read,
`readWorkerConfigFromRuntime`, `assertSchemaIntegrity` and
`assertConfigSchemaCompatibility`); `Sync`, `Succeed`, `Fail`, `Ack`, `Nack`,
`Flush`, `MeetRefused`, `Sleep` are the loop, with `Caught` for what it does
with an error; `Disconnect` is a transaction whose connection breaks, before
the COMMIT or between the COMMIT and its answer; `Reject` (401),
`RejectRequest` (400, 403, 404 and the other fatal answers), `Strand` (the chain
goes on without an event: 409 for good) and the `Lose...`
actions are what requests may come to; `RotateKey`, `DeactivateClient` and
`EnsureClient` the client registry; `ReplaceFile`, `Migrate`, `ReplaceKey`,
`Redeploy` and `Upset` operators and the surroundings.

`ErrorRecord` keeps of an error what `asWorkerError` looks at: a WorkerError
with its flags, an error of the database server with its SQLSTATE, an abort, and
`other`, which is everything else: the driver's connection errors, whose codes
are no SQLSTATEs, and what `fetch` throws.  A fatal error
ends the process; a retryable one ends the iteration, before the flush and
without an acknowledgement; any other is acknowledged as the task's failure,
a dead letter at once.  So nothing counts the attempts of a retryable task: its
lease runs out and it is handed out again.  `Errors` is what executing a task
may throw, `Disconnects` the part of it that a broken connection throws;
`FirstKey` is the key material a deployment begins with.

## 5. ErasureSystem

`ControlPlane` is extended and `WorkerEngine` instantiated; no action of either
is changed.  A sync hands the claimed task to a free worker (`HandOut` is
`ClaimTask` and `StartTask` in one step) or its answer is lost; an
acknowledgement the control plane takes is one in `acks`, sent before; an
event it receives is a row of the worker's outbox, whose place in the chain and
whose rule the row determines (`EventOf`), and the answer marks it (`settled`).
The environment of each module is thereby replaced by the other.

Both sides have a clock: the worker's decides whether a notice or a shred is
due, the control plane's when the task is made, and the latter may be behind or
`Skew` deadlines ahead.  `Fault` counts every failure: a lost answer or
acknowledgement, a dead call, a crashed worker, a failed mail, a lease outlived
by its worker, an operator's requeue.

The safety properties relate the two databases, which share no transaction:
`CertificateIsTrue`, `LedgerIsPrefix`, `CancelledIsSafe`, `ShredIsDocumented`.
`RequestsEnd` says what becomes of a request: it ends (shredded, cancelled,
failed), or it stands still for one of four reasons:

* `Barren`: the vault task was acknowledged and there is no event.  A shadow
  request, and a second request for a vaulted subject.
* `NotNoticed`: the notice task came before the worker's clock had it due, was
  acknowledged as done and is not made again; the shred waits for its event.
* `SetBack`: a replayed event, or a requeue, set the job's status back, and the
  next event does not fit it.  A retention of zero years ends here or in
  FAILED: its notice window closes as it opens.
* `Jammed`: the first row of the outbox is refused, for its place in the chain
  (a terminal event goes first whatever it extends) or because its certificate
  was minted with another rule than the replay computes (a hard delete whose
  first call died after its certificate).

## 6. Runs

The MC modules give the constants their values.

| Run | Question | Bounds |
|---|---|---|
| `ingest` (MCIngest) | are status, deferred tasks and everything a handler relies on after an await grounded, with syncs and two ingestions in flight? | 1 job, 2 handlers, 2 configurations, vault and notice events, 1 attempt; leases do not expire (`LeasesHold`), which the run `queue` covers |
| `deviant_worker` (MCDeviant) | does a worker with wrong rules, skipped stages, hard deletes and re-sent events break the ledger, the receipts or the promise? | 1 job, 2 handlers, 5 events of 2 rules, a webhook; not past the shred deadline for the events that need it (`Early`) |
| `queue` (MCQueue) | is the burn-in counted exactly once? | 2 jobs, 2 handlers, 2 attempts, requeue below 3 attempts, no events |
| `heartbeat` (MCHeartbeat) | does a heartbeat leave the chain head alone? It does not: see below | 2 configurations |
| `engine` (MCEngine) | do database, evidence and acknowledgements agree when tasks repeat, overlap and die? | 2 workers, 4 requests (one shadow), 2 subjects, retention long or zero, 4 tasks (`MaxClock`) |
| `fork` (MCFork) | is the outbox one chain when two workers write it? It forks (with one worker it is a theorem) | 2 workers |
| `relay` (MCRelay) | are rows settled once, for a reason, and in the end? | 3 rows of one priority, 2 replicas, batches of 2, 2 attempts, 3 failures |
| `blobs` (MCBlobs) | is a file erased when the records say so, kept until then, and does a due shred end? | 2 subjects, 1 object, 2 workers, 1 upload, 1 failure; each subject has a pinned URL, an unpinned one or none, and any target action |
| `system` (MCSystem) | do certificate, ledger and cancellation tell the truth about the client's database, and what becomes of every request? | 4 requests, of which {j1, j3}, {j2, j3} or {j4} are made (`Together`): a vaulted subject, a hard-deleted one asked for twice, a shadow request; 1 worker, 1 handler, 1 failure, skew 1, retention long or zero |
| `rewind` (MCRewind) | does a certified job stay shredded? It does not | 1 request, 1 failure |
| `process` (MCProcess) | does a process run what its boot checked, give up for a cause, and get its work and evidence done? | 2 tasks, the second reads the first's row; 3 releases (one needs a migrated schema and another key source, one is malformed), 2 keys, 6 errors (two of them of broken connections), 2 operator actions, 1 fault, leases of 2 iterations |
| `plan` (MCVault) | what does a vault leave behind, take along, or overlook? | 9 schemas, 3 levels of keys, 5 rows in 4 tables and the root row, files in three of them and in the root row or not, 2 satellites, 2 rules, batches of 1, 2 transactions of the application, 1 repetition |

Why the bounds are enough: jobs share only the chain head, the client row and
the queue, so one job and an arbitrary environment shows every race within a
job and two jobs the shared counter; two handlers show every race of two
calls, and every read-then-write window of the code is closed by the next
statement of the same handler.  `Symmetry` permutes handlers and
configurations and is used for safety only.  In the engine four tasks are what
it takes to bring one subject through all three stages with one of them
repeated, or two subjects into each other's way; requests j1 and j2 name one
subject, so the second request of a subject is covered.  In the relay three
rows make a batch that does not hold everything, two attempts separate the
first failure from the last, and three failures are enough for a crash, an
outlived lease and a lost answer in one behaviour.  Subjects meet in
`BlobErasure` only at a shared object, so one object is enough: either both
refer to it, or one has no file and the other is alone.

In the system the races of handlers and of replicas are the business of the
parts; one of each leaves every order of the two sides' steps, six tasks let
each of the three stages of one request be repeated, and one failure is what
each reason of `RequestsEnd` takes.  In the process two tasks are enough for
one to stand before the other's evidence, and two operator actions for a file
and its signature, a release and its migration, or a rotation and a
deactivation.  In the vault two transactions of the application make one row
locked while another appears, and the schemas have one key for each branch of
the graph check, with the case that escapes it.

### What the violated runs show

* `HeartbeatKeepsHead`.  `insertWorkerConfigHeartbeat` reads the latest hash
  and then inserts a row with it.  An event appended in between is hidden: the
  newest row carries the older hash, and the worker's next event, which extends
  the appended one, is refused as a chain error.  It needs a fingerprint not
  seen before, as during a rolling configuration change.
* `ChainLinear` with two workers (`fork`).  Two mutations of different subjects
  begin, each with a snapshot that shows the same tail; the advisory lock makes
  the second wait for the first to commit, but its snapshot does not move, and
  it links its row to the same tail.  The control plane stores one of the two
  and refuses the other, and every row after it, as chain errors.
* `CertifiedIsShredded` (`rewind`).  The answer to `USER_VAULTED` is lost; the
  control plane has it, the worker's row waits.  The later events are
  delivered first, the terminal one is certified and announced, and then the
  vault event comes again: a replay, applied unconditionally, and the job is
  VAULTED.

### What the properties excuse

A property that held without its exceptions would be simpler; these are what
the code does, each found as a counterexample to the stronger property.

* `SurvivorsExcused`: rows of a satellite that the application had locked when
  the loop came to its end are passed over by SKIP LOCKED, although
  src/compliance-engine/src/engine/satellite.ts documents a loop until no rows
  remain; later tasks answer "already vaulted".  Rows inserted after the
  snapshot stay too.
* `EvidenceHonoured`: evidence inserted after the snapshot does not count.
* `NoSilentLoss`: a cascade escapes the graph check when its column has another
  key, when its parent is a satellite no key reaches, or when its parent is
  reached through the child only; and when a path was cut at the depth limit
  (`CutShort`).  db/graph.ts:63-66 documents that the walk "fails closed when
  the configured depth limit is reached", but DISTINCT ON keeps the node of
  least depth of every column before the depths are looked at, so a path that
  reaches the limit in a column with a shorter path too is cut and accepted.
  The ninth schema of the run `plan` is such a one.
* `FilesFollowed`: the files of rows that the sweep deleted, or redacted in the
  column that holds the root id, are not found (`Hides`).  A row redacted in
  another column keeps its root id, and its file has to be found, and so has
  the root row's own.  The run `plan` has no satellite redacted in its root id
  (`ByRootId`); the theorem covers it.
* `ShredSettles`: a shred that failed after the S3 delete and before its commit
  meets 404 on releasing the hold ever after (`Torn`); two subjects with one
  object block each other (`Contended`).  The file of a *live* user is not
  protected at all, against docs/runbooks/s3-blob-erasure.md:17:
  `countOtherActiveBlobReferences` counts rows of vaulted subjects.
* `GivenUpForCause` says which errors a task is given up for, and that a task
  given up has not committed.  It is weaker than the documentation in three
  ways, which the run `process` meets.
  * A Postgres error with a DETAIL line has a string `code` and `detail`, is
    taken for a worker problem (errors.ts:90) and loses its retryability.  A
    deadlock always has a DETAIL line, so it is reported as a final failure,
    where src/compliance-engine/tests/errors.test.ts:30 has it retryable (for
    an error without one).
  * An error of kind `other` is not retryable (errors.ts:94-112), and
    worker.ts:250-256 acknowledges it as the final failure, although a retry
    may well get past it: CONNECTION_CLOSED, CONNECT_TIMEOUT and ECONNREFUSED
    of the driver are strings that are no SQLSTATEs, and `sendMailerWebhook`
    (index.ts:88-100) passes on what a refused `fetch` throws.
    docs/full-architecture/visuals/05-fail-safe-retry-flows.md:8-9 has failed
    acknowledgements for a "non-retryable validation/integrity error" only and
    a "retryable or fatal runtime error" go to the worker's loop.
  * When the connection breaks between a COMMIT and its answer, such an error
    reports a task as failed that has committed, on its first claim.  Its
    evidence goes out all the same.  This is the exception `Disconnects` in
    the last conjunct.
* `TaskSettles`: a retryable error is never acknowledged, so its attempts are
  not counted; api/docs/PROJECT.md:69 says that failures retry "until
  `TASK_MAX_ATTEMPTS`, then move to `DEAD_LETTER`".
* `EvidenceGetsOut` (`Jammed`): an event that the ledger cannot take any more is
  a fatal answer, met again by every life of the process, and the rows behind
  it stay where they are.  It is the `Jammed` of `RequestsEnd`, here with what
  it does to the process.  `TaskSettles` does not need the exception: a task
  is acknowledged before the flush.
* `EvidenceGetsOut`, `TaskSettles` (`LockedOut`): a rotated key replaces the old
  hash at once, where docs/runbooks/key-rotation.md:13 has the new one
  confirmed "before disabling the old one", and `ensureClient` writes the
  bootstrap hash back over it.  Rotating the master key by the same runbook
  makes every vault row unreadable (`KeyLost`): its notice is a dead letter.

One disagreement has no run.  src/compliance-engine/README.md:38 says that the
notice step "uses a short DB lease so two workers do not double-send mail".
The mail is sent between two transactions, and in `WorkerEngine` a worker that
dies before the second, or outlives its lease, leaves no record, so that the
next one sends again (`mailed` then holds two workers for the subject).  The
mail carries an idempotency key; the customer gets one mail if the gateway
honours it.

## 7. Fairness

The safety properties need none.  `FairRelaySpec` assumes weak fairness of each
replica's relay steps as one action, and of the passing of each row's backoff
and lease.  The code justifies it as long as iterations come to their end: the
loop in `index.ts` flushes the outbox after every task, and after an iteration
that threw with the next one; a process that exits is restarted by its
deployment (a crash leaves the replica able to claim again).  When that fails
is what `EvidenceGetsOut` in `WorkerProcess` says.  Nothing is assumed about
which replica claims what, about the environment answering kindly beyond
failing only `Failures` times, or about rows ever being written.

`FairBlobSpec` assumes that a transaction in progress goes on unless it fails
(weak fairness), and that the shred of a subject is handed out again for as
long as it is not done (strong fairness, because workers are also busy with
other tasks): a task whose lease runs out returns to the queue, a dead letter
can be requeued, and `claimNextTask` takes the oldest task first.

`FairSystemSpec`: calls that were taken up and workers' tasks go on (weak
fairness).  Strongly fair are the polls, the handing out of some claimable
task, the arrival of some acknowledgement of a dispatched task and the delivery
of the first row of the outbox, because each is repeated by the worker's loop
and shares the one handler with the others; which task and which
acknowledgement is left open.  Deadlines, and leases nobody attends to, pass
(weak fairness).  Requests, cancellations and failures are not fair.

`FairProcessSpec`: the process, when down, is started again, and goes on (weak
fairness of `Run`), by the deployment's restart policy and the loop in
`index.ts`.  A process that is started again and again is, again and again,
started after the leases of its former life ran out (strong fairness of
`Start(TRUE)`): restarts take time, and leases are bounded.  Nothing is assumed
about operators, who act finitely often, and `EnsureClient` may come at any
time.

`FairVaultSpec`: a vault task is worked on until it is answered, which is the
queue's lease and retry, and every transaction of the application ends.

## 8. Proofs

Every invariant and every action property that a passing run checks is a
theorem as well, for every value of the constants; so is the refinement.

For the control plane `ConstantsAssumption` is all that is assumed: finitely
many jobs, a genesis hash distinct from every key, events of the right shape.
The theorems hold for any number of jobs, handlers, configurations, rules and events.

* `TypeCorrect` (`ControlPlaneProofs`): `TypeOK` is inductive by itself; one
  lemma per action group.
* `Invariance` (`ControlPlaneProofs`): `StatusBacked` and `LedgerOrder` are not
  inductive.  A handler appends on the strength of a status it read several
  statements earlier, so the invariant has to say what that reading is still
  worth: `CallGrounded` says that a status once read stays backed by evidence
  (the ledger only grows, lemma `Monotone`), that a handler past the checks
  holds the predecessor of its event, and that one past the append has its
  event in the ledger.  Cancellation needs `TasksFollowJob` (a job nobody took
  up has exactly the tasks its creation or cancellation left) and
  `LedgerOfActive`; the equality of replayed events needs `OneRowPerKey`.
  `IInv` is the conjunction; steps are grouped by what they touch (`QuietStep`,
  `AppendStep`, `ApplyStep`, ...).
* `ReadsStayGrounded`, `StatusIsBacked`, `LedgerIsOrdered` and
  `CancellationHolds` follow from it.
* `ControlPlaneSafety` adds one small invariant per property to `IInv`, which
  therefore never has to be proved again.  Lemmas `JobStep`, `TaskStep` and
  `LedgerGrowsBy` say once what a step may do to one row of each table
  (COMPLETED is for ever, a deferred task appears when its stage is due, only a
  requeue leaves the dead-letter queue), and each property is then a case
  split over four or five kinds of steps instead of forty actions.
  * `ReceiptsAreBacked` needs that certificates are for terminal events.
  * `NoTaskIsEarly` and `FailedJobsRecover` are inductive relative to `IInv`:
    the first rests on deadlines and ledger that only grow, the second on an
    ingestion, whatever it read, never writing FAILED.
  * `PolicyIsStable`: the rule goes from event to event through the job row,
    which ingestions that read an older one may overwrite.  `RuleBacked` says
    of the row that it cites a rule once the job is vaulted, and the vault
    event's, unless a hard deletion wrote it; `RuleSeen` says the same of the
    row an ingestion in flight has read.  A hard delete with another rule is
    the exception, and the property names it.
  * `BurnInGateHolds`: the counter equals the number of marked tasks, so the
    proof counts sets.  `GateKept` adds that a call that passed the gate did so
    at the threshold, which stays reached because the count only grows, and
    that a call about to count holds the vault task of a shadow request (whether
    it is completed and not marked yet, the count asks again in its transaction).
  * `ChainIsConnected`: every ledger row extends another row or the genesis
    hash, for workers that send anything.  The head may move back (`heartbeat`
    shows it), but only to hashes that are rows, and that is what `ChainKept`
    says of the head and of every head a call has read.
* `Implements` (`ControlPlaneSafety`): every step maps to a step of
  `ErasurePromise` or a stutter, from `IInv`.

For the platform, `SystemAssumption` adds the constants of the worker and that
the events the control plane accepts are those the worker can send.

* `WorkersStayWorkers` and `ControlPlaneStays` (`ErasureSystemProofs`): a
  behaviour of the platform, with the other side hidden, is a behaviour of
  `WorkerEngine` and of `ControlPlane`.  Each step of the platform is a step
  of either, of both (a task handed out, an acknowledgement, a delivery), or
  a stutter.  So every theorem about the parts holds of the platform, and
  `PlatformImplements` follows from `Implements`.
* `Coupling`: what is proved of the parts says nothing of the other's database.
  `Coupled` does: an event in the ledger or on its way is a row a worker
  committed, and one event is one row (`EvidenceSent`, `OneRowPerEvent`);
  whoever a worker works for, whoever it vaulted and whatever it recorded
  belongs to a job the control plane has taken up, and a shred in hand has its
  notice on record (`WorkOfActive`).  The last is the delicate one: a task is
  handed out once and worked on much later, and nothing that happens meanwhile,
  replay, failure or requeue, takes a job out of the states of a job taken up,
  or an event out of the ledger.
* `CertificatesAreTrue`: a certificate has its event in the ledger
  (`ReceiptsInv`), the event is an outbox row (`Coupled`), and an outbox row
  shows what was done to the subject (`EvidenceMatches`): three invariants, one
  of each module.  `LedgerIsAPrefix` combines `ChainKept` with the one row per
  event; `CancellationIsSafe` and `ShredsAreDocumented` are in `Coupled`.

The parts of the worker:

* `OutboxRelayProofs`: `RelayTypes`, `NoLoss` and `SettledStays` are
  `RelayTypeOK`, `NothingLost` and `SettledIsFinal` for any outbox, any number
  of replicas and failures, from `RelayAssumption`.  The invariant adds that
  attempts stay below the maximum until the row is given up, that a delivery
  answered "ok" is in the ledger before its row is touched, and that a replica
  without a batch waits for no answer; `OneTurn` (the claim's order is strict)
  ties the answer to its row.  That a settled row stays so rests on the
  conditional updates alone.

* `WorkerEngineProofs`, from `EngineAssumption`, for any number of replicas,
  requests and subjects: `EngineTypes`, `EvidenceIsExact`,
  `KeysOutliveRetention` and `AcksEarned`.  None of them is inductive, because
  a transaction commits on the strength of what its first statement read.
  `EngineInv` adds that two transactions never hold one subject
  (`LocksExclude`), that what a task read under its lock still holds, and that
  deadlines only pass (`TaskGrounded`), and that a vault row belongs to a
  request of its subject (`VaultOrder`).  Steps that change no stage are
  handled once (`SteadyStep`), every commit by `CommitStep`, which reduces the
  invariant to what changes about the one subject the transaction holds.
* `BlobErasureProofs`, from `BlobAssumption`, for any number of subjects,
  objects, workers, uploads and failures: `BlobTypes`, `ErasureIsFinal`,
  `ReceiptsAreTrue` and `FilesAreKept`.  What a shred records at its end was
  done by several requests before it, so `BlobInv` says of a transaction in
  progress that every version its outcome calls gone is gone or still on its
  list (`ShredGrounded`), and that the version a vault captured is known, and
  held once the hold was acknowledged (`VaultGrounded`).  Objects are shared
  between subjects; the proof rests on two facts about every step: it works on
  the file of one subject, and an object only evolves (`Evolves`: versions are
  added above the known ones, keep their body, and never come back).  Lemma
  `OwnSubject` turns them into a frame rule, after which each action has to
  preserve the invariant of its own subject and transaction only.
* `OneWorkerOneChain`: under the hypothesis that there is one worker the outbox
  is one chain.  `ChainInv` says that rows are told apart by their timestamps,
  that each extends the one before it, and that the tail in the snapshot of a
  transaction is still the tail (`TailIsFresh`), which is exactly what fails
  with two workers.
* `VaultTransactionProofs`, from `VaultAssumption`, for any schema, any set of
  satellites, rows, objects and any transactions of the application.
  `SurvivorsExcused` and `FilesFollowed` relate a committed outcome to rows the
  application goes on writing, so neither is inductive.  The invariant adds
  `LocksHold` (an open transaction of the application found its row as it needs
  it, and the row is still like that), `SeenRowsStay` (a row the vault
  saw is never absent again), `Swept` and `FilesFound` (what the
  running transaction has already made sure of), `OneOutcome` and
  `OutcomeHolds`.  `FilesAreFollowed` covers the root row's file: a subject is
  not deleted while any file was found.
* `EvidenceIsHonoured` and `NothingIsLostSilently` (the same module) rest on
  the recursive functions `Longest` and `Walk`.  The library's induction takes
  an operator as a parameter and is out of reach, but a set of numbers is not:
  `LeastNat` takes a least element from the well-foundedness of `<`,
  `Inductive` makes induction of it, and `LongestExists` and `WalkExists` apply
  it to the set of numbers up to which a function fits the recursion.  So both
  functions unroll (`LongestUnrolls`, `WalkUnrolls`), and what they compute is
  shown by a second induction: `LongestHolds` (no shorter than any rule with
  evidence, and one of them or the default) and `NodesHold` (every table on a
  path is found by a path within it).  `CascadeIsSeen` is the theorem about the
  graph query: the tables found by paths that avoid t are closed under the
  keys that do not lead to t, so a key of t with a reachable parent is found,
  unless a path was cut, and its column is in every accepted graph.  `PlanInv`
  carries the decision from `Plan` through the sweeps to the outcome.
  `VaultAssumption` says of the retention that years and window are numbers
  (config/worker.ts:157, 208, 209).
* `WorkerProcessProofs`, from `ProcessAssumption`, for any number of tasks,
  releases, keys, errors, faults and acts of operators.  `ChecksHold` and
  `FailuresHaveCause` follow from `ProcessInv`, whose parts are the types,
  `TokensInBudget` (the tokens issued and the edits left are within
  `MaxEdits`), `BootChecked` (what has been read at each step of the boot is
  what there still is, unless it was marked as changed), and `RowsGrounded` and
  `TaskGrounded`: a task in hand is leased, and has committed before only if it
  was claimed before (`Repeated`); what the process is about to report, and what
  a given-up task shows, is a cause, and the task has not committed unless it
  was claimed again or its connection broke (`Excused`).  `Caught` is the step
  the argument turns on: an error reaches `nack` only if it is neither fatal
  nor retryable.  `Disconnect` and `Fail` differ in whether the transaction
  may have committed.

Only model-checked: liveness (`CatchesUp`, `ShredSettles`, `RequestsEnd`,
`EvidenceGetsOut`, `TaskSettles`, `VaultDecides`), which needs fairness and
ENABLED and is beyond the prover.  The violated properties are refuted by their
runs; `ChainIsConnected` and `OneWorkerOneChain` say what is left of two of
them.

## 9. Not modelled

* Signatures, PDF layout, request validation, logging and metrics;
  cryptography.
* Several tenants in one engine database.  src/compliance-engine/src/engine/notifier/reservation.ts:33
  looks the vault row up without its tenant; a second tenant would double every
  variable of the engine.
* Dry runs of the vault, which write nothing and which no task asks for; that
  their prediction uses the default retention and ignores files shows in the
  code alone.
* The protocols of the key providers and the AWS credential chain: a key is
  there, or the boot ends.
* The rate limiter's windows (its 429 is a lost request in `WorkerProcess`) and
  the vetting of webhook addresses.
* Calendar arithmetic of retention: years in `VaultTransaction`, the order of
  deadlines elsewhere.
* The masking of satellite values: `masking_rules` of a redact satellite are
  required by config/worker.ts:66, but the transaction overwrites the lookup
  column only, which is what `masked` means.
* The dashboard and the deployment, which keep no state.
