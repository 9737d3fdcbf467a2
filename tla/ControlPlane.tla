---------------------------- MODULE ControlPlane ----------------------------
(***************************************************************************)
(* The control plane of the erasure platform: its Postgres tables and the  *)
(* HTTP handlers that read and write them.                                 *)
(*                                                                         *)
(* A handler is a process of its own.  Every SQL statement it awaits       *)
(* outside a transaction is a step of its own, and everything inside one   *)
(* sql.begin(...) is a single step, so that two handlers interleave        *)
(* between statements as two requests do in the Node process, or in two    *)
(* API replicas.  A handler keeps in call[h] what it read before an await  *)
(* and uses after it.                                                      *)
(*                                                                         *)
(* The worker is the environment here: it may send any event of            *)
(* WorkerEvents and any acknowledgement, in any order and any number of    *)
(* times.  ErasureSystem closes the model with the real worker.            *)
(*                                                                         *)
(* Clock values are kept only as far as the code compares them: age[j]     *)
(* says which deadlines of job j have passed, ready that next_attempt_at   *)
(* has, leased that lease_expires_at has not.                              *)
(***************************************************************************)
EXTENDS Naturals, FiniteSets

CONSTANTS
  Jobs,              (* erasure requests, one per request idempotency key  *)
  Handlers,          (* concurrent API calls in flight                     *)
  Configs,           (* worker configuration fingerprints sent by sync     *)
  Forms,             (* the request bodies that may be posted              *)
  Rules,             (* retention rules a worker may cite                  *)
  NoRule,            (* applied_rule_name IS NULL                          *)
  Genesis,           (* the hash before the first ledger row               *)
  WorkerEvents,      (* outbox events the worker may deliver               *)
  MaxAttempts,       (* TASK_MAX_ATTEMPTS                                  *)
  BurnInRequired,    (* SHADOW_BURN_IN_REQUIRED                            *)
  RequiredSuccesses, (* SHADOW_REQUIRED_SUCCESSES                          *)
  RequeueBound       (* bound: requeue only below this many attempts       *)

JobStatus  == {"NONE", "WAITING_COOLDOWN", "EXECUTING", "VAULTED",
               "NOTICE_SENT", "SHREDDED", "CANCELLED", "FAILED"}
TaskTypes  == {"VAULT_USER", "NOTIFY_USER", "SHRED_USER"}
TaskStatus == {"NONE", "QUEUED", "DISPATCHED", "COMPLETED", "FAILED",
               "DEAD_LETTER"}
EventTypes == {"USER_VAULTED", "USER_HARD_DELETED", "NOTIFICATION_SENT",
               "SHRED_SUCCESS"}
Terminal   == {"USER_HARD_DELETED", "SHRED_SUCCESS"}

TaskIds == Jobs \X TaskTypes

(* The deadlines of a job that have passed, in the order they fall due.    *)
Cooling == 0   \* vault_due_at is in the future
Cooled  == 1   \* vault_due_at has passed
Notice  == 2   \* and notification_due_at
Shred   == 3   \* and shred_due_at
Ages    == 0..3

(* An outbox event names its job, its type, the retention rule it cites    *)
(* and its previous_hash.  Its idempotency key is its job and type; the    *)
(* ledger holds a key at most once, so the key also stands for the         *)
(* current_hash of the row that holds it.                                  *)
Keys == Jobs \X EventTypes
Hash == Keys \union {Genesis}
Event == [job : Jobs, type : EventTypes, rule : Rules, prev : Hash]
Key(e) == <<e.job, e.type>>

ASSUME ConstantsAssumption ==
  /\ IsFiniteSet(Jobs)
  /\ Genesis \notin Keys
  /\ NoRule \notin Rules
  /\ Forms \subseteq [shadow : BOOLEAN, webhook : BOOLEAN]
  /\ WorkerEvents \subseteq Event
  /\ MaxAttempts \in Nat \ {0}
  /\ BurnInRequired \in BOOLEAN
  /\ RequiredSuccesses \in Nat
  /\ RequeueBound \in Nat

VARIABLES
  job,         (* erasure_jobs                                             *)
  task,        (* task_queue, unique per job and task type                 *)
  ledger,      (* audit_ledger rows that hold worker events                *)
  heartbeats,  (* audit_ledger rows that hold config heartbeats            *)
  head,        (* current_hash of the audit_ledger row inserted last       *)
  certs,       (* certificates                                             *)
  billed,      (* usage_events, by billing key                             *)
  delivered,   (* terminal webhooks a receiver got, by idempotency key     *)
  client,      (* the worker's row in clients                              *)
  age,         (* the deadlines of each job that have passed               *)
  call         (* the API calls in flight                                  *)

vars == <<job, task, ledger, heartbeats, head, certs, billed, delivered,
          client, age, call>>

-----------------------------------------------------------------------------
(* Types.                                                                  *)

JobRow == [status : JobStatus, shadow : BOOLEAN, webhook : BOOLEAN,
           scheduled : BOOLEAN, rule : Rules \union {NoRule}]
TaskRow == [status : TaskStatus, attempts : Nat, ready : BOOLEAN,
            leased : BOOLEAN, counted : BOOLEAN]
Certificate == [job : Jobs, type : EventTypes, rule : Rules \union {NoRule}]

IngestSteps == {"lookup", "head", "append", "apply", "certify", "webhook",
                "bill"}

Idle == [op |-> "idle"]
Call == {Idle, [op |-> "claim"]}
          \union [op : {"create"}, job : Jobs, form : Forms]
          \union [op : {"sync"}, config : Configs, seen : Hash]
          \union [op : {"burnIn"}, task : TaskIds]
          \union [op : {"ingest"}, step : IngestSteps, ev : WorkerEvents,
                  seen : JobRow]

TypeOK ==
  /\ job \in [Jobs -> JobRow]
  /\ task \in [TaskIds -> TaskRow]
  /\ ledger \subseteq WorkerEvents
  /\ heartbeats \subseteq Configs
  /\ head \in Hash
  /\ certs \subseteq Certificate
  /\ billed \subseteq Keys
  /\ delivered \subseteq Keys
  /\ client \in [active : BOOLEAN, successes : Nat, live : BOOLEAN]
  /\ age \in [Jobs -> Ages]
  /\ call \in [Handlers -> Call]

NoJob  == [status |-> "NONE", shadow |-> FALSE, webhook |-> FALSE,
           scheduled |-> FALSE, rule |-> NoRule]
NoTask == [status |-> "NONE", attempts |-> 0, ready |-> FALSE,
           leased |-> FALSE, counted |-> FALSE]
(* A task row as both INSERTs into task_queue write it.                    *)
NewTask == [NoTask EXCEPT !.status = "QUEUED", !.ready = TRUE]

Init ==
  /\ job = [j \in Jobs |-> NoJob]
  /\ task = [t \in TaskIds |-> NoTask]
  /\ ledger = {} /\ heartbeats = {} /\ head = Genesis
  /\ certs = {} /\ billed = {} /\ delivered = {}
  /\ client = [active |-> TRUE, successes |-> 0, live |-> FALSE]
  /\ age = [j \in Jobs |-> Cooling]
  /\ call = [h \in Handlers |-> Idle]

(* authorizeWorker: a worker route answers an active client only.          *)
Authorized == client.active

evidence == <<ledger, heartbeats, head, certs, billed, delivered>>
Return(h) == call' = [call EXCEPT ![h] = Idle]

-----------------------------------------------------------------------------
(* Erasure requests: creation and cancellation.                            *)

(* createErasureRequest up to its transaction: no job under this key yet,  *)
(* an active client, and the burn-in gate for requests that mutate.  A     *)
(* replay of a stored request returns here and changes nothing.            *)
BeginCreate(h, j, form) ==
  /\ call[h] = Idle
  /\ job[j].status = "NONE"
  /\ client.active
  /\ (BurnInRequired /\ RequiredSuccesses > 0) => (form.shadow \/ client.live)
  /\ call' = [call EXCEPT ![h] = [op |-> "create", job |-> j, form |-> form]]
  /\ UNCHANGED <<job, task, evidence, client, age>>

(* createJobAndQueueTask.  The idempotency key is UNIQUE: the loser of two *)
(* concurrent calls with one key inserts nothing and fails.                *)
FinishCreate(h) ==
  /\ call[h].op = "create"
  /\ LET c == call[h]
         t == <<c.job, "VAULT_USER">>
     IN \/ /\ job[c.job].status = "NONE"
           /\ job' = [job EXCEPT ![c.job] =
                        [NoJob EXCEPT !.status  = "WAITING_COOLDOWN",
                                      !.shadow  = c.form.shadow,
                                      !.webhook = c.form.webhook]]
           /\ task' = [task EXCEPT ![t] = NewTask]
        \/ /\ job[c.job].status # "NONE"
           /\ UNCHANGED <<job, task>>
  /\ Return(h)
  /\ UNCHANGED <<evidence, client, age>>

(* Mutant: a cancellation that also takes jobs a worker has claimed.       *)
Cancel_Claimed(j) ==
  /\ job[j].status \in {"WAITING_COOLDOWN", "EXECUTING"}
  /\ job' = [job EXCEPT ![j].status = "CANCELLED"]
  /\ task' = [t \in TaskIds |->
                IF t[1] = j /\ task[t].status \in {"QUEUED", "DISPATCHED"}
                THEN [task[t] EXCEPT !.status = "FAILED", !.leased = FALSE]
                ELSE task[t]]
  /\ UNCHANGED <<evidence, client, age, call>>

(* cancelErasureRequest: the UPDATE re-checks WAITING_COOLDOWN, so the     *)
(* status read before it never matters.                                    *)
Cancel(j) ==
  /\ job[j].status = "WAITING_COOLDOWN"
  /\ job' = [job EXCEPT ![j].status = "CANCELLED"]
  /\ task' = [t \in TaskIds |->
                IF t[1] = j /\ task[t].status \in {"QUEUED", "DISPATCHED"}
                THEN [task[t] EXCEPT !.status = "FAILED", !.leased = FALSE]
                ELSE task[t]]
  /\ UNCHANGED <<evidence, client, age, call>>

-----------------------------------------------------------------------------
(* Worker sync: a heartbeat row, then a claim.                             *)

(* insertWorkerConfigHeartbeat reads the latest hash ...                   *)
BeginSync(h, c) ==
  /\ call[h] = Idle
  /\ Authorized
  /\ call' = [call EXCEPT ![h] = [op |-> "sync", config |-> c, seen |-> head]]
  /\ UNCHANGED <<job, task, evidence, client, age>>

(* Mutant: a heartbeat that hashes its configuration into the chain.       *)
InsertHeartbeat_Hashed(h) ==
  /\ call[h].op = "sync"
  /\ heartbeats' = heartbeats \union {call[h].config}
  /\ head' = call[h].config
  /\ call' = [call EXCEPT ![h] = [op |-> "claim"]]
  /\ UNCHANGED <<job, task, ledger, certs, billed, delivered, client, age>>

(* ... and in a second statement inserts a row whose previous and current  *)
(* hash are the one it read, once per configuration.                       *)
InsertHeartbeat(h) ==
  /\ call[h].op = "sync"
  /\ \/ /\ call[h].config \notin heartbeats
        /\ heartbeats' = heartbeats \union {call[h].config}
        /\ head' = call[h].seen
     \/ /\ call[h].config \in heartbeats
        /\ UNCHANGED <<heartbeats, head>>
  /\ call' = [call EXCEPT ![h] = [op |-> "claim"]]
  /\ UNCHANGED <<job, task, ledger, certs, billed, delivered, client, age>>

(* Mutant: the shred deadline is not compared.                             *)
StageDue_NoDeadline(t) ==
  /\ job[t[1]].scheduled
  /\ \/ t[2] = "NOTIFY_USER" /\ job[t[1]].status = "VAULTED"
                             /\ age[t[1]] >= Notice
     \/ t[2] = "SHRED_USER"  /\ job[t[1]].status = "NOTICE_SENT"

(* Mutant: the deadlines alone decide.                                     *)
StageDue_AnyStage(t) ==
  /\ job[t[1]].scheduled
  /\ \/ t[2] = "NOTIFY_USER" /\ age[t[1]] >= Notice
     \/ t[2] = "SHRED_USER"  /\ age[t[1]] >= Shred

(* The deferred task t whose stage and deadline its job has reached.       *)
StageDue(t) ==
  /\ job[t[1]].scheduled
  /\ \/ t[2] = "NOTIFY_USER" /\ job[t[1]].status = "VAULTED"
                             /\ age[t[1]] >= Notice
     \/ t[2] = "SHRED_USER"  /\ job[t[1]].status = "NOTICE_SENT"
                             /\ age[t[1]] >= Shred

(* materializeDueLifecycleTasks: one row per job and type, ever.           *)
Materialized ==
  [t \in TaskIds |-> IF StageDue(t) /\ task[t].status = "NONE"
                     THEN NewTask ELSE task[t]]

Due(t) ==
  \/ t[2] = "VAULT_USER"  /\ age[t[1]] >= Cooled
  \/ t[2] = "NOTIFY_USER" /\ job[t[1]].scheduled /\ age[t[1]] >= Notice
  \/ t[2] = "SHRED_USER"  /\ job[t[1]].scheduled /\ age[t[1]] >= Shred

(* Mutant: a task whose lease ran out is not claimed again.                *)
Claimable_QueuedOnly(t) ==
  /\ Materialized[t].status = "QUEUED"
  /\ Materialized[t].ready
  /\ job[t[1]].status \notin {"CANCELLED", "SHREDDED", "FAILED"}
  /\ Due(t)

Claimable(t) ==
  /\ \/ Materialized[t].status = "QUEUED"
     \/ Materialized[t].status = "DISPATCHED" /\ ~Materialized[t].leased
  /\ Materialized[t].ready
  /\ job[t[1]].status \notin {"CANCELLED", "SHREDDED", "FAILED"}
  /\ Due(t)

(* claimNextTask leases one claimable task.  SKIP LOCKED passes over rows  *)
(* another transaction holds, so any claimable task may be the one, and    *)
(* the claim may come back empty.                                          *)
ClaimTask(h, t) ==
  /\ call[h] = [op |-> "claim"]
  /\ Claimable(t)
  /\ task' = [Materialized EXCEPT ![t].status = "DISPATCHED",
                                  ![t].leased = TRUE]
  /\ job' = [job EXCEPT ![t[1]].status =
               IF @ = "WAITING_COOLDOWN" THEN "EXECUTING" ELSE @]
  /\ Return(h)
  /\ UNCHANGED <<evidence, client, age>>

ClaimNothing(h) ==
  /\ call[h] = [op |-> "claim"]
  /\ task' = Materialized
  /\ Return(h)
  /\ UNCHANGED <<job, evidence, client, age>>

-----------------------------------------------------------------------------
(* Worker acknowledgements.  The task id is all an ack needs: nothing ties *)
(* it to the claim that handed the task out.                               *)

(* After a completed ack of a shadow vault, ackWorkerTask goes on to count *)
(* it in a transaction of its own.                                         *)
CountsTowardsBurnIn(t) ==
  t[2] = "VAULT_USER" /\ job[t[1]].shadow /\ RequiredSuccesses > 0
AfterCompleted(h, t) ==
  call' = [call EXCEPT ![h] = IF CountsTowardsBurnIn(t)
                              THEN [op |-> "burnIn", task |-> t] ELSE Idle]

AckCompleted(h, t) ==
  /\ call[h] = Idle
  /\ Authorized
  /\ task[t].status = "DISPATCHED"
  /\ task' = [task EXCEPT ![t].status = "COMPLETED", ![t].leased = FALSE]
  /\ AfterCompleted(h, t)
  /\ UNCHANGED <<job, evidence, client, age>>

(* A completed ack for a task that is COMPLETED already: only the burn-in  *)
(* bookkeeping is tried again.                                             *)
AckReplayed(h, t) ==
  /\ call[h] = Idle
  /\ Authorized
  /\ task[t].status = "COMPLETED"
  /\ CountsTowardsBurnIn(t)
  /\ AfterCompleted(h, t)
  /\ UNCHANGED <<job, task, evidence, client, age>>

(* shouldRetryTaskFailure, for the attempt this failure makes it.          *)
Retries(t, retryable) == retryable /\ task[t].attempts + 1 < MaxAttempts

(* A failed ack: backoff and requeue, or the dead-letter queue, which      *)
(* fails the job whatever its status.                                      *)
AckFailed(t, retryable) ==
  /\ Authorized
  /\ task[t].status = "DISPATCHED"
  /\ LET attempt == task[t].attempts + 1
     IN \/ /\ Retries(t, retryable)
           /\ task' = [task EXCEPT ![t].status   = "QUEUED",
                                   ![t].attempts = attempt,
                                   ![t].ready    = FALSE,
                                   ![t].leased   = FALSE]
           /\ UNCHANGED job
        \/ /\ ~Retries(t, retryable)
           /\ task' = [task EXCEPT ![t].status   = "DEAD_LETTER",
                                   ![t].attempts = attempt,
                                   ![t].leased   = FALSE]
           /\ job' = [job EXCEPT ![t[1]].status = "FAILED"]
  /\ UNCHANGED <<evidence, client, age, call>>

(* Mutant: the count is not guarded by the mark.                           *)
RecordShadowSuccess_Again(h) ==
  /\ call[h].op = "burnIn"
  /\ LET n == client.successes + 1
     IN /\ task[call[h].task].status = "COMPLETED"
        /\ task' = [task EXCEPT ![call[h].task].counted = TRUE]
        /\ client' = [client EXCEPT !.successes = n,
                                    !.live = @ \/ n >= RequiredSuccesses]
  /\ Return(h)
  /\ UNCHANGED <<job, evidence, age>>

(* recordShadowVaultSuccessForTask: mark the task and count it, or neither.*)
RecordShadowSuccess(h) ==
  /\ call[h].op = "burnIn"
  /\ LET t == call[h].task
         n == client.successes + 1
     IN \/ /\ task[t].status = "COMPLETED" /\ ~task[t].counted
           /\ task' = [task EXCEPT ![t].counted = TRUE]
           /\ client' = [client EXCEPT !.successes = n,
                                       !.live = @ \/ n >= RequiredSuccesses]
        \/ /\ task[t].status # "COMPLETED" \/ task[t].counted
           /\ UNCHANGED <<task, client>>
  /\ Return(h)
  /\ UNCHANGED <<job, evidence, age>>

-----------------------------------------------------------------------------
(* Outbox ingestion: seven steps, each its own statement.                  *)

Ingesting(h, step) == call[h].op = "ingest" /\ call[h].step = step
Advance(h, step) == call' = [call EXCEPT ![h].step = step]
Recorded(key) == \E e \in ledger : Key(e) = key

(* Mutant: the retention rule is not compared with the job's.              *)
MetadataMatches_AnyRule(e) == job[e.job].status # "NONE"

(* assertOutboxMetadata: the event names a stored job, and the rule that   *)
(* job cites once it cites one.                                            *)
MetadataMatches(e) ==
  /\ job[e.job].status # "NONE"
  /\ job[e.job].rule \in {NoRule, e.rule}

(* The job row read first is the one every later step looks at.            *)
ReceiveEvent(h, e) ==
  /\ call[h] = Idle
  /\ Authorized
  /\ MetadataMatches(e)
  /\ call' = [call EXCEPT ![h] = [op |-> "ingest", step |-> "lookup",
                                  ev |-> e, seen |-> job[e.job]]]
  /\ UNCHANGED <<job, task, evidence, client, age>>

(* Mutant: a shred follows the vault event directly.                       *)
Predecessor_NoNotice(type) ==
  IF type \in {"NOTIFICATION_SENT", "SHRED_SUCCESS"} THEN "VAULTED"
                                                     ELSE "EXECUTING"

(* ALLOWED_OUTBOX_PREDECESSORS; CANCELLED and FAILED are no predecessor.   *)
Predecessor(type) ==
  CASE type = "NOTIFICATION_SENT" -> "VAULTED"
    [] type = "SHRED_SUCCESS"     -> "NOTICE_SENT"
    [] OTHER                      -> "EXECUTING"

(* Mutant: the transition is not checked.                                  *)
LookupEvent_AnyStage(h) ==
  /\ Ingesting(h, "lookup")
  /\ IF call[h].ev \in ledger THEN Advance(h, "apply") ELSE Advance(h, "head")
  /\ UNCHANGED <<job, task, evidence, client, age>>

(* A stored equal event is a replay and skips the transition and chain     *)
(* checks; a new one must be allowed from the status read at the start.    *)
LookupEvent(h) ==
  /\ Ingesting(h, "lookup")
  /\ LET e == call[h].ev
     IN \/ e \in ledger /\ Advance(h, "apply")
        \/ ~Recorded(Key(e)) /\ call[h].seen.status = Predecessor(e.type)
                             /\ Advance(h, "head")
        \/ ~Recorded(Key(e)) /\ call[h].seen.status # Predecessor(e.type)
                             /\ Return(h)
        \/ Recorded(Key(e)) /\ e \notin ledger /\ Return(h)
  /\ UNCHANGED <<job, task, evidence, client, age>>

(* Mutant: the lifecycle is applied before the event is recorded.          *)
CheckHead_ApplyFirst(h) ==
  /\ Ingesting(h, "head")
  /\ IF call[h].ev.prev = head THEN Advance(h, "apply") ELSE Return(h)
  /\ UNCHANGED <<job, task, evidence, client, age>>

(* Mutant: any position in the chain will do.                              *)
CheckHead_Any(h) ==
  /\ Ingesting(h, "head")
  /\ Advance(h, "append")
  /\ UNCHANGED <<job, task, evidence, client, age>>

(* The event must extend the chain from the row inserted last.             *)
CheckHead(h) ==
  /\ Ingesting(h, "head")
  /\ \/ call[h].ev.prev = head /\ Advance(h, "append")
     \/ call[h].ev.prev # head /\ Return(h)
  /\ UNCHANGED <<job, task, evidence, client, age>>

(* INSERT ... ON CONFLICT DO NOTHING; on a conflict the stored row decides *)
(* between a replay and a refusal.                                         *)
AppendLedger(h) ==
  /\ Ingesting(h, "append")
  /\ LET e == call[h].ev
     IN \/ /\ ~Recorded(Key(e))
           /\ ledger' = ledger \union {e}
           /\ head' = Key(e)
           /\ Advance(h, "apply")
        \/ /\ e \in ledger
           /\ Advance(h, "apply")
           /\ UNCHANGED <<ledger, head>>
        \/ /\ Recorded(Key(e)) /\ e \notin ledger
           /\ Return(h)
           /\ UNCHANGED <<ledger, head>>
  /\ UNCHANGED <<job, task, heartbeats, certs, billed, delivered, client,
                 age>>

NextStatus(type) ==
  CASE type = "USER_VAULTED"      -> "VAULTED"
    [] type = "NOTIFICATION_SENT" -> "NOTICE_SENT"
    [] OTHER                      -> "SHREDDED"

(* transitionJobFromOutbox: an unconditional UPDATE of the job.            *)
Transitioned(row, e) ==
  [row EXCEPT !.status    = NextStatus(e.type),
              !.scheduled = @ \/ e.type = "USER_VAULTED",
              !.rule      = IF e.type \in {"USER_VAULTED", "USER_HARD_DELETED"}
                            THEN e.rule ELSE @]

(* Mutant: the webhook goes out before the certificate exists.             *)
ApplyTransition_WebhookFirst(h) ==
  /\ Ingesting(h, "apply")
  /\ LET e == call[h].ev
     IN /\ job' = [job EXCEPT ![e.job] = Transitioned(@, e)]
        /\ Advance(h, IF e.type \in Terminal THEN "webhook" ELSE "bill")
  /\ UNCHANGED <<task, evidence, client, age>>

(* The transition, and on to the terminal receipts or straight to billing. *)
ApplyTransition(h) ==
  /\ Ingesting(h, "apply")
  /\ LET e == call[h].ev
     IN /\ job' = [job EXCEPT ![e.job] = Transitioned(@, e)]
        /\ Advance(h, IF e.type \in Terminal THEN "certify" ELSE "bill")
  /\ UNCHANGED <<task, evidence, client, age>>

(* ensureTerminalCertificate: the certificate cites the rule of the job    *)
(* row as it was read first, and a stored one must be equal.               *)
CertificateFor(c) ==
  [job |-> c.ev.job, type |-> c.ev.type, rule |-> c.seen.rule]
Certified(j) == \E x \in certs : x.job = j

(* Mutant: a certificate of another content is stored beside the first.    *)
Certify_Again(h) ==
  /\ Ingesting(h, "certify")
  /\ certs' = certs \union {CertificateFor(call[h])}
  /\ Advance(h, IF call[h].seen.webhook THEN "webhook" ELSE "bill")
  /\ UNCHANGED <<job, task, ledger, heartbeats, head, billed, delivered,
                 client, age>>

(* Issue the certificate, or refuse the event if it differs.               *)
Certify(h) ==
  /\ Ingesting(h, "certify")
  /\ LET c == call[h]
         x == CertificateFor(c)
     IN \/ /\ ~Certified(c.ev.job) \/ x \in certs
           /\ certs' = certs \union {x}
           /\ Advance(h, IF c.seen.webhook THEN "webhook" ELSE "bill")
        \/ /\ Certified(c.ev.job) /\ x \notin certs
           /\ Return(h)
           /\ UNCHANGED certs
  /\ UNCHANGED <<job, task, ledger, heartbeats, head, billed, delivered,
                 client, age>>

(* The receiver may get the webhook and the answer still be an error, or a *)
(* timeout: the call then fails with 502 after a delivery.                 *)
DispatchWebhook(h, reached, answered) ==
  /\ Ingesting(h, "webhook")
  /\ answered => reached
  /\ delivered' = IF reached THEN delivered \union {Key(call[h].ev)}
                             ELSE delivered
  /\ IF answered THEN Advance(h, "bill") ELSE Return(h)
  /\ UNCHANGED <<job, task, ledger, heartbeats, head, certs, billed, client,
                 age>>

(* insertUsageEvent: ON CONFLICT (billing_key) DO NOTHING, then 200.       *)
Bill(h) ==
  /\ Ingesting(h, "bill")
  /\ billed' = billed \union {Key(call[h].ev)}
  /\ Return(h)
  /\ UNCHANGED <<job, task, ledger, heartbeats, head, certs, delivered,
                 client, age>>

-----------------------------------------------------------------------------
(* Operators, clocks and failures.                                         *)

(* Mutant: only the task is requeued, the job stays as it was.             *)
RequeueDeadLetter_TaskOnly(t) ==
  /\ task[t].status = "DEAD_LETTER"
  /\ task[t].attempts < RequeueBound
  /\ task' = [task EXCEPT ![t].status = "QUEUED", ![t].ready = TRUE,
                          ![t].leased = FALSE]
  /\ UNCHANGED <<job, evidence, client, age, call>>

(* requeueDeadLetterTask: attempt_count is kept.                           *)
RequeueDeadLetter(t) ==
  /\ task[t].status = "DEAD_LETTER"
  /\ task[t].attempts < RequeueBound
  /\ job' = [job EXCEPT ![t[1]].status =
               IF @ = "FAILED" THEN "EXECUTING" ELSE @]
  /\ task' = [task EXCEPT ![t].status = "QUEUED", ![t].ready = TRUE,
                          ![t].leased = FALSE]
  /\ UNCHANGED <<evidence, client, age, call>>

(* deactivateClient; rotateClientKey activates the client again.           *)
SetClientActive(active) ==
  /\ client' = [client EXCEPT !.active = active]
  /\ UNCHANGED <<job, task, evidence, age, call>>

DeadlinePasses(j) ==
  /\ job[j].status # "NONE"
  /\ age[j] < Shred
  /\ age' = [age EXCEPT ![j] = @ + 1]
  /\ UNCHANGED <<job, task, evidence, client, call>>

LeaseExpires(t) ==
  /\ task[t].leased
  /\ task' = [task EXCEPT ![t].leased = FALSE]
  /\ UNCHANGED <<job, evidence, client, age, call>>

BackoffElapses(t) ==
  /\ task[t].status = "QUEUED" /\ ~task[t].ready
  /\ task' = [task EXCEPT ![t].ready = TRUE]
  /\ UNCHANGED <<job, evidence, client, age, call>>

(* A handler dies with its process, or with its database connection.       *)
Crash(h) ==
  /\ call[h] # Idle
  /\ Return(h)
  /\ UNCHANGED <<job, task, evidence, client, age>>

-----------------------------------------------------------------------------

HandlerStep(h) ==
  \/ FinishCreate(h)
  \/ InsertHeartbeat(h)
  \/ \E t \in TaskIds : ClaimTask(h, t)
  \/ ClaimNothing(h)
  \/ RecordShadowSuccess(h)
  \/ LookupEvent(h)
  \/ CheckHead(h)
  \/ AppendLedger(h)
  \/ ApplyTransition(h)
  \/ Certify(h)
  \/ \E reached, answered \in BOOLEAN : DispatchWebhook(h, reached, answered)
  \/ Bill(h)

Request(h) ==
  \/ \E j \in Jobs, form \in Forms : BeginCreate(h, j, form)
  \/ \E c \in Configs : BeginSync(h, c)
  \/ \E t \in TaskIds : AckCompleted(h, t)
  \/ \E t \in TaskIds : AckReplayed(h, t)
  \/ \E e \in WorkerEvents : ReceiveEvent(h, e)

Clock ==
  \/ \E j \in Jobs : DeadlinePasses(j)
  \/ \E t \in TaskIds : LeaseExpires(t)
  \/ \E t \in TaskIds : BackoffElapses(t)

Operator ==
  \/ \E t \in TaskIds : RequeueDeadLetter(t)
  \/ \E active \in BOOLEAN : SetClientActive(active)

Next ==
  \/ \E h \in Handlers : Request(h) \/ HandlerStep(h) \/ Crash(h)
  \/ \E j \in Jobs : Cancel(j)
  \/ \E t \in TaskIds, retryable \in BOOLEAN : AckFailed(t, retryable)
  \/ Clock
  \/ Operator

Spec == Init /\ [][Next]_vars

-----------------------------------------------------------------------------
(* Safety properties.                                                      *)

(* Every lifecycle status an operator sees is backed by the worker's event *)
(* in the ledger, whatever replays, crashes and concurrent calls do to the *)
(* unconditional UPDATE of the job row.                                    *)
StatusBackedFor(j) ==
  /\ job[j].status = "VAULTED" => Recorded(<<j, "USER_VAULTED">>)
  /\ job[j].status = "NOTICE_SENT" => Recorded(<<j, "NOTIFICATION_SENT">>)
  /\ job[j].status = "SHREDDED" => \E type \in Terminal : Recorded(<<j, type>>)
StatusBacked == \A j \in Jobs : StatusBackedFor(j)

(* The ledger shows the stages of a job in order although each handler     *)
(* checks the transition against a job row it read four statements before  *)
(* its insert: no notice without a vault event, no shred without a notice. *)
LedgerOrder ==
  \A j \in Jobs :
    /\ Recorded(<<j, "NOTIFICATION_SENT">>) => Recorded(<<j, "USER_VAULTED">>)
    /\ Recorded(<<j, "SHRED_SUCCESS">>) => Recorded(<<j, "NOTIFICATION_SENT">>)

(* A shred task never exists before the retention deadline, nor without a  *)
(* recorded notice; a notify task never before its deadline and the vault. *)
NoEarlyTask ==
  \A j \in Jobs :
    /\ task[<<j, "NOTIFY_USER">>].status # "NONE" =>
         age[j] >= Notice /\ Recorded(<<j, "USER_VAULTED">>)
    /\ task[<<j, "SHRED_USER">>].status # "NONE" =>
         age[j] >= Shred /\ Recorded(<<j, "NOTIFICATION_SENT">>)

(* A cancellation that was confirmed is honoured: no task of the job runs  *)
(* or ran, and no event of it is in the ledger, also when the cancellation *)
(* raced a claim or an ingestion.                                          *)
CancelledIsUntouched ==
  \A j \in Jobs : job[j].status = "CANCELLED" =>
    /\ \A type \in TaskTypes :
         task[<<j, type>>].status = IF type = "VAULT_USER" THEN "FAILED"
                                                           ELSE "NONE"
    /\ \A e \in ledger : e.job # j

(* Nothing is certified, announced or billed that the ledger does not      *)
(* hold: a certificate follows its terminal event, a webhook follows its   *)
(* certificate, a charge follows its event.                                *)
ReceiptsBacked ==
  /\ \A x \in certs : Recorded(<<x.job, x.type>>)
  /\ \A key \in delivered : \E x \in certs : key = <<x.job, x.type>>
  /\ \A key \in billed : Recorded(key)

(* The burn-in counter counts each completed shadow vault exactly once,    *)
(* under retried acks and crashes between the ack and the count, and no    *)
(* mutating request exists before the threshold was reached.               *)
Counted == {t \in TaskIds : task[t].counted}
BurnInGate ==
  /\ client.successes = Cardinality(Counted)
  /\ \A t \in Counted : /\ task[t].status = "COMPLETED"
                         /\ job[t[1]].shadow /\ t[2] = "VAULT_USER"
  /\ (BurnInRequired /\ \E j \in Jobs :
        job[j].status # "NONE" /\ ~job[j].shadow)
       => Cardinality(Counted) >= RequiredSuccesses

(* A failed job can always be taken up again by an operator: it has a task *)
(* in the dead-letter queue, the only place requeue looks at.              *)
FailedIsRecoverable ==
  \A j \in Jobs : job[j].status = "FAILED" =>
    \E type \in TaskTypes : task[<<j, type>>].status = "DEAD_LETTER"

(* The retention rule recorded with the vault event is the rule of every   *)
(* later event of that job, although only the job row, which any ingestion *)
(* may overwrite, carries it from one call to the next.                    *)
PolicyStable ==
  \A v, e \in ledger :
    (v.job = e.job /\ v.type = "USER_VAULTED"
       /\ ~Recorded(<<v.job, "USER_HARD_DELETED">>))
    => e.rule = v.rule

-----------------------------------------------------------------------------
(* What comments in the code say, and the code does not do.                *)

(* Only a worker event moves the chain head: a heartbeat leaves it where   *)
(* it is, so that the worker's next event still extends it.                *)
HeartbeatKeepsHead == [][ledger' = ledger => head' = head]_vars

-----------------------------------------------------------------------------
(* Implementation of ErasurePromise.                                       *)

Stage(status) ==
  CASE status = "NONE"             -> "none"
    [] status = "WAITING_COOLDOWN" -> "waiting"
    [] status = "CANCELLED"        -> "cancelled"
    [] OTHER                       -> "active"

Stages == [j \in Jobs |-> Stage(job[j].status)]

Promise == INSTANCE ErasurePromise WITH
  Events    <- WorkerEvents,
  Receipts  <- Certificate,
  stage     <- Stages,
  accepted  <- ledger,
  issued    <- certs,
  announced <- delivered,
  charged   <- billed

(* The tables and handlers of the control plane keep the promise: under    *)
(* any interleaving, replay and crash, a request is cancelled or taken up  *)
(* once and for all, evidence is added stage by stage and never lost, and  *)
(* there is one certificate per request, for evidence that exists.         *)
KeepsPromise == Promise!PSpec

-----------------------------------------------------------------------------
(* The inductive invariant behind these properties (see the proofs).       *)

Active == JobStatus \ {"NONE", "WAITING_COOLDOWN", "CANCELLED"}

(* A job that nobody took up has exactly the tasks its creation or its     *)
(* cancellation left behind.                                               *)
Untouched(j, status) ==
  /\ task[<<j, "VAULT_USER">>].status = status
  /\ task[<<j, "NOTIFY_USER">>].status = "NONE"
  /\ task[<<j, "SHRED_USER">>].status = "NONE"

TasksFollowJob ==
  \A j \in Jobs :
    /\ job[j].status = "NONE" => Untouched(j, "NONE")
    /\ job[j].status = "WAITING_COOLDOWN" => Untouched(j, "QUEUED")
    /\ job[j].status = "CANCELLED" => Untouched(j, "FAILED")

LedgerOfActive ==
  \A e \in ledger : job[e.job].status \in Active

OneRowPerKey == \A d, e \in ledger : Key(d) = Key(e) => d = e

(* What a handler read before an await still holds after it, as far as it  *)
(* is relied on: statuses only gain evidence, and a step past the checks   *)
(* leaves its trace.                                                       *)
CallGrounded(h) ==
  call[h].op = "ingest" =>
    LET e == call[h].ev
        seen == call[h].seen
        step == call[h].step
    IN /\ seen.status = "EXECUTING" => job[e.job].status \in Active
       /\ seen.status = "VAULTED" => Recorded(<<e.job, "USER_VAULTED">>)
       /\ seen.status = "NOTICE_SENT" =>
            Recorded(<<e.job, "NOTIFICATION_SENT">>)
       /\ step \in {"head", "append"} => seen.status = Predecessor(e.type)
       /\ step \in {"apply", "certify", "webhook", "bill"} => e \in ledger
       /\ step \in {"certify", "webhook"} => e.type \in Terminal
       /\ step = "webhook" => CertificateFor(call[h]) \in certs

CallsGrounded == \A h \in Handlers : CallGrounded(h)

Grounded ==
  /\ TasksFollowJob
  /\ LedgerOfActive
  /\ OneRowPerKey
  /\ CallsGrounded
=============================================================================
