---------------------------- MODULE WorkerProcess ----------------------------
(***************************************************************************)
(* One worker process, from its start to its exit, and what it depends on: *)
(* the configuration file and its signature, the application schema, the   *)
(* key material, and the client row the control plane authenticates it by. *)
(*                                                                         *)
(* main reads the configuration file three times, resolves the keys, and   *)
(* checks the schema; then it loops: sync one task, execute it, acknowl-   *)
(* edge it, flush the outbox.  What an error does depends on how           *)
(* asWorkerError classifies it: a fatal one ends the process, a retryable  *)
(* one ends the iteration before the flush, any other is acknowledged as   *)
(* the failure of the task, also the broken connection of a transaction    *)
(* that may have committed.  A supervisor starts the process again.        *)
(*                                                                         *)
(* The transactions of a task are those of WorkerEngine, the relay that of *)
(* OutboxRelay and the queue that of ControlPlane, each reduced here to    *)
(* what the loop sees of it.                                               *)
(***************************************************************************)
EXTENDS Naturals, FiniteSets

CONSTANTS
  N,               (* tasks, in the order of the queue                     *)
  Reads,           (* the vault task whose row a task decrypts, 0 for none *)
  Errors,          (* what executing a task may throw                      *)
  Unreadable,      (* thrown when the key of a row cannot be unwrapped     *)
  Disconnects,     (* thrown when the connection of a transaction breaks   *)
  Versions,        (* releases of compliance.worker.yml                    *)
  SchemaOf,        (* expected_schema_hash of each release                 *)
  WellFormed,      (* the releases workerYamlSchema accepts                *)
  Fits,            (* the releases whose columns each schema has           *)
  KeySource,       (* master_key_source of each release, or NoSource       *)
  NoSource,
  SigningRequired, (* DPDP_CONFIG_SIGNING_PUBLIC_KEY_SPKI_BASE64 is set    *)
  Keys, NoKey,     (* key material: usable; missing or not of 32 bytes     *)
  FirstKey,        (* the key material of the deployment                   *)
  LeaseRounds,     (* iterations a task's lease lasts                      *)
  MaxEdits,        (* bound: operator actions                              *)
  MaxFaults        (* bound: lost requests, outages and crashes            *)

Tasks == 1..N
Schemas == {SchemaOf[v] : v \in Versions}
Slots == {"env", "remote"}
None == 0

(* A thrown value: a WorkerError with its two flags; an error of the server *)
(* with its SQLSTATE, listed as retryable or not, and perhaps a DETAIL; an  *)
(* abort; and whatever else is thrown: the connection errors of the driver, *)
(* whose codes are no SQLSTATEs, a fetch that was refused, a defect.        *)
ErrorRecord == [kind : {"none", "worker", "postgres", "timeout", "other"},
                retryable : BOOLEAN, fatal : BOOLEAN, detail : BOOLEAN]
Fine == [kind |-> "none", retryable |-> FALSE, fatal |-> FALSE,
         detail |-> FALSE]

ASSUME ProcessAssumption ==
  /\ N \in Nat \ {0} /\ Reads \in [Tasks -> 0..N]
  /\ Errors \subseteq {e \in ErrorRecord : e.kind # "none"}
  /\ Unreadable \in Errors
  /\ Disconnects \subseteq {e \in Errors : e.kind \in {"postgres", "other"}}
  /\ WellFormed \subseteq Versions
  /\ Fits \in [Schemas -> SUBSET Versions]
  /\ KeySource \in [Versions -> Slots \union {NoSource}]
  /\ NoKey \notin Keys /\ FirstKey \in Keys
  /\ LeaseRounds \in Nat \ {0}
  /\ MaxEdits \in Nat /\ MaxFaults \in Nat

VARIABLES
  disk,      (* the configuration file and what its signature signs        *)
  schema,    (* the live application schema                                *)
  material,  (* what each key source holds                                 *)
  client,    (* the client row: key hash, key id, active                   *)
  held,      (* the bearer token of the worker's deployment                *)
  clobbered, (* whether the key hash was overwritten since the rotation    *)
  proc,      (* the process                                                *)
  changed,   (* what changed under the process since it read it            *)
  mood,      (* what executing each task would throw now, or Fine          *)
  queue,     (* each task: status, lease, times claimed, error_text        *)
  store,     (* the engine's tables: committed, key of the row, evidence   *)
  budget     (* operator actions and faults left                           *)

processVars == <<disk, schema, material, client, held, clobbered, proc,
                 changed, mood, queue, store, budget>>
site == <<disk, schema, material, client, held, clobbered>>

(* Bearer tokens: WORKER_SHARED_SECRET is 0, the k-th rotation issues k.   *)
Bootstrap == 0
Boot == {"verify", "hash", "configure", "inspect"}
Loop == {"sync", "execute", "ack", "nack", "flush", "sleep"}

Down == [pc |-> "down", token |-> Bootstrap, sent |-> None, cfg |-> None,
         key |-> NoKey, task |-> None, error |-> Fine]

ProcessState == [pc : Boot \union Loop \union {"down"}, token : 0..MaxEdits,
                 sent : Versions \union {None}, cfg : Versions \union {None},
                 key : Keys \union {NoKey}, task : 0..N,
                 error : Errors \union {Fine}]
TaskRow == [status : {"queued", "leased", "done", "dead"},
            lease : 0..LeaseRounds, claims : 0..2,
            error : Errors \union {Fine}]
EngineRow == [committed : BOOLEAN, key : Keys \union {NoKey},
              evidence : {"none", "pending", "refused", "sent"}]

ProcessTypeOK ==
  /\ disk \in [yaml : Versions, sig : Versions]
  /\ schema \in Schemas
  /\ material \in [Slots -> Keys \union {NoKey}]
  /\ client \in [hash : 0..MaxEdits, keyId : 0..MaxEdits, active : BOOLEAN]
  /\ held \in 0..MaxEdits /\ clobbered \in BOOLEAN
  /\ proc \in ProcessState
  /\ changed \in SUBSET {"config", "keys", "schema"}
  /\ mood \in [Tasks -> Errors \union {Fine}]
  /\ queue \in [Tasks -> TaskRow]
  /\ store \in [Tasks -> EngineRow]
  /\ budget \in [edits : 0..MaxEdits, faults : 0..MaxFaults]

ProcessInit ==
  /\ \E v \in WellFormed : disk = [yaml |-> v, sig |-> v] /\ schema = SchemaOf[v]
  /\ material = [slot \in Slots |-> FirstKey]
  /\ client = [hash |-> Bootstrap, keyId |-> Bootstrap, active |-> TRUE]
  /\ held = Bootstrap /\ clobbered = FALSE
  /\ proc = Down /\ changed = {}
  /\ mood = [t \in Tasks |-> Fine]
  /\ queue = [t \in Tasks |-> [status |-> "queued", lease |-> 0, claims |-> 0,
                               error |-> Fine]]
  /\ store = [t \in Tasks |-> [committed |-> FALSE, key |-> NoKey,
                               evidence |-> "none"]]
  /\ budget = [edits |-> MaxEdits, faults |-> MaxFaults]

Fault == budget.faults > 0 /\ budget' = [budget EXCEPT !.faults = @ - 1]
At(p) == proc.pc = p
Goto(p) == proc' = [proc EXCEPT !.pc = p]
(* The iteration is over.                                                  *)
Iterate(p) == proc' = [proc EXCEPT !.pc = p, !.task = None, !.error = Fine]
(* main().catch: any error that leaves main is process.exit(1).            *)
Exit == proc' = Down

-----------------------------------------------------------------------------
(* How an error thrown by a task is classified.                            *)

(* RETRYABLE_POSTGRES_CODES and the connection class 08.                   *)
Transient(e) == e.kind = "postgres" /\ e.retryable

(* isWorkerProblem: a string code and a string detail, which a driver      *)
(* error has whenever the server sent a DETAIL line; such an error has     *)
(* neither of the two flags that are then copied from it.                  *)
LooksLikeProblem(e) == e.kind = "postgres" /\ e.detail

(* inferRetryability, but for a WorkerError, which keeps its own flag; an  *)
(* error that is none of these is not retryable.                           *)
Retryable(e) ==
  \/ e.kind = "worker" /\ e.retryable
  \/ e.kind = "timeout"
  \/ Transient(e) /\ ~LooksLikeProblem(e)
Fatal(e) == e.kind = "worker" /\ e.fatal

-----------------------------------------------------------------------------
(* Boot.                                                                   *)

(* The supervisor starts the process again, before or after its leases ran *)
(* out; the deployment's environment is read once.                         *)
Start(late) ==
  /\ At("down")
  /\ proc' = [Down EXCEPT !.pc = "verify", !.token = held]
  /\ changed' = {}
  /\ queue' = IF late THEN [t \in Tasks |-> [queue[t] EXCEPT !.lease = 0]]
              ELSE queue
  /\ UNCHANGED <<site, mood, store, budget>>

(* Mutant: an invalid signature is not fatal.                              *)
Signed_Skipped == TRUE

Signed == SigningRequired => disk.sig = disk.yaml

(* verifySignedWorkerConfig: the first read of the file.                   *)
VerifyConfig ==
  /\ At("verify")
  /\ IF Signed
     THEN Goto("hash")
     ELSE Exit
  /\ UNCHANGED <<site, changed, mood, queue, store, budget>>

(* sha256Hex of the second read: what each sync will report.               *)
HashConfig ==
  /\ At("hash")
  /\ proc' = [proc EXCEPT !.pc = "configure", !.sent = disk.yaml]
  /\ UNCHANGED <<site, changed, mood, queue, store, budget>>

(* workerYamlSchema and normalizeWorkerYaml.                               *)
Parsed(v) == v \in WellFormed

(* resolveConfiguredKey: the named source, or the environment when none is *)
(* named; there is no second choice.                                       *)
MasterKey(v) ==
  IF KeySource[v] = NoSource THEN material["env"] ELSE material[KeySource[v]]

(* decodeKeyMaterial: 32 bytes, in hex or base64.                          *)
Decoded(key) == key \in Keys

(* readWorkerConfigFromRuntime: the third read, then the keys.             *)
Configure ==
  /\ At("configure")
  /\ IF Parsed(disk.yaml) /\ Decoded(MasterKey(disk.yaml))
     THEN proc' = [proc EXCEPT !.pc = "inspect", !.cfg = disk.yaml,
                               !.key = MasterKey(disk.yaml)]
     ELSE Exit
  /\ UNCHANGED <<site, changed, mood, queue, store, budget>>

(* A key provider answers an error, or without the key: whether the error  *)
(* is retryable or not, the boot ends.                                     *)
LoseKey ==
  /\ At("configure") /\ Fault
  /\ KeySource[disk.yaml] = "remote"
  /\ Exit
  /\ UNCHANGED <<site, changed, mood, queue, store>>

(* assertSchemaIntegrity and assertConfigSchemaCompatibility.              *)
SchemaMatches == schema = SchemaOf[proc.cfg] /\ proc.cfg \in Fits[schema]

Inspect ==
  /\ At("inspect")
  /\ IF SchemaMatches THEN Goto("sync") ELSE Exit
  /\ changed' = changed \ {"schema"}
  /\ UNCHANGED <<site, mood, queue, store, budget>>

-----------------------------------------------------------------------------
(* The control plane, as far as the process meets it.                      *)

(* authorizeWorker, run on every worker request.                           *)
Authorized == client.active /\ client.hash = proc.token

(* A deferred task is due once the event of the stage before it arrived.   *)
Due(t) == Reads[t] # None => store[Reads[t]].evidence = "sent"

Open(t) == queue[t].status \in {"queued", "leased"}

(* Mutant: the lease of a task is not looked at.                           *)
Claimable_QueuedOnly(t) == Due(t) /\ queue[t].status = "queued"

Claimable(t) ==
  /\ Due(t)
  /\ \/ queue[t].status = "queued"
     \/ queue[t].status = "leased" /\ queue[t].lease = 0
Head(t) == Claimable(t) /\ \A u \in Tasks : Claimable(u) => t <= u

(* claimNextTask; claims saturates at two.                                 *)
Leased(t) ==
  queue' = [queue EXCEPT ![t].status = "leased", ![t].lease = LeaseRounds,
                         ![t].claims = IF @ = 0 THEN 1 ELSE 2]

(* ackTask: a task that is not dispatched is left as it is.  The worker    *)
(* reports failures that are not retryable only: they are dead letters at  *)
(* once (shouldRetryTaskFailure).                                          *)
Acknowledged(t, status, error) ==
  queue' = IF queue[t].status = "leased"
           THEN [queue EXCEPT ![t].status = status, ![t].lease = 0,
                              ![t].error = error]
           ELSE queue

-----------------------------------------------------------------------------
(* The loop.                                                               *)

Sync ==
  /\ At("sync") /\ Authorized
  /\ \/ \E t \in Tasks :
          /\ Head(t)
          /\ Leased(t)
          /\ proc' = [proc EXCEPT !.pc = "execute", !.task = t]
     \/ /\ \A t \in Tasks : ~Claimable(t)
        /\ proc' = [proc EXCEPT !.pc = "flush", !.task = None]
        /\ UNCHANGED queue
  /\ UNCHANGED <<site, changed, mood, store, budget>>

(* The row was vaulted under another master key: unwrapKey throws.         *)
KeyLost(t) ==
  Reads[t] # None /\ ~store[t].committed /\ store[Reads[t]].key # proc.key

Thrown(t) == IF mood[t] = Fine /\ KeyLost(t) THEN Unreadable ELSE mood[t]

(* The transaction commits with its event; a replay commits nothing.       *)
Committed(t) ==
  store' = IF store[t].committed THEN store
           ELSE [store EXCEPT ![t] = [committed |-> TRUE, key |-> proc.key,
                                      evidence |-> "pending"]]

Succeed(t) ==
  /\ At("execute") /\ proc.task = t
  /\ Thrown(t) = Fine
  /\ Committed(t)
  /\ Goto("ack")
  /\ UNCHANGED <<site, changed, mood, queue, budget>>

(* processNextTask's catch, then the one of the loop in main.              *)
Caught(e) ==
  \/ Fatal(e) /\ Exit
  \/ ~Fatal(e) /\ Retryable(e) /\ Iterate("sleep")
  \/ /\ ~Fatal(e) /\ ~Retryable(e)
     /\ proc' = [proc EXCEPT !.pc = "nack", !.error = e]

(* The work fails before its COMMIT is sent.                               *)
Fail(t) ==
  /\ At("execute") /\ proc.task = t
  /\ Thrown(t) # Fine
  /\ Caught(Thrown(t))
  /\ UNCHANGED <<site, changed, mood, queue, store, budget>>

Ack ==
  /\ At("ack") /\ Authorized
  /\ Acknowledged(proc.task, "done", Fine)
  /\ Goto("flush")
  /\ UNCHANGED <<site, changed, mood, store, budget>>

Nack ==
  /\ At("nack") /\ Authorized
  /\ Acknowledged(proc.task, "dead", proc.error)
  /\ proc' = [proc EXCEPT !.pc = "flush", !.error = Fine]
  /\ UNCHANGED <<site, changed, mood, store, budget>>

Pending == {t \in Tasks : store[t].evidence = "pending"}
(* Events the ledger will not take any more.                               *)
Refused == {t \in Tasks : store[t].evidence = "refused"}
Sent(some) ==
  store' = [t \in Tasks |-> IF t \in some
                            THEN [store[t] EXCEPT !.evidence = "sent"]
                            ELSE store[t]]
(* The next iteration follows at once when there was a task.               *)
Continue == Iterate(IF proc.task = None THEN "sleep" ELSE "sync")

Flush ==
  /\ At("flush") /\ Refused = {}
  /\ Pending # {} => Authorized
  /\ Sent(Pending)
  /\ Continue
  /\ UNCHANGED <<site, changed, mood, queue, budget>>

(* A refused event is fatal.  Its lease is released, so that the next pass *)
(* meets it again; the rows before it were delivered.                      *)
MeetRefused ==
  /\ At("flush") /\ Refused # {} /\ Authorized
  /\ \E some \in SUBSET Pending : Sent(some)
  /\ Exit
  /\ UNCHANGED <<site, changed, mood, queue, budget>>

(* A request is about to be made.                                          *)
Calling ==
  \/ proc.pc \in {"sync", "ack", "nack"}
  \/ At("flush") /\ Pending \union Refused # {}

(* authorizeWorker's 401: fatal wherever the request was made.             *)
Reject ==
  /\ Calling /\ ~Authorized
  /\ Exit
  /\ UNCHANGED <<site, changed, mood, queue, store, budget>>

(* Five seconds pass.                                                      *)
Sleep ==
  /\ At("sleep")
  /\ Goto("sync")
  /\ queue' = [t \in Tasks |->
                 [queue[t] EXCEPT !.lease = IF @ = 0 THEN 0 ELSE @ - 1]]
  /\ UNCHANGED <<site, changed, mood, store, budget>>

-----------------------------------------------------------------------------
(* Lost requests and connections, refusals and crashes.                    *)

(* The connection of a task's transaction breaks, before the COMMIT or     *)
(* between the COMMIT and its answer: sql.begin throws all the same.       *)
Disconnect(t) ==
  /\ At("execute") /\ proc.task = t /\ Fault
  /\ \E e \in Disconnects : Caught(e)
  /\ \/ UNCHANGED store
     \/ Thrown(t) = Fine /\ Committed(t)
  /\ UNCHANGED <<site, changed, mood, queue>>

(* A timeout, a 429 or a 5xx of a sync: the task it may have claimed is    *)
(* leased to nobody.                                                       *)
LoseSync ==
  /\ At("sync") /\ Fault
  /\ Iterate("sleep")
  /\ \/ UNCHANGED queue
     \/ Authorized /\ \E t \in Tasks : Head(t) /\ Leased(t)
  /\ UNCHANGED <<site, changed, mood, store>>

(* Mutant: an acknowledgement that got no answer is a failure of the task. *)
LoseAck_Final ==
  /\ At("ack") /\ Fault
  /\ proc' = [proc EXCEPT !.pc = "nack", !.error = Unreadable]
  /\ UNCHANGED <<site, changed, mood, queue, store>>

(* The error of an acknowledgement is retryable or fatal, never reported.  *)
LoseAck ==
  /\ At("ack") /\ Fault
  /\ Iterate("sleep")
  /\ \/ UNCHANGED queue
     \/ Authorized /\ Acknowledged(proc.task, "done", Fine)
  /\ UNCHANGED <<site, changed, mood, store>>

LoseNack ==
  /\ At("nack") /\ Fault
  /\ Iterate("sleep")
  /\ \/ UNCHANGED queue
     \/ Authorized /\ Acknowledged(proc.task, "dead", proc.error)
  /\ UNCHANGED <<site, changed, mood, store>>

(* Deliveries that fail are put off and processOutbox returns all the      *)
(* same, unless the row chained to one of them is tried and refused, or    *)
(* the tables of the outbox cannot be reached.                             *)
FlushSome ==
  /\ At("flush") /\ Fault
  /\ \E some \in SUBSET Pending :
       /\ some # Pending \/ Refused # {}
       /\ some # {} => Authorized
       /\ Sent(some)
  /\ Continue \/ Iterate("sleep") \/ Exit
  /\ UNCHANGED <<site, changed, mood, queue>>

(* The ledger goes on from the predecessor of an event with the event of   *)
(* another replica (OutboxRelay), and can never take this one: 409.        *)
Strand(t) ==
  /\ t \in Pending /\ Fault
  /\ store' = [store EXCEPT ![t].evidence = "refused"]
  /\ UNCHANGED <<site, proc, changed, mood, queue>>

(* Any other 4xx but 429, and without effect: a timestamp outside the      *)
(* clock-skew window (401), a body, a task or a route that is not known    *)
(* (400, 404): fatal as well.                                              *)
RejectRequest ==
  /\ Calling /\ Fault
  /\ Exit
  /\ UNCHANGED <<site, changed, mood, queue, store>>

(* A crash, or a response that is not understood: the process ends, and    *)
(* what it held in memory with it.                                         *)
Crash ==
  /\ proc.pc # "down" /\ Fault
  /\ Exit
  /\ UNCHANGED <<site, changed, mood, queue, store>>

-----------------------------------------------------------------------------
(* Operators and the service that creates requests.                        *)

Edit == budget.edits > 0 /\ budget' = [budget EXCEPT !.edits = @ - 1]
Touch(what) == changed' = IF proc.pc = "down" THEN changed
                          ELSE changed \union {what}

(* Mutant: rotation issues a token and keeps the hash.                     *)
RotateKey_KeepsHash ==
  /\ Edit
  /\ client' = [client EXCEPT !.keyId = @ + 1, !.active = TRUE]
  /\ clobbered' = FALSE
  /\ UNCHANGED <<disk, schema, material, held, proc, changed, mood, queue,
                 store>>

(* AdminService.rotateClientKey: a new token, and the client is active.    *)
RotateKey ==
  /\ Edit
  /\ client' = [hash |-> client.keyId + 1, keyId |-> client.keyId + 1,
                active |-> TRUE]
  /\ clobbered' = FALSE
  /\ UNCHANGED <<disk, schema, material, held, proc, changed, mood, queue,
                 store>>

(* AdminService.deactivateClient.                                          *)
DeactivateClient ==
  /\ Edit
  /\ client.active /\ client' = [client EXCEPT !.active = FALSE]
  /\ UNCHANGED <<disk, schema, material, held, clobbered, proc, changed, mood,
                 queue, store>>

(* ensureClient, at every start of the API and in every createErasure-     *)
(* Request that is not a replay, before it looks at is_active: the hash is *)
(* that of WORKER_SHARED_SECRET again.                                     *)
EnsureClient ==
  /\ client.hash # Bootstrap
  /\ client' = [client EXCEPT !.hash = Bootstrap]
  /\ clobbered' = TRUE
  /\ UNCHANGED <<disk, schema, material, held, proc, changed, mood, queue,
                 store, budget>>

(* The token issued last is deployed; the next start reads it.             *)
Redeploy ==
  /\ held # client.keyId /\ held' = client.keyId
  /\ UNCHANGED <<disk, schema, material, client, clobbered, proc, changed,
                 mood, queue, store, budget>>

(* A release replaces two files, one after the other.                      *)
ReplaceFile(file, v) ==
  /\ Edit
  /\ disk[file] # v /\ disk' = [disk EXCEPT ![file] = v]
  /\ Touch("config")
  /\ UNCHANGED <<schema, material, client, held, clobbered, proc, mood, queue,
                 store>>

Migrate(s) ==
  /\ Edit
  /\ schema # s /\ schema' = s
  /\ Touch("schema")
  /\ UNCHANGED <<disk, material, client, held, clobbered, proc, mood, queue,
                 store>>

ReplaceKey(slot, key) ==
  /\ Edit
  /\ material[slot] # key /\ material' = [material EXCEPT ![slot] = key]
  /\ Touch("keys")
  /\ UNCHANGED <<disk, schema, client, held, clobbered, proc, mood, queue,
                 store>>

(* A cause of failure appears or is repaired.                              *)
Upset(t, e) ==
  /\ Edit
  /\ mood[t] # e /\ mood' = [mood EXCEPT ![t] = e]
  /\ UNCHANGED <<site, proc, changed, queue, store>>

-----------------------------------------------------------------------------

Run ==
  \/ \E late \in BOOLEAN : Start(late)
  \/ VerifyConfig \/ HashConfig \/ Configure \/ Inspect
  \/ Sync \/ Ack \/ Nack \/ Flush \/ MeetRefused \/ Reject \/ Sleep
  \/ \E t \in Tasks : Succeed(t) \/ Fail(t)
Disturb ==
  \/ LoseKey \/ LoseSync \/ LoseAck \/ LoseNack \/ FlushSome
  \/ RejectRequest \/ Crash
  \/ \E t \in Tasks : Disconnect(t) \/ Strand(t)
Operate ==
  \/ RotateKey \/ DeactivateClient \/ EnsureClient \/ Redeploy
  \/ \E v \in Versions, file \in {"yaml", "sig"} : ReplaceFile(file, v)
  \/ \E s \in Schemas : Migrate(s)
  \/ \E slot \in Slots, key \in Keys \union {NoKey} :
       ReplaceKey(slot, key)
  \/ \E t \in Tasks, e \in Errors \union {Fine} : Upset(t, e)

ProcessNext == Run \/ Disturb \/ Operate
ProcessSpec == ProcessInit /\ [][ProcessNext]_processVars

(* The supervisor starts the process again and its loop goes on; time      *)
(* passes between the lives of a process that is started again and again.  *)
FairProcessSpec ==
  ProcessSpec /\ WF_processVars(Run) /\ SF_processVars(Start(TRUE))

-----------------------------------------------------------------------------
(* Properties.                                                             *)

(* What a process does its work with is what its boot checked, or it was   *)
(* replaced since the process read it: the release it runs is the one      *)
(* whose signature it verified and whose hash it reports, its key is the   *)
(* one held by the source that release names, and the schema is the one    *)
(* that release was written for.                                           *)
RunsWhatWasChecked ==
  proc.pc \in Loop =>
    /\ "config" \notin changed =>
         /\ proc.cfg = proc.sent
         /\ SigningRequired => disk = [yaml |-> proc.cfg, sig |-> proc.cfg]
    /\ "keys" \notin changed =>
         proc.key = material[IF KeySource[proc.cfg] = NoSource THEN "env"
                             ELSE KeySource[proc.cfg]]
    /\ "schema" \notin changed => schema = SchemaOf[proc.cfg]

(* What the control plane holds against a given-up task is an error of its *)
(* own execution that worker.ts may report: no WorkerError that asks for a *)
(* retry or an exit, no abort, no listed SQLSTATE unless a DETAIL hid it.  *)
(* (A retry may well get past the other errors: see Disconnects.)  And the *)
(* transaction of a given-up task has not committed, unless the task was   *)
(* claimed again or the error is that of a connection which broke.         *)
GivenUpForCause ==
  \A t \in Tasks : queue[t].status = "dead" =>
    LET e == queue[t].error
    IN /\ Transient(e) => e.detail
       /\ e.kind = "worker" => ~e.retryable /\ ~e.fatal
       /\ e.kind \notin {"none", "timeout"}
       /\ store[t].committed => queue[t].claims = 2 \/ e \in Disconnects

(* What keeps a process that runs on from getting its work done: it cannot *)
(* authenticate (disabled, an old token, or a hash overwritten since the   *)
(* rotation), it cannot start, or a task ends each of its lives before the *)
(* flush.  Evidence is also kept by a refused event, which ends each of    *)
(* them in the flush.                                                      *)
LockedOut ==
  ~client.active \/ held # IF clobbered THEN Bootstrap ELSE client.keyId
CannotBoot ==
  \/ ~Signed
  \/ schema # SchemaOf[disk.yaml] \/ disk.yaml \notin Fits[schema]
  \/ ~Parsed(disk.yaml) \/ ~Decoded(MasterKey(disk.yaml))
Poisoned ==
  LET open(Bad(_)) == {t \in Tasks : Open(t) /\ Due(t) /\ mood[t] # Fine
                                    /\ Bad(mood[t])}
  IN open(Fatal) # {} \/ Cardinality(open(Retryable)) >= LeaseRounds
Jammed == Refused # {}
Stuck == LockedOut \/ CannotBoot \/ Poisoned

(* The evidence of what a task erased reaches the control plane, whatever  *)
(* retryable task is at the head of the queue: an iteration that throws    *)
(* does not flush, but the next one does while that task is leased.        *)
EvidenceGetsOut ==
  \/ \A t \in Tasks :
       store[t].evidence = "pending" ~> store[t].evidence = "sent"
  \/ <>[](Stuck \/ Jammed)

(* Every task that is due is finished or given up, unless its own error is *)
(* retryable: such a task is tried for ever, its attempts are not counted. *)
TaskSettles ==
  \A t \in Tasks :
    \/ <>~Open(t)
    \/ <>[](Stuck \/ ~Due(t) \/ (mood[t] # Fine /\ Retryable(mood[t])))
=============================================================================
