---------------------------- MODULE WorkerEngine ----------------------------
(***************************************************************************)
(* The worker's side of an erasure: the transactions that vault, notify    *)
(* about and shred a subject in the client's own database, and the chained *)
(* outbox row each of them writes.                                         *)
(*                                                                         *)
(* A mutation runs under REPEATABLE READ.  Its first statement takes the   *)
(* snapshot and a row lock (a Begin... action); the advisory lock on the   *)
(* chain is taken inside it and kept to the commit (a Commit... action),   *)
(* which still reads the chain's tail from the snapshot.  A transaction    *)
(* that fails before its commit leaves nothing behind.                     *)
(*                                                                         *)
(* The control plane is the environment: it may hand any task to any       *)
(* worker, in any order and more than once, as expired leases do.  A       *)
(* worker runs one task at a time.                                         *)
(***************************************************************************)
EXTENDS Naturals, FiniteSets

CONSTANTS
  Jobs,       (* erasure requests                                          *)
  Subjects,   (* rows of the configured root table                         *)
  SubjectOf,  (* the subject of each request                               *)
  Shadow,     (* the requests in shadow mode                               *)
  Dependent,  (* subjects with dependent tables or blob objects            *)
  StartAges,  (* ages a new vault row may have, see below                  *)
  Workers,    (* worker replicas                                           *)
  NoLock,     (* notification_lock_id IS NULL                              *)
  Genesis,    (* the previous hash of the first outbox row                 *)
  MaxClock    (* bound: tasks that may be started                          *)

TaskTypes  == {"VAULT_USER", "NOTIFY_USER", "SHRED_USER"}
EventTypes == {"USER_VAULTED", "USER_HARD_DELETED", "NOTIFICATION_SENT",
               "SHRED_SUCCESS"}
Keys == Jobs \X EventTypes
Hash == Keys \union {Genesis}

(* How far the clock is past the deadlines of a vault row.  resolve-       *)
(* RetentionWindow sets retention_expiry to now + years and notification_- *)
(* due_at to the later of now and the expiry less the notice window: a row *)
(* starts Expired under a policy of zero years, Open under one shorter     *)
(* than the notice window, Retained otherwise.                             *)
Retained == 0   \* before notification_due_at
Open     == 1   \* notification_due_at has passed, retention_expiry has not
Expired  == 2   \* retention_expiry has passed
Ages == 0..2

ASSUME EngineAssumption ==
  /\ SubjectOf \in [Jobs -> Subjects]
  /\ Shadow \subseteq Jobs /\ Dependent \subseteq Subjects
  /\ StartAges \subseteq Ages
  /\ NoLock \notin Workers /\ Genesis \notin Keys
  /\ MaxClock \in Nat

VARIABLES
  root,    (* the subject's row in the client's application schema         *)
  vault,   (* pii_vault, at most one row per subject                       *)
  keys,    (* user_keys: the subjects whose data key still exists          *)
  outbox,  (* outbox rows: event, previous hash, created_at                *)
  mailed,  (* notices the mail gateway took: subject and sending worker     *)
  acks,    (* what workers reported to the control plane                   *)
  clock,   (* tasks started so far; the order of their timestamps          *)
  proc     (* the task each worker is running                              *)

engineVars == <<root, vault, keys, outbox, mailed, acks, clock, proc>>

-----------------------------------------------------------------------------

NoVault == [job |-> "none"]
VaultRow == [job : Jobs, age : Ages, sent : BOOLEAN, shredded : BOOLEAN,
             lock : Workers \union {NoLock}, leased : BOOLEAN]
OutboxRow == [key : Keys, prev : Hash, at : 0..MaxClock]

Idle == [pc |-> "idle"]
Steps == {"start", "mutate", "mail", "record", "commit", "clear"}
(* now is the age of the subject's vault row when the task started: the    *)
(* whole task compares deadlines with one timestamp.  tail is the chain's  *)
(* tail in the snapshot of its current transaction.                        *)
Task == [pc : Steps, job : Jobs, type : TaskTypes, now : Ages,
         at : 0..MaxClock, tail : Hash]

EngineTypeOK ==
  /\ root \in [Subjects -> {"live", "masked", "deleted"}]
  /\ vault \in [Subjects -> VaultRow \union {NoVault}]
  /\ keys \subseteq Subjects
  /\ outbox \subseteq OutboxRow
  /\ mailed \subseteq Subjects \X Workers
  /\ acks \subseteq (Jobs \X TaskTypes \X {"completed", "failed"})
  /\ clock \in 0..MaxClock
  /\ proc \in [Workers -> Task \union {Idle}]

EngineInit ==
  /\ root = [s \in Subjects |-> "live"]
  /\ vault = [s \in Subjects |-> NoVault]
  /\ keys = {} /\ outbox = {} /\ mailed = {} /\ acks = {}
  /\ clock = 0
  /\ proc = [w \in Workers |-> Idle]

-----------------------------------------------------------------------------
(* The chain.                                                              *)

Enqueued(key) == \E r \in outbox : r.key = key

(* ORDER BY created_at DESC LIMIT 1, over what the snapshot shows.         *)
Tail ==
  IF outbox = {} THEN Genesis
  ELSE (CHOOSE r \in outbox : \A q \in outbox : q.at <= r.at).key

(* enqueueOutboxEvent, under the advisory lock, from worker w's snapshot.  *)
Enqueue(w, job, type) ==
  outbox' = IF Enqueued(<<job, type>>) THEN outbox
            ELSE outbox \union
                   {[key |-> <<job, type>>, prev |-> proc[w].tail,
                     at |-> proc[w].at]}

-----------------------------------------------------------------------------
(* Tasks.                                                                  *)

At(w, pc) == proc[w].pc = pc
Subject(w) == SubjectOf[proc[w].job]
Vaulted(s) == vault[s] # NoVault
Goto(w, pc) == proc' = [proc EXCEPT ![w].pc = pc]
(* The first statement of a transaction.                                   *)
Begin(w, pc) == proc' = [proc EXCEPT ![w].pc = pc, ![w].tail = Tail]
(* Mutant: rows are read without FOR UPDATE.                               *)
Locked_Never(s) == FALSE

(* The rows of subject s are locked by a transaction in progress.          *)
Locked(s) ==
  \E w \in Workers : proc[w].pc \in {"mutate", "commit"} /\ Subject(w) = s

(* The task ends and is acknowledged with the given status, unless the     *)
(* worker dies first or the acknowledgement is lost.                       *)
Ack(w, status) ==
  /\ acks' \in {acks, acks \union {<<proc[w].job, proc[w].type, status>>}}
  /\ proc' = [proc EXCEPT ![w] = Idle]

(* Mutant: a retryable error is acknowledged too, with its own status.     *)
Retry_Reported(w) ==
  /\ acks' = acks \union {<<proc[w].job, proc[w].type, "retry">>}
  /\ proc' = [proc EXCEPT ![w] = Idle]

(* Mutant: a retryable error is acknowledged as a completed task.          *)
Retry_Completed(w) == Ack(w, "completed")

(* It ends on a retryable error: nothing is acknowledged, and the control  *)
(* plane's lease runs out.                                                 *)
Retry(w) == proc' = [proc EXCEPT ![w] = Idle] /\ UNCHANGED acks

StartTask(w, j, type) ==
  /\ proc[w] = Idle
  /\ clock < MaxClock
  /\ clock' = clock + 1
  /\ LET s == SubjectOf[j]
     IN proc' = [proc EXCEPT ![w] =
                   [pc |-> "start", job |-> j, type |-> type,
                    now |-> IF Vaulted(s) THEN vault[s].age ELSE Retained,
                    at |-> clock, tail |-> Genesis]]
  /\ UNCHANGED <<root, vault, keys, outbox, mailed, acks>>

Starting(w, type) ==
  At(w, "start") /\ proc[w].type = type /\ ~Locked(Subject(w))

-----------------------------------------------------------------------------
(* VAULT_USER.                                                             *)

(* SELECT ... FOR UPDATE of the root row, then the vault row: the work may *)
(* be done already, by this request or another one for the subject.        *)
BeginVault(w) ==
  /\ Starting(w, "VAULT_USER")
  /\ LET s == Subject(w)
     IN \/ /\ Vaulted(s)
           /\ Ack(w, "completed")
        \/ /\ ~Vaulted(s) /\ root[s] = "deleted"
           /\ Ack(w, IF Enqueued(<<proc[w].job, "USER_HARD_DELETED">>)
                     THEN "completed" ELSE "failed")
        \/ /\ ~Vaulted(s) /\ root[s] # "deleted"
           /\ Begin(w, "mutate")
           /\ UNCHANGED acks
  /\ UNCHANGED <<root, vault, keys, outbox, mailed, clock>>

NewVault(w, age) ==
  [job |-> proc[w].job, age |-> age, sent |-> FALSE, shredded |-> FALSE,
   lock |-> NoLock, leased |-> FALSE]

(* runVaultMutation: hard delete, vault, or roll a shadow run back.        *)
CommitVault(w) ==
  /\ At(w, "mutate") /\ proc[w].type = "VAULT_USER"
  /\ LET s == Subject(w)
     IN \/ /\ proc[w].job \in Shadow
           /\ UNCHANGED <<root, vault, keys, outbox>>
        \/ /\ proc[w].job \notin Shadow /\ s \notin Dependent
           /\ root' = [root EXCEPT ![s] = "deleted"]
           /\ Enqueue(w, proc[w].job, "USER_HARD_DELETED")
           /\ UNCHANGED <<vault, keys>>
        \/ /\ proc[w].job \notin Shadow /\ s \in Dependent
           /\ \E age \in StartAges : vault' = [vault EXCEPT ![s] =
                                                 NewVault(w, age)]
           /\ keys' = keys \union {s}
           /\ root' = [root EXCEPT ![s] = "masked"]
           /\ Enqueue(w, proc[w].job, "USER_VAULTED")
  /\ Ack(w, "completed")
  /\ UNCHANGED <<mailed, clock>>

-----------------------------------------------------------------------------
(* NOTIFY_USER: reserve, mail, record.                                     *)

(* reserveNotice.  A notice that is not due yet is acknowledged as done.   *)
ReserveNotice(w) ==
  /\ Starting(w, "NOTIFY_USER")
  /\ LET s == Subject(w)
         v == vault[s]
     IN \/ /\ \/ ~Vaulted(s)
              \/ Vaulted(s) /\ v.shredded
              \/ Vaulted(s) /\ ~v.sent /\ proc[w].now = Expired
           /\ Ack(w, "failed")
           /\ UNCHANGED vault
        \/ /\ Vaulted(s) /\ ~v.shredded
           /\ v.sent \/ proc[w].now = Retained
           /\ Ack(w, "completed")
           /\ UNCHANGED vault
        \/ /\ Vaulted(s) /\ ~v.shredded /\ ~v.sent /\ proc[w].now = Open
           /\ v.leased
           /\ Retry(w)
           /\ UNCHANGED vault
        \/ /\ Vaulted(s) /\ ~v.shredded /\ ~v.sent /\ proc[w].now = Open
           /\ ~v.leased
           /\ vault' = [vault EXCEPT ![s].lock = w, ![s].leased = TRUE]
           /\ Goto(w, "mail")
           /\ UNCHANGED acks
  /\ UNCHANGED <<root, keys, outbox, mailed, clock>>

(* The gateway may take the mail and the answer still be lost.             *)
SendMail(w, reached, answered) ==
  /\ At(w, "mail")
  /\ answered => reached
  /\ mailed' = IF reached THEN mailed \union {<<Subject(w), w>>}
                          ELSE mailed
  /\ Goto(w, IF answered THEN "record" ELSE "clear")
  /\ UNCHANGED <<root, vault, keys, outbox, acks, clock>>

(* The UPDATE that records the notice is conditional on the lease.         *)
BeginRecord(w) ==
  /\ At(w, "record") /\ ~Locked(Subject(w))
  /\ LET v == vault[Subject(w)]
     IN IF v.lock = w /\ ~v.sent THEN Begin(w, "commit") ELSE Goto(w, "clear")
  /\ UNCHANGED <<root, vault, keys, outbox, mailed, acks, clock>>

CommitRecord(w) ==
  /\ At(w, "commit") /\ proc[w].type = "NOTIFY_USER"
  /\ LET s == Subject(w)
     IN /\ vault' = [vault EXCEPT ![s].sent = TRUE, ![s].lock = NoLock,
                                  ![s].leased = FALSE]
        /\ Enqueue(w, vault[s].job, "NOTIFICATION_SENT")
  /\ Ack(w, "completed")
  /\ UNCHANGED <<root, keys, mailed, clock>>

(* The recording transaction fails.                                        *)
FailRecord(w) ==
  /\ At(w, "commit") /\ proc[w].type = "NOTIFY_USER"
  /\ Goto(w, "clear")
  /\ UNCHANGED <<root, vault, keys, outbox, mailed, acks, clock>>

(* clearNoticeLease in the error path, then the error goes up: the mail    *)
(* gateway or the database may have answered with a final one.             *)
ClearLease(w) ==
  /\ At(w, "clear") /\ ~Locked(Subject(w))
  /\ LET s == Subject(w)
     IN vault' = IF vault[s].lock = w
                 THEN [vault EXCEPT ![s].lock = NoLock, ![s].leased = FALSE]
                 ELSE vault
  /\ Retry(w) \/ Ack(w, "failed")
  /\ UNCHANGED <<root, keys, outbox, mailed, clock>>

-----------------------------------------------------------------------------
(* SHRED_USER.                                                             *)

(* Mutant: the notice is not required.                                     *)
BeginShred_NoNotice(w) ==
  /\ Starting(w, "SHRED_USER")
  /\ LET v == vault[Subject(w)]
     IN IF ~Vaulted(Subject(w)) \/ proc[w].now # Expired THEN Ack(w, "failed")
        ELSE IF v.shredded THEN Ack(w, "completed")
        ELSE Begin(w, "mutate") /\ UNCHANGED acks
  /\ UNCHANGED <<root, vault, keys, outbox, mailed, clock>>

(* SELECT ... FOR UPDATE of the vault row and the preconditions.           *)
BeginShred(w) ==
  /\ Starting(w, "SHRED_USER")
  /\ LET s == Subject(w)
         v == vault[s]
     IN \/ /\ \/ ~Vaulted(s)
              \/ Vaulted(s) /\ ~v.shredded /\ proc[w].now # Expired
              \/ Vaulted(s) /\ ~v.shredded /\ ~v.sent
           /\ Ack(w, "failed")
        \/ /\ Vaulted(s) /\ v.shredded
           /\ Ack(w, "completed")
        \/ /\ Vaulted(s) /\ ~v.shredded /\ v.sent /\ proc[w].now = Expired
           /\ Begin(w, "mutate")
           /\ UNCHANGED acks
  /\ UNCHANGED <<root, vault, keys, outbox, mailed, clock>>

(* Mutant: the row of user_keys is not deleted.                            *)
CommitShred_KeepsKey(w) ==
  /\ At(w, "mutate") /\ proc[w].type = "SHRED_USER"
  /\ LET s == Subject(w)
     IN /\ vault' = [vault EXCEPT ![s].shredded = TRUE]
        /\ Enqueue(w, vault[s].job, "SHRED_SUCCESS")
  /\ Ack(w, "completed")
  /\ UNCHANGED <<root, keys, mailed, clock>>

(* The key and the ciphertext go in one transaction with the evidence.     *)
CommitShred(w) ==
  /\ At(w, "mutate") /\ proc[w].type = "SHRED_USER"
  /\ LET s == Subject(w)
     IN /\ keys' = keys \ {s}
        /\ vault' = [vault EXCEPT ![s].shredded = TRUE]
        /\ Enqueue(w, vault[s].job, "SHRED_SUCCESS")
  /\ Ack(w, "completed")
  /\ UNCHANGED <<root, mailed, clock>>

-----------------------------------------------------------------------------
(* Time and failure.                                                       *)

DeadlinePasses(s) ==
  /\ Vaulted(s) /\ vault[s].age < Expired
  /\ vault' = [vault EXCEPT ![s].age = @ + 1]
  /\ UNCHANGED <<root, keys, outbox, mailed, acks, clock, proc>>

NoticeLeaseExpires(s) ==
  /\ Vaulted(s) /\ vault[s].leased
  /\ vault' = [vault EXCEPT ![s].leased = FALSE]
  /\ UNCHANGED <<root, keys, outbox, mailed, acks, clock, proc>>

(* The process dies, or a statement fails with a retryable error (a lock   *)
(* timeout, a serialization failure): the transaction rolls back.          *)
Crash(w) ==
  /\ proc[w] # Idle
  /\ Retry(w)
  /\ UNCHANGED <<root, vault, keys, outbox, mailed, clock>>

(* A statement of the mutation fails with an error that is not retryable.  *)
FailTask(w) ==
  /\ proc[w].pc \in {"start", "mutate"}
  /\ Ack(w, "failed")
  /\ UNCHANGED <<root, vault, keys, outbox, mailed, clock>>

-----------------------------------------------------------------------------

WorkerStep(w) ==
  \/ BeginVault(w) \/ CommitVault(w)
  \/ ReserveNotice(w) \/ BeginRecord(w) \/ CommitRecord(w)
  \/ FailRecord(w) \/ ClearLease(w)
  \/ \E reached, answered \in BOOLEAN : SendMail(w, reached, answered)
  \/ BeginShred(w) \/ CommitShred(w)

EngineNext ==
  \/ \E w \in Workers, j \in Jobs, type \in TaskTypes : StartTask(w, j, type)
  \/ \E w \in Workers : WorkerStep(w) \/ FailTask(w) \/ Crash(w)
  \/ \E s \in Subjects : DeadlinePasses(s) \/ NoticeLeaseExpires(s)

EngineSpec == EngineInit /\ [][EngineNext]_engineVars

-----------------------------------------------------------------------------
(* Safety properties.                                                      *)

(* The evidence of a subject is exactly what its rows show was done, each  *)
(* stage once and by the request that vaulted it: also when tasks are      *)
(* repeated, run twice at the same time, or die between two transactions,  *)
(* and when two requests name one subject.                                 *)
Evidence(s) == {r.key : r \in {q \in outbox : SubjectOf[q.key[1]] = s}}
VaultEvidence(v) ==
  {<<v.job, "USER_VAULTED">>}
    \union {key \in {<<v.job, "NOTIFICATION_SENT">>} : v.sent}
    \union {key \in {<<v.job, "SHRED_SUCCESS">>} : v.shredded}
EvidenceMatches ==
  \A s \in Subjects :
    /\ root[s] = "live" => ~Vaulted(s) /\ Evidence(s) = {}
    /\ root[s] = "masked" => Vaulted(s) /\ Evidence(s) = VaultEvidence(vault[s])
    /\ root[s] = "deleted" =>
         /\ ~Vaulted(s)
         /\ \E j \in Jobs \ Shadow : Evidence(s) = {<<j, "USER_HARD_DELETED">>}

(* Masked data can be recovered until its retention is over and the        *)
(* subject was really sent a notice, and never afterwards.                 *)
ErasureRespectsRetention ==
  \A s \in Subjects : Vaulted(s) =>
    /\ s \in keys <=> ~vault[s].shredded
    /\ vault[s].shredded => /\ vault[s].age = Expired
                            /\ vault[s].sent
                            /\ \E m \in mailed : m[1] = s

(* What a worker reports as completed was done, durably: the reply of a    *)
(* transaction that did not commit is never one of success.                *)
AcksAreEarned ==
  \A a \in acks : a[3] = "completed" =>
    LET s == SubjectOf[a[1]]
    IN /\ a[2] = "VAULT_USER" /\ a[1] \notin Shadow => root[s] # "live"
       /\ a[2] = "NOTIFY_USER" => Vaulted(s)
       /\ a[2] = "SHRED_USER" => Vaulted(s) /\ vault[s].shredded

(* The outbox is one chain: every row extends the genesis or another row,  *)
(* and no two rows extend the same.                                        *)
ChainLinear ==
  /\ \A r \in outbox : r.prev = Genesis \/ Enqueued(r.prev)
  /\ \A q, r \in outbox : q.prev = r.prev => q = r
=============================================================================
