------------------------- MODULE WorkerEngineProofs -------------------------
(***************************************************************************)
(* Proofs about WorkerEngine, for any number of workers, requests and      *)
(* subjects: the types, that the evidence matches the database, that a     *)
(* subject's key outlives its retention and its notice, and that only work *)
(* that was done is reported as completed.                                 *)
(***************************************************************************)
EXTENDS WorkerEngine, TLAPS

USE DEF Retained, Open, Expired, Ages

-----------------------------------------------------------------------------
(* The inductive invariant.                                                *)

(* There is a row that is the chain's tail.                                *)
HasTail ==
  outbox # {} => \E r \in outbox : \A q \in outbox : q.at <= r.at

Holds(w) == proc[w].pc \in {"mutate", "commit"}
LocksExclude ==
  \A v, w \in Workers :
    v # w /\ Holds(v) /\ Holds(w) => Subject(v) # Subject(w)

(* What a running task has read, or was let past, still holds: the row it  *)
(* locked is as it found it, and deadlines only pass.                      *)
TaskGrounded(w) ==
  proc[w] # Idle =>
    LET s == Subject(w)
        v == vault[s]
    IN /\ proc[w].now # Retained => Vaulted(s) /\ proc[w].now <= v.age
       /\ proc[w].pc = "mutate" /\ proc[w].type = "VAULT_USER" =>
            ~Vaulted(s) /\ root[s] # "deleted"
       /\ proc[w].pc = "mutate" /\ proc[w].type = "SHRED_USER" =>
            Vaulted(s) /\ ~v.shredded /\ v.sent /\ proc[w].now = Expired
       /\ proc[w].pc = "commit" => Vaulted(s) /\ ~v.sent
       /\ proc[w].pc \in {"record", "commit"} =>
            proc[w].type = "NOTIFY_USER" /\ <<s, w>> \in mailed
       /\ proc[w].pc \in {"mail", "clear"} => proc[w].type = "NOTIFY_USER"
       /\ proc[w].pc \in {"mail", "record", "clear"} => Vaulted(s)

(* A vault row belongs to a request for its subject, and its stages follow *)
(* one another.                                                            *)
VaultOrder ==
  \A s \in Subjects : Vaulted(s) =>
    /\ SubjectOf[vault[s].job] = s
    /\ vault[s].sent => \E m \in mailed : m[1] = s

EngineInv ==
  /\ EngineTypeOK
  /\ HasTail
  /\ LocksExclude
  /\ \A w \in Workers : TaskGrounded(w)
  /\ VaultOrder
  /\ ErasureRespectsRetention
  /\ EvidenceMatches
  /\ AcksAreEarned
-----------------------------------------------------------------------------
(* Types of the parts.                                                     *)

(* A worker that is not idle runs a task of one of the subjects.           *)
LEMMA Running ==
  ASSUME EngineTypeOK, NEW w \in Workers, proc[w].pc # "idle"
  PROVE  /\ proc[w] \in Task /\ proc[w] # Idle
         /\ Subject(w) \in Subjects
         /\ vault[Subject(w)] \in VaultRow \union {NoVault}
<1>1. proc[w] \in Task
  BY DEF EngineTypeOK, Idle
<1>2. proc[w].job \in Jobs
  BY <1>1 DEF Task
<1> QED BY <1>1, <1>2, EngineAssumption DEF EngineTypeOK, Idle, Subject

LEMMA StepNames ==
  ASSUME EngineTypeOK, NEW w \in Workers, NEW pc \in Steps, At(w, pc)
  PROVE  proc[w].pc # "idle"
BY DEF At, Steps

LEMMA VaultIsRow ==
  ASSUME EngineTypeOK, NEW s \in Subjects, Vaulted(s)
  PROVE  vault[s] \in VaultRow
BY DEF EngineTypeOK, Vaulted

(* A row of the vault is not the absent row.                               *)
LEMMA RowIsVaulted ==
  ASSUME NEW v \in VaultRow
  PROVE  v # NoVault
<1>1. "age" \in DOMAIN v
  BY DEF VaultRow
<1>2. "age" \notin DOMAIN NoVault
  BY DEF NoVault
<1> QED BY <1>1, <1>2

LEMMA TailType ==
  ASSUME EngineTypeOK, HasTail
  PROVE  Tail \in Hash
<1>1. CASE outbox = {}
  BY <1>1 DEF Tail, Hash
<1>2. CASE outbox # {}
  <2>1. PICK r \in outbox : \A q \in outbox : q.at <= r.at
    BY <1>2 DEF HasTail
  <2>2. (CHOOSE p \in outbox : \A q \in outbox : q.at <= p.at) \in outbox
    BY <2>1
  <2> QED BY <1>2, <2>2 DEF Tail, Hash, EngineTypeOK, OutboxRow
<1> QED BY <1>1, <1>2

LEMMA GotoType ==
  ASSUME EngineTypeOK, NEW w \in Workers, proc[w].pc # "idle",
         NEW pc \in Steps, Goto(w, pc)
  PROVE  /\ proc' \in [Workers -> Task \union {Idle}]
         /\ proc'[w] = [proc[w] EXCEPT !.pc = pc]
         /\ \A v \in Workers \ {w} : proc'[v] = proc[v]
<1>1. proc[w] \in Task
  BY Running
<1>2. [proc[w] EXCEPT !.pc = pc] \in Task
  BY <1>1 DEF Task
<1>3. proc' = [proc EXCEPT ![w] = [proc[w] EXCEPT !.pc = pc]]
  BY DEF Goto
<1> QED BY <1>2, <1>3 DEF EngineTypeOK

LEMMA BeginType ==
  ASSUME EngineTypeOK, HasTail, NEW w \in Workers, proc[w].pc # "idle",
         NEW pc \in Steps, Begin(w, pc)
  PROVE  /\ proc' \in [Workers -> Task \union {Idle}]
         /\ proc'[w] = [proc[w] EXCEPT !.pc = pc, !.tail = Tail]
         /\ \A v \in Workers \ {w} : proc'[v] = proc[v]
<1>1. proc[w] \in Task /\ Tail \in Hash
  BY Running, TailType
<1>2. [proc[w] EXCEPT !.pc = pc, !.tail = Tail] \in Task
  BY <1>1 DEF Task
<1>3. proc' = [proc EXCEPT ![w] = [proc[w] EXCEPT !.pc = pc, !.tail = Tail]]
  BY DEF Begin
<1> QED BY <1>2, <1>3 DEF EngineTypeOK

LEMMA AckType ==
  ASSUME EngineTypeOK, NEW w \in Workers, proc[w].pc # "idle",
         NEW status \in {"completed", "failed"}, Ack(w, status) \/ Retry(w)
  PROVE  /\ proc' = [proc EXCEPT ![w] = Idle]
         /\ proc' \in [Workers -> Task \union {Idle}]
         /\ acks' \subseteq (Jobs \X TaskTypes \X {"completed", "failed"})
<1>1. proc[w].job \in Jobs /\ proc[w].type \in TaskTypes
  BY Running DEF Task
<1>2. proc' = [proc EXCEPT ![w] = Idle]
  BY DEF Ack, Retry
<1>3. acks' = acks \/ acks' = acks \union {<<proc[w].job, proc[w].type, status>>}
  BY DEF Ack, Retry
<1> QED BY <1>1, <1>2, <1>3 DEF EngineTypeOK

(* An append keeps the rows' type and a tail.                              *)
LEMMA EnqueueType ==
  ASSUME EngineTypeOK, HasTail, NEW w \in Workers, proc[w].pc # "idle",
         NEW j \in Jobs, NEW type \in EventTypes, Enqueue(w, j, type)
  PROVE  outbox' \subseteq OutboxRow /\ HasTail'
<1> DEFINE new == [key |-> <<j, type>>, prev |-> proc[w].tail, at |-> proc[w].at]
<1>1. new \in OutboxRow
  BY Running DEF OutboxRow, Keys, Task
<1>2. outbox' = outbox \/ outbox' = outbox \union {new}
  BY DEF Enqueue
<1>3. outbox' \subseteq OutboxRow
  BY <1>1, <1>2 DEF EngineTypeOK
<1>4. \A q \in outbox' : q.at \in Nat
  BY <1>3, EngineAssumption DEF OutboxRow
<1>5. HasTail'
  <2>1. CASE outbox' = outbox
    BY <2>1 DEF HasTail
  <2>2. CASE outbox = {} /\ outbox' = {new}
    BY <2>2, <1>4 DEF HasTail
  <2>3. CASE outbox # {} /\ outbox' = outbox \union {new}
    <3>1. PICK r \in outbox : \A q \in outbox : q.at <= r.at
      BY <2>3 DEF HasTail
    <3> HIDE DEF new
    <3>2. new.at \in Nat /\ r.at \in Nat /\ r \in outbox' /\ new \in outbox'
      BY <1>4, <2>3, <3>1
    <3>3. CASE new.at <= r.at
      BY <2>3, <3>1, <3>2, <3>3 DEF HasTail
    <3>4. CASE r.at <= new.at
      <4>1. \A q \in outbox' : q.at <= new.at
        BY <1>4, <2>3, <3>1, <3>2, <3>4
      <4> QED BY <4>1, <3>2 DEF HasTail
    <3> QED BY <3>2, <3>3, <3>4
  <2> QED BY <1>2, <2>1, <2>2, <2>3
<1> QED BY <1>3, <1>5
-----------------------------------------------------------------------------
(* Steps that change neither data nor evidence.                            *)

(* Vault rows keep their stages; leases and the clock may move on.         *)
SameStages ==
  \A s \in Subjects :
    /\ Vaulted(s)' <=> Vaulted(s)
    /\ Vaulted(s) => /\ vault'[s].job = vault[s].job
                     /\ vault'[s].sent = vault[s].sent
                     /\ vault'[s].shredded = vault[s].shredded
                     /\ vault[s].age <= vault'[s].age
Steady ==
  /\ UNCHANGED <<root, keys, outbox>>
  /\ mailed \subseteq mailed'
  /\ SameStages

LEMMA SameVault == ASSUME EngineTypeOK, vault' = vault PROVE SameStages
<1>1. ASSUME NEW s \in Subjects, Vaulted(s) PROVE vault[s].age <= vault[s].age
  BY <1>1, VaultIsRow DEF VaultRow
<1> QED BY <1>1 DEF SameStages, Vaulted

LEMMA ExpiredStays ==
  ASSUME EngineTypeOK, EngineTypeOK', SameStages, NEW s \in Subjects,
         Vaulted(s), NEW n \in Ages, n <= vault[s].age
  PROVE  n <= vault'[s].age
<1>1. vault[s] \in VaultRow /\ vault'[s] \in VaultRow
  BY VaultIsRow DEF SameStages, EngineTypeOK, Vaulted
<1>2. vault[s].age \in Nat /\ vault'[s].age \in Nat /\ n \in Nat
  BY <1>1 DEF VaultRow
<1> QED BY <1>2 DEF SameStages

LEMMA SteadyData ==
  ASSUME EngineInv, EngineTypeOK', Steady
  PROVE  /\ HasTail' /\ VaultOrder' /\ ErasureRespectsRetention'
         /\ EvidenceMatches'
<1> USE DEF Steady
<1>1. HasTail' /\ VaultOrder'
  BY DEF EngineInv, HasTail, VaultOrder, SameStages
<1>2. ASSUME NEW s \in Subjects, Vaulted(s), vault[s].age = Expired
      PROVE  vault'[s].age = Expired
  <2>1. Expired <= vault'[s].age
    BY <1>2, ExpiredStays DEF EngineInv
  <2>2. vault'[s] \in VaultRow
    BY <1>2 DEF SameStages, EngineTypeOK, Vaulted
  <2> QED BY <2>1, <2>2 DEF VaultRow
<1>3. ErasureRespectsRetention'
  BY <1>2 DEF EngineInv, ErasureRespectsRetention, SameStages
<1>4. ASSUME NEW s \in Subjects, Vaulted(s)
      PROVE  VaultEvidence(vault'[s]) = VaultEvidence(vault[s])
  BY <1>4 DEF VaultEvidence, SameStages
<1>5. EvidenceMatches'
  BY <1>4 DEF EngineInv, EvidenceMatches, Evidence, SameStages
<1> QED BY <1>1, <1>3, <1>5

(* A task that did not move stays grounded.                                *)
LEMMA SteadyTask ==
  ASSUME EngineInv, EngineTypeOK', Steady, NEW v \in Workers,
         proc'[v] = proc[v]
  PROVE  TaskGrounded(v)'
<1>1. CASE proc[v] = Idle
  BY <1>1 DEF TaskGrounded
<1>2. CASE proc[v] # Idle
  <2>1. proc[v] \in Task /\ Subject(v) \in Subjects /\ Subject(v)' = Subject(v)
    BY <1>2, EngineAssumption DEF EngineInv, EngineTypeOK, Task, Subject
  <2>2. proc[v].now \in Ages
    BY <2>1 DEF Task
  <2>3. proc[v].now # Retained => proc[v].now <= vault'[Subject(v)].age
    BY <1>2, <2>1, <2>2, ExpiredStays DEF EngineInv, TaskGrounded, Steady
  <2> QED BY <1>2, <2>1, <2>3 DEF EngineInv, TaskGrounded, Steady, SameStages
<1> QED BY <1>1, <1>2

LEMMA LockStep ==
  ASSUME EngineInv, NEW w \in Workers,
         \A v \in Workers \ {w} : proc'[v] = proc[v],
         Holds(w)' => /\ proc'[w].job = proc[w].job
                      /\ Holds(w) \/ ~Locked(Subject(w))
  PROVE  LocksExclude'
BY DEF EngineInv, LocksExclude, Holds, Locked, Subject

(* What a completed task's acknowledgement says.                           *)
Earned(j, type) ==
  LET s == SubjectOf[j]
  IN /\ type = "VAULT_USER" /\ j \notin Shadow => root[s] # "live"
     /\ type = "NOTIFY_USER" => Vaulted(s)
     /\ type = "SHRED_USER" => Vaulted(s) /\ vault[s].shredded

LEMMA AckStep ==
  ASSUME EngineInv, NEW j \in Jobs, NEW type \in TaskTypes, NEW status,
         acks' = acks \/ acks' = acks \union {<<j, type, status>>},
         status = "completed" => Earned(j, type)',
         \A s \in Subjects :
           /\ root'[s] = "live" => root[s] = "live"
           /\ Vaulted(s) => Vaulted(s)'
           /\ Vaulted(s) /\ vault[s].shredded => vault'[s].shredded
  PROVE  AcksAreEarned'
<1> SUFFICES ASSUME NEW a \in acks', a[3] = "completed"
             PROVE  Earned(a[1], a[2])'
  BY DEF AcksAreEarned, Earned
<1>1. CASE a \in acks
  <2>1. SubjectOf[a[1]] \in Subjects
    BY <1>1, EngineAssumption DEF EngineInv, EngineTypeOK
  <2>2. Earned(a[1], a[2])
    BY <1>1 DEF EngineInv, AcksAreEarned, Earned
  <2> QED BY <2>1, <2>2 DEF Earned
<1>2. CASE a = <<j, type, status>>
  BY <1>2
<1> QED BY <1>1, <1>2

(* A steady step of one worker: what is left is its own task and what it   *)
(* reports.                                                                *)
LEMMA SteadyStep ==
  ASSUME EngineInv, EngineTypeOK', Steady, NEW w \in Workers,
         \A v \in Workers \ {w} : proc'[v] = proc[v],
         TaskGrounded(w)',
         Holds(w)' => /\ proc'[w].job = proc[w].job
                      /\ Holds(w) \/ ~Locked(Subject(w)),
         AcksAreEarned'
  PROVE  EngineInv'
BY SteadyData, SteadyTask, LockStep DEF EngineInv

(* Nothing but time passes.                                                *)
LEMMA SteadyTime ==
  ASSUME EngineInv, EngineTypeOK', Steady, UNCHANGED <<proc, acks>>
  PROVE  EngineInv'
<1>1. LocksExclude'
  BY DEF EngineInv, LocksExclude, Holds, Subject
<1>2. AcksAreEarned'
  BY EngineAssumption
     DEF EngineInv, EngineTypeOK, AcksAreEarned, Steady, SameStages
<1> QED BY <1>1, <1>2, SteadyData, SteadyTask DEF EngineInv
-----------------------------------------------------------------------------
(* The actions that touch neither data nor evidence.                       *)

(* Acks that stay as they are stay earned.                                 *)
LEMMA SameAcks ==
  ASSUME EngineInv, Steady, acks' = acks
  PROVE  AcksAreEarned'
BY EngineAssumption
   DEF EngineInv, EngineTypeOK, AcksAreEarned, Steady, SameStages

(* The end of a task, with nothing else to do.                             *)
LEMMA EndStep ==
  ASSUME EngineInv, NEW w \in Workers, proc[w].pc # "idle",
         NEW j \in Jobs, j = proc[w].job,
         NEW type \in TaskTypes, type = proc[w].type,
         NEW status \in {"completed", "failed"}, Ack(w, status) \/ Retry(w),
         Steady, mailed' = mailed, clock' = clock,
         vault' \in [Subjects -> VaultRow \union {NoVault}],
         status = "completed" /\ Ack(w, status) => Earned(j, type)'
  PROVE  EngineInv'
<1> USE DEF EngineInv
<1>1. /\ proc' = [proc EXCEPT ![w] = Idle]
      /\ proc' \in [Workers -> Task \union {Idle}]
      /\ acks' \subseteq (Jobs \X TaskTypes \X {"completed", "failed"})
  BY AckType
<1>2. EngineTypeOK'
  BY <1>1 DEF EngineTypeOK, Steady
<1>3. proc'[w] = Idle /\ \A v \in Workers \ {w} : proc'[v] = proc[v]
  BY <1>1 DEF EngineTypeOK
<1>4. TaskGrounded(w)' /\ ~Holds(w)'
  BY <1>3 DEF TaskGrounded, Holds, Idle
<1>5. AcksAreEarned'
  <2>2. \A s \in Subjects :
          /\ root'[s] = "live" => root[s] = "live"
          /\ Vaulted(s) => Vaulted(s)'
          /\ Vaulted(s) /\ vault[s].shredded => vault'[s].shredded
    BY DEF Steady, SameStages
  <2>3. CASE acks' = acks
    BY <2>3, SameAcks
  <2>4. CASE Ack(w, status)
    <3>1. acks' = acks \/ acks' = acks \union {<<j, type, status>>}
      BY <2>4 DEF Ack
    <3>2. status = "completed" => Earned(j, type)'
      BY <2>4
    <3> QED BY <2>2, <3>1, <3>2, AckStep
  <2> QED BY <2>3, <2>4 DEF Retry
<1> QED BY <1>2, <1>3, <1>4, <1>5, SteadyStep

(* A worker that goes on to another step, its data untouched.              *)
LEMMA MoveStep ==
  ASSUME EngineInv, NEW w \in Workers, proc[w].pc # "idle",
         NEW pc \in Steps, Goto(w, pc) \/ Begin(w, pc),
         Steady, acks' = acks, clock' = clock,
         mailed' \subseteq Subjects \X Workers,
         vault' \in [Subjects -> VaultRow \union {NoVault}],
         pc \in {"mutate", "commit"} => Holds(w) \/ ~Locked(Subject(w)),
         TaskGrounded(w)'
  PROVE  EngineInv'
<1> USE DEF EngineInv
<1>1. /\ proc' \in [Workers -> Task \union {Idle}]
      /\ \A v \in Workers \ {w} : proc'[v] = proc[v]
      /\ proc'[w].pc = pc /\ proc'[w].job = proc[w].job
  <2>1. proc[w] \in Task
    BY Running
  <2>2. CASE Goto(w, pc)
    BY <2>1, <2>2, GotoType DEF Task
  <2>3. CASE Begin(w, pc)
    <3>1. EngineTypeOK /\ HasTail /\ proc[w].pc # "idle"
      OBVIOUS
    <3> HIDE DEF EngineInv
    <3>2. /\ proc' \in [Workers -> Task \union {Idle}]
          /\ proc'[w] = [proc[w] EXCEPT !.pc = pc, !.tail = Tail]
          /\ \A v \in Workers \ {w} : proc'[v] = proc[v]
      BY <2>3, <3>1, BeginType
    <3> QED BY <2>1, <3>2 DEF Task
  <2> QED BY <2>2, <2>3
<1>2. EngineTypeOK'
  BY <1>1 DEF EngineTypeOK, Steady
<1> QED BY <1>1, <1>2, SameAcks, SteadyStep DEF Holds

LEMMA StartStep ==
  ASSUME EngineInv, NEW w \in Workers, NEW j \in Jobs, NEW type \in TaskTypes,
         StartTask(w, j, type)
  PROVE  EngineInv'
<1> USE DEF EngineInv
<1> DEFINE s == SubjectOf[j]
           now == IF Vaulted(s) THEN vault[s].age ELSE Retained
           t == [pc |-> "start", job |-> j, type |-> type, now |-> now,
                 at |-> clock, tail |-> Genesis]
<1>1. s \in Subjects /\ now \in Ages
  BY EngineAssumption, VaultIsRow DEF VaultRow
<1>2. clock \in 0..MaxClock /\ clock + 1 \in 0..MaxClock
  BY EngineAssumption DEF StartTask, EngineTypeOK
<1>3. t \in Task
  BY <1>1, <1>2 DEF Task, Steps, Hash
<1>4. proc' = [proc EXCEPT ![w] = t]
  BY DEF StartTask
<1>5. EngineTypeOK'
  BY <1>2, <1>3, <1>4 DEF StartTask, EngineTypeOK
<1>6. proc'[w] = t /\ \A v \in Workers \ {w} : proc'[v] = proc[v]
  BY <1>4 DEF EngineTypeOK
<1>7. Steady /\ acks' = acks /\ vault' = vault
  BY SameVault DEF Steady, StartTask
<1>8. TaskGrounded(w)' /\ ~Holds(w)'
  BY <1>1, <1>6, <1>7 DEF TaskGrounded, Holds, Subject, Vaulted
<1> QED BY <1>5, <1>6, <1>7, <1>8, SameAcks, SteadyStep

LEMMA CrashStep ==
  ASSUME EngineInv, NEW w \in Workers, Crash(w) \/ FailTask(w)
  PROVE  EngineInv'
<1>1. proc[w].pc # "idle" /\ (Ack(w, "failed") \/ Retry(w))
  BY DEF Crash, FailTask, EngineInv, EngineTypeOK, Task, Steps, Idle
<1>2. UNCHANGED <<root, vault, keys, outbox, mailed, clock>>
  BY DEF Crash, FailTask
<1>3. Steady
  BY <1>2, SameVault DEF EngineInv, Steady
<1>4. proc[w].pc # "idle"
  BY DEF Crash, FailTask, EngineInv, EngineTypeOK, Task, Steps, Idle
<1>5. proc[w].job \in Jobs /\ proc[w].type \in TaskTypes
  BY <1>4, Running DEF EngineInv, Task
<1> QED BY <1>1, <1>2, <1>3, <1>4, <1>5, EndStep, "failed" # "completed"
        DEF EngineInv, EngineTypeOK

LEMMA TimeStep ==
  ASSUME EngineInv, NEW s \in Subjects,
         DeadlinePasses(s) \/ NoticeLeaseExpires(s)
  PROVE  EngineInv'
<1> USE DEF EngineInv
<1>1. vault[s] \in VaultRow /\ Vaulted(s)
  BY VaultIsRow DEF DeadlinePasses, NoticeLeaseExpires
<1>2. PICK r \in VaultRow :
        /\ vault' = [vault EXCEPT ![s] = r]
        /\ r.job = vault[s].job /\ r.sent = vault[s].sent
        /\ r.shredded = vault[s].shredded /\ vault[s].age <= r.age
  <2>1. CASE DeadlinePasses(s)
    <3> DEFINE r == [vault[s] EXCEPT !.age = vault[s].age + 1]
    <3>1. vault' = [vault EXCEPT ![s] = r]
      BY <2>1 DEF DeadlinePasses
    <3>2. vault[s].age \in Ages /\ vault[s].age < Expired
      BY <1>1, <2>1 DEF DeadlinePasses, VaultRow
    <3>3. vault[s].age + 1 \in Ages /\ vault[s].age <= vault[s].age + 1
      BY <3>2
    <3>4. r \in VaultRow /\ r.job = vault[s].job /\ r.sent = vault[s].sent
          /\ r.shredded = vault[s].shredded /\ r.age = vault[s].age + 1
      BY <1>1, <3>3 DEF VaultRow
    <3> HIDE DEF r
    <3> QED BY <3>1, <3>3, <3>4
  <2>2. CASE NoticeLeaseExpires(s)
    <3> DEFINE r == [vault[s] EXCEPT !.leased = FALSE]
    <3>1. vault' = [vault EXCEPT ![s] = r]
      BY <2>2 DEF NoticeLeaseExpires
    <3>2. r \in VaultRow /\ r.job = vault[s].job /\ r.sent = vault[s].sent
          /\ r.shredded = vault[s].shredded /\ r.age = vault[s].age
      BY <1>1 DEF VaultRow
    <3>3. vault[s].age <= vault[s].age
      BY <1>1 DEF VaultRow
    <3> HIDE DEF r
    <3> QED BY <3>1, <3>2, <3>3
  <2> QED BY <2>1, <2>2
<1>3. UNCHANGED <<root, keys, outbox, mailed, acks, clock, proc>>
  BY DEF DeadlinePasses, NoticeLeaseExpires
<1>4. EngineTypeOK'
  BY <1>2, <1>3 DEF EngineTypeOK
<1>5. SameStages
  <2> SUFFICES ASSUME NEW u \in Subjects
               PROVE  /\ Vaulted(u)' <=> Vaulted(u)
                      /\ Vaulted(u) => /\ vault'[u].job = vault[u].job
                                       /\ vault'[u].sent = vault[u].sent
                                       /\ vault'[u].shredded = vault[u].shredded
                                       /\ vault[u].age <= vault'[u].age
    BY DEF SameStages
  <2>1. CASE u = s
    BY <1>1, <1>2, <2>1, RowIsVaulted DEF EngineTypeOK, Vaulted
  <2>2. CASE u # s
    <3>1. Vaulted(u) => vault[u].age <= vault[u].age
      BY VaultIsRow DEF VaultRow
    <3> QED BY <1>2, <2>2, <3>1 DEF EngineTypeOK, Vaulted
  <2> QED BY <2>1, <2>2
<1> QED BY <1>3, <1>4, <1>5, SteadyTime DEF Steady
(* A task that only reads.                                                 *)
LEMMA ReadStep ==
  ASSUME EngineInv, UNCHANGED <<root, vault, keys, outbox, mailed>>
  PROVE  Steady /\ vault' \in [Subjects -> VaultRow \union {NoVault}]
BY SameVault DEF EngineInv, EngineTypeOK, Steady

LEMMA BeginVaultStep ==
  ASSUME EngineInv, NEW w \in Workers, BeginVault(w)
  PROVE  EngineInv'
<1> USE DEF EngineInv
<1>1. /\ proc[w].pc # "idle" /\ proc[w].type = "VAULT_USER"
      /\ ~Locked(Subject(w))
  BY DEF BeginVault, Starting, At
<1>2. /\ proc[w] \in Task /\ proc[w] # Idle
      /\ Subject(w) \in Subjects
  BY <1>1, Running
<1>3. PICK j \in Jobs : j = proc[w].job
  BY <1>2 DEF Task
<1>4. UNCHANGED <<root, vault, keys, outbox, mailed, clock>>
  BY DEF BeginVault
<1>5. Steady /\ vault' \in [Subjects -> VaultRow \union {NoVault}]
  BY <1>4, ReadStep
<1>6. CASE Ack(w, "failed")
  BY <1>1, <1>2, <1>3, <1>4, <1>5, <1>6, EndStep, "failed" # "completed" DEF Task
<1>7. CASE Ack(w, "completed") /\ (Vaulted(Subject(w)) \/ root[Subject(w)] = "deleted")
  <2>1. root[Subject(w)] # "live"
    BY <1>2, <1>7 DEF EvidenceMatches
  <2>2. Earned(j, "VAULT_USER")'
    BY <2>1, <1>3, <1>4 DEF Earned, Subject
  <2> QED BY <1>1, <1>2, <1>3, <1>4, <1>5, <1>7, <2>2, EndStep DEF Task
<1>8. CASE /\ ~Vaulted(Subject(w)) /\ root[Subject(w)] # "deleted"
           /\ Begin(w, "mutate") /\ UNCHANGED acks
  <2>1. /\ proc'[w] = [proc[w] EXCEPT !.pc = "mutate", !.tail = Tail]
    BY <1>1, <1>8, BeginType DEF Steps
  <2>2. proc'[w].pc = "mutate" /\ proc'[w].job = proc[w].job
        /\ proc'[w].type = "VAULT_USER" /\ proc'[w].now = proc[w].now
    BY <1>1, <1>2, <2>1 DEF Task
  <2>3. Subject(w)' = Subject(w)
    BY <2>2 DEF Subject
  <2>4. TaskGrounded(w)
    OBVIOUS
  <2>5. TaskGrounded(w)'
    BY <1>2, <1>4, <1>8, <2>2, <2>3, <2>4 DEF TaskGrounded, Vaulted
  <2>6. mailed' \subseteq Subjects \X Workers
    BY <1>4 DEF EngineTypeOK
  <2> QED BY <1>1, <1>4, <1>5, <1>8, <2>5, <2>6, MoveStep DEF Steps
<1> QED BY <1>6, <1>7, <1>8 DEF BeginVault

LEMMA BeginShredStep ==
  ASSUME EngineInv, NEW w \in Workers, BeginShred(w)
  PROVE  EngineInv'
<1> USE DEF EngineInv
<1>1. /\ proc[w].pc # "idle" /\ proc[w].type = "SHRED_USER"
      /\ ~Locked(Subject(w))
  BY DEF BeginShred, Starting, At
<1>2. /\ proc[w] \in Task /\ proc[w] # Idle
      /\ Subject(w) \in Subjects
  BY <1>1, Running
<1>3. PICK j \in Jobs : j = proc[w].job
  BY <1>2 DEF Task
<1>4. UNCHANGED <<root, vault, keys, outbox, mailed, clock>>
  BY DEF BeginShred
<1>5. Steady /\ vault' \in [Subjects -> VaultRow \union {NoVault}]
  BY <1>4, ReadStep
<1>6. CASE Ack(w, "failed")
  BY <1>1, <1>2, <1>3, <1>4, <1>5, <1>6, EndStep, "failed" # "completed" DEF Task
<1>7. CASE Ack(w, "completed") /\ Vaulted(Subject(w)) /\ vault[Subject(w)].shredded
  <2>1. Earned(j, "SHRED_USER")'
    BY <1>3, <1>4, <1>7 DEF Earned, Subject, Vaulted
  <2> QED BY <1>1, <1>2, <1>3, <1>4, <1>5, <1>7, <2>1, EndStep DEF Task
<1>8. CASE /\ Vaulted(Subject(w)) /\ ~vault[Subject(w)].shredded
           /\ vault[Subject(w)].sent /\ proc[w].now = Expired
           /\ Begin(w, "mutate") /\ UNCHANGED acks
  <2>1. /\ proc'[w] = [proc[w] EXCEPT !.pc = "mutate", !.tail = Tail]
    BY <1>1, <1>8, BeginType DEF Steps
  <2>2. proc'[w].pc = "mutate" /\ proc'[w].job = proc[w].job
        /\ proc'[w].type = "SHRED_USER" /\ proc'[w].now = proc[w].now
    BY <1>1, <1>2, <2>1 DEF Task
  <2>3. Subject(w)' = Subject(w)
    BY <2>2 DEF Subject
  <2>4. TaskGrounded(w)
    OBVIOUS
  <2>5. TaskGrounded(w)'
    BY <1>2, <1>4, <1>8, <2>2, <2>3, <2>4 DEF TaskGrounded, Vaulted
  <2>6. mailed' \subseteq Subjects \X Workers
    BY <1>4 DEF EngineTypeOK
  <2> QED BY <1>1, <1>4, <1>5, <1>8, <2>5, <2>6, MoveStep DEF Steps
<1> QED BY <1>6, <1>7, <1>8 DEF BeginShred

(* Taking or clearing the lease of a notice keeps the row's stages.        *)
LEMMA LeaseStep ==
  ASSUME EngineTypeOK, NEW s \in Subjects, Vaulted(s),
         NEW lock \in Workers \union {NoLock}, NEW leased \in BOOLEAN,
         vault' = [vault EXCEPT ![s].lock = lock, ![s].leased = leased]
  PROVE  /\ vault' \in [Subjects -> VaultRow \union {NoVault}]
         /\ SameStages
<1> DEFINE r == [vault[s] EXCEPT !.lock = lock, !.leased = leased]
<1>1. vault[s] \in VaultRow
  BY VaultIsRow
<1>2. r \in VaultRow /\ r.job = vault[s].job /\ r.sent = vault[s].sent
      /\ r.shredded = vault[s].shredded /\ r.age = vault[s].age
  BY <1>1 DEF VaultRow
<1>3. vault' = [vault EXCEPT ![s] = r]
  OBVIOUS
<1>4. ASSUME NEW u \in Subjects, Vaulted(u) PROVE vault[u].age <= vault[u].age
  BY <1>4, VaultIsRow DEF VaultRow
<1> HIDE DEF r
<1>5. vault' \in [Subjects -> VaultRow \union {NoVault}]
  BY <1>2, <1>3 DEF EngineTypeOK
<1>6. vault'[s] = r /\ \A u \in Subjects \ {s} : vault'[u] = vault[u]
  BY <1>3 DEF EngineTypeOK
<1> QED BY <1>2, <1>4, <1>5, <1>6, RowIsVaulted DEF SameStages, Vaulted
LEMMA ReserveStep ==
  ASSUME EngineInv, NEW w \in Workers, ReserveNotice(w)
  PROVE  EngineInv'
<1> USE DEF EngineInv
<1>1. /\ proc[w].pc # "idle" /\ proc[w].type = "NOTIFY_USER"
      /\ ~Locked(Subject(w))
  BY DEF ReserveNotice, Starting, At
<1>2. /\ proc[w] \in Task /\ proc[w] # Idle
      /\ Subject(w) \in Subjects
  BY <1>1, Running
<1>3. PICK j \in Jobs : j = proc[w].job
  BY <1>2 DEF Task
<1>4. UNCHANGED <<root, keys, outbox, mailed, clock>>
  BY DEF ReserveNotice
<1>5. CASE /\ UNCHANGED vault
           /\ Ack(w, "failed") \/ Retry(w)
  BY <1>1, <1>2, <1>3, <1>4, <1>5, ReadStep, EndStep, "failed" # "completed" DEF Task
<1>6. CASE UNCHANGED vault /\ Ack(w, "completed") /\ Vaulted(Subject(w))
  <2>1. Earned(j, "NOTIFY_USER")'
    BY <1>3, <1>6 DEF Earned, Subject, Vaulted
  <2> QED BY <1>1, <1>2, <1>3, <1>4, <1>6, <2>1, ReadStep, EndStep DEF Task
<1>7. CASE /\ Vaulted(Subject(w))
           /\ vault' = [vault EXCEPT ![Subject(w)].lock = w,
                                     ![Subject(w)].leased = TRUE]
           /\ Goto(w, "mail") /\ UNCHANGED acks
  <2>1. vault' \in [Subjects -> VaultRow \union {NoVault}] /\ SameStages
    BY <1>2, <1>7, LeaseStep
  <2>2. Steady /\ mailed' \subseteq Subjects \X Workers
    BY <1>4, <2>1 DEF Steady, EngineTypeOK
  <2>3. proc'[w].pc = "mail" /\ proc'[w].job = proc[w].job
        /\ proc'[w].type = "NOTIFY_USER" /\ proc'[w].now = proc[w].now
    <3>1. EngineTypeOK /\ proc[w].pc # "idle" /\ "mail" \in Steps
      BY <1>1 DEF Steps
    <3>2. proc'[w] = [proc[w] EXCEPT !.pc = "mail"]
      BY <1>7, <3>1, GotoType
    <3> HIDE DEF EngineInv
    <3> QED BY <1>1, <1>2, <3>2 DEF Task
  <2>4. Subject(w)' = Subject(w)
    BY <2>3 DEF Subject
  <2>5. TaskGrounded(w)
    OBVIOUS
  <2>6. proc[w].now # Retained => proc[w].now <= vault'[Subject(w)].age
    <3>1. vault'[Subject(w)] \in VaultRow /\ vault[Subject(w)] \in VaultRow
      BY <1>2, <1>7, <2>1, VaultIsRow DEF SameStages, Vaulted
    <3>2. vault[Subject(w)].age <= vault'[Subject(w)].age
      BY <1>2, <1>7, <2>1 DEF SameStages
    <3> QED BY <1>2, <2>5, <3>1, <3>2 DEF TaskGrounded, Task, VaultRow
  <2>7. TaskGrounded(w)'
    BY <1>2, <1>7, <2>1, <2>3, <2>4, <2>6 DEF TaskGrounded, SameStages
  <2> QED BY <1>1, <1>4, <1>7, <2>1, <2>2, <2>7, MoveStep DEF Steps
<1> QED BY <1>5, <1>6, <1>7 DEF ReserveNotice

LEMMA MailStep ==
  ASSUME EngineInv, NEW w \in Workers, NEW reached \in BOOLEAN,
         NEW answered \in BOOLEAN, SendMail(w, reached, answered)
  PROVE  EngineInv'
<1> USE DEF EngineInv
<1>1. PICK pc \in {"record", "clear"} :
        /\ Goto(w, pc)
        /\ pc = "record" => answered
  BY DEF SendMail
<1>2. proc[w].pc = "mail" /\ proc[w].pc # "idle" /\ pc \in Steps
  BY DEF SendMail, At, Steps
<1>3. /\ proc[w] \in Task /\ proc[w] # Idle /\ Subject(w) \in Subjects
      /\ proc[w].type = "NOTIFY_USER" /\ Vaulted(Subject(w))
  BY <1>2, Running DEF TaskGrounded
<1>4. UNCHANGED <<root, vault, keys, outbox, acks, clock>>
  BY DEF SendMail
<1>5. /\ mailed \subseteq mailed' /\ mailed' \subseteq Subjects \X Workers
      /\ answered => <<Subject(w), w>> \in mailed'
  BY <1>3 DEF SendMail, EngineTypeOK
<1>6. Steady /\ vault' \in [Subjects -> VaultRow \union {NoVault}]
  BY <1>4, <1>5, SameVault DEF Steady, EngineTypeOK
<1>7. proc'[w].pc = pc /\ proc'[w].job = proc[w].job
      /\ proc'[w].type = "NOTIFY_USER" /\ proc'[w].now = proc[w].now
  <2>1. EngineTypeOK /\ proc[w].pc # "idle" /\ pc \in Steps /\ Goto(w, pc)
    BY <1>1, <1>2
  <2>2. proc'[w] = [proc[w] EXCEPT !.pc = pc]
    BY <2>1, GotoType
  <2> HIDE DEF EngineInv
  <2> QED BY <1>3, <2>2 DEF Task
<1>8. Subject(w)' = Subject(w)
  BY <1>7 DEF Subject
<1>9. TaskGrounded(w)
  OBVIOUS
<1>10. TaskGrounded(w)'
  BY <1>1, <1>3, <1>4, <1>5, <1>7, <1>8, <1>9 DEF TaskGrounded, Vaulted
<1> QED BY <1>1, <1>2, <1>4, <1>5, <1>6, <1>10, MoveStep

LEMMA RecordStep ==
  ASSUME EngineInv, NEW w \in Workers, BeginRecord(w) \/ FailRecord(w)
  PROVE  EngineInv'
<1> USE DEF EngineInv
<1>1. proc[w].pc \in {"record", "commit"} /\ proc[w].pc # "idle"
  BY DEF BeginRecord, FailRecord, At
<1>2. /\ proc[w] \in Task /\ proc[w] # Idle /\ Subject(w) \in Subjects
      /\ proc[w].type = "NOTIFY_USER" /\ Vaulted(Subject(w))
      /\ <<Subject(w), w>> \in mailed
  BY <1>1, Running DEF TaskGrounded
<1>3. UNCHANGED <<root, vault, keys, outbox, mailed, acks, clock>>
  BY DEF BeginRecord, FailRecord
<1>4. Steady /\ vault' \in [Subjects -> VaultRow \union {NoVault}]
      /\ mailed' \subseteq Subjects \X Workers
  BY <1>3, ReadStep DEF EngineTypeOK
<1>5. TaskGrounded(w)
  OBVIOUS
<1>6. CASE Goto(w, "clear")
  <2>1. proc'[w].pc = "clear" /\ proc'[w].job = proc[w].job
        /\ proc'[w].type = "NOTIFY_USER" /\ proc'[w].now = proc[w].now
    <3>1. EngineTypeOK /\ "clear" \in Steps
      BY DEF Steps
    <3>2. proc'[w] = [proc[w] EXCEPT !.pc = "clear"]
      BY <1>1, <1>6, <3>1, GotoType
    <3> HIDE DEF EngineInv
    <3> QED BY <1>2, <3>2 DEF Task
  <2>2. Subject(w)' = Subject(w)
    BY <2>1 DEF Subject
  <2>3. TaskGrounded(w)'
    BY <1>2, <1>3, <1>5, <2>1, <2>2 DEF TaskGrounded, Vaulted
  <2> QED BY <1>1, <1>3, <1>4, <1>6, <2>3, MoveStep DEF Steps
<1>7. CASE /\ Begin(w, "commit") /\ ~vault[Subject(w)].sent
           /\ ~Locked(Subject(w))
  <2>1. proc'[w].pc = "commit" /\ proc'[w].job = proc[w].job
        /\ proc'[w].type = "NOTIFY_USER" /\ proc'[w].now = proc[w].now
    <3>1. EngineTypeOK /\ HasTail /\ "commit" \in Steps
      BY DEF Steps
    <3>2. proc'[w] = [proc[w] EXCEPT !.pc = "commit", !.tail = Tail]
      BY <1>1, <1>7, <3>1, BeginType
    <3> HIDE DEF EngineInv
    <3> QED BY <1>2, <3>2 DEF Task
  <2>2. Subject(w)' = Subject(w)
    BY <2>1 DEF Subject
  <2>3. TaskGrounded(w)'
    BY <1>2, <1>3, <1>5, <1>7, <2>1, <2>2 DEF TaskGrounded, Vaulted
  <2> QED BY <1>1, <1>3, <1>4, <1>7, <2>3, MoveStep DEF Steps
<1> QED BY <1>6, <1>7 DEF BeginRecord, FailRecord

LEMMA ClearStep ==
  ASSUME EngineInv, NEW w \in Workers, ClearLease(w)
  PROVE  EngineInv'
<1> USE DEF EngineInv
<1>1. proc[w].pc = "clear" /\ proc[w].pc # "idle"
  BY DEF ClearLease, At
<1>2. /\ proc[w] \in Task /\ proc[w] # Idle /\ Subject(w) \in Subjects
      /\ proc[w].type = "NOTIFY_USER" /\ Vaulted(Subject(w))
  BY <1>1, Running DEF TaskGrounded
<1>3. PICK j \in Jobs : j = proc[w].job
  BY <1>2 DEF Task
<1>4. /\ UNCHANGED <<root, keys, outbox, mailed, clock>>
      /\ Retry(w) \/ Ack(w, "failed")
      /\ \/ vault' = vault
         \/ vault' = [vault EXCEPT ![Subject(w)].lock = NoLock,
                                   ![Subject(w)].leased = FALSE]
  BY DEF ClearLease
<1>5. vault' \in [Subjects -> VaultRow \union {NoVault}] /\ SameStages
  BY <1>2, <1>4, LeaseStep, SameVault DEF EngineTypeOK
<1>6. Steady
  BY <1>4, <1>5 DEF Steady
<1> QED BY <1>1, <1>2, <1>3, <1>4, <1>5, <1>6, EndStep, "failed" # "completed"
        DEF Task

-----------------------------------------------------------------------------
(* The commits.                                                            *)

(* Every commit works on the one subject it holds: what else there is to   *)
(* show is about that subject and about the other tasks.                   *)
LEMMA CommitStep ==
  ASSUME EngineInv, NEW w \in Workers, Holds(w),
         NEW s \in Subjects, s = Subject(w),
         NEW j \in Jobs, SubjectOf[j] = s, NEW event \in EventTypes,
         Enqueue(w, j, event), Ack(w, "completed"),
         NEW a \in Jobs, a = proc[w].job,
         NEW type \in TaskTypes, type = proc[w].type,
         UNCHANGED <<mailed, clock>>,
         EngineTypeOK',
         \A u \in Subjects \ {s} :
           root'[u] = root[u] /\ vault'[u] = vault[u] /\ (u \in keys' <=> u \in keys),
         root'[s] # "live",
         Vaulted(s) => /\ Vaulted(s)' /\ vault'[s].age = vault[s].age
                       /\ vault[s].shredded => vault'[s].shredded,
         Vaulted(s)' =>
           /\ SubjectOf[vault'[s].job] = s
           /\ vault'[s].sent => \E m \in mailed : m[1] = s
           /\ s \in keys' <=> ~vault'[s].shredded
           /\ vault'[s].shredded => vault'[s].age = Expired /\ vault'[s].sent,
         root'[s] = "masked" =>
           Vaulted(s)' /\ Evidence(s) \union {<<j, event>>} = VaultEvidence(vault'[s]),
         root'[s] = "deleted" =>
           /\ ~Vaulted(s)' /\ Evidence(s) = {}
           /\ j \notin Shadow /\ event = "USER_HARD_DELETED",
         Earned(a, type)'
  PROVE  EngineInv'
<1> USE DEF EngineInv
<1>1. proc[w].pc # "idle" /\ proc[w] \in Task
  BY Running DEF Holds
<1>2. proc' = [proc EXCEPT ![w] = Idle]
  BY <1>1, AckType
<1>3. proc'[w] = Idle /\ \A v \in Workers \ {w} : proc'[v] = proc[v]
  BY <1>2 DEF EngineTypeOK
<1>4. HasTail'
  BY <1>1, EnqueueType
<1>5. LocksExclude'
  <2>1. ~Holds(w)'
    BY <1>3 DEF Holds, Idle
  <2> QED BY <1>3, <2>1, LockStep
<1>6. ASSUME NEW v \in Workers PROVE TaskGrounded(v)'
  <2>1. CASE v = w
    BY <1>3, <2>1 DEF TaskGrounded
  <2>2. CASE v # w /\ proc[v] = Idle
    BY <1>3, <2>2 DEF TaskGrounded
  <2>3. CASE v # w /\ proc[v] # Idle
    <3>1. proc'[v] = proc[v] /\ Subject(v)' = Subject(v) /\ TaskGrounded(v)
      BY <1>3, <2>3 DEF Subject
    <3>2. Subject(v) \in Subjects
      BY <2>3, EngineAssumption DEF EngineTypeOK, Task, Subject
    <3>3. CASE Subject(v) # s
      BY <2>3, <3>1, <3>2, <3>3 DEF TaskGrounded, Vaulted
    <3>4. CASE Subject(v) = s
      <4>1. ~Holds(v)
        BY <2>3, <3>4 DEF LocksExclude
      <4> QED BY <2>3, <3>1, <3>4, <4>1 DEF TaskGrounded, Holds
    <3> QED BY <3>3, <3>4
  <2> QED BY <2>1, <2>2, <2>3
<1>7. VaultOrder' /\ ErasureRespectsRetention'
  <2> SUFFICES ASSUME NEW u \in Subjects, Vaulted(u)'
               PROVE  /\ SubjectOf[vault'[u].job] = u
                      /\ vault'[u].sent => \E m \in mailed' : m[1] = u
                      /\ u \in keys' <=> ~vault'[u].shredded
                      /\ vault'[u].shredded =>
                           /\ vault'[u].age = Expired /\ vault'[u].sent
                           /\ \E m \in mailed' : m[1] = u
    BY DEF VaultOrder, ErasureRespectsRetention
  <2>1. CASE u = s
    BY <2>1
  <2>2. CASE u # s
    BY <2>2 DEF VaultOrder, ErasureRespectsRetention, Vaulted
  <2> QED BY <2>1, <2>2
<1>8. EvidenceMatches'
  <2>1. Evidence(s)' = Evidence(s) \union {<<j, event>>}
    <3>1. CASE Enqueued(<<j, event>>)
      <4>1. <<j, event>> \in Evidence(s) /\ outbox' = outbox
        BY <3>1 DEF Evidence, Enqueue, Enqueued
      <4> QED BY <4>1 DEF Evidence
    <3>2. CASE ~Enqueued(<<j, event>>)
      <4> DEFINE new == [key |-> <<j, event>>, prev |-> proc[w].tail,
                         at |-> proc[w].at]
      <4>1. outbox' = outbox \union {new} /\ new.key = <<j, event>>
            /\ SubjectOf[new.key[1]] = s
        BY <3>2 DEF Enqueue
      <4> HIDE DEF new
      <4>2. {q \in outbox' : SubjectOf[q.key[1]] = s}
              = {q \in outbox : SubjectOf[q.key[1]] = s} \union {new}
        BY <4>1
      <4>3. Evidence(s)'
              = {r.key : r \in {q \in outbox' : SubjectOf[q.key[1]] = s}}
        BY DEF Evidence
      <4>4. {r.key : r \in {q \in outbox : SubjectOf[q.key[1]] = s} \union {new}}
              = Evidence(s) \union {new.key}
        BY DEF Evidence
      <4> QED BY <4>1, <4>2, <4>3, <4>4
    <3> QED BY <3>1, <3>2
  <2>2. ASSUME NEW u \in Subjects, u # s PROVE Evidence(u)' = Evidence(u)
    BY <2>2 DEF Evidence, Enqueue, Enqueued
  <2>3. root'[s] \in {"live", "masked", "deleted"}
    BY DEF EngineTypeOK
  <2> HIDE DEF EngineInv
  <2>4. EvidenceMatches
    BY DEF EngineInv
  <2>5. ASSUME NEW u \in Subjects
        PROVE  /\ root'[u] = "live" => ~Vaulted(u)' /\ Evidence(u)' = {}
               /\ root'[u] = "masked" =>
                    Vaulted(u)' /\ Evidence(u)' = VaultEvidence(vault'[u])
               /\ root'[u] = "deleted" =>
                    /\ ~Vaulted(u)'
                    /\ \E k \in Jobs \ Shadow :
                         Evidence(u)' = {<<k, "USER_HARD_DELETED">>}
    <3>1. CASE u = s
      BY <2>1, <2>3, <3>1
    <3>2. CASE u # s
      BY <2>2, <2>4, <3>2 DEF EvidenceMatches, Vaulted
    <3> QED BY <3>1, <3>2
  <2>6. \A u \in Subjects : VaultEvidence(vault[u])' = VaultEvidence(vault'[u])
    BY DEF VaultEvidence
  <2> QED BY <2>5, <2>6 DEF EvidenceMatches
<1>9. AcksAreEarned'
  <2>1. acks' = acks \/ acks' = acks \union {<<a, type, "completed">>}
    BY DEF Ack
  <2>2. \A u \in Subjects :
          /\ root'[u] = "live" => root[u] = "live"
          /\ Vaulted(u) => Vaulted(u)'
          /\ Vaulted(u) /\ vault[u].shredded => vault'[u].shredded
    BY DEF Vaulted
  <2>3. EngineInv /\ Earned(a, type)'
    OBVIOUS
  <2> HIDE DEF EngineInv
  <2> QED BY <2>1, <2>2, <2>3, AckStep
<1> QED BY <1>4, <1>5, <1>6, <1>7, <1>8, <1>9

(* The types after a commit.                                               *)
LEMMA CommitTypes ==
  ASSUME EngineTypeOK, HasTail, NEW w \in Workers, proc[w].pc # "idle",
         NEW j \in Jobs, NEW event \in EventTypes,
         Enqueue(w, j, event), Ack(w, "completed"), UNCHANGED <<mailed, clock>>,
         root' \in [Subjects -> {"live", "masked", "deleted"}],
         vault' \in [Subjects -> VaultRow \union {NoVault}],
         keys' \subseteq Subjects
  PROVE  EngineTypeOK'
<1>1. outbox' \subseteq OutboxRow
  BY EnqueueType
<1>2. /\ proc' \in [Workers -> Task \union {Idle}]
      /\ acks' \subseteq (Jobs \X TaskTypes \X {"completed", "failed"})
  BY AckType
<1> QED BY <1>1, <1>2 DEF EngineTypeOK

LEMMA CommitVaultStep ==
  ASSUME EngineInv, NEW w \in Workers, CommitVault(w)
  PROVE  EngineInv'
<1>1. /\ proc[w].pc = "mutate" /\ proc[w].pc # "idle"
      /\ proc[w].type = "VAULT_USER" /\ Holds(w)
      /\ Ack(w, "completed") /\ UNCHANGED <<mailed, clock>>
  BY DEF CommitVault, At, Holds
<1>2. EngineTypeOK /\ HasTail /\ TaskGrounded(w) /\ EvidenceMatches
  BY DEF EngineInv
<1>3. /\ proc[w] \in Task /\ proc[w] # Idle /\ Subject(w) \in Subjects
  BY <1>1, <1>2, Running
<1>4. PICK j \in Jobs : j = proc[w].job
  BY <1>3 DEF Task
<1>5. PICK s \in Subjects : s = Subject(w) /\ s = SubjectOf[j]
  BY <1>3, <1>4 DEF Subject
<1>6. ~Vaulted(s) /\ root[s] = "live" /\ Evidence(s) = {}
  BY <1>1, <1>2, <1>3, <1>5 DEF TaskGrounded, EvidenceMatches, EngineTypeOK
<1>7. "VAULT_USER" \in TaskTypes /\ "USER_VAULTED" \in EventTypes
      /\ "USER_HARD_DELETED" \in EventTypes
  BY DEF TaskTypes, EventTypes
<1>8. root'[s] # "live" => Earned(j, "VAULT_USER")'
  BY <1>5 DEF Earned
<1>9. CASE j \in Shadow /\ UNCHANGED <<root, vault, keys, outbox>>
  <2>1. Earned(j, "VAULT_USER")'
    BY <1>9 DEF Earned
  <2>2. Steady /\ vault' \in [Subjects -> VaultRow \union {NoVault}]
    BY <1>1, <1>9, ReadStep
  <2> QED BY <1>1, <1>4, <1>7, <2>1, <2>2, EndStep
<1>10. CASE /\ j \notin Shadow
            /\ root' = [root EXCEPT ![s] = "deleted"]
            /\ Enqueue(w, j, "USER_HARD_DELETED")
            /\ UNCHANGED <<vault, keys>>
  <2>1. root'[s] = "deleted" /\ \A u \in Subjects \ {s} : root'[u] = root[u]
    BY <1>2, <1>10 DEF EngineTypeOK
  <2>2. root' \in [Subjects -> {"live", "masked", "deleted"}]
    BY <1>2, <1>10 DEF EngineTypeOK
  <2>3. EngineTypeOK'
    <3>1. vault' \in [Subjects -> VaultRow \union {NoVault}] /\ keys' \subseteq Subjects
      BY <1>2, <1>10 DEF EngineTypeOK
    <3> QED BY <1>1, <1>2, <1>7, <1>10, <2>2, <3>1, CommitTypes
  <2>4. ~Vaulted(s)'
    BY <1>6, <1>10 DEF Vaulted
  <2> QED BY <1>1, <1>4, <1>5, <1>6, <1>7, <1>8, <1>10, <2>1, <2>3, <2>4,
             CommitStep
<1>11. CASE /\ j \notin Shadow
            /\ \E age \in StartAges : vault' = [vault EXCEPT ![s] = NewVault(w, age)]
            /\ keys' = keys \union {s}
            /\ root' = [root EXCEPT ![s] = "masked"]
            /\ Enqueue(w, j, "USER_VAULTED")
  <2>1. root'[s] = "masked" /\ \A u \in Subjects \ {s} : root'[u] = root[u]
    BY <1>2, <1>11 DEF EngineTypeOK
  <2>2. PICK r \in VaultRow :
          /\ vault' = [vault EXCEPT ![s] = r]
          /\ r.job = j /\ r.sent = FALSE /\ r.shredded = FALSE
    <3>1. PICK age \in Ages : vault' = [vault EXCEPT ![s] = NewVault(w, age)]
      BY <1>11, EngineAssumption
    <3>2. NewVault(w, age) \in VaultRow
      BY <1>4 DEF NewVault, VaultRow
    <3> QED BY <1>4, <3>1, <3>2 DEF NewVault
  <2>3. vault'[s] = r /\ \A u \in Subjects \ {s} : vault'[u] = vault[u]
    BY <1>2, <2>2 DEF EngineTypeOK
  <2>4. Vaulted(s)'
    BY <2>2, <2>3, RowIsVaulted DEF Vaulted
  <2>5. EngineTypeOK'
    <3>1. /\ root' \in [Subjects -> {"live", "masked", "deleted"}]
          /\ vault' \in [Subjects -> VaultRow \union {NoVault}]
          /\ keys' \subseteq Subjects
      BY <1>2, <1>11, <2>2 DEF EngineTypeOK
    <3> QED BY <1>1, <1>2, <1>7, <1>11, <3>1, CommitTypes
  <2>6. Evidence(s) \union {<<j, "USER_VAULTED">>} = VaultEvidence(vault'[s])
    BY <1>6, <2>2, <2>3 DEF VaultEvidence
  <2>7. \A u \in Subjects \ {s} : u \in keys' <=> u \in keys
    BY <1>11
  <2>8. /\ SubjectOf[vault'[s].job] = s
        /\ s \in keys' <=> ~vault'[s].shredded
        /\ ~vault'[s].shredded /\ ~vault'[s].sent
    BY <1>5, <1>11, <2>2, <2>3
  <2>9. Earned(j, "VAULT_USER")' /\ root'[s] # "live" /\ root'[s] # "deleted"
    BY <1>8, <2>1
  <2>10. \A u \in Subjects \ {s} :
           root'[u] = root[u] /\ vault'[u] = vault[u] /\ (u \in keys' <=> u \in keys)
    BY <2>1, <2>3, <2>7
  <2>11. Enqueue(w, j, "USER_VAULTED")
    BY <1>11
  <2>12. ~Vaulted(s)
    BY <1>6
  <2>13. \E a \in Jobs : a = proc[w].job /\ Earned(a, "VAULT_USER")'
    BY <1>4, <2>9
  <2>14. s = Subject(w) /\ SubjectOf[j] = s
    BY <1>5
  <2> QED BY <1>1, <1>7, <2>4, <2>5, <2>6, <2>8, <2>9, <2>10, <2>11, <2>12,
             <2>13, <2>14, CommitStep
<1> QED BY <1>1, <1>4, <1>5, <1>9, <1>10, <1>11 DEF CommitVault

(* What a task that holds a vaulted subject knows of it.                   *)
LEMMA HeldRow ==
  ASSUME EngineInv, NEW w \in Workers, Holds(w), Vaulted(Subject(w))
  PROVE  \E s \in Subjects, j \in Jobs :
           /\ s = Subject(w) /\ j = vault[s].job /\ SubjectOf[j] = s
           /\ Vaulted(s) /\ vault[s] \in VaultRow
           /\ root[s] = "masked" /\ Evidence(s) = VaultEvidence(vault[s])
<1>1. Subject(w) \in Subjects
  BY Running DEF EngineInv, Holds
<1>2. vault[Subject(w)] \in VaultRow
  BY <1>1, VaultIsRow DEF EngineInv
<1>3. vault[Subject(w)].job \in Jobs
      /\ SubjectOf[vault[Subject(w)].job] = Subject(w)
  BY <1>1, <1>2 DEF EngineInv, VaultOrder, VaultRow
<1>4. root[Subject(w)] = "masked"
      /\ Evidence(Subject(w)) = VaultEvidence(vault[Subject(w)])
  BY <1>1 DEF EngineInv, EvidenceMatches, EngineTypeOK
<1> QED BY <1>1, <1>2, <1>3, <1>4

LEMMA CommitRecordStep ==
  ASSUME EngineInv, NEW w \in Workers, CommitRecord(w)
  PROVE  EngineInv'
<1>1. /\ proc[w].pc = "commit" /\ proc[w].pc # "idle"
      /\ proc[w].type = "NOTIFY_USER" /\ Holds(w)
      /\ Ack(w, "completed") /\ UNCHANGED <<root, keys, mailed, clock>>
  BY DEF CommitRecord, At, Holds
<1>2. EngineTypeOK /\ HasTail /\ TaskGrounded(w) /\ ErasureRespectsRetention
  BY DEF EngineInv
<1>3. /\ proc[w] \in Task /\ proc[w] # Idle
  BY <1>1, <1>2, Running
<1>4. PICK a \in Jobs : a = proc[w].job
  BY <1>3 DEF Task
<1>5. /\ Vaulted(Subject(w)) /\ ~vault[Subject(w)].sent
      /\ <<Subject(w), w>> \in mailed
  BY <1>1, <1>2, <1>3 DEF TaskGrounded
<1>6. PICK s \in Subjects, j \in Jobs :
        /\ s = Subject(w) /\ j = vault[s].job /\ SubjectOf[j] = s
        /\ Vaulted(s) /\ vault[s] \in VaultRow
        /\ root[s] = "masked" /\ Evidence(s) = VaultEvidence(vault[s])
  BY <1>1, <1>5, HeldRow
<1> DEFINE r == [vault[s] EXCEPT !.sent = TRUE, !.lock = NoLock, !.leased = FALSE]
<1>7. vault' = [vault EXCEPT ![s] = r] /\ Enqueue(w, j, "NOTIFICATION_SENT")
  BY <1>6 DEF CommitRecord
<1>8. r \in VaultRow /\ r.job = j /\ r.sent = TRUE /\ r.age = vault[s].age
      /\ r.shredded = vault[s].shredded
  BY <1>6 DEF VaultRow
<1> HIDE DEF r
<1>9. vault'[s] = r /\ \A u \in Subjects \ {s} : vault'[u] = vault[u]
  BY <1>2, <1>7 DEF EngineTypeOK
<1>10. ~vault[s].shredded /\ s \in keys
  BY <1>2, <1>5, <1>6, <1>8 DEF ErasureRespectsRetention
<1>11. Vaulted(s)'
  BY <1>8, <1>9, RowIsVaulted DEF Vaulted
<1>12. "NOTIFY_USER" \in TaskTypes /\ "NOTIFICATION_SENT" \in EventTypes
  BY DEF TaskTypes, EventTypes
<1>13. EngineTypeOK'
  <2>1. /\ root' \in [Subjects -> {"live", "masked", "deleted"}]
        /\ vault' \in [Subjects -> VaultRow \union {NoVault}]
        /\ keys' \subseteq Subjects
    BY <1>1, <1>2, <1>7, <1>8 DEF EngineTypeOK
  <2> QED BY <1>1, <1>2, <1>7, <1>12, <2>1, CommitTypes
<1>14. Evidence(s) \union {<<j, "NOTIFICATION_SENT">>} = VaultEvidence(vault'[s])
  BY <1>5, <1>6, <1>8, <1>9, <1>10 DEF VaultEvidence
<1>15. Earned(a, "NOTIFY_USER")'
  BY <1>4, <1>6, <1>11 DEF Earned, Subject
<1>16. \E m \in mailed : m[1] = s
  BY <1>5, <1>6
<1> QED BY <1>1, <1>4, <1>6, <1>7, <1>8, <1>9, <1>10, <1>11, <1>12, <1>13,
           <1>14, <1>15, <1>16, CommitStep

LEMMA CommitShredStep ==
  ASSUME EngineInv, NEW w \in Workers, CommitShred(w)
  PROVE  EngineInv'
<1>1. /\ proc[w].pc = "mutate" /\ proc[w].pc # "idle"
      /\ proc[w].type = "SHRED_USER" /\ Holds(w)
      /\ Ack(w, "completed") /\ UNCHANGED <<root, mailed, clock>>
  BY DEF CommitShred, At, Holds
<1>2. EngineTypeOK /\ HasTail /\ TaskGrounded(w) /\ VaultOrder
  BY DEF EngineInv
<1>3. /\ proc[w] \in Task /\ proc[w] # Idle
  BY <1>1, <1>2, Running
<1>4. PICK a \in Jobs : a = proc[w].job
  BY <1>3 DEF Task
<1>5. /\ Vaulted(Subject(w)) /\ ~vault[Subject(w)].shredded
      /\ vault[Subject(w)].sent /\ Expired <= vault[Subject(w)].age
  BY <1>1, <1>2, <1>3 DEF TaskGrounded
<1>6. PICK s \in Subjects, j \in Jobs :
        /\ s = Subject(w) /\ j = vault[s].job /\ SubjectOf[j] = s
        /\ Vaulted(s) /\ vault[s] \in VaultRow
        /\ root[s] = "masked" /\ Evidence(s) = VaultEvidence(vault[s])
  BY <1>1, <1>5, HeldRow
<1> DEFINE r == [vault[s] EXCEPT !.shredded = TRUE]
<1>7. /\ vault' = [vault EXCEPT ![s] = r] /\ keys' = keys \ {s}
      /\ Enqueue(w, j, "SHRED_SUCCESS")
  BY <1>6 DEF CommitShred
<1>8. r \in VaultRow /\ r.job = j /\ r.sent = TRUE /\ r.age = vault[s].age
      /\ r.shredded = TRUE
  BY <1>5, <1>6 DEF VaultRow
<1> HIDE DEF r
<1>9. vault'[s] = r /\ \A u \in Subjects \ {s} : vault'[u] = vault[u]
  BY <1>2, <1>7 DEF EngineTypeOK
<1>10. r.age = Expired
  BY <1>5, <1>6, <1>8 DEF VaultRow
<1>11. Vaulted(s)'
  BY <1>8, <1>9, RowIsVaulted DEF Vaulted
<1>12. "SHRED_USER" \in TaskTypes /\ "SHRED_SUCCESS" \in EventTypes
  BY DEF TaskTypes, EventTypes
<1>13. EngineTypeOK'
  <2>1. /\ root' \in [Subjects -> {"live", "masked", "deleted"}]
        /\ vault' \in [Subjects -> VaultRow \union {NoVault}]
        /\ keys' \subseteq Subjects
    BY <1>1, <1>2, <1>7, <1>8 DEF EngineTypeOK
  <2> QED BY <1>1, <1>2, <1>7, <1>12, <2>1, CommitTypes
<1>14. Evidence(s) \union {<<j, "SHRED_SUCCESS">>} = VaultEvidence(vault'[s])
  BY <1>5, <1>6, <1>8, <1>9 DEF VaultEvidence
<1>15. Earned(a, "SHRED_USER")'
  BY <1>4, <1>6, <1>8, <1>9, <1>11 DEF Earned, Subject
<1>16. \E m \in mailed : m[1] = s
  BY <1>2, <1>5, <1>6 DEF VaultOrder
<1>17. s \notin keys' /\ \A u \in Subjects \ {s} : u \in keys' <=> u \in keys
  BY <1>7
<1>18. \A u \in Subjects \ {s} :
          root'[u] = root[u] /\ vault'[u] = vault[u] /\ (u \in keys' <=> u \in keys)
  BY <1>1, <1>9, <1>17
<1>19. /\ SubjectOf[vault'[s].job] = s
       /\ s \in keys' <=> ~vault'[s].shredded
       /\ vault'[s].shredded => vault'[s].age = Expired /\ vault'[s].sent
  BY <1>6, <1>8, <1>9, <1>10, <1>17
<1>20. vault'[s].age = vault[s].age /\ (vault[s].shredded => vault'[s].shredded)
  BY <1>8, <1>9
<1>21. root'[s] = "masked"
  BY <1>1, <1>6
<1> QED BY <1>1, <1>4, <1>6, <1>7, <1>11, <1>12, <1>13, <1>14, <1>15, <1>16,
           <1>18, <1>19, <1>20, <1>21, CommitStep

-----------------------------------------------------------------------------
(* The theorems.                                                           *)

LEMMA EngineInvInit == EngineInit => EngineInv
<1> SUFFICES ASSUME EngineInit PROVE EngineInv
  OBVIOUS
<1>1. EngineTypeOK
  BY EngineAssumption DEF EngineInit, EngineTypeOK
<1>2. \A s \in Subjects : ~Vaulted(s) /\ Evidence(s) = {} /\ root[s] = "live"
  BY DEF EngineInit, Vaulted, Evidence
<1>3. HasTail /\ AcksAreEarned
  BY DEF EngineInit, HasTail, AcksAreEarned
<1>4. LocksExclude /\ \A w \in Workers : TaskGrounded(w)
  BY DEF EngineInit, LocksExclude, Holds, TaskGrounded, Idle
<1>5. VaultOrder /\ ErasureRespectsRetention /\ EvidenceMatches
  BY <1>2 DEF VaultOrder, ErasureRespectsRetention, EvidenceMatches
<1> QED BY <1>1, <1>3, <1>4, <1>5 DEF EngineInv

LEMMA EngineInvNext == EngineInv /\ [EngineNext]_engineVars => EngineInv'
<1> SUFFICES ASSUME EngineInv, [EngineNext]_engineVars PROVE EngineInv'
  OBVIOUS
<1>1. ASSUME NEW w \in Workers, WorkerStep(w) PROVE EngineInv'
  BY <1>1, BeginVaultStep, CommitVaultStep, ReserveStep, RecordStep,
     CommitRecordStep, ClearStep, MailStep, BeginShredStep, CommitShredStep
     DEF WorkerStep
<1>2. CASE UNCHANGED engineVars
  <2>1. Steady
    BY <1>2, SameVault DEF EngineInv, Steady, engineVars
  <2>2. EngineTypeOK'
    BY <1>2 DEF EngineInv, EngineTypeOK, engineVars
  <2> QED BY <1>2, <2>1, <2>2, SteadyTime DEF engineVars
<1>3. CASE EngineNext
  <2>1. CASE \E w \in Workers, j \in Jobs, type \in TaskTypes : StartTask(w, j, type)
    BY <2>1, StartStep
  <2>2. CASE \E w \in Workers : WorkerStep(w) \/ FailTask(w) \/ Crash(w)
    BY <1>1, <2>2, CrashStep
  <2>3. CASE \E s \in Subjects : DeadlinePasses(s) \/ NoticeLeaseExpires(s)
    BY <2>3, TimeStep
  <2> QED BY <1>3, <2>1, <2>2, <2>3 DEF EngineNext
<1> QED BY <1>2, <1>3

(* The invariant of the worker: its transactions, locks and outbox.        *)
THEOREM EngineInvariance == EngineSpec => []EngineInv
BY EngineInvInit, EngineInvNext, PTL DEF EngineSpec

(* The types of the database rows, the outbox and the tasks.               *)
THEOREM EngineTypes == EngineSpec => []EngineTypeOK
<1>1. EngineInv => EngineTypeOK
  BY DEF EngineInv
<1> QED BY <1>1, EngineInvariance, PTL

(* A subject's outbox rows are exactly the stages its database rows show,  *)
(* each once and in the name of the request that vaulted it.               *)
THEOREM EvidenceIsExact == EngineSpec => []EvidenceMatches
<1>1. EngineInv => EvidenceMatches
  BY DEF EngineInv
<1> QED BY <1>1, EngineInvariance, PTL

(* The data key exists until retention is over and a notice was mailed,    *)
(* and is gone once the row says shredded.                                 *)
THEOREM KeysOutliveRetention == EngineSpec => []ErasureRespectsRetention
<1>1. EngineInv => ErasureRespectsRetention
  BY DEF EngineInv
<1> QED BY <1>1, EngineInvariance, PTL

(* A task reported as completed did its work, in a committed transaction.  *)
THEOREM AcksEarned == EngineSpec => []AcksAreEarned
<1>1. EngineInv => AcksAreEarned
  BY DEF EngineInv
<1> QED BY <1>1, EngineInvariance, PTL

-----------------------------------------------------------------------------
(* The chain, with one worker.                                             *)

OneWorker == \A v, w \in Workers : v = w

(* A row extends the one written just before it.                           *)
Extends(r, p) ==
  /\ p.key = r.prev /\ p.at < r.at
  /\ \A q \in outbox : q.at <= p.at \/ r.at <= q.at
Linked(r) ==
  \/ r.prev = Genesis /\ \A q \in outbox : r.at <= q.at
  \/ \E p \in outbox : Extends(r, p)

(* A task is younger than every row, and the tail its transaction saw is   *)
(* still the tail: nobody else writes.                                     *)
TailIsFresh(w) ==
  proc[w] # Idle =>
    /\ proc[w].at < clock
    /\ \A r \in outbox : r.at < proc[w].at
    /\ Holds(w) => proc[w].tail = Tail

ChainInv ==
  /\ \A q, r \in outbox : q.key = r.key \/ q.at = r.at => q = r
  /\ \A r \in outbox : r.at < clock
  /\ \A w \in Workers : TailIsFresh(w)
  /\ \A r \in outbox : Linked(r)

LEMMA RowTimes ==
  ASSUME EngineInv
  PROVE  /\ clock \in Nat
         /\ \A r \in outbox : r.at \in Nat /\ r.key \in Keys
         /\ \A w \in Workers : proc[w] # Idle => proc[w].at \in Nat
BY EngineAssumption DEF EngineInv, EngineTypeOK, OutboxRow, Task

LEMMA ChainInvImplies ==
  ASSUME EngineInv, ChainInv
  PROVE  ChainLinear
<1>1. ASSUME NEW r \in outbox PROVE r.prev = Genesis \/ Enqueued(r.prev)
  BY DEF ChainInv, Linked, Extends, Enqueued
<1>2. ASSUME NEW q \in outbox, NEW r \in outbox, q.prev = r.prev PROVE q = r
  <2>1. q.at \in Nat /\ r.at \in Nat
    BY RowTimes
  <2>2. q.at = r.at => q = r
    BY DEF ChainInv
  <2>3. CASE r.prev = Genesis
    <3>1. ASSUME NEW u \in outbox, u.prev = Genesis, NEW v \in outbox
          PROVE  u.at <= v.at
      <4>1. \A p \in outbox : p.key # Genesis
        BY RowTimes, EngineAssumption
      <4> QED BY <3>1, <4>1 DEF ChainInv, Linked, Extends
    <3>2. q.at <= r.at /\ r.at <= q.at
      BY <1>2, <2>3, <3>1
    <3> QED BY <2>1, <2>2, <3>2
  <2>4. CASE r.prev # Genesis
    <3>1. PICK p \in outbox : Extends(q, p)
      BY <1>2, <2>4 DEF ChainInv, Linked
    <3>2. PICK o \in outbox : Extends(r, o)
      BY <2>4 DEF ChainInv, Linked
    <3>3. p = o
      BY <1>2, <3>1, <3>2 DEF ChainInv, Extends
    <3>4. r.at <= q.at /\ q.at <= r.at
      <4>1. p.at \in Nat
        BY RowTimes
      <4> QED BY <2>1, <3>1, <3>2, <3>3, <4>1 DEF Extends
    <3> QED BY <2>1, <2>2, <3>4
  <2> QED BY <2>3, <2>4
<1> QED BY <1>1, <1>2 DEF ChainLinear

(* A step that writes no row.                                              *)
LEMMA SameChain ==
  ASSUME EngineInv, ChainInv, outbox' = outbox, clock' = clock,
         \A w \in Workers : TailIsFresh(w)'
  PROVE  ChainInv'
BY DEF ChainInv, Linked, Extends

(* The latest row is what Tail finds.                                      *)
LEMMA TailIsLatest ==
  ASSUME HasTail, outbox # {}
  PROVE  \E p \in outbox : p.key = Tail /\ \A q \in outbox : q.at <= p.at
<1>1. PICK r \in outbox : \A q \in outbox : q.at <= r.at
  BY DEF HasTail
<1> DEFINE p == CHOOSE o \in outbox : \A q \in outbox : q.at <= o.at
<1>2. p \in outbox /\ \A q \in outbox : q.at <= p.at
  BY <1>1
<1> QED BY <1>2 DEF Tail

(* The commit of the only worker.                                          *)
LEMMA ChainCommit ==
  ASSUME OneWorker, EngineInv, ChainInv, NEW w \in Workers, Holds(w),
         NEW j \in Jobs, NEW event \in EventTypes, Enqueue(w, j, event),
         Ack(w, "completed"), clock' = clock
  PROVE  ChainInv'
<1>1. PICK new \in OutboxRow :
        new = [key |-> <<j, event>>, prev |-> proc[w].tail, at |-> proc[w].at]
  <2>1. proc[w] \in Task
    BY Running DEF EngineInv, Holds
  <2> QED BY <2>1 DEF OutboxRow, Keys, Task
<1>2. new.key = <<j, event>> /\ new.prev = proc[w].tail /\ new.at = proc[w].at
  BY <1>1
<1>3. proc' = [proc EXCEPT ![w] = Idle]
  BY DEF Ack
<1>4. ASSUME NEW v \in Workers PROVE TailIsFresh(v)'
  <2>1. v = w
    BY DEF OneWorker
  <2> QED BY <1>3, <2>1 DEF TailIsFresh, EngineInv, EngineTypeOK
<1>5. CASE outbox' = outbox
  BY <1>4, <1>5, SameChain
<1>6. CASE outbox' = outbox \union {new} /\ ~Enqueued(<<j, event>>)
  <2>1. proc[w] # Idle
    BY DEF Holds, Idle
  <2>2. /\ new.at \in Nat /\ new.at < clock /\ new.prev = Tail
        /\ \A r \in outbox : r.at < new.at
        /\ \A r \in outbox : r.key # new.key
    BY <1>6, <1>2, <2>1, RowTimes DEF ChainInv, TailIsFresh, Enqueued
  <2>3. /\ clock \in Nat /\ \A r \in outbox : r.at \in Nat
        /\ HasTail
    BY RowTimes DEF EngineInv
  <2>4. \A r \in outbox' : r.at < clock'
    BY <1>6, <2>2 DEF ChainInv
  <2>5. \A q, r \in outbox' : q.key = r.key \/ q.at = r.at => q = r
    BY <1>6, <2>2, <2>3 DEF ChainInv
  <2>6. ASSUME NEW r \in outbox PROVE Linked(r)'
    <3>1. r.at <= new.at
      BY <2>2, <2>3
    <3>2. CASE r.prev = Genesis /\ \A q \in outbox : r.at <= q.at
      BY <1>6, <3>1, <3>2 DEF Linked
    <3>3. CASE \E p \in outbox : Extends(r, p)
      BY <1>6, <3>1, <3>3 DEF Linked, Extends
    <3> QED BY <3>2, <3>3 DEF ChainInv, Linked
  <2>7. Linked(new)'
    <3>1. CASE outbox = {}
      <4>1. new.prev = Genesis /\ new.at <= new.at
        BY <2>2, <3>1 DEF Tail
      <4> QED BY <1>6, <3>1, <4>1 DEF Linked
    <3>2. CASE outbox # {}
      <4>1. PICK p \in outbox : p.key = Tail /\ \A q \in outbox : q.at <= p.at
        BY <2>3, <3>2, TailIsLatest
      <4>2. new.at <= new.at
        BY <2>2
      <4>3. \A q \in outbox' : q.at <= p.at \/ new.at <= q.at
        BY <1>6, <4>1, <4>2
      <4>4. p.key = new.prev /\ p.at < new.at /\ p \in outbox'
        BY <1>6, <2>2, <4>1
      <4> QED BY <4>3, <4>4 DEF Linked, Extends
    <3> QED BY <3>1, <3>2
  <2> QED BY <1>4, <1>6, <2>4, <2>5, <2>6, <2>7 DEF ChainInv
<1> QED BY <1>5, <1>6, <1>1 DEF Enqueue

(* A task that ends, or goes on, without writing a row.                    *)
LEMMA ChainEnd ==
  ASSUME EngineInv, ChainInv, NEW w \in Workers,
         NEW status, Ack(w, status) \/ Retry(w),
         outbox' = outbox, clock' = clock
  PROVE  ChainInv'
<1>1. proc' = [proc EXCEPT ![w] = Idle]
  BY DEF Ack, Retry
<1>2. ASSUME NEW v \in Workers PROVE TailIsFresh(v)'
  <2>1. CASE v = w
    BY <1>1, <2>1 DEF TailIsFresh, EngineInv, EngineTypeOK
  <2>2. CASE v # w
    <3>1. proc'[v] = proc[v]
      BY <1>1, <2>2 DEF EngineInv, EngineTypeOK
    <3> QED BY <3>1 DEF ChainInv, TailIsFresh, Holds, Tail
  <2> QED BY <2>1, <2>2
<1> QED BY <1>2, SameChain

LEMMA ChainMove ==
  ASSUME EngineInv, ChainInv, NEW w \in Workers, proc[w].pc # "idle",
         NEW pc \in Steps,
         Begin(w, pc) \/ (Goto(w, pc) /\ pc \notin {"mutate", "commit"}),
         outbox' = outbox, clock' = clock
  PROVE  ChainInv'
<1>1. EngineTypeOK /\ HasTail /\ proc[w] \in Task /\ proc[w] # Idle
  BY Running DEF EngineInv
<1>2. /\ \A v \in Workers \ {w} : proc'[v] = proc[v]
      /\ proc'[w].at = proc[w].at
      /\ Holds(w)' => proc'[w].tail = Tail
  <2>1. CASE Begin(w, pc)
    <3>1. proc'[w] = [proc[w] EXCEPT !.pc = pc, !.tail = Tail]
          /\ \A v \in Workers \ {w} : proc'[v] = proc[v]
      BY <1>1, <2>1, BeginType
    <3>2. proc'[w].at = proc[w].at /\ proc'[w].tail = Tail
      BY <1>1, <3>1 DEF Task
    <3> QED BY <3>1, <3>2
  <2>2. CASE Goto(w, pc) /\ pc \notin {"mutate", "commit"}
    <3>1. proc'[w] = [proc[w] EXCEPT !.pc = pc]
          /\ \A v \in Workers \ {w} : proc'[v] = proc[v]
      BY <1>1, <2>2, GotoType
    <3>2. proc'[w].at = proc[w].at /\ proc'[w].pc = pc
      BY <1>1, <3>1 DEF Task
    <3> QED BY <2>2, <3>1, <3>2 DEF Holds
  <2> QED BY <2>1, <2>2
<1>3. Tail' = Tail
  BY DEF Tail
<1>4. ASSUME NEW v \in Workers PROVE TailIsFresh(v)'
  <2>1. CASE v = w
    BY <1>1, <1>2, <1>3, <2>1 DEF ChainInv, TailIsFresh
  <2>2. CASE v # w
    BY <1>2, <1>3, <2>2 DEF ChainInv, TailIsFresh, Holds
  <2> QED BY <2>1, <2>2
<1> QED BY <1>4, SameChain

LEMMA ChainStart ==
  ASSUME EngineInv, ChainInv, NEW w \in Workers, NEW j \in Jobs,
         NEW type \in TaskTypes, StartTask(w, j, type)
  PROVE  ChainInv'
<1>1. clock \in Nat /\ clock' = clock + 1 /\ outbox' = outbox
      /\ \A r \in outbox : r.at \in Nat /\ r.at < clock
  BY RowTimes DEF StartTask, ChainInv
<1>2. /\ proc'[w].at = clock /\ proc'[w].pc = "start"
      /\ \A v \in Workers \ {w} : proc'[v] = proc[v]
  BY DEF StartTask, EngineInv, EngineTypeOK
<1>3. Tail' = Tail
  BY <1>1 DEF Tail
<1>4. ASSUME NEW v \in Workers PROVE TailIsFresh(v)'
  <2>1. CASE v = w
    BY <1>1, <1>2, <2>1 DEF TailIsFresh, Holds
  <2>2. CASE v # w /\ proc[v] # Idle
    <3>1. proc[v].at \in Nat
      BY <2>2, RowTimes
    <3> QED BY <1>1, <1>2, <1>3, <2>2, <3>1 DEF ChainInv, TailIsFresh, Holds
  <2>3. CASE v # w /\ proc[v] = Idle
    BY <1>2, <2>3 DEF TailIsFresh
  <2> QED BY <2>1, <2>2, <2>3
<1>5. \A r \in outbox' : r.at < clock'
  BY <1>1
<1> QED BY <1>1, <1>4, <1>5 DEF ChainInv, Linked, Extends

LEMMA ChainCommits ==
  ASSUME OneWorker, EngineInv, ChainInv, NEW w \in Workers,
         CommitVault(w) \/ CommitRecord(w) \/ CommitShred(w)
  PROVE  ChainInv'
<1>1. /\ Holds(w) /\ proc[w].pc # "idle"
      /\ Ack(w, "completed") /\ clock' = clock
  BY DEF CommitVault, CommitRecord, CommitShred, At, Holds
<1>2. proc[w].job \in Jobs /\ proc[w] # Idle
  BY <1>1, Running DEF EngineInv, Task
<1>3. CASE outbox' = outbox
  BY <1>1, <1>3, ChainEnd
<1>4. CASE CommitVault(w) /\ outbox' # outbox
  <2>1. \E event \in EventTypes : Enqueue(w, proc[w].job, event)
    BY <1>4 DEF CommitVault, EventTypes
  <2> QED BY <1>1, <1>2, <2>1, ChainCommit
<1>5. CASE CommitRecord(w) \/ CommitShred(w)
  <2>1. Vaulted(Subject(w))
    BY <1>2, <1>5 DEF EngineInv, TaskGrounded, CommitRecord, CommitShred, At
  <2>2. vault[Subject(w)].job \in Jobs
    BY <1>1, <2>1, HeldRow
  <2>3. \E event \in EventTypes : Enqueue(w, vault[Subject(w)].job, event)
    BY <1>5 DEF CommitRecord, CommitShred, EventTypes
  <2> QED BY <1>1, <2>2, <2>3, ChainCommit
<1> QED BY <1>3, <1>4, <1>5

LEMMA ChainInvInit == EngineInit => ChainInv
BY DEF EngineInit, ChainInv, TailIsFresh

LEMMA ChainInvNext ==
  ASSUME OneWorker, EngineInv, ChainInv, [EngineNext]_engineVars
  PROVE  ChainInv'
<1>1. ASSUME NEW w \in Workers,
             BeginVault(w) \/ ReserveNotice(w) \/ BeginShred(w)
               \/ BeginRecord(w) \/ FailRecord(w) \/ ClearLease(w)
               \/ \E reached, answered \in BOOLEAN : SendMail(w, reached, answered)
      PROVE  ChainInv'
  <2>1. outbox' = outbox /\ clock' = clock /\ proc[w].pc # "idle"
    BY <1>1 DEF BeginVault, ReserveNotice, BeginShred, BeginRecord, FailRecord,
                ClearLease, SendMail, Starting, At
  <2> DEFINE ends == Ack(w, "completed") \/ Ack(w, "failed") \/ Retry(w)
  <2>2. CASE ends
    BY <2>1, <2>2, ChainEnd
  <2>3. ASSUME NEW pc \in Steps,
               Begin(w, pc) \/ (Goto(w, pc) /\ pc \notin {"mutate", "commit"})
        PROVE  ChainInv'
    BY <2>1, <2>3, ChainMove
  <2>4. CASE BeginVault(w) \/ BeginShred(w)
    <3>1. Enqueued(<<proc[w].job, "USER_HARD_DELETED">>) => ends \/ Begin(w, "mutate")
      BY <2>4 DEF BeginVault, BeginShred, Begin
    <3>2. ~Enqueued(<<proc[w].job, "USER_HARD_DELETED">>) => ends \/ Begin(w, "mutate")
      BY <2>4 DEF BeginVault, BeginShred, Begin
    <3>3. ends \/ Begin(w, "mutate")
      BY <3>1, <3>2
    <3> QED BY <2>2, <2>3, <3>3 DEF Steps
  <2>5. CASE ReserveNotice(w)
    <3>1. ends \/ Goto(w, "mail")
      BY <2>5 DEF ReserveNotice
    <3> QED BY <2>2, <2>3, <3>1 DEF Steps
  <2>6. CASE BeginRecord(w) \/ FailRecord(w)
    <3>1. Begin(w, "commit") \/ Goto(w, "clear")
      BY <2>6 DEF BeginRecord, FailRecord, Begin, Goto
    <3> QED BY <2>3, <3>1 DEF Steps
  <2>7. CASE ClearLease(w)
    BY <2>2, <2>7 DEF ClearLease
  <2>8. CASE \E reached, answered \in BOOLEAN : SendMail(w, reached, answered)
    <3>1. Goto(w, "record") \/ Goto(w, "clear")
      BY <2>8 DEF SendMail
    <3> QED BY <2>3, <3>1 DEF Steps
  <2> QED BY <1>1, <2>4, <2>5, <2>6, <2>7, <2>8
<1>2. ASSUME NEW w \in Workers, FailTask(w) \/ Crash(w) PROVE ChainInv'
  <2>1. outbox' = outbox /\ clock' = clock /\ (Ack(w, "failed") \/ Retry(w))
    BY <1>2 DEF FailTask, Crash
  <2> QED BY <2>1, ChainEnd
<1>3. ASSUME NEW s \in Subjects, DeadlinePasses(s) \/ NoticeLeaseExpires(s)
      PROVE  ChainInv'
  BY <1>3 DEF DeadlinePasses, NoticeLeaseExpires, ChainInv, TailIsFresh, Holds,
              Tail, Linked, Extends
<1>4. CASE UNCHANGED engineVars
  BY <1>4 DEF engineVars, ChainInv, TailIsFresh, Holds, Tail, Linked, Extends
<1>5. CASE EngineNext
  <2>1. CASE \E w \in Workers, j \in Jobs, type \in TaskTypes : StartTask(w, j, type)
    BY <2>1, ChainStart
  <2>2. CASE \E w \in Workers : WorkerStep(w) \/ FailTask(w) \/ Crash(w)
    BY <1>1, <1>2, <2>2, ChainCommits DEF WorkerStep
  <2>3. CASE \E s \in Subjects : DeadlinePasses(s) \/ NoticeLeaseExpires(s)
    BY <1>3, <2>3
  <2> QED BY <1>5, <2>1, <2>2, <2>3 DEF EngineNext
<1> QED BY <1>4, <1>5

(* With one worker, the outbox is one chain.  The run "fork" shows that    *)
(* two workers break it: the hypothesis is needed.                         *)
THEOREM OneWorkerOneChain ==
  ASSUME OneWorker
  PROVE  EngineSpec => []ChainLinear
<1>1. EngineInit => EngineInv /\ ChainInv
  BY EngineInvInit, ChainInvInit
<1>2. EngineInv /\ ChainInv /\ [EngineNext]_engineVars => (EngineInv /\ ChainInv)'
  BY EngineInvNext, ChainInvNext
<1>3. EngineInv /\ ChainInv => ChainLinear
  BY ChainInvImplies
<1> QED BY <1>1, <1>2, <1>3, PTL DEF EngineSpec
-----------------------------------------------------------------------------
(* What a step may change, for a system the workers are a part of.         *)

(* A task runs to its end as what it was started as.                       *)
LEMMA TaskKept ==
  ASSUME EngineTypeOK, [EngineNext]_engineVars, clock' = clock,
         NEW w \in Workers, proc'[w].pc # "idle"
  PROVE  /\ proc[w].pc # "idle"
         /\ proc'[w].job = proc[w].job /\ proc'[w].type = proc[w].type
<1> DEFINE Goal == /\ proc[w].pc # "idle"
                   /\ proc'[w].job = proc[w].job
                   /\ proc'[w].type = proc[w].type
<1>t. proc \in [Workers -> Task \union {Idle}] /\ clock \in Nat
  BY EngineAssumption DEF EngineTypeOK
<1>1. ASSUME proc'[w] = proc[w]
      PROVE  Goal
  BY <1>1
<1>2. ASSUME NEW v \in Workers, proc' = [proc EXCEPT ![v] = Idle]
      PROVE  Goal
  BY <1>t, <1>1, <1>2 DEF Idle
<1>3. ASSUME NEW v \in Workers, proc[v].pc # "idle", NEW pc \in Steps,
             Goto(v, pc) \/ Begin(v, pc)
      PROVE  Goal
  BY <1>t, <1>1, <1>3 DEF Task, Idle, Goto, Begin
<1>4. ASSUME NEW v \in Workers, NEW j \in Jobs, NEW type \in TaskTypes,
             StartTask(v, j, type)
      PROVE  Goal
  BY <1>t, <1>4 DEF StartTask
<1>5. ASSUME NEW v \in Workers, WorkerStep(v) \/ FailTask(v) \/ Crash(v)
      PROVE  \/ proc' = [proc EXCEPT ![v] = Idle]
             \/ /\ proc[v].pc # "idle"
                /\ \E pc \in Steps : Goto(v, pc) \/ Begin(v, pc)
  <2>1. CASE BeginVault(v) \/ BeginShred(v)
    BY <2>1 DEF BeginVault, BeginShred, Starting, At, Ack, Steps
  <2>2. CASE CommitVault(v) \/ CommitRecord(v) \/ CommitShred(v)
             \/ ClearLease(v) \/ FailTask(v) \/ Crash(v)
    BY <2>2 DEF CommitVault, CommitRecord, CommitShred, ClearLease, FailTask,
       Crash, Ack, Retry
  <2>3. CASE ReserveNotice(v) \/ BeginRecord(v) \/ FailRecord(v)
             \/ \E reached, answered \in BOOLEAN : SendMail(v, reached, answered)
    BY <2>3 DEF ReserveNotice, BeginRecord, FailRecord, SendMail, Starting, At,
       Ack, Retry, Steps
  <2> QED
    BY <1>5, <2>1, <2>2, <2>3 DEF WorkerStep
<1>6. ASSUME NEW s \in Subjects, DeadlinePasses(s) \/ NoticeLeaseExpires(s)
      PROVE  Goal
  BY <1>1, <1>6 DEF DeadlinePasses, NoticeLeaseExpires
<1>7. ASSUME UNCHANGED engineVars
      PROVE  Goal
  BY <1>1, <1>7 DEF engineVars
<1> HIDE DEF Goal
<1>8. ASSUME NEW v \in Workers, WorkerStep(v) \/ FailTask(v) \/ Crash(v)
      PROVE  Goal
  BY <1>2, <1>3, <1>5, <1>8
<1>9. Goal
  <2>1. CASE UNCHANGED engineVars
    BY <1>7, <2>1
  <2>2. CASE \E v \in Workers, j \in Jobs, type \in TaskTypes :
               StartTask(v, j, type)
    BY <1>4, <2>2
  <2>3. CASE \E v \in Workers : WorkerStep(v) \/ FailTask(v) \/ Crash(v)
    BY <1>8, <2>3
  <2>4. CASE \E s \in Subjects : DeadlinePasses(s) \/ NoticeLeaseExpires(s)
    BY <1>6, <2>4
  <2> QED
    BY <2>1, <2>2, <2>3, <2>4 DEF EngineNext
<1> QED
  BY <1>9 DEF Goal

(* A row added to the outbox is new, and belongs to the job of a running   *)
(* task or to the one its subject was vaulted for.                         *)
LEMMA OutboxStep ==
  ASSUME EngineInv, [EngineNext]_engineVars
  PROVE  \/ outbox' = outbox
         \/ \E r : \E w \in Workers :
              /\ outbox' = outbox \union {r} /\ ~Enqueued(r.key)
              /\ proc[w].pc # "idle"
              /\ \/ r.key[1] = proc[w].job
                 \/ /\ Subject(w) \in Subjects /\ Vaulted(Subject(w))
                    /\ r.key[1] = vault[Subject(w)].job
<1> DEFINE Goal ==
      \/ outbox' = outbox
      \/ \E r : \E w \in Workers :
           /\ outbox' = outbox \union {r} /\ ~Enqueued(r.key)
           /\ proc[w].pc # "idle"
           /\ \/ r.key[1] = proc[w].job
              \/ /\ Subject(w) \in Subjects /\ Vaulted(Subject(w))
                 /\ r.key[1] = vault[Subject(w)].job
<1>t. EngineTypeOK /\ \A w \in Workers : TaskGrounded(w)
  BY DEF EngineInv
<1>1. ASSUME NEW w \in Workers, proc[w].pc # "idle", NEW j, NEW type,
             Enqueue(w, j, type),
             \/ j = proc[w].job
             \/ Vaulted(Subject(w)) /\ j = vault[Subject(w)].job
      PROVE  Goal
  <2> DEFINE r == [key |-> <<j, type>>, prev |-> proc[w].tail, at |-> proc[w].at]
  <2>1. r.key = <<j, type>> /\ r.key[1] = j
    OBVIOUS
  <2>2. outbox' = outbox \/ (outbox' = outbox \union {r} /\ ~Enqueued(r.key))
    BY <1>1, <2>1 DEF Enqueue
  <2>3. Subject(w) \in Subjects
    BY <1>t, <1>1, Running
  <2> HIDE DEF r
  <2> QED
    BY <1>1, <2>1, <2>2, <2>3
<1>2. ASSUME NEW w \in Workers, CommitVault(w)
      PROVE  Goal
  <2>1. \/ outbox' = outbox
        \/ Enqueue(w, proc[w].job, "USER_HARD_DELETED")
        \/ Enqueue(w, proc[w].job, "USER_VAULTED")
    BY <1>2 DEF CommitVault
  <2> QED
    BY <1>1, <1>2, <2>1 DEF CommitVault, At
<1>3. ASSUME NEW w \in Workers, CommitRecord(w) \/ CommitShred(w)
      PROVE  Goal
  <2>1. proc[w].pc # "idle" /\ proc[w] # Idle
    BY <1>3 DEF CommitRecord, CommitShred, At, Idle
  <2>3. ASSUME CommitRecord(w) PROVE Vaulted(Subject(w))
    BY <1>t, <2>1, <2>3 DEF CommitRecord, At, TaskGrounded
  <2>4. ASSUME CommitShred(w) PROVE Vaulted(Subject(w))
    BY <1>t, <2>1, <2>4 DEF CommitShred, At, TaskGrounded
  <2>2. \/ Enqueue(w, vault[Subject(w)].job, "NOTIFICATION_SENT")
        \/ Enqueue(w, vault[Subject(w)].job, "SHRED_SUCCESS")
    BY <1>3 DEF CommitRecord, CommitShred
  <2> QED
    BY <1>1, <1>3, <2>1, <2>2, <2>3, <2>4
<1> QED
  BY <1>2, <1>3
  DEF EngineNext, engineVars, StartTask, WorkerStep, FailTask, Crash,
      BeginVault, ReserveNotice, SendMail, BeginRecord, FailRecord, ClearLease,
      BeginShred, DeadlinePasses, NoticeLeaseExpires

(* A vault row that is new is of a running task's job; one that was there  *)
(* keeps its job, and is shredded by a running shred task of its subject.  *)
LEMMA VaultStep ==
  ASSUME EngineInv, [EngineNext]_engineVars, NEW s \in Subjects, Vaulted(s)'
  PROVE  \/ /\ ~Vaulted(s) /\ ~vault'[s].shredded
            /\ \E w \in Workers : /\ proc[w].pc # "idle"
                                  /\ vault'[s].job = proc[w].job
         \/ /\ Vaulted(s) /\ vault'[s].job = vault[s].job
            /\ \/ vault'[s].shredded = vault[s].shredded
               \/ \E w \in Workers :
                    /\ proc[w].pc # "idle" /\ proc[w].type = "SHRED_USER"
                    /\ Subject(w) = s
<1> DEFINE Goal ==
      \/ /\ ~Vaulted(s) /\ ~vault'[s].shredded
         /\ \E w \in Workers : /\ proc[w].pc # "idle"
                               /\ vault'[s].job = proc[w].job
      \/ /\ Vaulted(s) /\ vault'[s].job = vault[s].job
         /\ \/ vault'[s].shredded = vault[s].shredded
            \/ \E w \in Workers :
                 /\ proc[w].pc # "idle" /\ proc[w].type = "SHRED_USER"
                 /\ Subject(w) = s
<1>t. EngineTypeOK /\ \A w \in Workers : TaskGrounded(w)
  BY DEF EngineInv
<1>v. vault \in [Subjects -> VaultRow \union {NoVault}]
  BY <1>t DEF EngineTypeOK
<1>1. ASSUME vault'[s] = vault[s]
      PROVE  Goal
  BY <1>1 DEF Vaulted
<1>2. ASSUME NEW w \in Workers, proc[w].pc # "idle",
             ~Vaulted(s), vault'[s].job = proc[w].job, ~vault'[s].shredded
      PROVE  Goal
  BY <1>2
<1>3. ASSUME Vaulted(s), vault'[s].job = vault[s].job,
             vault'[s].shredded = vault[s].shredded
      PROVE  Goal
  BY <1>3
<1>4. ASSUME NEW u \in Subjects, NEW row, vault' = [vault EXCEPT ![u] = row]
      PROVE  u = s \/ vault'[s] = vault[s]
  BY <1>v, <1>4
<1>5. ASSUME NEW w \in Workers, CommitVault(w)
      PROVE  Goal
  <2>1. proc[w].pc # "idle" /\ proc[w] # Idle
    BY <1>5 DEF CommitVault, At, Idle
  <2>2. ~Vaulted(Subject(w))
    BY <1>5, <1>t, <2>1 DEF CommitVault, At, TaskGrounded
  <2>3. CASE vault' = vault
    BY <1>1, <2>3
  <2>4. ASSUME NEW age, vault' = [vault EXCEPT ![Subject(w)] = NewVault(w, age)]
        PROVE  Goal
    <3>1. /\ NewVault(w, age).job = proc[w].job
          /\ ~NewVault(w, age).shredded
      BY DEF NewVault
    <3>2. Subject(w) # s => vault'[s] = vault[s]
      BY <1>v, <2>4
    <3>3. Subject(w) = s => vault'[s] = NewVault(w, age)
      BY <1>v, <2>4
    <3> QED
      BY <1>1, <1>2, <2>1, <2>2, <3>1, <3>2, <3>3
  <2> QED
    BY <1>5, <2>3, <2>4 DEF CommitVault
<1>6. ASSUME NEW w \in Workers, CommitShred(w)
      PROVE  Goal
  <2>1. /\ proc[w].pc # "idle" /\ proc[w] # Idle
        /\ proc[w].type = "SHRED_USER"
        /\ vault' = [vault EXCEPT ![Subject(w)].shredded = TRUE]
    BY <1>6 DEF CommitShred, At, Idle
  <2>2. Vaulted(Subject(w))
    BY <1>6, <1>t, <2>1 DEF CommitShred, At, TaskGrounded
  <2>3. CASE Subject(w) # s
    BY <1>1, <1>v, <2>1, <2>3
  <2>4. CASE Subject(w) = s
    <3>1. vault[s] \in VaultRow
      BY <1>t, <2>2, <2>4, VaultIsRow
    <3>2. vault'[s].job = vault[s].job
      BY <1>v, <2>1, <2>4, <3>1 DEF VaultRow
    <3> QED
      BY <2>1, <2>2, <2>4, <3>2
  <2> QED
    BY <2>3, <2>4
<1>7. ASSUME NEW row, vault'[s] = row, Vaulted(s), row.job = vault[s].job,
             row.shredded = vault[s].shredded
      PROVE  Goal
  BY <1>7
<1>8. ASSUME NEW u \in Subjects, Vaulted(u), NEW row,
             row.job = vault[u].job, row.shredded = vault[u].shredded,
             vault' = [vault EXCEPT ![u] = row]
      PROVE  Goal
  <2>1. u = s => vault'[s] = row
    BY <1>v, <1>8
  <2> QED
    BY <1>1, <1>4, <1>7, <1>8, <2>1
<1>9. ASSUME NEW u \in Subjects, Vaulted(u),
             NEW lock, NEW leased, NEW sent, NEW age
      PROVE  /\ [vault[u] EXCEPT !.lock = lock, !.leased = leased].job
                  = vault[u].job
             /\ [vault[u] EXCEPT !.lock = lock, !.leased = leased].shredded
                  = vault[u].shredded
             /\ [vault[u] EXCEPT !.sent = sent, !.lock = lock,
                                 !.leased = leased].job = vault[u].job
             /\ [vault[u] EXCEPT !.sent = sent, !.lock = lock,
                                 !.leased = leased].shredded
                  = vault[u].shredded
             /\ [vault[u] EXCEPT !.age = age].job = vault[u].job
             /\ [vault[u] EXCEPT !.age = age].shredded = vault[u].shredded
             /\ [vault[u] EXCEPT !.leased = leased].job = vault[u].job
             /\ [vault[u] EXCEPT !.leased = leased].shredded
                  = vault[u].shredded
  <2>1. vault[u] \in VaultRow
    BY <1>9, <1>t, VaultIsRow
  <2> QED
    BY <2>1 DEF VaultRow
<1>10. ASSUME NEW w \in Workers,
              ReserveNotice(w) \/ CommitRecord(w) \/ ClearLease(w)
       PROVE  Goal
  <2>1. proc[w].pc # "idle" /\ proc[w] # Idle
    BY <1>10 DEF ReserveNotice, CommitRecord, ClearLease, Starting, At, Idle
  <2>2. Subject(w) \in Subjects
    BY <1>t, <2>1, Running
  <2>3. vault' = vault \/ Vaulted(Subject(w))
    BY <1>10, <1>t, <2>1
    DEF ReserveNotice, CommitRecord, ClearLease, At, TaskGrounded
  <2>4. PICK u \in Subjects : u = Subject(w)
    BY <2>2
  <2> DEFINE row1 == [vault[u] EXCEPT !.lock = w, !.leased = TRUE]
             row2 == [vault[u] EXCEPT !.lock = NoLock, !.leased = FALSE]
             row3 == [vault[u] EXCEPT !.sent = TRUE, !.lock = NoLock,
                                      !.leased = FALSE]
  <2>5. \/ vault' = vault
        \/ vault' = [vault EXCEPT ![u] = row1]
        \/ vault' = [vault EXCEPT ![u] = row2]
        \/ vault' = [vault EXCEPT ![u] = row3]
    BY <1>v, <1>10, <2>4 DEF ReserveNotice, CommitRecord, ClearLease
  <2>6. ASSUME Vaulted(u)
        PROVE  /\ row1.job = vault[u].job /\ row1.shredded = vault[u].shredded
               /\ row2.job = vault[u].job /\ row2.shredded = vault[u].shredded
               /\ row3.job = vault[u].job /\ row3.shredded = vault[u].shredded
    BY <1>9, <2>6
  <2> HIDE DEF row1, row2, row3, Goal
  <2> QED
    BY <1>1, <1>8, <2>3, <2>4, <2>5, <2>6
<1>11. ASSUME NEW u \in Subjects, DeadlinePasses(u) \/ NoticeLeaseExpires(u)
       PROVE  Goal
  <2>1. Vaulted(u)
    BY <1>11 DEF DeadlinePasses, NoticeLeaseExpires
  <2>2. CASE DeadlinePasses(u)
    <3> DEFINE row == [vault[u] EXCEPT !.age = vault[u].age + 1]
    <3>1. vault' = [vault EXCEPT ![u] = row]
      BY <1>v, <2>2 DEF DeadlinePasses
    <3>2. row.job = vault[u].job /\ row.shredded = vault[u].shredded
      BY <1>9, <2>1
    <3> HIDE DEF row, Goal
    <3> QED
      BY <1>8, <2>1, <3>1, <3>2
  <2>3. CASE NoticeLeaseExpires(u)
    <3> DEFINE row == [vault[u] EXCEPT !.leased = FALSE]
    <3>1. vault' = [vault EXCEPT ![u] = row]
      BY <1>v, <2>3 DEF NoticeLeaseExpires
    <3>2. row.job = vault[u].job /\ row.shredded = vault[u].shredded
      BY <1>9, <2>1
    <3> HIDE DEF row, Goal
    <3> QED
      BY <1>8, <2>1, <3>1, <3>2
  <2> QED
    BY <1>11, <2>2, <2>3
<1> HIDE DEF Goal
<1>12. ASSUME vault' = vault
       PROVE  Goal
  BY <1>1, <1>12
<1>13. Goal
  BY <1>5, <1>6, <1>10, <1>11, <1>12
  DEF EngineNext, engineVars, StartTask, WorkerStep, FailTask, Crash,
      BeginVault, SendMail, BeginRecord, FailRecord, BeginShred
<1> QED
  BY <1>13 DEF Goal
=============================================================================
