------------------------- MODULE ErasureSystemProofs -------------------------
(***************************************************************************)
(* Proofs about ErasureSystem: the two sides, put together, stay what they *)
(* are on their own, and together they keep what neither promises alone.   *)
(*                                                                         *)
(* Each side's invariant is taken over as it was proved.  Coupled says     *)
(* what one side knows of the other: what the ledger holds, an outbox      *)
(* committed, and whoever a worker works for, an operator's job was taken  *)
(* up for.                                                                 *)
(***************************************************************************)
EXTENDS ErasureSystem, ControlPlaneSafety

EP == INSTANCE WorkerEngineProofs

-----------------------------------------------------------------------------
(* The worker's side: its proofs are about an instance of their own.       *)

LEMMA EngineConstants == EP!EngineAssumption
  BY SystemAssumption, ConstantsAssumption
  DEF EP!EngineAssumption, EP!Ages, EP!Keys, EP!EventTypes, Keys, EventTypes

LEMMA SameInit == Engine!EngineInit <=> EP!EngineInit
  BY DEF Engine!EngineInit, Engine!NoVault, Engine!Idle,
     EP!EngineInit, EP!NoVault, EP!Idle

LEMMA SameNext ==
  [Engine!EngineNext]_engineState <=> [EP!EngineNext]_(EP!engineVars)
  BY DEF engineState, EP!engineVars,
     Engine!TaskTypes, Engine!EventTypes, Engine!Keys, Engine!Hash,
     Engine!Retained, Engine!Open, Engine!Expired, Engine!Ages,
     Engine!NoVault, Engine!VaultRow, Engine!OutboxRow, Engine!Idle,
     Engine!Steps, Engine!Task, Engine!Enqueued, Engine!Tail, Engine!Enqueue,
     Engine!At, Engine!Subject, Engine!Vaulted, Engine!Goto, Engine!Begin,
     Engine!Locked, Engine!Ack, Engine!Retry, Engine!StartTask,
     Engine!Starting, Engine!BeginVault, Engine!NewVault, Engine!CommitVault,
     Engine!ReserveNotice, Engine!SendMail, Engine!BeginRecord,
     Engine!CommitRecord, Engine!FailRecord, Engine!ClearLease,
     Engine!BeginShred, Engine!CommitShred, Engine!DeadlinePasses,
     Engine!NoticeLeaseExpires, Engine!Crash, Engine!FailTask,
     Engine!WorkerStep, Engine!EngineNext,
     EP!TaskTypes, EP!EventTypes, EP!Keys, EP!Hash, EP!Retained, EP!Open,
     EP!Expired, EP!Ages, EP!NoVault, EP!VaultRow, EP!OutboxRow, EP!Idle,
     EP!Steps, EP!Task, EP!Enqueued, EP!Tail, EP!Enqueue, EP!At, EP!Subject,
     EP!Vaulted, EP!Goto, EP!Begin, EP!Locked, EP!Ack, EP!Retry,
     EP!StartTask, EP!Starting, EP!BeginVault, EP!NewVault, EP!CommitVault,
     EP!ReserveNotice, EP!SendMail, EP!BeginRecord, EP!CommitRecord,
     EP!FailRecord, EP!ClearLease, EP!BeginShred, EP!CommitShred,
     EP!DeadlinePasses, EP!NoticeLeaseExpires, EP!Crash, EP!FailTask,
     EP!WorkerStep, EP!EngineNext

(* What this module needs of the worker's invariant.                       *)
LEMMA EngineFacts ==
  ASSUME EP!EngineInv
  PROVE  /\ Engine!EngineTypeOK
         /\ Engine!EvidenceMatches
         /\ Engine!ErasureRespectsRetention
<1>1. EP!EngineTypeOK <=> Engine!EngineTypeOK
  BY DEF Engine!EngineTypeOK, Engine!VaultRow, Engine!NoVault,
     Engine!OutboxRow, Engine!Task, Engine!Idle, Engine!Ages, Engine!Steps,
     Engine!Keys, Engine!Hash, Engine!EventTypes, Engine!TaskTypes,
     EP!EngineTypeOK, EP!VaultRow, EP!NoVault, EP!OutboxRow, EP!Task,
     EP!Idle, EP!Ages, EP!Steps, EP!Keys, EP!Hash, EP!EventTypes, EP!TaskTypes
<1>2. EP!EvidenceMatches <=> Engine!EvidenceMatches
  BY DEF Engine!EvidenceMatches, Engine!Vaulted, Engine!NoVault,
     Engine!Evidence, Engine!VaultEvidence,
     EP!EvidenceMatches, EP!Vaulted, EP!NoVault, EP!Evidence, EP!VaultEvidence
<1>3. EP!ErasureRespectsRetention <=> Engine!ErasureRespectsRetention
  BY DEF Engine!ErasureRespectsRetention, Engine!Vaulted, Engine!NoVault,
     Engine!Expired, EP!ErasureRespectsRetention, EP!Vaulted, EP!NoVault,
     EP!Expired
<1> QED
  BY <1>1, <1>2, <1>3 DEF EP!EngineInv

(* Every step of the platform is one of the worker's, or not his.          *)
LEMMA EngineStep ==
  ASSUME [SystemNext]_systemVars
  PROVE  [Engine!EngineNext]_engineState
<1>1. CASE UNCHANGED systemVars
  BY <1>1 DEF systemVars
<1>2. ASSUME NEW h \in Handlers, NEW w \in Workers, NEW t \in TaskIds,
             HandOut(h, w, t)
      PROVE  Engine!EngineNext
  <2>1. t[1] \in Jobs /\ t[2] \in Engine!TaskTypes
    BY TaskIdParts DEF Engine!TaskTypes, TaskTypes
  <2> QED
    BY <1>2, <2>1 DEF HandOut, Engine!EngineNext
<1>3. ASSUME NEW w \in Workers, Work(w) \/ FailWork(w)
      PROVE  Engine!EngineNext
  <2>1. Engine!WorkerStep(w) \/ Engine!FailTask(w) \/ Engine!Crash(w)
    BY <1>3 DEF Work, FailWork, Engine!WorkerStep
  <2> QED
    BY <2>1 DEF Engine!EngineNext
<1>4. CASE WorkerClock
  BY <1>4 DEF WorkerClock, Engine!EngineNext
<1>5. ASSUME NEW h \in Handlers, NEW j \in Jobs, Ask(h, j)
      PROVE  UNCHANGED engineState
  BY <1>5 DEF Ask, ApiOnly
<1>6. ASSUME NEW j \in Jobs, CancelRequest(j) \/ ApiClock(j)
      PROVE  UNCHANGED engineState
  BY <1>6 DEF CancelRequest, ApiClock, ApiOnly
<1>7. ASSUME NEW h \in Handlers,
             Serve(h) \/ LoseCall(h) \/ Settle(h) \/ LoseAnswer(h)
      PROVE  UNCHANGED engineState
  BY <1>7 DEF Serve, LoseCall, Settle, LoseAnswer, ApiOnly
<1>8. ASSUME NEW h \in Handlers, NEW c \in Configs, Poll(h, c)
      PROVE  UNCHANGED engineState
  BY <1>8 DEF Poll, ApiOnly
<1>9. ASSUME NEW h \in Handlers, NEW t \in TaskIds,
             LoseClaim(h, t) \/ TakeAck(h, t)
      PROVE  UNCHANGED engineState
  BY <1>9 DEF LoseClaim, TakeAck, ApiOnly
<1>10. ASSUME NEW h \in Handlers, NEW r \in outbox, Deliver(h, r)
       PROVE  UNCHANGED engineState
  BY <1>10 DEF Deliver, ApiOnly
<1>11. ASSUME NEW t \in TaskIds, Requeue(t) \/ LeaseRunsOut(t)
       PROVE  UNCHANGED engineState
  BY <1>11 DEF Requeue, LeaseRunsOut, ApiOnly
<1> QED
  BY <1>1, <1>2, <1>3, <1>4, <1>5, <1>6, <1>7, <1>8, <1>9, <1>10, <1>11
  DEF SystemNext

(* In the platform the workers are exactly the workers of WorkerEngine,    *)
(* whose environment hands out any task at any time.                       *)
THEOREM WorkersStayWorkers == SystemSpec => Engine!EngineSpec
<1>1. SystemInit => Engine!EngineInit
  BY DEF SystemInit
<1>2. [SystemNext]_systemVars => [Engine!EngineNext]_(Engine!engineVars)
  BY EngineStep DEF engineState, Engine!engineVars
<1> QED
  BY <1>1, <1>2, PTL DEF SystemSpec, Engine!EngineSpec

(* ... so all that was proved of them holds of the platform.               *)
LEMMA EngineInvHolds == SystemSpec => []EP!EngineInv
<1>1. SystemInit => EP!EngineInv
  BY SameInit, EP!EngineInvInit, EngineConstants DEF SystemInit
<1>2. EP!EngineInv /\ [SystemNext]_systemVars => EP!EngineInv'
  BY SameNext, EngineStep, EP!EngineInvNext, EngineConstants
<1> QED
  BY <1>1, <1>2, PTL DEF SystemSpec

-----------------------------------------------------------------------------
(* The control plane's side.                                               *)

(* An outbox row is an event the control plane takes.                      *)
LEMMA EventOfRow ==
  ASSUME Engine!EngineTypeOK, NEW r \in outbox
  PROVE  /\ r.key[1] \in Jobs /\ r.key[2] \in EventTypes
         /\ SubjectOf[r.key[1]] \in Subjects
         /\ r.key = <<r.key[1], r.key[2]>>
         /\ EventOf(r) \in WorkerEvents
         /\ EventOf(r).prev = r.prev
         /\ Key(EventOf(r)) = r.key
<1>1. r \in Engine!OutboxRow
  BY DEF Engine!EngineTypeOK
<1>2. r.key \in Jobs \X EventTypes /\ r.prev \in Hash
  BY <1>1 DEF Engine!OutboxRow, Engine!Keys, Engine!EventTypes, Engine!Hash,
     EventTypes, Hash, Keys
<1>3. /\ r.key[1] \in Jobs /\ r.key[2] \in EventTypes
      /\ r.key = <<r.key[1], r.key[2]>>
  BY <1>2
<1>4. /\ SubjectOf[r.key[1]] \in Subjects
      /\ RuleOf[SubjectOf[r.key[1]]] \in Rules
  BY <1>3, SystemAssumption
<1> QED
  BY <1>2, <1>3, <1>4, SystemAssumption DEF EventOf, Event, Key

(* Every step of the platform is one of the control plane's, or not its.   *)
LEMMA PlaneStep ==
  ASSUME Engine!EngineTypeOK, [SystemNext]_systemVars
  PROVE  [Next]_vars
<1>1. CASE UNCHANGED systemVars
  BY <1>1 DEF systemVars
<1>2. ASSUME NEW h \in Handlers, NEW j \in Jobs, Ask(h, j)
      PROVE  Next
  BY <1>2 DEF Ask, Next, Request
<1>3. ASSUME NEW j \in Jobs, CancelRequest(j) \/ ApiClock(j)
      PROVE  Next
  BY <1>3 DEF CancelRequest, ApiClock, Next, Clock
<1>4. ASSUME NEW h \in Handlers, Serve(h) \/ LoseCall(h)
      PROVE  Next
  BY <1>4 DEF Serve, LoseCall, Next, HandlerStep
<1>5. ASSUME NEW h \in Handlers, Settle(h) \/ LoseAnswer(h)
      PROVE  Next
  BY <1>5 DEF Settle, LoseAnswer, Next, HandlerStep
<1>6. ASSUME NEW h \in Handlers, NEW c \in Configs, Poll(h, c)
      PROVE  Next
  BY <1>6 DEF Poll, Next, Request
<1>7. ASSUME NEW h \in Handlers, NEW t \in TaskIds,
             (\E w \in Workers : HandOut(h, w, t)) \/ LoseClaim(h, t)
      PROVE  Next
  BY <1>7 DEF HandOut, LoseClaim, Next, HandlerStep
<1>8. ASSUME NEW h \in Handlers, NEW t \in TaskIds, TakeAck(h, t)
      PROVE  Next
  <2>1. AckCompleted(h, t) \/ AckReplayed(h, t) \/ AckFailed(t, FALSE)
    BY <1>8 DEF TakeAck
  <2> QED
    BY <2>1 DEF Next, Request
<1>9. ASSUME NEW h \in Handlers, NEW r \in outbox, Deliver(h, r)
      PROVE  Next
  BY <1>9, EventOfRow DEF Deliver, Next, Request
<1>10. ASSUME NEW t \in TaskIds, Requeue(t) \/ LeaseRunsOut(t)
       PROVE  Next
  BY <1>10 DEF Requeue, LeaseRunsOut, Next, Clock, Operator
<1>11. ASSUME NEW w \in Workers, Work(w) \/ FailWork(w)
       PROVE  UNCHANGED vars
  BY <1>11 DEF Work, FailWork, EngineOnly
<1>12. CASE WorkerClock
  BY <1>12 DEF WorkerClock, EngineOnly
<1> QED
  BY <1>1, <1>2, <1>3, <1>4, <1>5, <1>6, <1>7, <1>8, <1>9, <1>10, <1>11, <1>12
  DEF SystemNext

(* In the platform the control plane is exactly the control plane of       *)
(* ControlPlane, whose environment sends any event and any acknowledgement.*)
THEOREM ControlPlaneStays == SystemSpec => Spec
<1>1. SystemInit => Init
  BY DEF SystemInit
<1>2. EP!EngineInv /\ [SystemNext]_systemVars => [Next]_vars
  BY EngineFacts, PlaneStep
<1> QED
  BY <1>1, <1>2, EngineInvHolds, PTL DEF SystemSpec, Spec

(* So the platform keeps what ErasurePromise tells the operator.           *)
THEOREM PlatformImplements == SystemSpec => KeepsPromise
<1> QED
  BY ControlPlaneStays, Implements

-----------------------------------------------------------------------------
(* What the two sides know of each other.                                  *)

(* An event some transaction of a worker committed.                        *)
Sent(e) == \E r \in outbox : e = EventOf(r)

EvidenceSent ==
  /\ \A e \in ledger : Sent(e)
  /\ \A h \in Handlers : call[h].op = "ingest" => Sent(call[h].ev)
  /\ \A key \in settled : Recorded(key)

OneRowPerEvent == \A q, r \in outbox : q.key = r.key => q = r

(* Nobody works for a job that was not taken up, and a shred is under way  *)
(* only when the notice is on record.                                      *)
WorkOfActive ==
  /\ \A w \in Workers : proc[w].pc # "idle" =>
       /\ job[proc[w].job].status \in Active
       /\ proc[w].type = "SHRED_USER" =>
            Recorded(<<proc[w].job, "NOTIFICATION_SENT">>)
  /\ \A s \in Subjects : Engine!Vaulted(s) =>
       job[vault[s].job].status \in Active
  /\ \A r \in outbox : job[r.key[1]].status \in Active

Coupled ==
  /\ EvidenceSent
  /\ OneRowPerEvent
  /\ WorkOfActive
  /\ ShredIsDocumented

(* A call starts to ingest a row of the outbox, and nothing else.          *)
LEMMA ReceivedRow ==
  ASSUME TypeOK, [SystemNext]_systemVars, NEW h \in Handlers,
         call[h] = Idle, call'[h].op = "ingest"
  PROVE  \E r \in outbox : call'[h].ev = EventOf(r)
<1>t. call \in [Handlers -> Call] /\ call[h].op = "idle"
  BY DEF TypeOK, Idle
<1>0. ASSUME call'[h] = call[h]
      PROVE  FALSE
  BY <1>0, <1>t
<1>1. ASSUME NEW g \in Handlers, NEW c, call' = [call EXCEPT ![g] = c],
             g = h => c.op # "ingest"
      PROVE  FALSE
  BY <1>t, <1>1
<1>2. ASSUME NEW g \in Handlers, call[g].op # "idle", NEW c,
             call' = [call EXCEPT ![g] = c]
      PROVE  FALSE
  BY <1>t, <1>2
<1>3. ASSUME NEW g \in Handlers, NEW j \in Jobs, Ask(g, j)
      PROVE  FALSE
  <2>1. PICK form \in Forms : BeginCreate(g, j, form)
    BY <1>3 DEF Ask
  <2>2. [op |-> "create", job |-> j, form |-> form].op # "ingest"
    OBVIOUS
  <2> QED
    BY <1>1, <2>1, <2>2 DEF BeginCreate
<1>4. ASSUME NEW g \in Handlers, Serve(g) \/ LoseCall(g) \/ Settle(g)
                                  \/ LoseAnswer(g)
      PROVE  FALSE
  <2>1. ASSUME call[g].op # "idle", NEW s \in IngestSteps,
               Advance(g, s) \/ Return(g)
        PROVE  FALSE
    BY <1>t, <1>2, <2>1 DEF Advance, Return
  <2>2. ASSUME Return(g), call[g] # Idle
        PROVE  FALSE
    BY <1>t, <2>2 DEF Return, Idle
  <2>3. CASE FinishCreate(g) \/ ClaimNothing(g) \/ RecordShadowSuccess(g)
             \/ Bill(g) \/ Crash(g)
    BY <2>2, <2>3 DEF FinishCreate, ClaimNothing, RecordShadowSuccess, Bill,
       Crash, Ingesting, Idle
  <2>4. CASE InsertHeartbeat(g)
    BY <1>2, <2>4 DEF InsertHeartbeat
  <2>5. CASE \/ LookupEvent(g) \/ CheckHead(g) \/ AppendLedger(g)
             \/ ApplyTransition(g) \/ Certify(g)
             \/ \E a, b \in BOOLEAN : DispatchWebhook(g, a, b)
    BY <2>1, <2>5 DEF LookupEvent, CheckHead, AppendLedger, ApplyTransition,
       Certify, DispatchWebhook, Ingesting, IngestSteps
  <2> QED
    BY <1>4, <2>3, <2>4, <2>5 DEF Serve, LoseCall, Settle, LoseAnswer
<1>5. ASSUME NEW g \in Handlers, NEW c \in Configs, Poll(g, c)
      PROVE  FALSE
  <2>1. [op |-> "sync", config |-> c, seen |-> head].op # "ingest"
    OBVIOUS
  <2> QED
    BY <1>1, <1>5, <2>1 DEF Poll, BeginSync
<1>6. ASSUME NEW g \in Handlers, NEW t \in TaskIds,
             (\E w \in Workers : HandOut(g, w, t)) \/ LoseClaim(g, t)
      PROVE  FALSE
  BY <1>1, <1>6 DEF HandOut, LoseClaim, ClaimTask, Return, Idle
<1>7. ASSUME NEW g \in Handlers, NEW t \in TaskIds, TakeAck(g, t)
      PROVE  FALSE
  <2> DEFINE c == IF CountsTowardsBurnIn(t)
                  THEN [op |-> "burnIn", task |-> t] ELSE Idle
  <2>1. c.op # "ingest"
    BY DEF Idle
  <2>2. call' = call \/ call' = [call EXCEPT ![g] = c]
    BY <1>7 DEF TakeAck, AckCompleted, AckReplayed, AckFailed, AfterCompleted
  <2> HIDE DEF c
  <2> QED
    BY <1>0, <1>1, <2>1, <2>2
<1>8. ASSUME NEW g \in Handlers, NEW r \in outbox, Deliver(g, r)
      PROVE  call'[h].ev = EventOf(r)
  <2> DEFINE c == [op |-> "ingest", step |-> "lookup", ev |-> EventOf(r),
                   seen |-> job[EventOf(r).job]]
  <2>1. c.ev = EventOf(r) /\ call' = [call EXCEPT ![g] = c]
    BY <1>8 DEF Deliver, ReceiveEvent
  <2> HIDE DEF c
  <2> QED
    BY <1>0, <1>t, <2>1
<1>9. ASSUME NEW j \in Jobs, CancelRequest(j) \/ ApiClock(j)
      PROVE  call' = call
  BY <1>9 DEF CancelRequest, Cancel, ApiClock, DeadlinePasses
<1>10. ASSUME NEW t \in TaskIds, Requeue(t) \/ LeaseRunsOut(t)
       PROVE  call' = call
  BY <1>10 DEF Requeue, RequeueDeadLetter, LeaseRunsOut, LeaseExpires
<1>11. ASSUME NEW w \in Workers, Work(w) \/ FailWork(w)
       PROVE  call' = call
  BY <1>11 DEF Work, FailWork, EngineOnly, vars
<1>12. ASSUME WorkerClock \/ UNCHANGED systemVars
       PROVE  call' = call
  BY <1>12 DEF WorkerClock, EngineOnly, systemVars, vars
<1> QED
  BY <1>0, <1>3, <1>4, <1>5, <1>6, <1>7, <1>8, <1>9, <1>10, <1>11, <1>12
  DEF SystemNext

(* A worker goes on with its task, or was handed one that was claimed.     *)
LEMMA StartedTask ==
  ASSUME EP!EngineInv, [SystemNext]_systemVars, NEW w \in Workers,
         proc'[w].pc # "idle"
  PROVE  \/ /\ proc[w].pc # "idle"
            /\ proc'[w].job = proc[w].job /\ proc'[w].type = proc[w].type
         \/ \E h \in Handlers, t \in TaskIds :
              /\ ClaimTask(h, t)
              /\ proc'[w].job = t[1] /\ proc'[w].type = t[2]
<1>t. EP!EngineTypeOK /\ proc \in [Workers -> Engine!Task \union {Engine!Idle}]
  BY EngineFacts DEF EP!EngineInv, Engine!EngineTypeOK
<1>1. CASE clock' = clock
  <2>1. [EP!EngineNext]_(EP!engineVars)
    BY SameNext, EngineStep
  <2> QED
    BY <1>t, <1>1, <2>1, EP!TaskKept, EngineConstants
<1>2. ASSUME NEW h \in Handlers, NEW v \in Workers, NEW t \in TaskIds,
             HandOut(h, v, t)
      PROVE  \/ proc'[w] = proc[w]
             \/ /\ ClaimTask(h, t)
                /\ proc'[w].job = t[1] /\ proc'[w].type = t[2]
  BY <1>t, <1>2 DEF HandOut, Engine!StartTask
<1>3. ASSUME NEW v \in Workers, Work(v) \/ FailWork(v)
      PROVE  clock' = clock
  BY <1>3 DEF Work, FailWork, Engine!BeginVault, Engine!CommitVault,
     Engine!ReserveNotice, Engine!BeginRecord, Engine!CommitRecord,
     Engine!ClearLease, Engine!SendMail, Engine!BeginShred,
     Engine!CommitShred, Engine!FailTask, Engine!Crash, Engine!FailRecord
<1>4. CASE WorkerClock
  BY <1>1, <1>4 DEF WorkerClock, Engine!DeadlinePasses,
     Engine!NoticeLeaseExpires
<1>5. CASE UNCHANGED engineState
  BY <1>1, <1>5 DEF engineState
<1>6. CASE UNCHANGED systemVars
  BY <1>5, <1>6 DEF systemVars
<1>7. CASE /\ SystemNext
           /\ ~ \E h \in Handlers, v \in Workers, t \in TaskIds : HandOut(h, v, t)
           /\ ~ \E v \in Workers : Work(v) \/ FailWork(v)
           /\ ~ WorkerClock
  BY <1>5, <1>7
  DEF SystemNext, ApiOnly, Ask, CancelRequest, ApiClock, Serve, LoseCall,
      Settle, LoseAnswer, Poll, LoseClaim, TakeAck, Deliver, Requeue,
      LeaseRunsOut
<1> QED
  BY <1>1, <1>2, <1>3, <1>4, <1>6, <1>7
LEMMA SentGrows ==
  ASSUME outbox \subseteq outbox', NEW e, Sent(e)
  PROVE  Sent(e)'
  BY DEF Sent, EventOf

(* What is for ever, and what may be new in the outbox and the vault.      *)
LEMMA Growth ==
  ASSUME TypeOK, EP!EngineInv, [SystemNext]_systemVars
  PROVE  /\ outbox \subseteq outbox'
         /\ \A key : Recorded(key) => Recorded(key)'
         /\ \A j \in Jobs : job[j].status \in Active => job'[j].status \in Active
<1>1. [EP!EngineNext]_(EP!engineVars)
  BY SameNext, EngineStep
<1>2. outbox \subseteq outbox'
  BY <1>1, EP!OutboxStep, EngineConstants
<1>3. [Next]_vars
  BY EngineFacts, PlaneStep
<1> QED
  BY <1>2, <1>3, Monotone, RecordedGrows

LEMMA EvidenceSentStep ==
  ASSUME IInv, EP!EngineInv, EvidenceSent, [SystemNext]_systemVars
  PROVE  EvidenceSent'
<1>t. TypeOK
  BY DEF IInv
<1>n. [Next]_vars
  BY EngineFacts, PlaneStep
<1>g. /\ \A key : Recorded(key) => Recorded(key)'
      /\ \A e : Sent(e) => Sent(e)'
  BY <1>t, Growth, SentGrows
<1>1. ASSUME NEW e \in ledger'
      PROVE  Sent(e)'
  <2>1. CASE ledger' = ledger
    BY <1>1, <1>g, <2>1 DEF EvidenceSent
  <2>2. ASSUME NEW h \in Handlers, AppendLedger(h),
               ledger' = ledger \union {call[h].ev}
        PROVE  Sent(e)'
    BY <1>1, <1>g, <2>2 DEF EvidenceSent, AppendLedger, Ingesting
  <2> QED
    BY <1>t, <1>n, <2>1, <2>2, LedgerGrowsBy
<1>2. ASSUME NEW h \in Handlers, call'[h].op = "ingest"
      PROVE  \E r \in outbox' : call'[h].ev = EventOf(r)
  <2>1. CASE call[h].op = "ingest" /\ call'[h].ev = call[h].ev
    BY <1>t, <2>1, Growth DEF EvidenceSent, Sent
  <2>2. ASSUME NEW e \in WorkerEvents, ReceiveEvent(h, e)
        PROVE  \E r \in outbox' : call'[h].ev = EventOf(r)
    <3>1. PICK r \in outbox : call'[h].ev = EventOf(r)
      BY <1>t, <1>2, <2>2, ReceivedRow DEF ReceiveEvent
    <3> QED
      BY <1>t, <3>1, Growth
  <2> QED
    BY <1>2, <1>n, <1>t, <2>1, <2>2, IngestStep
<1>3. ASSUME NEW key \in settled'
      PROVE  Recorded(key)'
  <2>1. CASE settled' = settled
    BY <1>3, <1>g, <2>1 DEF EvidenceSent
  <2>2. ASSUME NEW h \in Handlers, Settle(h)
        PROVE  Recorded(key)'
    <3>1. call[h].op = "ingest" /\ call[h].step = "bill"
      BY <2>2 DEF Settle, Bill, Ingesting
    <3>2. call[h].ev \in ledger
      BY <3>1 DEF IInv, Grounded, CallsGrounded, CallGrounded
    <3>3. Recorded(Key(call[h].ev))
      BY <3>2 DEF Recorded
    <3>4. settled' = settled \union {Key(call[h].ev)}
      BY <2>2 DEF Settle
    <3> QED
      BY <1>3, <1>g, <3>3, <3>4 DEF EvidenceSent
  <2> QED
    BY <2>1, <2>2
    DEF SystemNext, systemVars, ApiOnly, EngineOnly, Ask, CancelRequest,
        ApiClock, Serve, LoseCall, LoseAnswer, Poll, HandOut, LoseClaim,
        TakeAck, Deliver, Requeue, LeaseRunsOut, Work, FailWork, WorkerClock
<1>4. \A h \in Handlers : call'[h].op = "ingest" => Sent(call[h].ev)'
  BY <1>2 DEF Sent, EventOf
<1> QED
  BY <1>1, <1>3, <1>4 DEF EvidenceSent

(* A job that is claimed is thereby taken up, and a shred is claimed only  *)
(* after its notice was recorded.                                          *)
LEMMA ClaimedTask ==
  ASSUME IInv, NoEarlyTask, [Next]_vars, NEW h \in Handlers,
         NEW t \in TaskIds, ClaimTask(h, t)
  PROVE  /\ job'[t[1]].status \in Active
         /\ t[2] = "SHRED_USER" => Recorded(<<t[1], "NOTIFICATION_SENT">>)
<1>t. TypeOK /\ TasksFollowJob /\ StatusBacked
  BY DEF IInv, Grounded
<1>1. t[1] \in Jobs /\ t[2] \in TaskTypes /\ t = <<t[1], t[2]>>
  BY TaskIdParts
<1>2. Claimable(t)
  BY DEF ClaimTask
<1>3. job[t[1]].status \in Active \union {"WAITING_COOLDOWN"}
  BY <1>t, <1>2, ClaimableJob
<1>4. job'[t[1]].status = IF job[t[1]].status = "WAITING_COOLDOWN"
                          THEN "EXECUTING" ELSE job[t[1]].status
  BY <1>t, <1>1 DEF ClaimTask, TypeOK, JobRow
<1>5. ASSUME t[2] = "SHRED_USER"
      PROVE  Recorded(<<t[1], "NOTIFICATION_SENT">>)
  <2>1. CASE StageDue(t)
    BY <1>t, <1>1, <1>5, <2>1 DEF StageDue, StatusBacked, StatusBackedFor
  <2>2. CASE ~StageDue(t)
    <3>1. task[t].status # "NONE"
      BY <1>2, <2>2 DEF Claimable, Materialized
    <3>2. t = <<t[1], "SHRED_USER">>
      BY <1>1, <1>5
    <3> QED
      BY <1>1, <3>1, <3>2 DEF NoEarlyTask
  <2> QED
    BY <2>1, <2>2
<1> QED
  BY <1>3, <1>4, <1>5 DEF Active, JobStatus

LEMMA WorkOfActiveStep ==
  ASSUME IInv, NoEarlyTask, EP!EngineInv, WorkOfActive,
         [SystemNext]_systemVars
  PROVE  WorkOfActive'
<1>t. TypeOK /\ Engine!EngineTypeOK
  BY EngineFacts DEF IInv
<1>n. [Next]_vars /\ [EP!EngineNext]_(EP!engineVars)
  BY EngineFacts, PlaneStep, SameNext, EngineStep
<1>g. /\ \A key : Recorded(key) => Recorded(key)'
      /\ \A j \in Jobs : job[j].status \in Active => job'[j].status \in Active
  BY <1>t, Growth
<1>p. /\ \A w \in Workers : proc[w].pc # "idle" => proc[w].job \in Jobs
      /\ \A s \in Subjects : Engine!Vaulted(s) => vault[s].job \in Jobs
  BY <1>t DEF Engine!EngineTypeOK, Engine!Task, Engine!Idle, Engine!Vaulted,
     Engine!VaultRow
<1>1. ASSUME NEW w \in Workers, proc'[w].pc # "idle"
      PROVE  /\ job'[proc'[w].job].status \in Active
             /\ proc'[w].type = "SHRED_USER" =>
                  Recorded(<<proc[w].job, "NOTIFICATION_SENT">>)'
  <2>1. CASE /\ proc[w].pc # "idle"
             /\ proc'[w].job = proc[w].job /\ proc'[w].type = proc[w].type
    <3>1. proc[w].type = "SHRED_USER" =>
            Recorded(<<proc[w].job, "NOTIFICATION_SENT">>)
      BY <2>1 DEF WorkOfActive
    <3> QED
      BY <1>t, <1>g, <1>p, <2>1, <3>1, Growth DEF WorkOfActive, Recorded
  <2>2. ASSUME NEW h \in Handlers, NEW t \in TaskIds, ClaimTask(h, t),
               proc'[w].job = t[1], proc'[w].type = t[2]
        PROVE  /\ job'[proc'[w].job].status \in Active
               /\ proc'[w].type = "SHRED_USER" =>
                    Recorded(<<proc[w].job, "NOTIFICATION_SENT">>)'
    <3>1. /\ job'[t[1]].status \in Active
          /\ t[2] = "SHRED_USER" => Recorded(<<t[1], "NOTIFICATION_SENT">>)'
      BY <1>n, <1>g, <2>2, ClaimedTask
    <3> QED
      BY <2>2, <3>1 DEF Recorded
  <2> QED
    BY <1>1, <2>1, <2>2, StartedTask
<1>2. ASSUME NEW s \in Subjects, Engine!Vaulted(s)'
      PROVE  job'[vault'[s].job].status \in Active
  <2>1. \/ /\ ~Engine!Vaulted(s)
           /\ \E w \in Workers : /\ proc[w].pc # "idle"
                                 /\ vault'[s].job = proc[w].job
        \/ Engine!Vaulted(s) /\ vault'[s].job = vault[s].job
    BY <1>2, <1>n, EP!VaultStep, EngineConstants
    DEF Engine!Vaulted, Engine!NoVault, EP!Vaulted, EP!NoVault
  <2> QED
    BY <1>g, <1>p, <2>1 DEF WorkOfActive
<1>3. ASSUME NEW r \in outbox'
      PROVE  job'[r.key[1]].status \in Active
  <2>1. CASE r \in outbox
    BY <1>t, <1>g, <2>1, EventOfRow DEF WorkOfActive
  <2>2. CASE r \notin outbox
    <3>1. PICK w \in Workers :
            /\ proc[w].pc # "idle"
            /\ \/ r.key[1] = proc[w].job
               \/ /\ Engine!Subject(w) \in Subjects
                  /\ Engine!Vaulted(Engine!Subject(w))
                  /\ r.key[1] = vault[Engine!Subject(w)].job
      BY <1>3, <1>n, <2>2, EP!OutboxStep, EngineConstants
      DEF Engine!Vaulted, Engine!NoVault, EP!Vaulted, EP!NoVault,
          Engine!Subject, EP!Subject
    <3> QED
      BY <1>g, <1>p, <3>1 DEF WorkOfActive
  <2> QED
    BY <2>1, <2>2
<1> QED
  BY <1>1, <1>2, <1>3 DEF WorkOfActive
LEMMA OneRowPerEventStep ==
  ASSUME EP!EngineInv, OneRowPerEvent, [SystemNext]_systemVars
  PROVE  OneRowPerEvent'
<1>1. [EP!EngineNext]_(EP!engineVars)
  BY SameNext, EngineStep
<1>2. \/ outbox' = outbox
      \/ \E r : /\ outbox' = outbox \union {r}
               /\ ~ \E q \in outbox : q.key = r.key
  BY <1>1, EP!OutboxStep, EngineConstants DEF EP!Enqueued
<1> QED
  BY <1>2 DEF OneRowPerEvent

(* A subject that was vaulted is masked, and its evidence is of the job of *)
(* its vault row.                                                          *)
LEMMA VaultedSubject ==
  ASSUME EP!EngineInv, NEW s \in Subjects, Engine!Vaulted(s)
  PROVE  /\ root[s] = "masked"
         /\ \A r \in outbox : SubjectOf[r.key[1]] = s => r.key[1] = vault[s].job
<1>1. /\ Engine!EngineTypeOK /\ Engine!EvidenceMatches
      /\ root[s] \in {"live", "masked", "deleted"}
  BY EngineFacts DEF Engine!EngineTypeOK
<1>2. root[s] = "masked" /\ Engine!Evidence(s) = Engine!VaultEvidence(vault[s])
  BY <1>1 DEF Engine!EvidenceMatches
<1>3. ASSUME NEW r \in outbox, SubjectOf[r.key[1]] = s
      PROVE  r.key[1] = vault[s].job
  <2>1. r.key \in Engine!Evidence(s)
    BY <1>3 DEF Engine!Evidence
  <2> QED
    BY <1>2, <2>1 DEF Engine!VaultEvidence
<1> QED
  BY <1>2, <1>3

(* The notice of a subject that is shredded was of the very job its data   *)
(* is vaulted for.                                                         *)
LEMMA ShredIsDocumentedStep ==
  ASSUME IInv, EP!EngineInv, EP!EngineInv', Coupled, [SystemNext]_systemVars
  PROVE  ShredIsDocumented'
<1> SUFFICES ASSUME NEW s \in Subjects, root'[s] = "masked", vault'[s].shredded
             PROVE  Recorded(<<vault[s].job, "NOTIFICATION_SENT">>)'
  BY DEF ShredIsDocumented
<1>t. TypeOK /\ Engine!EngineTypeOK
  BY EngineFacts DEF IInv
<1>n. [EP!EngineNext]_(EP!engineVars)
  BY SameNext, EngineStep
<1>1. EP!Vaulted(s)'
  BY DEF EP!EngineInv, EP!EvidenceMatches
<1>2. /\ Engine!Vaulted(s) /\ vault'[s].job = vault[s].job
      /\ \/ vault'[s].shredded = vault[s].shredded
         \/ \E w \in Workers :
              /\ proc[w].pc # "idle" /\ proc[w].type = "SHRED_USER"
              /\ Engine!Subject(w) = s
  BY <1>1, <1>n, EP!VaultStep, EngineConstants
  DEF Engine!Vaulted, Engine!NoVault, EP!Vaulted, EP!NoVault, Engine!Subject,
      EP!Subject
<1>3. CASE vault'[s].shredded = vault[s].shredded
  <2>1. root[s] = "masked"
    BY <1>2, VaultedSubject
  <2>2. Recorded(<<vault[s].job, "NOTIFICATION_SENT">>)
    BY <1>3, <2>1 DEF Coupled, ShredIsDocumented
  <2> QED
    BY <1>t, <1>2, <2>2, Growth DEF Recorded
<1>4. ASSUME NEW w \in Workers, proc[w].pc # "idle",
             proc[w].type = "SHRED_USER", Engine!Subject(w) = s
      PROVE  Recorded(<<vault[s].job, "NOTIFICATION_SENT">>)'
  <2>1. proc[w].job \in Jobs
    BY <1>t, <1>4 DEF Engine!EngineTypeOK, Engine!Task, Engine!Idle
  <2>2. PICK e \in ledger : Key(e) = <<proc[w].job, "NOTIFICATION_SENT">>
    BY <1>4 DEF Coupled, WorkOfActive, Recorded
  <2>3. PICK r \in outbox : e = EventOf(r)
    BY <2>2 DEF Coupled, EvidenceSent, Sent
  <2>4. r.key = <<proc[w].job, "NOTIFICATION_SENT">>
    BY <1>t, <2>2, <2>3, EventOfRow
  <2>5. proc[w].job = vault[s].job
    BY <1>2, <1>4, <2>3, <2>4, VaultedSubject DEF Engine!Subject
  <2>6. Recorded(<<vault[s].job, "NOTIFICATION_SENT">>)
    BY <2>2, <2>5 DEF Recorded
  <2> QED
    BY <1>t, <1>2, <2>6, Growth DEF Recorded
<1> QED
  BY <1>2, <1>3, <1>4

LEMMA CoupledInit == SystemInit => Coupled
<1> SUFFICES ASSUME SystemInit
             PROVE  Coupled
  OBVIOUS
<1>1. EvidenceSent
  BY DEF SystemInit, Init, EvidenceSent, Idle
<1>2. OneRowPerEvent
  BY DEF SystemInit, Engine!EngineInit, OneRowPerEvent
<1>3. WorkOfActive
  BY DEF SystemInit, Engine!EngineInit, WorkOfActive, Engine!Vaulted,
     Engine!Idle
<1>4. ShredIsDocumented
  BY DEF SystemInit, Engine!EngineInit, ShredIsDocumented
<1> QED
  BY <1>1, <1>2, <1>3, <1>4 DEF Coupled

THEOREM Coupling == SystemSpec => []Coupled
<1>1. /\ IInv /\ NoEarlyTask /\ EP!EngineInv /\ EP!EngineInv'
      /\ Coupled /\ [SystemNext]_systemVars
      => Coupled'
  BY EvidenceSentStep, OneRowPerEventStep, WorkOfActiveStep,
     ShredIsDocumentedStep DEF Coupled
<1> QED
  BY <1>1, CoupledInit, ControlPlaneStays, Invariance, NoTaskIsEarly,
     EngineInvHolds, PTL DEF SystemSpec

-----------------------------------------------------------------------------
(* What the platform promises.                                             *)

(* Evidence that is on record is what a worker committed.                  *)
LEMMA RecordedIsCommitted ==
  ASSUME Engine!EngineTypeOK, Coupled, NEW key, Recorded(key)
  PROVE  \E r \in outbox : r.key = key
<1>1. PICK e \in ledger : Key(e) = key
  BY DEF Recorded
<1>2. PICK r \in outbox : e = EventOf(r)
  BY DEF Coupled, EvidenceSent, Sent
<1> QED
  BY <1>1, <1>2, EventOfRow

(* A terminal event on record is the end of the subject's data.            *)
LEMMA TerminalIsGone ==
  ASSUME EP!EngineInv, Coupled, NEW key, Recorded(key), key[2] \in Terminal
  PROVE  Gone(SubjectOf[key[1]])
<1>t. /\ Engine!EngineTypeOK /\ Engine!EvidenceMatches
      /\ Engine!ErasureRespectsRetention
  BY EngineFacts
<1>1. PICK r \in outbox : r.key = key
  BY <1>t, RecordedIsCommitted
<1>2. PICK s \in Subjects : s = SubjectOf[key[1]]
  BY <1>t, <1>1, EventOfRow
<1>3. key \in Engine!Evidence(s)
  BY <1>1, <1>2 DEF Engine!Evidence
<1>4. root[s] \in {"live", "masked", "deleted"}
  BY <1>t DEF Engine!EngineTypeOK
<1>5. CASE root[s] = "masked"
  <2>1. Engine!Vaulted(s) /\ key \in Engine!VaultEvidence(vault[s])
    BY <1>t, <1>3, <1>5 DEF Engine!EvidenceMatches
  <2>2. vault[s].shredded
    BY <2>1 DEF Engine!VaultEvidence, Terminal
  <2>3. s \notin keys
    BY <1>t, <2>1, <2>2 DEF Engine!ErasureRespectsRetention
  <2> QED
    BY <1>2, <1>5, <2>2, <2>3 DEF Gone
<1>6. CASE root[s] = "live"
  BY <1>t, <1>3, <1>6 DEF Engine!EvidenceMatches
<1> QED
  BY <1>2, <1>4, <1>5, <1>6 DEF Gone

(* Certificates, webhooks and bills for an erasure are true, although the  *)
(* two sides share no transaction.                                         *)
THEOREM CertificatesAreTrue == SystemSpec => []CertificateIsTrue
<1>1. EP!EngineInv /\ Coupled /\ ReceiptsInv => CertificateIsTrue
  <2> SUFFICES ASSUME EP!EngineInv, Coupled, ReceiptsInv
               PROVE  CertificateIsTrue
    OBVIOUS
  <2>1. ASSUME NEW x \in certs
        PROVE  Gone(SubjectOf[x.job])
    <3>1. Recorded(<<x.job, x.type>>) /\ x.type \in Terminal
      BY DEF ReceiptsInv, ReceiptsBacked, CertificatesTerminal
    <3>2. Gone(SubjectOf[<<x.job, x.type>>[1]])
      BY <3>1, TerminalIsGone
    <3> QED
      BY <3>2
  <2>2. ASSUME NEW key \in delivered \union billed, key[2] \in Terminal
        PROVE  Gone(SubjectOf[key[1]])
    <3>1. Recorded(key)
      BY DEF ReceiptsInv, ReceiptsBacked
    <3> QED
      BY <2>2, <3>1, TerminalIsGone
  <2> QED
    BY <2>1, <2>2 DEF CertificateIsTrue
<1> QED
  BY <1>1, ControlPlaneStays, ReceiptsInvHolds, EngineInvHolds, Coupling, PTL

(* The ledger is a prefix of what workers committed, in the order of the   *)
(* chain, and what is marked as processed is in it.                        *)
THEOREM LedgerIsAPrefix == SystemSpec => []LedgerIsPrefix
<1>1. EP!EngineInv /\ Coupled /\ ChainKept => LedgerIsPrefix
  <2> SUFFICES ASSUME EP!EngineInv, Coupled, ChainKept
               PROVE  LedgerIsPrefix
    OBVIOUS
  <2>1. Engine!EngineTypeOK
    BY EngineFacts
  <2>2. ASSUME NEW r \in outbox, Recorded(r.key)
        PROVE  r.prev \in {Key(e) : e \in ledger} \union {Genesis}
    <3>1. PICK e \in ledger : Key(e) = r.key
      BY <2>2 DEF Recorded
    <3>2. PICK q \in outbox : e = EventOf(q)
      BY DEF Coupled, EvidenceSent, Sent
    <3>3. q = r
      BY <2>1, <3>1, <3>2, EventOfRow DEF Coupled, OneRowPerEvent
    <3>4. e.prev = r.prev
      BY <2>1, <3>2, <3>3, EventOfRow
    <3> QED
      BY <3>4 DEF ChainKept, Positions
  <2> QED
    BY <2>2 DEF LedgerIsPrefix, Coupled, EvidenceSent, Sent
<1> QED
  BY <1>1, ControlPlaneStays, ChainKeptHolds, EngineInvHolds, Coupling, PTL

(* A request that was cancelled has had, and has, no effect on any         *)
(* worker's database.                                                      *)
THEOREM CancellationIsSafe == SystemSpec => []CancelledIsSafe
<1>1. Coupled => CancelledIsSafe
  <2> SUFFICES ASSUME Coupled, NEW j \in Jobs, job[j].status = "CANCELLED",
                      SubjectOf[j] \in Subjects
               PROVE  /\ Engine!Vaulted(SubjectOf[j]) =>
                           vault[SubjectOf[j]].job # j
                      /\ \A r \in outbox : r.key[1] # j
                      /\ \A w \in Workers :
                           proc[w].pc # "idle" => proc[w].job # j
    BY SystemAssumption DEF CancelledIsSafe
  <2>1. job[j].status \notin Active
    BY DEF Active
  <2> QED
    BY <2>1 DEF Coupled, WorkOfActive
<1> QED
  BY <1>1, Coupling, PTL

(* No key is destroyed before the control plane holds the evidence of the  *)
(* notice.                                                                 *)
THEOREM ShredsAreDocumented == SystemSpec => []ShredIsDocumented
<1>1. Coupled => ShredIsDocumented
  BY DEF Coupled
<1> QED
  BY <1>1, Coupling, PTL
=============================================================================
