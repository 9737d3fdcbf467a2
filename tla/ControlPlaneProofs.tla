------------------------- MODULE ControlPlaneProofs -------------------------
(***************************************************************************)
(* Proofs about ControlPlane, for every set of jobs, handlers, rules and   *)
(* worker events and every configured limit.                               *)
(***************************************************************************)
EXTENDS ControlPlane, TLAPS

USE DEF Cooling, Cooled, Notice, Shred

LEMMA InitType == Init => TypeOK
  BY ConstantsAssumption
  DEF Init, TypeOK, NoJob, NoTask, JobRow, TaskRow, JobStatus, TaskStatus,
      Ages, Hash, Call, Idle, TaskIds

(* t[1] and t[2] of a task id.                                             *)
LEMMA TaskIdParts ==
  ASSUME NEW t \in TaskIds
  PROVE  /\ t[1] \in Jobs
         /\ t[2] \in TaskTypes
         /\ t = <<t[1], t[2]>>
  BY DEF TaskIds

(* Writing the status of a row that exists keeps it a row.                 *)
LEMMA JobStatusType ==
  ASSUME TypeOK, NEW j \in Jobs, NEW s \in JobStatus
  PROVE  [job EXCEPT ![j].status = s] \in [Jobs -> JobRow]
  BY DEF TypeOK, JobRow

LEMMA TaskRowType ==
  ASSUME NEW f \in [TaskIds -> TaskRow], NEW t \in TaskIds,
         NEW s \in TaskStatus, NEW a \in BOOLEAN, NEW b \in BOOLEAN
  PROVE  /\ [f EXCEPT ![t].status = s, ![t].leased = a]
              \in [TaskIds -> TaskRow]
         /\ [f EXCEPT ![t].status = s, ![t].ready = b, ![t].leased = a]
              \in [TaskIds -> TaskRow]
<1>1. f[t] \in TaskRow
  OBVIOUS
<1>2. /\ [f[t] EXCEPT !.status = s, !.leased = a] \in TaskRow
      /\ [f[t] EXCEPT !.status = s, !.ready = b, !.leased = a] \in TaskRow
  BY <1>1 DEF TaskRow
<1>3. /\ [f EXCEPT ![t].status = s, ![t].leased = a]
           = [f EXCEPT ![t] = [f[t] EXCEPT !.status = s, !.leased = a]]
      /\ [f EXCEPT ![t].status = s, ![t].ready = b, ![t].leased = a]
           = [f EXCEPT ![t] = [f[t] EXCEPT !.status = s, !.ready = b, !.leased = a]]
  OBVIOUS
<1> QED
  BY <1>2, <1>3

(* A step that sets one flag of a task row, or none.                       *)
LEMMA FlagStep ==
  ASSUME TypeOK, NEW t \in TaskIds,
         \/ task' = task
         \/ task' = [task EXCEPT ![t].leased = FALSE]
         \/ task' = [task EXCEPT ![t].ready = TRUE]
         \/ task' = [task EXCEPT ![t].counted = TRUE]
  PROVE  task' \in [TaskIds -> TaskRow]
<1>1. task \in [TaskIds -> TaskRow] /\ task[t] \in TaskRow
  BY DEF TypeOK
<1>2. CASE task' = task
  BY <1>1, <1>2
<1>3. CASE task' = [task EXCEPT ![t].leased = FALSE]
  BY <1>1, <1>3 DEF TaskRow
<1>4. CASE task' = [task EXCEPT ![t].ready = TRUE]
  BY <1>1, <1>4 DEF TaskRow
<1>5. CASE task' = [task EXCEPT ![t].counted = TRUE]
  BY <1>1, <1>5 DEF TaskRow
<1> QED
  BY <1>2, <1>3, <1>4, <1>5

(* The job row a worker event leaves behind.                               *)
LEMMA TransitionedType ==
  ASSUME NEW row \in JobRow, NEW e \in Event
  PROVE  /\ Transitioned(row, e) \in JobRow
         /\ Transitioned(row, e).status = NextStatus(e.type)
         /\ NextStatus(e.type) \in Active
<1> DEFINE sched == row.scheduled \/ e.type = "USER_VAULTED"
           rule == IF e.type \in {"USER_VAULTED", "USER_HARD_DELETED"}
                   THEN e.rule ELSE row.rule
<1>1. sched \in BOOLEAN
  OBVIOUS
<1>2. rule \in Rules \union {NoRule} /\ NextStatus(e.type) \in Active
  BY DEF JobRow, Event, NextStatus, JobStatus, Active
<1>3. Transitioned(row, e) = [row EXCEPT !.status = NextStatus(e.type),
                                         !.scheduled = sched, !.rule = rule]
  BY DEF Transitioned
<1> HIDE DEF sched, rule
<1> QED
  BY <1>1, <1>2, <1>3 DEF JobRow, Active

LEMMA StepType == TypeOK /\ [Next]_vars => TypeOK'
<1> SUFFICES ASSUME TypeOK, [Next]_vars PROVE TypeOK'
  OBVIOUS
<1> USE ConstantsAssumption
        DEF TypeOK, evidence, Return
<1>0. CASE UNCHANGED vars
  BY <1>0 DEF vars
<1>1. ASSUME NEW h \in Handlers, NEW j \in Jobs, NEW form \in Forms,
             BeginCreate(h, j, form)
      PROVE  TypeOK'
  BY <1>1 DEF BeginCreate, Call
<1>2. ASSUME NEW h \in Handlers, FinishCreate(h)
      PROVE  TypeOK'
  <2>1. call[h].job \in Jobs /\ call[h].form \in [shadow : BOOLEAN, webhook : BOOLEAN]
    BY <1>2 DEF FinishCreate, Call, Idle
  <2>2. NewTask \in TaskRow
    BY DEF NewTask, NoTask, TaskRow, TaskStatus
  <2>3. [NoJob EXCEPT !.status = "WAITING_COOLDOWN",
                      !.shadow = call[h].form.shadow,
                      !.webhook = call[h].form.webhook] \in JobRow
    BY <2>1 DEF NoJob, JobRow, JobStatus
  <2>4. job' \in [Jobs -> JobRow] /\ task' \in [TaskIds -> TaskRow]
    BY <1>2, <2>1, <2>2, <2>3 DEF FinishCreate
  <2>5. call' \in [Handlers -> Call]
    BY <1>2 DEF FinishCreate, Call
  <2> QED
    BY <1>2, <2>4, <2>5 DEF FinishCreate
<1>3. ASSUME NEW j \in Jobs, Cancel(j)
      PROVE  TypeOK'
  <2>1. job' \in [Jobs -> JobRow]
    BY <1>3, JobStatusType DEF Cancel, JobStatus
  <2>2. task' \in [TaskIds -> TaskRow]
    <3>1. ASSUME NEW t \in TaskIds PROVE task'[t] \in TaskRow
      <4>1. task[t] \in TaskRow
        OBVIOUS
      <4>2. [task[t] EXCEPT !.status = "FAILED", !.leased = FALSE] \in TaskRow
        BY <4>1 DEF TaskRow, TaskStatus
      <4> QED BY <1>3, <4>1, <4>2 DEF Cancel
    <3> QED BY <1>3, <3>1 DEF Cancel
  <2> QED
    BY <1>3, <2>1, <2>2 DEF Cancel
<1>4. ASSUME NEW h \in Handlers, NEW c \in Configs, BeginSync(h, c)
      PROVE  TypeOK'
  BY <1>4 DEF BeginSync, Call
<1>5. ASSUME NEW h \in Handlers, InsertHeartbeat(h)
      PROVE  TypeOK'
  BY <1>5 DEF InsertHeartbeat, Call, Idle
<1>6. Materialized \in [TaskIds -> TaskRow]
  BY DEF Materialized, NewTask, NoTask, TaskRow, TaskStatus
<1>7. ASSUME NEW h \in Handlers, NEW t \in TaskIds, ClaimTask(h, t)
      PROVE  TypeOK'
  <2>1. task' \in [TaskIds -> TaskRow]
    BY <1>6, <1>7, TaskRowType DEF ClaimTask, TaskStatus
  <2>2. job' \in [Jobs -> JobRow]
    <3> DEFINE s == IF job[t[1]].status = "WAITING_COOLDOWN"
                    THEN "EXECUTING" ELSE job[t[1]].status
    <3>1. s \in JobStatus /\ t[1] \in Jobs
      BY TaskIdParts DEF JobRow, JobStatus
    <3>2. job' = [job EXCEPT ![t[1]].status = s]
      BY <1>7 DEF ClaimTask
    <3> QED
      BY <3>1, <3>2, JobStatusType
  <2>3. call' \in [Handlers -> Call]
    BY <1>7 DEF ClaimTask, Call
  <2> QED
    BY <1>7, <2>1, <2>2, <2>3 DEF ClaimTask
<1>8. ASSUME NEW h \in Handlers, ClaimNothing(h)
      PROVE  TypeOK'
  BY <1>6, <1>8 DEF ClaimNothing, Call
<1>9. ASSUME NEW h \in Handlers, NEW t \in TaskIds,
             AckCompleted(h, t) \/ AckReplayed(h, t)
      PROVE  TypeOK'
  <2>1. call' \in [Handlers -> Call]
    BY <1>9 DEF AckCompleted, AckReplayed, AfterCompleted, Call
  <2>2. task' \in [TaskIds -> TaskRow]
    BY <1>9 DEF AckCompleted, AckReplayed, TaskRow, TaskStatus
  <2> QED
    BY <1>9, <2>1, <2>2 DEF AckCompleted, AckReplayed
<1>10. ASSUME NEW t \in TaskIds, NEW r \in BOOLEAN, AckFailed(t, r)
      PROVE  TypeOK'
  <2>1. task' \in [TaskIds -> TaskRow]
    BY <1>10 DEF AckFailed, TaskRow, TaskStatus
  <2>2. job' \in [Jobs -> JobRow]
    <3>1. job' = job \/ job' = [job EXCEPT ![t[1]].status = "FAILED"]
      BY <1>10 DEF AckFailed
    <3>2. [job EXCEPT ![t[1]].status = "FAILED"] \in [Jobs -> JobRow]
      BY TaskIdParts, JobStatusType DEF JobStatus
    <3> QED
      BY <3>1, <3>2
  <2> QED
    BY <1>10, <2>1, <2>2 DEF AckFailed
<1>11. ASSUME NEW h \in Handlers, RecordShadowSuccess(h)
      PROVE  TypeOK'
  <2>1. call' \in [Handlers -> Call] /\ call[h].task \in TaskIds
    BY <1>11 DEF RecordShadowSuccess, Call, Idle
  <2>2. task' = task \/ task' = [task EXCEPT ![call[h].task].counted = TRUE]
    BY <1>11 DEF RecordShadowSuccess
  <2>3. task' \in [TaskIds -> TaskRow]
    BY <2>1, <2>2, FlagStep
  <2>4. client' \in [active : BOOLEAN, successes : Nat, live : BOOLEAN]
    <3> DEFINE n == client.successes + 1
               l == client.live \/ n >= RequiredSuccesses
    <3>1. n \in Nat /\ l \in BOOLEAN
      OBVIOUS
    <3>2. \/ client' = client
          \/ client' = [client EXCEPT !.successes = n, !.live = l]
      BY <1>11 DEF RecordShadowSuccess
    <3> HIDE DEF n, l
    <3> QED
      BY <3>1, <3>2
  <2> QED
    BY <1>11, <2>1, <2>3, <2>4 DEF RecordShadowSuccess
<1>12. ASSUME NEW h \in Handlers, NEW e \in WorkerEvents, ReceiveEvent(h, e)
      PROVE  TypeOK'
  BY <1>12 DEF ReceiveEvent, Call, IngestSteps, Event
<1>13. ASSUME NEW h \in Handlers, LookupEvent(h)
      PROVE  TypeOK'
  BY <1>13 DEF LookupEvent, Ingesting, Advance, Call, Idle, IngestSteps
<1>14. ASSUME NEW h \in Handlers, CheckHead(h)
      PROVE  TypeOK'
  BY <1>14 DEF CheckHead, Ingesting, Advance, Call, Idle, IngestSteps
<1>15. ASSUME NEW h \in Handlers, AppendLedger(h)
      PROVE  TypeOK'
  BY <1>15 DEF AppendLedger, Ingesting, Advance, Call, Idle, IngestSteps,
     Hash, Key, Keys, Event
<1>16. ASSUME NEW h \in Handlers, ApplyTransition(h)
      PROVE  TypeOK'
  <2>1. call' \in [Handlers -> Call] /\ call[h].ev \in Event
    BY <1>16 DEF ApplyTransition, Ingesting, Advance, Call, Idle, IngestSteps
  <2>2. Transitioned(job[call[h].ev.job], call[h].ev) \in JobRow
    BY <2>1, TransitionedType DEF Event
  <2>3. job' \in [Jobs -> JobRow]
    BY <1>16, <2>1, <2>2 DEF ApplyTransition, Event
  <2> QED
    BY <1>16, <2>1, <2>3 DEF ApplyTransition
<1>17. ASSUME NEW h \in Handlers, Certify(h)
      PROVE  TypeOK'
  <2>1. call' \in [Handlers -> Call]
    BY <1>17 DEF Certify, Ingesting, Advance, Call, Idle, IngestSteps
  <2>2. CertificateFor(call[h]) \in Certificate
    BY <1>17 DEF Certify, Ingesting, Call, Idle, CertificateFor, Certificate,
       Event, JobRow
  <2> QED
    BY <1>17, <2>1, <2>2 DEF Certify
<1>18. ASSUME NEW h \in Handlers, NEW a \in BOOLEAN, NEW b \in BOOLEAN,
              DispatchWebhook(h, a, b)
      PROVE  TypeOK'
  BY <1>18 DEF DispatchWebhook, Ingesting, Advance, Call, Idle, IngestSteps,
     Key, Keys, Event
<1>19. ASSUME NEW h \in Handlers, Bill(h)
      PROVE  TypeOK'
  BY <1>19 DEF Bill, Ingesting, Call, Idle, Key, Keys, Event
<1>20. ASSUME NEW t \in TaskIds, RequeueDeadLetter(t)
      PROVE  TypeOK'
  <2>1. task' \in [TaskIds -> TaskRow]
    BY <1>20, TaskRowType DEF RequeueDeadLetter, TaskStatus
  <2>2. job' \in [Jobs -> JobRow]
    <3> DEFINE s == IF job[t[1]].status = "FAILED"
                    THEN "EXECUTING" ELSE job[t[1]].status
    <3>1. s \in JobStatus /\ t[1] \in Jobs
      BY TaskIdParts DEF JobRow, JobStatus
    <3>2. job' = [job EXCEPT ![t[1]].status = s]
      BY <1>20 DEF RequeueDeadLetter
    <3> QED
      BY <3>1, <3>2, JobStatusType
  <2> QED
    BY <1>20, <2>1, <2>2 DEF RequeueDeadLetter
<1>21. ASSUME NEW a \in BOOLEAN, SetClientActive(a)
      PROVE  TypeOK'
  BY <1>21 DEF SetClientActive
<1>22. ASSUME NEW j \in Jobs, DeadlinePasses(j)
      PROVE  TypeOK'
  BY <1>22 DEF DeadlinePasses, Ages
<1>23. ASSUME NEW t \in TaskIds, LeaseExpires(t) \/ BackoffElapses(t)
      PROVE  TypeOK'
  <2>1. \/ task' = [task EXCEPT ![t].leased = FALSE]
        \/ task' = [task EXCEPT ![t].ready = TRUE]
    BY <1>23 DEF LeaseExpires, BackoffElapses
  <2>2. task' \in [TaskIds -> TaskRow]
    BY <2>1, FlagStep
  <2> QED
    BY <1>23, <2>2 DEF LeaseExpires, BackoffElapses
<1>24. ASSUME NEW h \in Handlers, Crash(h)
      PROVE  TypeOK'
  BY <1>24 DEF Crash, Call
<1> QED
  BY <1>0, <1>1, <1>2, <1>3, <1>4, <1>5, <1>7, <1>8, <1>9, <1>10, <1>11,
     <1>12, <1>13, <1>14, <1>15, <1>16, <1>17, <1>18, <1>19, <1>20, <1>21,
     <1>22, <1>23, <1>24
  DEF Next, Request, HandlerStep, Clock, Operator

(* Every reachable state is one the schema and the handlers can hold.      *)
THEOREM TypeCorrect == Spec => []TypeOK
<1> QED
  BY InitType, StepType, PTL DEF Spec

-----------------------------------------------------------------------------
(* The inductive invariant.  Most actions leave most of it alone, and for *)
(* one reason: evidence only grows and a job taken up stays taken up.     *)
(* That is lemma Monotone; the lemmas after it carry each part of the     *)
(* invariant over any step of which only such facts are known.            *)

IInv == TypeOK /\ Grounded /\ StatusBacked /\ LedgerOrder

(* An event, and a task, belong to a job of the model.                     *)
LEMMA EventParts ==
  ASSUME NEW e \in WorkerEvents
  PROVE  e.job \in Jobs /\ e.type \in EventTypes /\ e \in Event
  BY ConstantsAssumption DEF Event

(* The job an event belongs to, for a handler that is ingesting it.        *)
LEMMA IngestParts ==
  ASSUME TypeOK, NEW h \in Handlers, call[h].op = "ingest"
  PROVE  /\ call[h].ev \in WorkerEvents
         /\ call[h].seen \in JobRow
         /\ call[h].step \in IngestSteps
  BY DEF TypeOK, Call, Idle

LEMMA RecordedGrows ==
  ASSUME ledger \subseteq ledger', NEW key, Recorded(key)
  PROVE  Recorded(key)'
  BY DEF Recorded

(* Evidence is never removed and no job taken up is given back, whatever   *)
(* the step.                                                               *)
LEMMA Monotone ==
  ASSUME TypeOK, [Next]_vars
  PROVE  /\ ledger \subseteq ledger'
         /\ certs \subseteq certs'
         /\ \A j \in Jobs : job[j].status \in Active => job'[j].status \in Active
<1> USE DEF evidence
<1>0. CASE UNCHANGED vars
  BY <1>0 DEF vars
<1>1. ASSUME NEW h \in Handlers, HandlerStep(h)
      PROVE  /\ ledger \subseteq ledger'
             /\ certs \subseteq certs'
             /\ \A j \in Jobs : job[j].status \in Active
                                => job'[j].status \in Active
  <2>1. CASE FinishCreate(h)
    BY <2>1 DEF FinishCreate, TypeOK, Active
  <2>2. ASSUME NEW t \in TaskIds, ClaimTask(h, t)
        PROVE  /\ ledger \subseteq ledger' /\ certs \subseteq certs'
               /\ \A j \in Jobs : job[j].status \in Active
                                  => job'[j].status \in Active
    BY <2>2 DEF ClaimTask, TypeOK, Active
  <2>3. CASE InsertHeartbeat(h) \/ ClaimNothing(h) \/ RecordShadowSuccess(h)
             \/ LookupEvent(h) \/ CheckHead(h) \/ Bill(h)
    BY <2>3 DEF InsertHeartbeat, ClaimNothing, RecordShadowSuccess,
       LookupEvent, CheckHead, Bill
  <2>4. CASE AppendLedger(h)
    BY <2>4 DEF AppendLedger
  <2>5. CASE ApplyTransition(h)
    <3>1. Transitioned(job[call[h].ev.job], call[h].ev).status \in Active
      BY <2>5, IngestParts, EventParts, TransitionedType
      DEF TypeOK, ApplyTransition, Ingesting
    <3> QED
      BY <2>5, <3>1 DEF ApplyTransition, TypeOK
  <2>6. CASE Certify(h)
    BY <2>6 DEF Certify
  <2>7. ASSUME NEW a \in BOOLEAN, NEW b \in BOOLEAN, DispatchWebhook(h, a, b)
        PROVE  UNCHANGED <<ledger, certs, job>>
    BY <2>7 DEF DispatchWebhook
  <2> QED
    BY <1>1, <2>1, <2>2, <2>3, <2>4, <2>5, <2>6, <2>7 DEF HandlerStep
<1>2. ASSUME NEW h \in Handlers, Request(h) \/ Crash(h)
      PROVE  UNCHANGED <<ledger, certs, job>>
  BY <1>2 DEF Request, Crash, BeginCreate, BeginSync, AckCompleted,
     AckReplayed, ReceiveEvent
<1>3. ASSUME NEW j \in Jobs, Cancel(j)
      PROVE  /\ UNCHANGED <<ledger, certs>>
             /\ \A i \in Jobs : job[i].status \in Active
                                => job'[i].status \in Active
  BY <1>3 DEF Cancel, TypeOK, Active
<1>4. ASSUME NEW t \in TaskIds, NEW r \in BOOLEAN, AckFailed(t, r)
      PROVE  /\ UNCHANGED <<ledger, certs>>
             /\ \A j \in Jobs : job[j].status \in Active
                                => job'[j].status \in Active
  <2>1. /\ UNCHANGED <<ledger, certs>>
        /\ job' = job \/ job' = [job EXCEPT ![t[1]].status = "FAILED"]
    BY <1>4 DEF AckFailed
  <2> QED
    BY <2>1 DEF TypeOK, JobRow, Active, JobStatus
<1>5. CASE Clock
  BY <1>5 DEF Clock, DeadlinePasses, LeaseExpires, BackoffElapses
<1>6. CASE Operator
  <2>1. ASSUME NEW t \in TaskIds, RequeueDeadLetter(t)
        PROVE  /\ UNCHANGED <<ledger, certs>>
               /\ \A j \in Jobs : job[j].status \in Active
                                  => job'[j].status \in Active
    <3>1. \/ job' = [job EXCEPT ![t[1]].status = "EXECUTING"]
          \/ job' = [job EXCEPT ![t[1]].status = job[t[1]].status]
      BY <2>1 DEF RequeueDeadLetter
    <3> QED
      BY <2>1, <3>1 DEF RequeueDeadLetter, TypeOK, Active, JobStatus
  <2> QED
    BY <1>6, <2>1 DEF Operator, SetClientActive
<1> QED
  BY <1>0, <1>1, <1>2, <1>3, <1>4, <1>5, <1>6 DEF Next

(* A task that was handed out, or has left the queue, belongs to a job     *)
(* that was taken up.                                                      *)
LEMMA BusyTask ==
  ASSUME TypeOK, TasksFollowJob, NEW t \in TaskIds,
         task[t].status \in {"DISPATCHED", "COMPLETED", "DEAD_LETTER"}
  PROVE  job[t[1]].status \in Active
<1>1. t[1] \in Jobs /\ t[2] \in TaskTypes /\ t = <<t[1], t[2]>>
  BY TaskIdParts
<1>2. job[t[1]].status \in JobStatus
  BY <1>1 DEF TypeOK, JobRow
<1>3. ASSUME NEW s \in TaskStatus, Untouched(t[1], s)
      PROVE  task[t].status \in {s, "NONE"}
  BY <1>1, <1>3 DEF Untouched, TaskTypes
<1> QED
  BY <1>1, <1>2, <1>3 DEF TasksFollowJob, Active, TaskStatus

(* A step that changes the task status only of jobs that are, afterwards,  *)
(* taken up, and the job status only to taken up, keeps TasksFollowJob.    *)
LEMMA TasksKept ==
  ASSUME TypeOK, TasksFollowJob,
         \A t \in TaskIds : \/ task'[t].status = task[t].status
                            \/ job'[t[1]].status \in Active,
         \A j \in Jobs : \/ job'[j].status = job[j].status
                         \/ job'[j].status \in Active
  PROVE  TasksFollowJob'
<1>1. SUFFICES ASSUME NEW j \in Jobs, job'[j].status \notin Active
               PROVE  \A type \in TaskTypes :
                        task'[<<j, type>>].status = task[<<j, type>>].status
  BY <1>1 DEF TasksFollowJob, Untouched, TaskTypes, Active
<1> QED
  BY <1>1 DEF TaskIds

(* A step that records no event keeps the parts about the ledger.          *)
LEMMA LedgerKept ==
  ASSUME TypeOK, [Next]_vars, LedgerOfActive, OneRowPerKey, LedgerOrder,
         ledger' = ledger
  PROVE  LedgerOfActive' /\ OneRowPerKey' /\ LedgerOrder'
<1>1. LedgerOfActive'
  BY Monotone, EventParts DEF LedgerOfActive, TypeOK
<1> QED
  BY <1>1 DEF OneRowPerKey, LedgerOrder, Recorded

(* A step that takes no job to a new lifecycle status keeps StatusBacked.  *)
LEMMA StatusKept ==
  ASSUME TypeOK, [Next]_vars, StatusBacked,
         \A j \in Jobs : \/ job'[j].status = job[j].status
                         \/ job'[j].status \notin
                               {"VAULTED", "NOTICE_SENT", "SHREDDED"}
  PROVE  StatusBacked'
<1>1. \A key : Recorded(key) => Recorded(key)'
  BY Monotone, RecordedGrows
<1> QED
  BY <1>1 DEF StatusBacked, StatusBackedFor

(* What a call was grounded in, a step of another call does not take away. *)
LEMMA CallKept ==
  ASSUME TypeOK, [Next]_vars, NEW h \in Handlers, CallGrounded(h),
         call'[h] = call[h]
  PROVE  CallGrounded(h)'
<1> SUFFICES ASSUME call[h].op = "ingest"
             PROVE  CallGrounded(h)'
  BY DEF CallGrounded
<1>1. call[h].ev.job \in Jobs
  BY IngestParts, EventParts
<1>2. \A key : Recorded(key) => Recorded(key)'
  BY Monotone, RecordedGrows
<1> QED
  BY <1>1, <1>2, Monotone DEF CallGrounded, CertificateFor

(* A step that records nothing, moves jobs only to EXECUTING or FAILED and *)
(* tasks only of jobs taken up, and leaves every call grounded.            *)
LEMMA QuietStep ==
  ASSUME IInv, [Next]_vars,
         ledger' = ledger,
         \A t \in TaskIds : \/ task'[t].status = task[t].status
                            \/ job'[t[1]].status \in Active,
         \A j \in Jobs : \/ job'[j].status = job[j].status
                         \/ job'[j].status \in {"EXECUTING", "FAILED"},
         \A h \in Handlers : call'[h] = call[h] \/ CallGrounded(h)'
  PROVE  Grounded' /\ StatusBacked' /\ LedgerOrder'
<1> USE DEF IInv, Grounded
<1>1. TasksFollowJob'
  <2>1. \A j \in Jobs : \/ job'[j].status = job[j].status
                        \/ job'[j].status \in Active
    BY DEF Active, JobStatus
  <2> QED
    BY <2>1, TasksKept
<1>2. LedgerOfActive' /\ OneRowPerKey' /\ LedgerOrder'
  BY LedgerKept
<1>3. StatusBacked'
  BY StatusKept
<1>4. CallsGrounded'
  BY CallKept DEF CallsGrounded
<1> QED
  BY <1>1, <1>2, <1>3, <1>4

(* A call that is over, or is not an ingestion, relies on nothing.         *)
LEMMA OtherCall ==
  ASSUME TypeOK, NEW h \in Handlers, NEW c \in Call, c.op # "ingest",
         call' = [call EXCEPT ![h] = c]
  PROVE  \A g \in Handlers : call'[g] = call[g] \/ CallGrounded(g)'
  BY DEF CallGrounded, TypeOK

LEMMA ReturnCall ==
  ASSUME TypeOK, NEW h \in Handlers, Return(h)
  PROVE  \A g \in Handlers : call'[g] = call[g] \/ CallGrounded(g)'
  BY OtherCall DEF Return, Idle, Call

(* The same for a call that goes on to another step of the ingestion.      *)
LEMMA AdvanceCall ==
  ASSUME TypeOK, NEW h \in Handlers, call[h].op = "ingest", NEW s \in IngestSteps,
         Advance(h, s)
  PROVE  /\ \A g \in Handlers : g = h \/ call'[g] = call[g]
         /\ call'[h].op = "ingest" /\ call'[h].step = s
         /\ call'[h].ev = call[h].ev /\ call'[h].seen = call[h].seen
  BY DEF TypeOK, Advance, Call, Idle

LEMMA AdvanceGrounded ==
  ASSUME IInv, [Next]_vars, NEW h \in Handlers, call[h].op = "ingest",
         NEW s \in IngestSteps, Advance(h, s),
         s \in {"head", "append"} => call[h].seen.status = Predecessor(call[h].ev.type),
         s \in {"apply", "certify", "webhook", "bill"} => call[h].ev \in ledger',
         s \in {"certify", "webhook"} => call[h].ev.type \in Terminal,
         s = "webhook" => CertificateFor(call[h]) \in certs'
  PROVE  \A g \in Handlers : call'[g] = call[g] \/ CallGrounded(g)'
<1> USE DEF IInv, Grounded
<1>1. /\ \A g \in Handlers : g = h \/ call'[g] = call[g]
      /\ call'[h].op = "ingest" /\ call'[h].step = s
      /\ call'[h].ev = call[h].ev /\ call'[h].seen = call[h].seen
  BY AdvanceCall
<1>2. call[h].ev.job \in Jobs
  BY IngestParts, EventParts
<1>3. \A key : Recorded(key) => Recorded(key)'
  BY Monotone, RecordedGrows
<1>4. CertificateFor(call[h])' = CertificateFor(call[h])
  BY <1>1 DEF CertificateFor
<1>5. CallGrounded(h)'
  BY <1>1, <1>2, <1>3, <1>4, Monotone DEF CallsGrounded, CallGrounded
<1> QED
  BY <1>1, <1>5

(* What the predecessor check of an ingestion is worth by the time its row *)
(* is inserted: the job is taken up and its previous stage is recorded.    *)
LEMMA CheckedStage ==
  ASSUME IInv, NEW h \in Handlers, Ingesting(h, "append")
  PROVE  LET e == call[h].ev IN
         /\ job[e.job].status \in Active
         /\ e.type = "NOTIFICATION_SENT" => Recorded(<<e.job, "USER_VAULTED">>)
         /\ e.type = "SHRED_SUCCESS" => Recorded(<<e.job, "NOTIFICATION_SENT">>)
<1> DEFINE e == call[h].ev
<1> USE DEF IInv, Grounded
<1>1. e.job \in Jobs /\ e.type \in EventTypes
  BY IngestParts, EventParts DEF Ingesting
<1>2. call[h].seen.status = Predecessor(e.type) /\ CallGrounded(h)
  BY DEF CallsGrounded, CallGrounded, Ingesting
<1>3. CASE e.type = "NOTIFICATION_SENT"
  <2>1. Recorded(<<e.job, "USER_VAULTED">>)
    BY <1>2, <1>3 DEF CallGrounded, Predecessor, Ingesting
  <2>2. PICK d \in ledger : Key(d) = <<e.job, "USER_VAULTED">>
    BY <2>1 DEF Recorded
  <2>3. d.job = e.job
    BY <2>2 DEF Key
  <2> QED
    BY <1>3, <2>1, <2>3 DEF LedgerOfActive
<1>4. CASE e.type = "SHRED_SUCCESS"
  <2>1. Recorded(<<e.job, "NOTIFICATION_SENT">>)
    BY <1>2, <1>4 DEF CallGrounded, Predecessor, Ingesting
  <2>2. PICK d \in ledger : Key(d) = <<e.job, "NOTIFICATION_SENT">>
    BY <2>1 DEF Recorded
  <2>3. d.job = e.job
    BY <2>2 DEF Key
  <2> QED
    BY <1>4, <2>1, <2>3 DEF LedgerOfActive
<1>5. CASE e.type \in {"USER_VAULTED", "USER_HARD_DELETED"}
  BY <1>2, <1>5 DEF CallGrounded, Predecessor, Ingesting
<1> QED
  BY <1>1, <1>3, <1>4, <1>5 DEF EventTypes

(* The insert into the ledger.                                             *)
LEMMA AppendStep ==
  ASSUME IInv, [Next]_vars, NEW h \in Handlers, AppendLedger(h),
         NEW e \in WorkerEvents, e = call[h].ev, ~Recorded(Key(e)),
         ledger' = ledger \union {e}, Advance(h, "apply")
  PROVE  Grounded' /\ StatusBacked' /\ LedgerOrder'
<1> USE DEF IInv, Grounded
<1>1. e.job \in Jobs /\ e.type \in EventTypes
  BY EventParts
<1>2. UNCHANGED <<job, task>>
  BY DEF AppendLedger
<1>3. /\ job[e.job].status \in Active
      /\ e.type = "NOTIFICATION_SENT" => Recorded(<<e.job, "USER_VAULTED">>)
      /\ e.type = "SHRED_SUCCESS" => Recorded(<<e.job, "NOTIFICATION_SENT">>)
  BY CheckedStage DEF AppendLedger
<1>4. TasksFollowJob'
  BY <1>2 DEF TasksFollowJob, Untouched
<1>5. LedgerOfActive'
  BY <1>2, <1>3 DEF LedgerOfActive
<1>6. OneRowPerKey'
  BY DEF OneRowPerKey, Recorded
<1>7. CallsGrounded'
  <2>1. \A g \in Handlers : call'[g] = call[g] \/ CallGrounded(g)'
    BY AdvanceGrounded DEF IngestSteps, AppendLedger, Ingesting
  <2> QED
    BY <2>1, CallKept DEF CallsGrounded
<1>8. StatusBacked'
  BY <1>2, StatusKept
<1>9. LedgerOrder'
  <2>1. \A key : Recorded(key) => Recorded(key)'
    BY Monotone, RecordedGrows
  <2>2. \A key : Recorded(key)' => Recorded(key) \/ key = <<e.job, e.type>>
    BY DEF Recorded, Key
  <2> QED
    BY <1>3, <2>1, <2>2 DEF LedgerOrder
<1> QED
  BY <1>4, <1>5, <1>6, <1>7, <1>8, <1>9

(* The update of the job row, backed by the event it applies.              *)
LEMMA ApplyStep ==
  ASSUME IInv, [Next]_vars, NEW h \in Handlers, ApplyTransition(h),
         NEW e \in WorkerEvents, e = call[h].ev
  PROVE  Grounded' /\ StatusBacked' /\ LedgerOrder'
<1> DEFINE row == Transitioned(job[e.job], e)
<1> USE DEF IInv, Grounded
<1>1. e.job \in Jobs /\ e.type \in EventTypes
  BY EventParts
<1>2. /\ UNCHANGED <<task, ledger, certs>>
      /\ job' = [job EXCEPT ![e.job] = row]
  BY DEF ApplyTransition, evidence
<1>3. row.status = NextStatus(e.type) /\ row.status \in Active
  BY <1>1, EventParts, TransitionedType DEF TypeOK
<1> HIDE DEF row
<1>4. \A j \in Jobs : \/ job'[j].status = job[j].status
                      \/ /\ j = e.job
                         /\ job'[j].status = NextStatus(e.type)
  <2>1. job \in [Jobs -> JobRow]
    BY DEF TypeOK
  <2>2. \A j \in Jobs : job'[j] = IF j = e.job THEN row ELSE job[j]
    BY <1>2, <2>1
  <2> QED
    BY <1>3, <2>2
<1>5. e \in ledger
  <2>1. CallGrounded(h)
    BY DEF CallsGrounded
  <2> QED
    BY <2>1 DEF CallGrounded, ApplyTransition, Ingesting
<1>6. TasksFollowJob'
  BY <1>2, <1>3, <1>4, TasksKept
<1>7. LedgerOfActive' /\ OneRowPerKey' /\ LedgerOrder'
  BY <1>2, LedgerKept
<1>8. StatusBacked'
  <2>1. Recorded(<<e.job, e.type>>)' /\ \A key : Recorded(key) => Recorded(key)'
    BY <1>2, <1>5 DEF Recorded, Key
  <2>2. ASSUME NEW j \in Jobs, job'[j].status = job[j].status
        PROVE  StatusBackedFor(j)'
    BY <2>1, <2>2 DEF StatusBacked, StatusBackedFor
  <2>3. ASSUME job'[e.job].status = NextStatus(e.type)
        PROVE  StatusBackedFor(e.job)'
    BY <1>1, <2>1, <2>3
    DEF StatusBackedFor, NextStatus, EventTypes, Terminal
  <2> QED
    BY <1>4, <2>2, <2>3 DEF StatusBacked
<1>9. CallsGrounded'
  <2>1. Ingesting(h, "apply")
    BY DEF ApplyTransition
  <2>2. CASE e.type \in Terminal
    <3>1. Advance(h, "certify")
      BY <2>2 DEF ApplyTransition
    <3>2. \A g \in Handlers : call'[g] = call[g] \/ CallGrounded(g)'
      BY <1>2, <1>5, <2>1, <2>2, <3>1, AdvanceGrounded
      DEF IngestSteps, Ingesting
    <3> QED
      BY <3>2, CallKept DEF CallsGrounded
  <2>3. CASE e.type \notin Terminal
    <3>1. Advance(h, "bill")
      BY <2>3 DEF ApplyTransition
    <3>2. \A g \in Handlers : call'[g] = call[g] \/ CallGrounded(g)'
      BY <1>2, <1>5, <2>1, <3>1, AdvanceGrounded
      DEF IngestSteps, Ingesting
    <3> QED
      BY <3>2, CallKept DEF CallsGrounded
  <2> QED
    BY <2>2, <2>3
<1> QED
  BY <1>6, <1>7, <1>8, <1>9

(* A job that gets its row, with the one task it starts with.              *)
LEMMA CreateStep ==
  ASSUME IInv, [Next]_vars, NEW h \in Handlers, FinishCreate(h)
  PROVE  Grounded' /\ StatusBacked' /\ LedgerOrder'
<1> USE DEF IInv, Grounded
<1>1. /\ UNCHANGED <<ledger, certs>>
      /\ \A g \in Handlers : call'[g] = call[g] \/ CallGrounded(g)'
  BY ReturnCall DEF FinishCreate, evidence
<1>2. CASE UNCHANGED <<job, task>>
  BY <1>1, <1>2, QuietStep
<1>3. ASSUME NEW i \in Jobs, job[i].status = "NONE",
             NEW row \in JobRow, row.status = "WAITING_COOLDOWN",
             job' = [job EXCEPT ![i] = row],
             task' = [task EXCEPT ![<<i, "VAULT_USER">>] = NewTask]
      PROVE  Grounded' /\ StatusBacked' /\ LedgerOrder'
  <2>1. job \in [Jobs -> JobRow] /\ task \in [TaskIds -> TaskRow]
    BY DEF TypeOK
  <2>2. \A j \in Jobs : job'[j] = IF j = i THEN row ELSE job[j]
    BY <1>3, <2>1
  <2>3. \A t \in TaskIds : task'[t] = IF t = <<i, "VAULT_USER">>
                                      THEN NewTask ELSE task[t]
    BY <1>3, <2>1
  <2>4. Untouched(i, "NONE") /\ NewTask.status = "QUEUED"
    BY <1>3 DEF TasksFollowJob, NewTask, NoTask
  <2>5. TasksFollowJob'
    <3>1. ASSUME NEW j \in Jobs, j # i, NEW type \in TaskTypes
          PROVE  task'[<<j, type>>] = task[<<j, type>>] /\ job'[j] = job[j]
      BY <2>2, <2>3, <3>1 DEF TaskIds
    <3>2. Untouched(i, "QUEUED")'
      BY <2>3, <2>4 DEF Untouched, TaskIds, TaskTypes
    <3>3. ASSUME NEW j \in Jobs, j # i, NEW s, Untouched(j, s)
          PROVE  Untouched(j, s)'
      BY <3>1, <3>3 DEF Untouched, TaskTypes
    <3> QED
      BY <1>3, <2>2, <3>1, <3>2, <3>3 DEF TasksFollowJob, TaskTypes
  <2>6. LedgerOfActive' /\ OneRowPerKey' /\ LedgerOrder'
    BY <1>1, LedgerKept
  <2>7. StatusBacked'
    BY <1>3, <2>2, StatusKept
  <2>8. CallsGrounded'
    BY <1>1, CallKept DEF CallsGrounded
  <2> QED
    BY <2>5, <2>6, <2>7, <2>8
<1> QED
  <2> DEFINE row == [NoJob EXCEPT !.status  = "WAITING_COOLDOWN",
                                  !.shadow  = call[h].form.shadow,
                                  !.webhook = call[h].form.webhook]
  <2>1. call[h].job \in Jobs /\ call[h].form \in [shadow : BOOLEAN, webhook : BOOLEAN]
    BY ConstantsAssumption DEF FinishCreate, Call, Idle, TypeOK
  <2>2. row \in JobRow /\ row.status = "WAITING_COOLDOWN"
    BY <2>1 DEF NoJob, JobRow, JobStatus
  <2>3. \/ UNCHANGED <<job, task>>
        \/ /\ job[call[h].job].status = "NONE"
           /\ job' = [job EXCEPT ![call[h].job] = row]
           /\ task' = [task EXCEPT ![<<call[h].job, "VAULT_USER">>] = NewTask]
    BY DEF FinishCreate
  <2> HIDE DEF row
  <2> QED
    BY <1>2, <1>3, <2>1, <2>2, <2>3

(* A cancellation ends the one task a waiting job has.                     *)
LEMMA CancelStep ==
  ASSUME IInv, [Next]_vars, NEW i \in Jobs, Cancel(i)
  PROVE  Grounded' /\ StatusBacked' /\ LedgerOrder'
<1> USE DEF IInv, Grounded
<1>1. UNCHANGED <<ledger, certs, call>>
  BY DEF Cancel, evidence
<1>2. \A j \in Jobs : job'[j].status = IF j = i THEN "CANCELLED"
                                               ELSE job[j].status
  BY DEF Cancel, TypeOK, JobRow
<1>3. Untouched(i, "QUEUED")
  BY DEF Cancel, TasksFollowJob
<1>4. \A t \in TaskIds : task'[t].status =
        IF t[1] = i /\ task[t].status \in {"QUEUED", "DISPATCHED"}
        THEN "FAILED" ELSE task[t].status
  BY DEF Cancel, TypeOK, TaskRow
<1>5. TasksFollowJob'
  <2>1. Untouched(i, "FAILED")'
    BY <1>3, <1>4 DEF Untouched, TaskIds, TaskTypes
  <2>2. ASSUME NEW j \in Jobs, j # i, NEW s, Untouched(j, s)
        PROVE  Untouched(j, s)'
    BY <1>4, <2>2 DEF Untouched, TaskIds, TaskTypes
  <2> QED
    BY <1>2, <2>1, <2>2 DEF TasksFollowJob
<1>6. LedgerOfActive' /\ OneRowPerKey' /\ LedgerOrder'
  BY <1>1, LedgerKept
<1>7. StatusBacked'
  BY <1>2, StatusKept
<1>8. CallsGrounded'
  BY <1>1, CallKept DEF CallsGrounded
<1> QED
  BY <1>5, <1>6, <1>7, <1>8

(* Only jobs that reached a stage get the task of that stage.              *)
LEMMA MaterializedActive ==
  ASSUME TypeOK, NEW t \in TaskIds
  PROVE  \/ Materialized[t] = task[t]
         \/ job[t[1]].status \in Active
  BY DEF Materialized, StageDue, Active, JobStatus

(* A task that can be claimed belongs to a job that is, or is thereby,     *)
(* taken up.                                                               *)
LEMMA ClaimableJob ==
  ASSUME TypeOK, TasksFollowJob, NEW t \in TaskIds, Claimable(t)
  PROVE  job[t[1]].status \in Active \union {"WAITING_COOLDOWN"}
<1>1. t[1] \in Jobs /\ t[2] \in TaskTypes /\ t = <<t[1], t[2]>>
  BY TaskIdParts
<1>2. job[t[1]].status \in JobStatus /\ job[t[1]].status # "CANCELLED"
  BY <1>1 DEF TypeOK, JobRow, Claimable
<1>3. CASE job[t[1]].status = "NONE"
  <2>1. task[t].status = "NONE"
    BY <1>1, <1>3 DEF TasksFollowJob, Untouched, TaskTypes
  <2>2. Materialized[t] = task[t]
    BY <1>3, MaterializedActive DEF Active
  <2> QED
    BY <2>1, <2>2 DEF Claimable
<1> QED
  BY <1>2, <1>3 DEF Active

LEMMA ClaimStep ==
  ASSUME IInv, [Next]_vars, NEW h \in Handlers, NEW t \in TaskIds,
         ClaimTask(h, t)
  PROVE  Grounded' /\ StatusBacked' /\ LedgerOrder'
<1> USE DEF IInv, Grounded
<1>1. t[1] \in Jobs
  BY TaskIdParts
<1>2. \A j \in Jobs : job'[j].status =
        IF j = t[1] /\ job[j].status = "WAITING_COOLDOWN"
        THEN "EXECUTING" ELSE job[j].status
  <2> DEFINE s == IF job[t[1]].status = "WAITING_COOLDOWN"
                  THEN "EXECUTING" ELSE job[t[1]].status
  <2>1. job' = [job EXCEPT ![t[1]].status = s]
    BY DEF ClaimTask
  <2> HIDE DEF s
  <2>2. \A j \in Jobs : job'[j].status = IF j = t[1] THEN s ELSE job[j].status
    BY <1>1, <2>1 DEF TypeOK, JobRow
  <2> QED
    BY <2>2 DEF s
<1>3. job'[t[1]].status \in Active
  BY <1>1, <1>2, ClaimableJob DEF ClaimTask, Active, JobStatus
<1>4. \A u \in TaskIds : u = t \/ task'[u] = Materialized[u]
  BY DEF ClaimTask, Materialized
<1>5. ASSUME NEW u \in TaskIds
      PROVE  task'[u].status = task[u].status \/ job'[u[1]].status \in Active
  <2>1. u[1] \in Jobs
    BY TaskIdParts
  <2>2. job[u[1]].status \in Active => job'[u[1]].status \in Active
    BY <2>1, Monotone
  <2> QED
    BY <1>3, <1>4, <2>2, MaterializedActive
<1>6. ledger' = ledger
  BY DEF ClaimTask, evidence
<1>7. \A g \in Handlers : call'[g] = call[g] \/ CallGrounded(g)'
  BY ReturnCall DEF ClaimTask
<1> QED
  BY <1>2, <1>5, <1>6, <1>7, QuietStep

(* A failed acknowledgement of a task that was handed out.                 *)
LEMMA FailStep ==
  ASSUME IInv, [Next]_vars, NEW t \in TaskIds, NEW r \in BOOLEAN,
         AckFailed(t, r)
  PROVE  Grounded' /\ StatusBacked' /\ LedgerOrder'
<1> USE DEF IInv, Grounded
<1>1. /\ UNCHANGED <<ledger, call>>
      /\ job' = job \/ job' = [job EXCEPT ![t[1]].status = "FAILED"]
  BY DEF AckFailed, evidence
<1>5. ASSUME NEW u \in TaskIds
      PROVE  u = t \/ task'[u] = task[u]
  <2>1. task \in [TaskIds -> TaskRow]
    BY DEF TypeOK
  <2> QED
    BY <2>1 DEF AckFailed
<1>2. job[t[1]].status \in Active /\ t[1] \in Jobs
  BY BusyTask, TaskIdParts DEF AckFailed
<1>3. job'[t[1]].status \in Active
  BY <1>2, Monotone
<1>4. \A j \in Jobs : \/ job'[j].status = job[j].status
                      \/ job'[j].status \in {"EXECUTING", "FAILED"}
  BY <1>1 DEF TypeOK, JobRow
<1> QED
  BY <1>1, <1>3, <1>4, <1>5, QuietStep

LEMMA RequeueStep ==
  ASSUME IInv, [Next]_vars, NEW t \in TaskIds, RequeueDeadLetter(t)
  PROVE  Grounded' /\ StatusBacked' /\ LedgerOrder'
<1> USE DEF IInv, Grounded
<1>1. /\ UNCHANGED <<ledger, call>>
      /\ \/ job' = [job EXCEPT ![t[1]].status = "EXECUTING"]
         \/ job' = [job EXCEPT ![t[1]].status = job[t[1]].status]
  BY DEF RequeueDeadLetter, evidence
<1>5. ASSUME NEW u \in TaskIds
      PROVE  u = t \/ task'[u] = task[u]
  <2>1. task \in [TaskIds -> TaskRow]
    BY DEF TypeOK
  <2> QED
    BY <2>1 DEF RequeueDeadLetter
<1>2. job[t[1]].status \in Active /\ t[1] \in Jobs
  BY BusyTask, TaskIdParts DEF RequeueDeadLetter
<1>3. job'[t[1]].status \in Active
  BY <1>2, Monotone
<1>4. \A j \in Jobs : \/ job'[j].status = job[j].status
                      \/ job'[j].status \in {"EXECUTING", "FAILED"}
  BY <1>1 DEF TypeOK, JobRow
<1> QED
  BY <1>1, <1>3, <1>4, <1>5, QuietStep

(* The steps that leave jobs, and the status of tasks not yet in the hands *)
(* of a worker, alone.                                                     *)
LEMMA CallStep ==
  ASSUME IInv, [Next]_vars, UNCHANGED <<job, ledger>>,
         \A t \in TaskIds : \/ task'[t].status = task[t].status
                            \/ job[t[1]].status \in Active,
         \A h \in Handlers : call'[h] = call[h] \/ CallGrounded(h)'
  PROVE  Grounded' /\ StatusBacked' /\ LedgerOrder'
  BY QuietStep

LEMMA InductiveStep == IInv /\ [Next]_vars => IInv'
<1> SUFFICES ASSUME IInv, [Next]_vars
             PROVE  Grounded' /\ StatusBacked' /\ LedgerOrder'
  BY StepType DEF IInv
<1> DEFINE Goal == Grounded' /\ StatusBacked' /\ LedgerOrder'
<1>t. TypeOK /\ TasksFollowJob /\ StatusBacked /\ CallsGrounded
  BY DEF IInv, Grounded
<1> USE DEF evidence
<1>0. CASE UNCHANGED vars
  BY <1>0, CallStep DEF vars
<1>1. ASSUME NEW h \in Handlers, NEW j \in Jobs, NEW form \in Forms,
             BeginCreate(h, j, form)
      PROVE  Goal
  <2> DEFINE c == [op |-> "create", job |-> j, form |-> form]
  <2>1. c \in Call /\ c.op # "ingest"
    BY DEF Call
  <2> QED
    BY <1>t, <1>1, <2>1, OtherCall, CallStep DEF BeginCreate
<1>2. ASSUME NEW h \in Handlers, NEW c \in Configs, BeginSync(h, c)
      PROVE  Goal
  <2> DEFINE d == [op |-> "sync", config |-> c, seen |-> head]
  <2>1. d \in Call /\ d.op # "ingest"
    BY <1>t DEF Call, TypeOK
  <2> QED
    BY <1>t, <1>2, <2>1, OtherCall, CallStep DEF BeginSync
<1>3. ASSUME NEW h \in Handlers, InsertHeartbeat(h)
      PROVE  Goal
  <2>1. [op |-> "claim"] \in Call /\ [op |-> "claim"].op # "ingest"
    BY DEF Call
  <2> QED
    BY <1>t, <1>3, <2>1, OtherCall, CallStep DEF InsertHeartbeat
<1>4. ASSUME NEW h \in Handlers, ClaimNothing(h)
      PROVE  Goal
  BY <1>t, <1>4, ReturnCall, MaterializedActive, CallStep DEF ClaimNothing
<1>5. ASSUME NEW h \in Handlers, NEW t \in TaskIds,
             AckCompleted(h, t) \/ AckReplayed(h, t)
      PROVE  Goal
  <2> DEFINE c == IF CountsTowardsBurnIn(t)
                  THEN [op |-> "burnIn", task |-> t] ELSE Idle
  <2>1. c \in Call /\ c.op # "ingest"
    BY DEF Call, Idle
  <2>2. call' = [call EXCEPT ![h] = c] /\ UNCHANGED <<job, ledger>>
    BY <1>5 DEF AckCompleted, AckReplayed, AfterCompleted
  <2>3. ASSUME NEW u \in TaskIds
        PROVE  task'[u].status = task[u].status \/ job[u[1]].status \in Active
    <3>1. CASE u = t
      BY <1>t, <1>5, <3>1, BusyTask DEF AckCompleted, AckReplayed
    <3>2. CASE u # t
      <4>1. task \in [TaskIds -> TaskRow]
        BY <1>t DEF TypeOK
      <4> QED
        BY <1>5, <3>2, <4>1 DEF AckCompleted, AckReplayed
    <3> QED
      BY <3>1, <3>2
  <2> HIDE DEF c
  <2>4. \A g \in Handlers : call'[g] = call[g] \/ CallGrounded(g)'
    BY <1>t, <2>1, <2>2, OtherCall
  <2> QED
    BY <2>2, <2>3, <2>4, CallStep
<1>6. ASSUME NEW h \in Handlers, RecordShadowSuccess(h)
      PROVE  Goal
  <2>1. \/ task' = task
        \/ /\ call[h].task \in TaskIds
           /\ task' = [task EXCEPT ![call[h].task].counted = TRUE]
    BY <1>t, <1>6 DEF RecordShadowSuccess, TypeOK, Call, Idle
  <2>2. \A t \in TaskIds : task'[t].status = task[t].status
    BY <1>t, <2>1 DEF TypeOK, TaskRow
  <2>3. \A g \in Handlers : call'[g] = call[g] \/ CallGrounded(g)'
    BY <1>t, <1>6, ReturnCall DEF RecordShadowSuccess
  <2> QED
    BY <1>6, <2>2, <2>3, CallStep DEF RecordShadowSuccess
<1>7. ASSUME NEW h \in Handlers, NEW e \in WorkerEvents, ReceiveEvent(h, e)
      PROVE  Goal
  <2> DEFINE c == [op |-> "ingest", step |-> "lookup", ev |-> e,
                   seen |-> job[e.job]]
  <2>1. e.job \in Jobs /\ call'[h] = c
    BY <1>t, <1>7, EventParts DEF ReceiveEvent, TypeOK
  <2>2. \A g \in Handlers : g = h \/ call'[g] = call[g]
    BY <1>t, <1>7 DEF ReceiveEvent, TypeOK
  <2>3. UNCHANGED <<job, task, ledger, certs>>
    BY <1>7 DEF ReceiveEvent
  <2>4. CallGrounded(h)'
    BY <1>t, <2>1, <2>3
    DEF CallGrounded, StatusBacked, StatusBackedFor, Recorded, Active,
        JobStatus
  <2> QED
    BY <2>2, <2>3, <2>4, CallStep
<1>8. ASSUME NEW h \in Handlers, LookupEvent(h)
      PROVE  Goal
  <2>1. call[h].op = "ingest" /\ UNCHANGED <<job, task, ledger, certs>>
    BY <1>8 DEF LookupEvent, Ingesting
  <2>2. \A g \in Handlers : call'[g] = call[g] \/ CallGrounded(g)'
    <3>1. CASE call[h].ev \in ledger /\ Advance(h, "apply")
      BY <2>1, <3>1, AdvanceGrounded DEF IngestSteps
    <3>2. CASE /\ call[h].seen.status = Predecessor(call[h].ev.type)
               /\ Advance(h, "head")
      BY <2>1, <3>2, AdvanceGrounded DEF IngestSteps
    <3>3. CASE Return(h)
      BY <1>t, <3>3, ReturnCall
    <3> QED
      BY <1>8, <3>1, <3>2, <3>3 DEF LookupEvent
  <2> QED
    BY <2>1, <2>2, CallStep
<1>9. ASSUME NEW h \in Handlers, CheckHead(h)
      PROVE  Goal
  <2>1. call[h].op = "ingest" /\ UNCHANGED <<job, task, ledger, certs>>
    BY <1>9 DEF CheckHead, Ingesting
  <2>2. call[h].seen.status = Predecessor(call[h].ev.type)
    BY <1>t, <1>9 DEF CallsGrounded, CallGrounded, CheckHead, Ingesting
  <2>3. CASE Advance(h, "append")
    BY <2>1, <2>2, <2>3, AdvanceGrounded, CallStep DEF IngestSteps
  <2>4. CASE Return(h)
    BY <1>t, <2>1, <2>4, ReturnCall, CallStep
  <2> QED
    BY <1>9, <2>3, <2>4 DEF CheckHead
<1>10. ASSUME NEW h \in Handlers, AppendLedger(h)
       PROVE  Goal
  <2>1. /\ call[h].op = "ingest" /\ UNCHANGED <<job, task, certs>>
        /\ call[h].ev \in WorkerEvents
    BY <1>t, <1>10, IngestParts DEF AppendLedger, Ingesting
  <2>2. CASE /\ ~Recorded(Key(call[h].ev))
             /\ ledger' = ledger \union {call[h].ev}
             /\ Advance(h, "apply")
    BY <1>10, <2>1, <2>2, AppendStep
  <2>3. CASE call[h].ev \in ledger /\ Advance(h, "apply") /\ ledger' = ledger
    BY <2>1, <2>3, AdvanceGrounded, CallStep DEF IngestSteps
  <2>4. CASE Return(h) /\ ledger' = ledger
    BY <1>t, <2>1, <2>4, ReturnCall, CallStep
  <2> QED
    BY <1>10, <2>2, <2>3, <2>4 DEF AppendLedger
<1>11. ASSUME NEW h \in Handlers, ApplyTransition(h)
       PROVE  Goal
  <2>1. call[h].ev \in WorkerEvents
    BY <1>t, <1>11, IngestParts DEF ApplyTransition, Ingesting
  <2> QED
    BY <1>11, <2>1, ApplyStep
<1>12. ASSUME NEW h \in Handlers, Certify(h)
       PROVE  Goal
  <2>1. call[h].op = "ingest" /\ UNCHANGED <<job, task, ledger>>
    BY <1>12 DEF Certify, Ingesting
  <2>2. call[h].ev \in ledger' /\ call[h].ev.type \in Terminal
    BY <1>t, <1>12, <2>1 DEF CallsGrounded, CallGrounded, Certify, Ingesting
  <2>3. CASE Advance(h, "webhook") /\ CertificateFor(call[h]) \in certs'
    BY <2>1, <2>2, <2>3, AdvanceGrounded, CallStep DEF IngestSteps
  <2>4. CASE Advance(h, "bill")
    BY <2>1, <2>2, <2>4, AdvanceGrounded, CallStep DEF IngestSteps
  <2>5. CASE Return(h)
    BY <1>t, <2>1, <2>5, ReturnCall, CallStep
  <2> QED
    BY <1>12, <2>3, <2>4, <2>5 DEF Certify
<1>13. ASSUME NEW h \in Handlers, NEW a \in BOOLEAN, NEW b \in BOOLEAN,
              DispatchWebhook(h, a, b)
       PROVE  Goal
  <2>1. call[h].op = "ingest" /\ UNCHANGED <<job, task, ledger, certs>>
    BY <1>13 DEF DispatchWebhook, Ingesting
  <2>2. call[h].ev \in ledger'
    BY <1>t, <1>13, <2>1
    DEF CallsGrounded, CallGrounded, DispatchWebhook, Ingesting
  <2>3. CASE Advance(h, "bill")
    BY <2>1, <2>2, <2>3, AdvanceGrounded, CallStep DEF IngestSteps
  <2>4. CASE Return(h)
    BY <1>t, <2>1, <2>4, ReturnCall, CallStep
  <2> QED
    BY <1>13, <2>3, <2>4 DEF DispatchWebhook
<1>14. ASSUME NEW h \in Handlers, Bill(h) \/ Crash(h)
       PROVE  Goal
  <2>1. Return(h) /\ UNCHANGED <<job, task, ledger>>
    BY <1>14 DEF Bill, Crash
  <2> QED
    BY <1>t, <2>1, ReturnCall, CallStep
<1>15. CASE Clock
  <2>1. UNCHANGED <<job, ledger, call>>
    BY <1>15 DEF Clock, DeadlinePasses, LeaseExpires, BackoffElapses
  <2>2. ASSUME NEW t \in TaskIds, LeaseExpires(t)
        PROVE  \A u \in TaskIds : task'[u].status = task[u].status
    BY <1>t, <2>2 DEF LeaseExpires, TypeOK, TaskRow
  <2>3. ASSUME NEW t \in TaskIds, BackoffElapses(t)
        PROVE  \A u \in TaskIds : task'[u].status = task[u].status
    BY <1>t, <2>3 DEF BackoffElapses, TypeOK, TaskRow
  <2>4. ASSUME NEW j \in Jobs, DeadlinePasses(j)
        PROVE  task' = task
    BY <2>4 DEF DeadlinePasses
  <2> QED
    BY <1>15, <2>1, <2>2, <2>3, <2>4, CallStep DEF Clock
<1>16. ASSUME NEW a \in BOOLEAN, SetClientActive(a)
       PROVE  Goal
  BY <1>16, CallStep DEF SetClientActive
<1> QED
  <2>1. ASSUME NEW h \in Handlers, HandlerStep(h)
        PROVE  Goal
    BY <1>3, <1>4, <1>6, <1>8, <1>9, <1>10, <1>11, <1>12, <1>13, <1>14, <2>1,
       CreateStep, ClaimStep DEF HandlerStep
  <2>2. ASSUME NEW h \in Handlers, Request(h) \/ Crash(h)
        PROVE  Goal
    BY <1>1, <1>2, <1>5, <1>7, <1>14, <2>2 DEF Request
  <2>3. CASE Operator
    BY <1>16, <2>3, RequeueStep DEF Operator
  <2> QED
    BY <1>0, <1>15, <2>1, <2>2, <2>3, CancelStep, FailStep DEF Next

LEMMA InitInvariant == Init => IInv
<1> SUFFICES ASSUME Init PROVE Grounded /\ StatusBacked /\ LedgerOrder
  BY InitType DEF IInv
<1>1. /\ ledger = {}
      /\ \A j \in Jobs : job[j].status = "NONE"
      /\ \A t \in TaskIds : task[t].status = "NONE"
      /\ \A h \in Handlers : call[h].op = "idle"
  BY DEF Init, NoJob, NoTask, Idle
<1>2. TasksFollowJob
  BY <1>1 DEF TasksFollowJob, Untouched, TaskIds, TaskTypes
<1>3. LedgerOfActive /\ OneRowPerKey /\ LedgerOrder
  BY <1>1 DEF LedgerOfActive, OneRowPerKey, LedgerOrder, Recorded
<1>4. CallsGrounded
  BY <1>1 DEF CallsGrounded, CallGrounded
<1>5. StatusBacked
  BY <1>1 DEF StatusBacked, StatusBackedFor
<1> QED
  BY <1>2, <1>3, <1>4, <1>5 DEF Grounded

(* The inductive invariant holds in every reachable state.                 *)
THEOREM Invariance == Spec => []IInv
<1> QED
  BY InitInvariant, InductiveStep, PTL DEF Spec

(* What a handler read before an await still holds when it relies on it.   *)
THEOREM ReadsStayGrounded == Spec => []Grounded
<1>1. IInv => Grounded
  BY DEF IInv
<1> QED
  BY <1>1, Invariance, PTL

(* Every lifecycle status an operator sees is backed by a ledger row.      *)
THEOREM StatusIsBacked == Spec => []StatusBacked
<1>1. IInv => StatusBacked
  BY DEF IInv
<1> QED
  BY <1>1, Invariance, PTL

(* The ledger shows the stages of every job in order.                      *)
THEOREM LedgerIsOrdered == Spec => []LedgerOrder
<1>1. IInv => LedgerOrder
  BY DEF IInv
<1> QED
  BY <1>1, Invariance, PTL

(* A confirmed cancellation is honoured: nothing of the job ran or runs.   *)
THEOREM CancellationHolds == Spec => []CancelledIsUntouched
<1>1. IInv => CancelledIsUntouched
  BY DEF IInv, Grounded, TasksFollowJob, LedgerOfActive, Active, Untouched,
     CancelledIsUntouched, TaskTypes
<1> QED
  BY <1>1, Invariance, PTL
=============================================================================
