-------------------------- MODULE ControlPlaneSafety --------------------------
(***************************************************************************)
(* What follows from the inductive invariant of ControlPlaneProofs: the    *)
(* receipts, the deferred tasks, the dead letters, the retention rule, the *)
(* burn-in gate and the hash chain, and that ControlPlane implements       *)
(* ErasurePromise.                                                         *)
(*                                                                         *)
(* The strengthenings speak of few columns, so the lemmas JobStep and      *)
(* TaskStep say first what a step may do to one job row and one task row.  *)
(***************************************************************************)
EXTENDS ControlPlaneProofs, FiniteSetTheorems

(* A step creates a job, applies an event to one, sets the status of one   *)
(* that exists, or leaves all of them alone.                               *)
LEMMA JobStep ==
  ASSUME TypeOK, TasksFollowJob, [Next]_vars
  PROVE  \/ job' = job
         \/ \E i \in Jobs, s \in JobStatus \ {"NONE"} :
              job[i].status # "NONE" /\ job' = [job EXCEPT ![i].status = s]
         \/ \E h \in Handlers : FinishCreate(h)
         \/ \E h \in Handlers : ApplyTransition(h)
<1> DEFINE Goal ==
      \/ job' = job
      \/ \E i \in Jobs, s \in JobStatus \ {"NONE"} :
           job[i].status # "NONE" /\ job' = [job EXCEPT ![i].status = s]
      \/ \E h \in Handlers : FinishCreate(h)
      \/ \E h \in Handlers : ApplyTransition(h)
<1> USE DEF evidence
<1>1. ASSUME NEW i \in Jobs, NEW s \in JobStatus \ {"NONE"},
             job[i].status # "NONE", job' = [job EXCEPT ![i].status = s]
      PROVE  Goal
  BY <1>1
<1>2. CASE UNCHANGED vars
  BY <1>2 DEF vars
<1>3. ASSUME NEW h \in Handlers, NEW t \in TaskIds, ClaimTask(h, t)
      PROVE  Goal
  <2> DEFINE s == IF job[t[1]].status = "WAITING_COOLDOWN"
                  THEN "EXECUTING" ELSE job[t[1]].status
  <2>1. t[1] \in Jobs /\ job[t[1]].status \in JobStatus \ {"NONE"}
    BY <1>3, TaskIdParts, ClaimableJob
    DEF ClaimTask, Active, JobStatus
  <2>2. s \in JobStatus \ {"NONE"} /\ job' = [job EXCEPT ![t[1]].status = s]
    BY <1>3, <2>1 DEF ClaimTask, JobStatus
  <2> HIDE DEF s
  <2> QED
    BY <1>1, <2>1, <2>2
<1>4. ASSUME NEW h \in Handlers, HandlerStep(h)
      PROVE  Goal
  BY <1>3, <1>4
  DEF HandlerStep, InsertHeartbeat, ClaimNothing, RecordShadowSuccess,
      LookupEvent, CheckHead, AppendLedger, Certify, DispatchWebhook, Bill
<1>5. ASSUME NEW h \in Handlers, Request(h) \/ Crash(h)
      PROVE  job' = job
  BY <1>5 DEF Request, Crash, BeginCreate, BeginSync, AckCompleted,
     AckReplayed, ReceiveEvent
<1>6. ASSUME NEW i \in Jobs, Cancel(i)
      PROVE  Goal
  BY <1>1, <1>6 DEF Cancel, JobStatus
<1>7. ASSUME NEW t \in TaskIds, NEW r \in BOOLEAN, AckFailed(t, r)
      PROVE  Goal
  <2>1. t[1] \in Jobs /\ job[t[1]].status # "NONE"
    BY <1>7, TaskIdParts, BusyTask DEF AckFailed, Active
  <2>2. \/ job' = job
        \/ job' = [job EXCEPT ![t[1]].status = "FAILED"]
    BY <1>7 DEF AckFailed
  <2> QED
    BY <1>1, <2>1, <2>2 DEF JobStatus
<1>8. CASE Clock
  BY <1>8 DEF Clock, DeadlinePasses, LeaseExpires, BackoffElapses
<1>9. ASSUME NEW t \in TaskIds, RequeueDeadLetter(t)
      PROVE  Goal
  <2> DEFINE s == IF job[t[1]].status = "FAILED"
                  THEN "EXECUTING" ELSE job[t[1]].status
  <2>1. t[1] \in Jobs /\ job[t[1]].status \in JobStatus \ {"NONE"}
    BY <1>9, TaskIdParts, BusyTask DEF RequeueDeadLetter, Active
  <2>2. s \in JobStatus \ {"NONE"} /\ job' = [job EXCEPT ![t[1]].status = s]
    BY <1>9, <2>1 DEF RequeueDeadLetter, JobStatus
  <2> HIDE DEF s
  <2> QED
    BY <1>1, <2>1, <2>2
<1>10. ASSUME NEW a \in BOOLEAN, SetClientActive(a)
       PROVE  job' = job
  BY <1>10 DEF SetClientActive
<1> QED
  BY <1>2, <1>4, <1>5, <1>6, <1>7, <1>8, <1>9, <1>10 DEF Next, Operator

(* The row a creation writes.                                              *)
LEMMA CreatedRow ==
  ASSUME TypeOK, NEW h \in Handlers, FinishCreate(h)
  PROVE  /\ call[h].job \in Jobs
         /\ call[h].form \in [shadow : BOOLEAN, webhook : BOOLEAN]
         /\ \/ UNCHANGED <<job, task>>
            \/ /\ job[call[h].job].status = "NONE"
               /\ \A j \in Jobs \ {call[h].job} : job'[j] = job[j]
               /\ job'[call[h].job].status = "WAITING_COOLDOWN"
               /\ job'[call[h].job].shadow = call[h].form.shadow
               /\ job'[call[h].job].rule = NoRule
               /\ task' = [task EXCEPT ![<<call[h].job, "VAULT_USER">>] = NewTask]
<1> DEFINE row == [NoJob EXCEPT !.status  = "WAITING_COOLDOWN",
                                !.shadow  = call[h].form.shadow,
                                !.webhook = call[h].form.webhook]
<1>1. /\ call[h].job \in Jobs
      /\ call[h].form \in [shadow : BOOLEAN, webhook : BOOLEAN]
  BY ConstantsAssumption DEF FinishCreate, Call, Idle, TypeOK
<1>2. /\ row.status = "WAITING_COOLDOWN" /\ row.rule = NoRule
      /\ row.shadow = call[h].form.shadow
  BY DEF NoJob
<1>3. \/ UNCHANGED <<job, task>>
      \/ /\ job[call[h].job].status = "NONE"
         /\ job' = [job EXCEPT ![call[h].job] = row]
         /\ task' = [task EXCEPT ![<<call[h].job, "VAULT_USER">>] = NewTask]
  BY DEF FinishCreate
<1> HIDE DEF row
<1>4. CASE job' = [job EXCEPT ![call[h].job] = row]
  <2>1. \A j \in Jobs : job'[j] = IF j = call[h].job THEN row ELSE job[j]
    BY <1>1, <1>4 DEF TypeOK
  <2> QED
    BY <1>1, <1>2, <1>3, <2>1
<1> QED
  BY <1>1, <1>3, <1>4

(* The row an ingestion writes.                                            *)
LEMMA AppliedRow ==
  ASSUME IInv, NEW h \in Handlers, ApplyTransition(h)
  PROVE  LET e == call[h].ev IN
         /\ e \in ledger /\ e \in WorkerEvents /\ e.job \in Jobs
         /\ \A j \in Jobs \ {e.job} : job'[j] = job[j]
         /\ job'[e.job].status = NextStatus(e.type)
         /\ job'[e.job].shadow = job[e.job].shadow
         /\ job'[e.job].rule =
              IF e.type \in {"USER_VAULTED", "USER_HARD_DELETED"}
              THEN e.rule ELSE job[e.job].rule
<1> DEFINE e == call[h].ev
           row == Transitioned(job[e.job], e)
<1>1. /\ call[h].op = "ingest" /\ call[h].step = "apply"
      /\ job' = [job EXCEPT ![e.job] = row]
  BY DEF ApplyTransition, Ingesting
<1>2. e \in ledger
  BY <1>1 DEF IInv, Grounded, CallsGrounded, CallGrounded
<1>3. e \in WorkerEvents /\ e.job \in Jobs
  BY <1>1, IngestParts, EventParts DEF IInv
<1>4. job \in [Jobs -> JobRow] /\ job[e.job] \in JobRow
  BY <1>3 DEF IInv, TypeOK
<1>5. /\ row.status = NextStatus(e.type)
      /\ row.shadow = job[e.job].shadow
      /\ row.rule = IF e.type \in {"USER_VAULTED", "USER_HARD_DELETED"}
                    THEN e.rule ELSE job[e.job].rule
  <2>1. PICK r \in JobRow : r = job[e.job]
    BY <1>4
  <2>2. row = Transitioned(r, e)
    BY <2>1
  <2> HIDE DEF row, e
  <2> QED
    BY <2>1, <2>2 DEF Transitioned, JobRow
<1> HIDE DEF row
<1>6. \A j \in Jobs : job'[j] = IF j = e.job THEN row ELSE job[j]
  BY <1>1, <1>3, <1>4
<1> QED
  BY <1>2, <1>3, <1>5, <1>6

(* What is for ever in a job row, and who writes its rule.                 *)
LEMMA RowKept ==
  ASSUME IInv, [Next]_vars, NEW j \in Jobs
  PROVE  /\ job[j].status # "NONE" =>
              job'[j].status # "NONE" /\ job'[j].shadow = job[j].shadow
         /\ \/ job'[j].rule = job[j].rule
            \/ job[j].status = "NONE" /\ job'[j].rule = NoRule
            \/ \E h \in Handlers : ApplyTransition(h) /\ call[h].ev.job = j
<1>t. TypeOK /\ TasksFollowJob
  BY DEF IInv, Grounded
<1>1. CASE job' = job
  BY <1>1
<1>2. ASSUME NEW i \in Jobs, NEW s \in JobStatus \ {"NONE"},
             job[i].status # "NONE", job' = [job EXCEPT ![i].status = s]
      PROVE  /\ job[j].status # "NONE" => job'[j].status # "NONE"
             /\ job'[j].shadow = job[j].shadow
             /\ job'[j].rule = job[j].rule
  BY <1>t, <1>2 DEF TypeOK, JobRow
<1>3. ASSUME NEW h \in Handlers, FinishCreate(h)
      PROVE  \/ job'[j] = job[j]
             \/ job[j].status = "NONE" /\ job'[j].rule = NoRule
  BY <1>t, <1>3, CreatedRow
<1>4. ASSUME NEW h \in Handlers, ApplyTransition(h)
      PROVE  /\ job'[j].status # "NONE" \/ job'[j].status = job[j].status
             /\ job'[j].shadow = job[j].shadow
             /\ job'[j] = job[j] \/ call[h].ev.job = j
  BY <1>4, AppliedRow DEF NextStatus
<1> QED
  BY <1>t, <1>1, <1>2, <1>3, <1>4, JobStep

(* What a step may do to one task row: a deferred task appears when its    *)
(* stage is due, COMPLETED is for ever, only a requeue takes a task out of *)
(* the dead-letter queue, and only the burn-in count marks a task.         *)
LEMMA TaskStep ==
  ASSUME IInv, [Next]_vars, NEW t \in TaskIds
  PROVE  /\ \/ task[t].status # "NONE" \/ task'[t].status = "NONE"
            \/ t[2] = "VAULT_USER" \/ StageDue(t)
         /\ task[t].status = "COMPLETED" => task'[t].status = "COMPLETED"
         /\ \/ task[t].status # "DEAD_LETTER" \/ task'[t].status = "DEAD_LETTER"
            \/ RequeueDeadLetter(t)
         /\ \/ task'[t].counted = task[t].counted
            \/ task[t].status = "NONE" /\ ~task'[t].counted
            \/ \E h \in Handlers : RecordShadowSuccess(h)
<1> DEFINE A == \/ task[t].status # "NONE" \/ task'[t].status = "NONE"
                \/ t[2] = "VAULT_USER" \/ StageDue(t)
           B == task[t].status = "COMPLETED" => task'[t].status = "COMPLETED"
           C == \/ task[t].status # "DEAD_LETTER"
                \/ task'[t].status = "DEAD_LETTER"
                \/ RequeueDeadLetter(t)
           D == \/ task'[t].counted = task[t].counted
                \/ task[t].status = "NONE" /\ ~task'[t].counted
                \/ \E h \in Handlers : RecordShadowSuccess(h)
           Goal == A /\ B /\ C /\ D
<1>t. TypeOK /\ TasksFollowJob /\ task \in [TaskIds -> TaskRow]
  BY DEF IInv, Grounded, TypeOK
<1>n. NewTask.status = "QUEUED" /\ ~NewTask.counted
  BY DEF NewTask, NoTask
<1>p. t[1] \in Jobs /\ t[2] \in TaskTypes /\ t = <<t[1], t[2]>>
  BY TaskIdParts
<1> USE DEF evidence
<1>0. ASSUME task'[t] = task[t]
      PROVE  Goal
  BY <1>0
<1>1. CASE UNCHANGED vars
  BY <1>0, <1>1 DEF vars
<1>2. ASSUME NEW h \in Handlers, FinishCreate(h)
      PROVE  Goal
  <2>1. CASE UNCHANGED task
    BY <1>0, <2>1
  <2>2. CASE /\ job[call[h].job].status = "NONE" /\ call[h].job \in Jobs
             /\ task' = [task EXCEPT ![<<call[h].job, "VAULT_USER">>] = NewTask]
    <3>1. Untouched(call[h].job, "NONE")
      BY <1>t, <2>2 DEF TasksFollowJob
    <3>2. CASE t = <<call[h].job, "VAULT_USER">>
      BY <1>n, <1>t, <2>2, <3>1, <3>2 DEF Untouched
    <3>3. CASE t # <<call[h].job, "VAULT_USER">>
      BY <1>0, <1>t, <2>2, <3>3
    <3> QED
      BY <3>2, <3>3
  <2> QED
    BY <1>t, <1>2, <2>1, <2>2, CreatedRow
<1>3. Materialized[t] = IF StageDue(t) /\ task[t].status = "NONE"
                        THEN NewTask ELSE task[t]
  BY DEF Materialized
<1>4. ASSUME task'[t] = Materialized[t]
      PROVE  Goal
  BY <1>3, <1>4, <1>n
<1>5. ASSUME NEW h \in Handlers, NEW u \in TaskIds, ClaimTask(h, u)
      PROVE  Goal
  <2>1. CASE t # u
    <3>1. task'[t] = Materialized[t]
      BY <1>5, <2>1 DEF ClaimTask, Materialized
    <3> QED
      BY <1>4, <3>1
  <2>2. CASE t = u
    <3>1. Materialized[t].status \in {"QUEUED", "DISPATCHED"}
      BY <1>5, <2>2 DEF ClaimTask, Claimable
    <3>2. Materialized \in [TaskIds -> TaskRow]
      BY <1>t DEF Materialized, NewTask, NoTask, TaskRow, TaskStatus
    <3>3. /\ task'[t].counted = Materialized[t].counted
          /\ task'[t].status = "DISPATCHED"
      BY <1>5, <2>2, <3>2 DEF ClaimTask, TaskRow
    <3> QED
      BY <1>3, <1>n, <3>1, <3>3
  <2> QED
    BY <2>1, <2>2
<1>6. ASSUME NEW h \in Handlers, RecordShadowSuccess(h)
      PROVE  Goal
  <2>1. \/ task' = task
        \/ /\ call[h].task \in TaskIds
           /\ task' = [task EXCEPT ![call[h].task].counted = TRUE]
    BY <1>t, <1>6 DEF RecordShadowSuccess, TypeOK, Call, Idle
  <2>2. task'[t].status = task[t].status
    BY <1>t, <2>1 DEF TaskRow
  <2> QED
    BY <1>6, <2>2
<1>7. ASSUME NEW u \in TaskIds, NEW s \in {"QUEUED", "COMPLETED", "DEAD_LETTER"},
             task[u].status = "DISPATCHED",
             t # u => task'[t] = task[t],
             t = u => task'[t].status = s /\ task'[t].counted = task[t].counted
      PROVE  Goal
  BY <1>7
<1>8. ASSUME NEW h \in Handlers, NEW u \in TaskIds,
             AckCompleted(h, u) \/ AckReplayed(h, u)
      PROVE  Goal
  <2>1. CASE task' = task
    BY <1>0, <2>1
  <2>2. CASE /\ task[u].status = "DISPATCHED"
             /\ task' = [task EXCEPT ![u].status = "COMPLETED",
                                     ![u].leased = FALSE]
    <3>1. t = u => /\ task'[t].status = "COMPLETED"
                   /\ task'[t].counted = task[t].counted
      BY <1>t, <2>2 DEF TaskRow
    <3>2. t # u => task'[t] = task[t]
      BY <1>t, <2>2
    <3> QED
      BY <1>7, <2>2, <3>1, <3>2
  <2> QED
    BY <1>8, <2>1, <2>2 DEF AckCompleted, AckReplayed
<1>9. ASSUME NEW u \in TaskIds, NEW r \in BOOLEAN, AckFailed(u, r)
      PROVE  Goal
  <2>1. t # u => task'[t] = task[t]
    BY <1>t, <1>9 DEF AckFailed
  <2>2. t = u => /\ task'[t].status \in {"QUEUED", "DEAD_LETTER"}
                 /\ task'[t].counted = task[t].counted
    BY <1>t, <1>9 DEF AckFailed, TaskRow
  <2>3. task[u].status = "DISPATCHED"
    BY <1>9 DEF AckFailed
  <2> QED
    BY <1>7, <2>1, <2>2, <2>3
<1>10. ASSUME NEW i \in Jobs, Cancel(i)
       PROVE  Goal
  <2>1. CASE task'[t] = task[t]
    BY <1>0, <2>1
  <2>2. CASE task'[t] # task[t]
    <3>1. /\ task[t].status \in {"QUEUED", "DISPATCHED"}
          /\ task'[t] = [task[t] EXCEPT !.status = "FAILED", !.leased = FALSE]
      BY <1>10, <2>2 DEF Cancel
    <3>2. task[t] \in TaskRow
      BY <1>t
    <3>3. task'[t].counted = task[t].counted
      BY <3>1, <3>2 DEF TaskRow
    <3> QED
      BY <3>1, <3>3
  <2> QED
    BY <2>1, <2>2
<1>11. ASSUME NEW u \in TaskIds, RequeueDeadLetter(u)
       PROVE  Goal
  <2>1. t # u => task'[t] = task[t]
    BY <1>t, <1>11 DEF RequeueDeadLetter
  <2>2. t = u => task'[t].counted = task[t].counted
    BY <1>t, <1>11 DEF RequeueDeadLetter, TaskRow
  <2>3. task[u].status = "DEAD_LETTER"
    BY <1>11 DEF RequeueDeadLetter
  <2> QED
    BY <1>0, <1>11, <2>1, <2>2, <2>3
<1>12. CASE Clock
  <2>1. \/ task' = task
        \/ \E u \in TaskIds : \/ task' = [task EXCEPT ![u].leased = FALSE]
                              \/ task' = [task EXCEPT ![u].ready = TRUE]
    BY <1>12 DEF Clock, DeadlinePasses, LeaseExpires, BackoffElapses
  <2>2. /\ task'[t].status = task[t].status
        /\ task'[t].counted = task[t].counted
    BY <1>t, <2>1 DEF TaskRow
  <2> QED
    BY <2>2
<1>13. ASSUME task' = task
       PROVE  Goal
  BY <1>0, <1>13
<1>14. ASSUME NEW h \in Handlers, HandlerStep(h)
       PROVE  Goal
  BY <1>2, <1>4, <1>5, <1>6, <1>13, <1>14
  DEF HandlerStep, InsertHeartbeat, ClaimNothing, LookupEvent, CheckHead,
      AppendLedger, ApplyTransition, Certify, DispatchWebhook, Bill
<1>15. ASSUME NEW h \in Handlers, Request(h) \/ Crash(h)
       PROVE  Goal
  BY <1>8, <1>13, <1>15
  DEF Request, Crash, BeginCreate, BeginSync, ReceiveEvent
<1>16. ASSUME NEW a \in BOOLEAN, SetClientActive(a)
       PROVE  Goal
  BY <1>13, <1>16 DEF SetClientActive
<1> QED
  BY <1>1, <1>9, <1>10, <1>11, <1>12, <1>14, <1>15, <1>16 DEF Next, Operator
(* Only an insert changes the ledger, by one row of a new key.             *)
LEMMA LedgerGrowsBy ==
  ASSUME TypeOK, [Next]_vars
  PROVE  \/ ledger' = ledger
         \/ \E h \in Handlers : /\ AppendLedger(h)
                                /\ ~Recorded(Key(call[h].ev))
                                /\ ledger' = ledger \union {call[h].ev}
<1>1. ASSUME NEW h \in Handlers, Request(h) \/ Crash(h)
      PROVE  ledger' = ledger
  BY <1>1 DEF evidence, Request, Crash, BeginCreate, BeginSync, AckCompleted,
     AckReplayed, ReceiveEvent
<1>2. ASSUME NEW h \in Handlers, HandlerStep(h)
      PROVE  \/ ledger' = ledger
             \/ /\ AppendLedger(h) /\ ~Recorded(Key(call[h].ev))
                /\ ledger' = ledger \union {call[h].ev}
  BY <1>2 DEF evidence, HandlerStep, FinishCreate, InsertHeartbeat, ClaimTask,
     ClaimNothing, RecordShadowSuccess, LookupEvent, CheckHead, AppendLedger,
     ApplyTransition, Certify, DispatchWebhook, Bill
<1> QED
  BY <1>1, <1>2
  DEF Next, vars, evidence, Clock, Operator, Cancel, AckFailed, DeadlinePasses,
      LeaseExpires, BackoffElapses, RequeueDeadLetter, SetClientActive

(* A call that is ingesting after a step was just received, or keeps its   *)
(* event and the job row it read.                                          *)
LEMMA IngestStep ==
  ASSUME TypeOK, [Next]_vars, NEW h \in Handlers
  PROVE  \/ call'[h].op # "ingest"
         \/ \E e \in WorkerEvents : ReceiveEvent(h, e)
         \/ /\ call[h].op = "ingest" /\ call'[h].op = "ingest"
            /\ call'[h].ev = call[h].ev /\ call'[h].seen = call[h].seen
<1> DEFINE Goal == \/ call'[h].op # "ingest"
                   \/ \E e \in WorkerEvents : ReceiveEvent(h, e)
                   \/ /\ call[h].op = "ingest" /\ call'[h].op = "ingest"
                      /\ call'[h].ev = call[h].ev
                      /\ call'[h].seen = call[h].seen
<1>t. call \in [Handlers -> Call]
  BY DEF TypeOK
<1>1. ASSUME call'[h] = call[h]
      PROVE  Goal
  BY <1>1
<1>2. ASSUME NEW g \in Handlers, NEW s \in IngestSteps, Ingesting(g, s),
             NEW r \in IngestSteps, Advance(g, r) \/ Return(g)
      PROVE  Goal
  <2>1. CASE g # h
    BY <1>1, <1>t, <1>2, <2>1 DEF Advance, Return
  <2>2. CASE g = h /\ Advance(g, r)
    BY <1>2, <2>2, AdvanceCall DEF Ingesting
  <2>3. CASE g = h /\ Return(g)
    BY <1>t, <2>3 DEF Return, Idle
  <2> QED
    BY <1>2, <2>1, <2>2, <2>3
<1>3. ASSUME NEW g \in Handlers, NEW c, c.op # "ingest",
             call' = [call EXCEPT ![g] = c]
      PROVE  Goal
  BY <1>t, <1>3
<1>4. ASSUME NEW g \in Handlers, Request(g)
      PROVE  Goal
  <2>1. ASSUME NEW e \in WorkerEvents, ReceiveEvent(g, e)
        PROVE  Goal
    BY <1>1, <1>t, <2>1 DEF ReceiveEvent
  <2>2. ASSUME NEW j \in Jobs, NEW form \in Forms, BeginCreate(g, j, form)
        PROVE  Goal
    <3>1. [op |-> "create", job |-> j, form |-> form].op # "ingest"
      OBVIOUS
    <3> QED
      BY <1>3, <2>2, <3>1 DEF BeginCreate
  <2>3. ASSUME NEW c \in Configs, BeginSync(g, c)
        PROVE  Goal
    <3>1. [op |-> "sync", config |-> c, seen |-> head].op # "ingest"
      OBVIOUS
    <3> QED
      BY <1>3, <2>3, <3>1 DEF BeginSync
  <2>4. ASSUME NEW t \in TaskIds, AckCompleted(g, t) \/ AckReplayed(g, t)
        PROVE  Goal
    <3> DEFINE c == IF CountsTowardsBurnIn(t)
                    THEN [op |-> "burnIn", task |-> t] ELSE Idle
    <3>1. c.op # "ingest" /\ call' = [call EXCEPT ![g] = c]
      BY <2>4 DEF AckCompleted, AckReplayed, AfterCompleted, Idle
    <3> HIDE DEF c
    <3> QED
      BY <1>3, <3>1
  <2> QED
    BY <1>4, <2>1, <2>2, <2>3, <2>4 DEF Request
<1>5. ASSUME NEW g \in Handlers, Return(g)
      PROVE  Goal
  BY <1>3, <1>5 DEF Return, Idle
<1>6. ASSUME NEW g \in Handlers, InsertHeartbeat(g)
      PROVE  Goal
  <2>1. [op |-> "claim"].op # "ingest"
    OBVIOUS
  <2> QED
    BY <1>3, <1>6, <2>1 DEF InsertHeartbeat
<1>7. ASSUME NEW g \in Handlers,
             \/ LookupEvent(g) \/ CheckHead(g) \/ AppendLedger(g)
             \/ ApplyTransition(g) \/ Certify(g)
             \/ \E a, b \in BOOLEAN : DispatchWebhook(g, a, b)
      PROVE  Goal
  BY <1>2, <1>7
  DEF LookupEvent, CheckHead, AppendLedger, ApplyTransition, Certify,
      DispatchWebhook, IngestSteps
<1>8. ASSUME NEW g \in Handlers, HandlerStep(g) \/ Crash(g)
      PROVE  Goal
  BY <1>5, <1>6, <1>7, <1>8
  DEF HandlerStep, Crash, FinishCreate, ClaimTask, ClaimNothing,
      RecordShadowSuccess, Bill
<1> QED
  BY <1>1, <1>4, <1>8
  DEF Next, vars, Clock, Operator, Cancel, AckFailed, DeadlinePasses,
      LeaseExpires, BackoffElapses, RequeueDeadLetter, SetClientActive

-----------------------------------------------------------------------------
(* Receipts.                                                               *)

(* Certificates are issued for terminal events.                            *)
CertificatesTerminal == \A x \in certs : x.type \in Terminal

ReceiptsInv == ReceiptsBacked /\ CertificatesTerminal

LEMMA ReceiptsStep == IInv /\ ReceiptsInv /\ [Next]_vars => ReceiptsInv'
<1> SUFFICES ASSUME IInv, ReceiptsInv, [Next]_vars
             PROVE  ReceiptsInv'
  OBVIOUS
<1>g. \A key : Recorded(key) => Recorded(key)'
  BY Monotone, RecordedGrows DEF IInv
<1>k. ASSUME NEW h \in Handlers, call[h].op = "ingest",
             call[h].step \in {"certify", "webhook", "bill"}
      PROVE  /\ Recorded(Key(call[h].ev))
             /\ call[h].step \in {"certify", "webhook"} =>
                  call[h].ev.type \in Terminal
             /\ call[h].step = "webhook" => CertificateFor(call[h]) \in certs
  BY <1>k DEF IInv, Grounded, CallsGrounded, CallGrounded, Recorded
<1>0. ASSUME UNCHANGED <<certs, billed, delivered>>
      PROVE  ReceiptsInv'
  BY <1>0, <1>g DEF ReceiptsInv, ReceiptsBacked, CertificatesTerminal
<1>1. ASSUME NEW h \in Handlers, Certify(h)
      PROVE  ReceiptsInv'
  <2> DEFINE x == CertificateFor(call[h])
  <2>1. /\ UNCHANGED <<billed, delivered>>
        /\ certs' = certs \/ certs' = certs \union {x}
    BY <1>1 DEF Certify
  <2>2. Recorded(<<x.job, x.type>>) /\ x.type \in Terminal
    BY <1>1, <1>k DEF Certify, Ingesting, CertificateFor, Key
  <2> HIDE DEF x
  <2> QED
    BY <1>g, <2>1, <2>2 DEF ReceiptsInv, ReceiptsBacked, CertificatesTerminal
<1>2. ASSUME NEW h \in Handlers, NEW a \in BOOLEAN, NEW b \in BOOLEAN,
             DispatchWebhook(h, a, b)
      PROVE  ReceiptsInv'
  <2> DEFINE x == CertificateFor(call[h])
  <2>1. /\ UNCHANGED <<certs, billed>>
        /\ \/ delivered' = delivered
           \/ delivered' = delivered \union {Key(call[h].ev)}
    BY <1>2 DEF DispatchWebhook
  <2>2. x \in certs /\ Key(call[h].ev) = <<x.job, x.type>>
    BY <1>2, <1>k DEF DispatchWebhook, Ingesting, CertificateFor, Key
  <2> HIDE DEF x
  <2> QED
    BY <1>g, <2>1, <2>2 DEF ReceiptsInv, ReceiptsBacked, CertificatesTerminal
<1>3. ASSUME NEW h \in Handlers, Bill(h)
      PROVE  ReceiptsInv'
  <2>1. /\ UNCHANGED <<certs, delivered>>
        /\ billed' = billed \union {Key(call[h].ev)}
        /\ Recorded(Key(call[h].ev))
    BY <1>3, <1>k DEF Bill, Ingesting
  <2> QED
    BY <1>g, <2>1 DEF ReceiptsInv, ReceiptsBacked, CertificatesTerminal
<1> QED
  BY <1>0, <1>1, <1>2, <1>3
  DEF Next, vars, evidence, Request, HandlerStep, Clock, Operator, BeginCreate,
      FinishCreate, Cancel, BeginSync, InsertHeartbeat, ClaimTask,
      ClaimNothing, AckCompleted, AckReplayed, AckFailed, RecordShadowSuccess,
      ReceiveEvent, LookupEvent, CheckHead, AppendLedger, ApplyTransition,
      RequeueDeadLetter, SetClientActive, DeadlinePasses, LeaseExpires,
      BackoffElapses, Crash

LEMMA ReceiptsInvHolds == Spec => []ReceiptsInv
<1>1. Init => ReceiptsInv
  BY DEF Init, ReceiptsInv, ReceiptsBacked, CertificatesTerminal
<1> QED
  BY <1>1, Invariance, ReceiptsStep, PTL DEF Spec

(* Nothing is certified, announced or billed that the ledger does not      *)
(* hold, however the receipts of an ingestion are interrupted and retried. *)
THEOREM ReceiptsAreBacked == Spec => []ReceiptsBacked
<1>1. ReceiptsInv => ReceiptsBacked
  BY DEF ReceiptsInv
<1> QED
  BY <1>1, ReceiptsInvHolds, PTL

-----------------------------------------------------------------------------
(* Deferred tasks and dead letters.                                        *)

(* Deadlines only pass.                                                    *)
LEMMA AgeGrows ==
  ASSUME TypeOK, [Next]_vars, NEW j \in Jobs
  PROVE  age'[j] \in Nat /\ age[j] \in Nat /\ age[j] <= age'[j]
<1>1. age \in [Jobs -> Nat]
  BY DEF TypeOK, Ages
<1>2. \/ age' = age
      \/ \E i \in Jobs : age' = [age EXCEPT ![i] = @ + 1]
  <2>1. ASSUME NEW h \in Handlers, Request(h) \/ Crash(h)
        PROVE  age' = age
    BY <2>1 DEF Request, Crash, BeginCreate, BeginSync, AckCompleted,
       AckReplayed, ReceiveEvent
  <2>2. ASSUME NEW h \in Handlers, HandlerStep(h)
        PROVE  age' = age
    BY <2>2 DEF HandlerStep, FinishCreate, InsertHeartbeat, ClaimTask,
       ClaimNothing, RecordShadowSuccess, LookupEvent, CheckHead, AppendLedger,
       ApplyTransition, Certify, DispatchWebhook, Bill
  <2> QED
    BY <2>1, <2>2
    DEF Next, vars, Clock, Operator, Cancel, AckFailed, DeadlinePasses,
        LeaseExpires, BackoffElapses, RequeueDeadLetter, SetClientActive
<1> QED
  BY <1>1, <1>2

LEMMA NoEarlyTaskStep == IInv /\ NoEarlyTask /\ [Next]_vars => NoEarlyTask'
<1> SUFFICES ASSUME IInv, NoEarlyTask, [Next]_vars, NEW j \in Jobs
             PROVE  /\ task'[<<j, "NOTIFY_USER">>].status # "NONE" =>
                         /\ age'[j] >= Notice
                         /\ Recorded(<<j, "USER_VAULTED">>)'
                    /\ task'[<<j, "SHRED_USER">>].status # "NONE" =>
                         /\ age'[j] >= Shred
                         /\ Recorded(<<j, "NOTIFICATION_SENT">>)'
  BY DEF NoEarlyTask
<1>1. \A key : Recorded(key) => Recorded(key)'
  BY Monotone, RecordedGrows DEF IInv
<1>2. age'[j] \in Nat /\ age[j] \in Nat /\ age[j] <= age'[j]
  BY AgeGrows DEF IInv
<1>3. ASSUME NEW type \in {"NOTIFY_USER", "SHRED_USER"},
             task'[<<j, type>>].status # "NONE",
             task[<<j, type>>].status = "NONE"
      PROVE  StageDue(<<j, type>>)
  <2>1. <<j, type>> \in TaskIds
    BY DEF TaskIds, TaskTypes
  <2> QED
    BY <1>3, <2>1, TaskStep
<1>4. ASSUME StageDue(<<j, "NOTIFY_USER">>)
      PROVE  age[j] >= Notice /\ Recorded(<<j, "USER_VAULTED">>)
  BY <1>4 DEF StageDue, IInv, StatusBacked, StatusBackedFor
<1>5. ASSUME StageDue(<<j, "SHRED_USER">>)
      PROVE  age[j] >= Shred /\ Recorded(<<j, "NOTIFICATION_SENT">>)
  BY <1>5 DEF StageDue, IInv, StatusBacked, StatusBackedFor
<1>6. ASSUME task'[<<j, "NOTIFY_USER">>].status # "NONE"
      PROVE  age'[j] >= Notice /\ Recorded(<<j, "USER_VAULTED">>)'
  <2>1. age[j] >= Notice /\ Recorded(<<j, "USER_VAULTED">>)
    <3>1. CASE task[<<j, "NOTIFY_USER">>].status = "NONE"
      <4>1. StageDue(<<j, "NOTIFY_USER">>)
        BY <1>3, <1>6, <3>1
      <4> QED
        BY <1>4, <4>1
    <3>2. CASE task[<<j, "NOTIFY_USER">>].status # "NONE"
      BY <3>2 DEF NoEarlyTask
    <3> QED
      BY <3>1, <3>2
  <2> QED
    BY <1>1, <1>2, <2>1 DEF Notice, Shred
<1>7. ASSUME task'[<<j, "SHRED_USER">>].status # "NONE"
      PROVE  age'[j] >= Shred /\ Recorded(<<j, "NOTIFICATION_SENT">>)'
  <2>1. age[j] >= Shred /\ Recorded(<<j, "NOTIFICATION_SENT">>)
    <3>1. CASE task[<<j, "SHRED_USER">>].status = "NONE"
      <4>1. StageDue(<<j, "SHRED_USER">>)
        BY <1>3, <1>7, <3>1
      <4> QED
        BY <1>5, <4>1
    <3>2. CASE task[<<j, "SHRED_USER">>].status # "NONE"
      BY <3>2 DEF NoEarlyTask
    <3> QED
      BY <3>1, <3>2
  <2> QED
    BY <1>1, <1>2, <2>1 DEF Notice, Shred
<1> QED
  BY <1>6, <1>7

(* No notice task before its deadline and the recorded vault, no shred     *)
(* task before the retention deadline and the recorded notice.             *)
THEOREM NoTaskIsEarly == Spec => []NoEarlyTask
<1>1. Init => NoEarlyTask
  BY DEF Init, NoEarlyTask, NoTask, TaskIds, TaskTypes
<1> QED
  BY <1>1, Invariance, NoEarlyTaskStep, PTL DEF Spec

LEMMA FailedStep ==
  IInv /\ FailedIsRecoverable /\ [Next]_vars => FailedIsRecoverable'
<1> SUFFICES ASSUME IInv, FailedIsRecoverable, [Next]_vars, NEW j \in Jobs,
                    job'[j].status = "FAILED"
             PROVE  \E type \in TaskTypes :
                      task'[<<j, type>>].status = "DEAD_LETTER"
  BY DEF FailedIsRecoverable
<1>t. TypeOK /\ TasksFollowJob
  BY DEF IInv, Grounded
<1>1. ASSUME NEW t \in TaskIds, NEW r \in BOOLEAN, AckFailed(t, r),
             job[j].status # "FAILED"
      PROVE  t[1] = j /\ task'[t].status = "DEAD_LETTER"
  BY <1>t, <1>1 DEF AckFailed, TypeOK, JobRow, TaskRow
<1>2. CASE job[j].status = "FAILED"
  <2>1. PICK type \in TaskTypes : task[<<j, type>>].status = "DEAD_LETTER"
    BY <1>2 DEF FailedIsRecoverable
  <2>2. <<j, type>> \in TaskIds
    BY DEF TaskIds
  <2>3. CASE RequeueDeadLetter(<<j, type>>)
    <3>1. job' = [job EXCEPT ![j].status = "EXECUTING"]
      BY <1>2, <2>3 DEF RequeueDeadLetter
    <3> QED
      BY <1>t, <3>1 DEF TypeOK, JobRow
  <2> QED
    BY <2>1, <2>2, <2>3, TaskStep
<1>3. CASE job[j].status # "FAILED"
  <2>1. \E t \in TaskIds, r \in BOOLEAN : AckFailed(t, r)
    <3>1. ~\E h \in Handlers : FinishCreate(h)
      BY <1>t, <1>3, CreatedRow
    <3>2. ~\E h \in Handlers : ApplyTransition(h)
      BY <1>3, AppliedRow DEF NextStatus
    <3>3. job' # job
      BY <1>3
    <3>4. ASSUME NEW h \in Handlers, NEW t \in TaskIds, ClaimTask(h, t)
          PROVE  FALSE
      <4> DEFINE s == IF job[t[1]].status = "WAITING_COOLDOWN"
                      THEN "EXECUTING" ELSE job[t[1]].status
      <4>1. job' = [job EXCEPT ![t[1]].status = s]
        BY <3>4 DEF ClaimTask
      <4>2. t[1] = j => s # "FAILED"
        BY <1>3
      <4> HIDE DEF s
      <4>3. job'[j].status = IF t[1] = j THEN s ELSE job[j].status
        BY <1>t, <4>1 DEF TypeOK, JobRow
      <4> QED
        BY <1>3, <4>2, <4>3
    <3>5. ASSUME NEW t \in TaskIds, RequeueDeadLetter(t)
          PROVE  FALSE
      <4> DEFINE s == IF job[t[1]].status = "FAILED"
                      THEN "EXECUTING" ELSE job[t[1]].status
      <4>1. job' = [job EXCEPT ![t[1]].status = s]
        BY <3>5 DEF RequeueDeadLetter
      <4>2. s # "FAILED"
        OBVIOUS
      <4> HIDE DEF s
      <4>3. job'[j].status = IF t[1] = j THEN s ELSE job[j].status
        BY <1>t, <4>1 DEF TypeOK, JobRow
      <4> QED
        BY <1>3, <4>2, <4>3
    <3>6. ASSUME NEW i \in Jobs, Cancel(i)
          PROVE  FALSE
      BY <1>t, <1>3, <3>6 DEF Cancel, TypeOK, JobRow
    <3> QED
      BY <3>1, <3>2, <3>3, <3>4, <3>5, <3>6
      DEF Next, vars, evidence, Request, HandlerStep, Clock, Operator,
          BeginCreate, BeginSync, InsertHeartbeat, ClaimNothing, AckCompleted,
          AckReplayed, RecordShadowSuccess, ReceiveEvent, LookupEvent,
          CheckHead, AppendLedger, Certify, DispatchWebhook, Bill,
          SetClientActive, DeadlinePasses, LeaseExpires, BackoffElapses, Crash
  <2>2. PICK t \in TaskIds : t[1] = j /\ task'[t].status = "DEAD_LETTER"
    BY <1>1, <1>3, <2>1
  <2> QED
    BY <2>2, TaskIdParts
<1> QED
  BY <1>2, <1>3

(* A failed job has a dead letter an operator can requeue.                 *)
THEOREM FailedJobsRecover == Spec => []FailedIsRecoverable
<1>1. Init => FailedIsRecoverable
  BY DEF Init, FailedIsRecoverable, NoJob
<1> QED
  BY <1>1, Invariance, FailedStep, PTL DEF Spec
-----------------------------------------------------------------------------
(* The retention rule.                                                     *)

HardDeleted(j) == Recorded(<<j, "USER_HARD_DELETED">>)
VaultedWith(j, rule) ==
  \E v \in ledger : Key(v) = <<j, "USER_VAULTED">> /\ v.rule = rule

(* What the job row says of the rule, as evidence for it: once a job is    *)
(* vaulted it cites a rule, and the rule it cites is the vault event's,    *)
(* unless a hard deletion wrote it.                                        *)
RuleBacked(j) ==
  /\ job[j].status = "NONE" => job[j].rule = NoRule
  /\ job[j].status \in {"VAULTED", "NOTICE_SENT"} => job[j].rule # NoRule
  /\ Recorded(<<j, "NOTIFICATION_SENT">>) => job[j].rule # NoRule
  /\ job[j].rule = NoRule \/ HardDeleted(j) \/ VaultedWith(j, job[j].rule)

(* The same for the row an ingestion read before its awaits: it agreed     *)
(* with the event, and whatever wrote the row since, that much still holds.*)
RuleSeen(h) ==
  call[h].op = "ingest" =>
    LET e == call[h].ev
        seen == call[h].seen
    IN /\ seen.rule \in {NoRule, e.rule}
       /\ seen.status \in {"VAULTED", "NOTICE_SENT"} => seen.rule # NoRule
       /\ seen.rule # NoRule =>
            /\ job[e.job].rule # NoRule
            /\ HardDeleted(e.job) \/ VaultedWith(e.job, seen.rule)

PolicyInv ==
  /\ PolicyStable
  /\ \A j \in Jobs : RuleBacked(j)
  /\ \A h \in Handlers : RuleSeen(h)

LEMMA VaultedWithGrows ==
  ASSUME ledger \subseteq ledger', NEW j, NEW rule, VaultedWith(j, rule)
  PROVE  VaultedWith(j, rule)'
  BY DEF VaultedWith, Key

(* A rule that a job cites stays, or another one takes its place.          *)
LEMMA RuleStays ==
  ASSUME IInv, [Next]_vars, NEW j \in Jobs, RuleBacked(j),
         job[j].rule # NoRule
  PROVE  job'[j].rule # NoRule
<1>1. job[j].status # "NONE"
  BY DEF RuleBacked
<1>2. ASSUME NEW h \in Handlers, ApplyTransition(h), call[h].ev.job = j
      PROVE  job'[j].rule # NoRule
  <2>1. call[h].ev.rule \in Rules
    BY <1>2, AppliedRow, EventParts DEF Event
  <2> QED
    BY <1>2, <2>1, AppliedRow, ConstantsAssumption
<1> QED
  BY <1>1, <1>2, RowKept

LEMMA RuleBackedStep ==
  ASSUME IInv, PolicyInv, [Next]_vars, NEW j \in Jobs
  PROVE  RuleBacked(j)'
<1>t. TypeOK /\ TasksFollowJob /\ RuleBacked(j)
  BY DEF IInv, Grounded, PolicyInv
<1>g. ledger \subseteq ledger' /\ \A key : Recorded(key) => Recorded(key)'
  BY <1>t, Monotone, RecordedGrows
<1>1. ASSUME NEW h \in Handlers, ApplyTransition(h), call[h].ev.job = j
      PROVE  RuleBacked(j)'
  <2> DEFINE e == call[h].ev
  <2>1. /\ e \in ledger /\ e.rule \in Rules /\ e.type \in EventTypes
        /\ job'[j].status = NextStatus(e.type)
        /\ job'[j].rule = IF e.type \in {"USER_VAULTED", "USER_HARD_DELETED"}
                          THEN e.rule ELSE job[j].rule
    BY <1>1, AppliedRow, EventParts DEF Event
  <2>2. ledger' = ledger
    BY <1>1 DEF ApplyTransition, evidence
  <2>3. CASE e.type = "USER_VAULTED"
    BY <1>1, <2>1, <2>2, <2>3, ConstantsAssumption
    DEF RuleBacked, NextStatus, VaultedWith, Key
  <2>4. CASE e.type = "USER_HARD_DELETED"
    BY <1>1, <2>1, <2>2, <2>4, ConstantsAssumption
    DEF RuleBacked, NextStatus, HardDeleted, Recorded, Key
  <2>5. CASE e.type = "NOTIFICATION_SENT"
    <3>1. Recorded(<<j, "NOTIFICATION_SENT">>)
      BY <1>1, <2>1, <2>5 DEF Recorded, Key
    <3> QED
      BY <1>t, <2>1, <2>2, <2>5, <3>1
      DEF RuleBacked, NextStatus, HardDeleted, VaultedWith, Recorded
  <2>6. CASE e.type = "SHRED_SUCCESS"
    BY <1>t, <2>1, <2>2, <2>6
    DEF RuleBacked, NextStatus, HardDeleted, VaultedWith, Recorded
  <2> QED
    BY <2>1, <2>3, <2>4, <2>5, <2>6 DEF EventTypes
<1>2. ASSUME ~\E h \in Handlers : ApplyTransition(h) /\ call[h].ev.job = j
      PROVE  RuleBacked(j)'
  <2>1. job'[j].rule = job[j].rule
    BY <1>t, <1>2, RowKept DEF RuleBacked
  <2>2. job'[j].status = "NONE" => job[j].status = "NONE"
    BY RowKept
  <2>3. job'[j].status \in {"VAULTED", "NOTICE_SENT"} =>
          job[j].rule # NoRule
    <3>1. SUFFICES ASSUME job'[j].status \in {"VAULTED", "NOTICE_SENT"}
                   PROVE  job[j].status \in {"VAULTED", "NOTICE_SENT"}
      BY <1>t DEF RuleBacked
    <3>2. ASSUME NEW h \in Handlers, FinishCreate(h)
          PROVE  job'[j].status = job[j].status
      BY <1>t, <3>1, <3>2, CreatedRow
    <3>3. ASSUME NEW h \in Handlers, ApplyTransition(h)
          PROVE  job'[j].status = job[j].status
      BY <1>2, <3>3, AppliedRow
    <3>4. ASSUME NEW h \in Handlers, NEW t \in TaskIds, ClaimTask(h, t)
          PROVE  job'[j].status = job[j].status
      <4> DEFINE s == IF job[t[1]].status = "WAITING_COOLDOWN"
                      THEN "EXECUTING" ELSE job[t[1]].status
      <4>1. job' = [job EXCEPT ![t[1]].status = s]
        BY <3>4 DEF ClaimTask
      <4>2. s = "EXECUTING" \/ s = job[t[1]].status
        OBVIOUS
      <4> HIDE DEF s
      <4> QED
        BY <1>t, <3>1, <4>1, <4>2 DEF TypeOK, JobRow
    <3>5. ASSUME NEW t \in TaskIds, RequeueDeadLetter(t)
          PROVE  job'[j].status = job[j].status
      <4> DEFINE s == IF job[t[1]].status = "FAILED"
                      THEN "EXECUTING" ELSE job[t[1]].status
      <4>1. job' = [job EXCEPT ![t[1]].status = s]
        BY <3>5 DEF RequeueDeadLetter
      <4>2. s = "EXECUTING" \/ s = job[t[1]].status
        OBVIOUS
      <4> HIDE DEF s
      <4> QED
        BY <1>t, <3>1, <4>1, <4>2 DEF TypeOK, JobRow
    <3>6. ASSUME NEW t \in TaskIds, NEW r \in BOOLEAN, AckFailed(t, r)
          PROVE  job'[j].status = job[j].status
      BY <1>t, <3>1, <3>6 DEF AckFailed, TypeOK, JobRow
    <3>7. ASSUME NEW i \in Jobs, Cancel(i)
          PROVE  job'[j].status = job[j].status
      BY <1>t, <3>1, <3>7 DEF Cancel, TypeOK, JobRow
    <3> QED
      BY <3>1, <3>2, <3>3, <3>4, <3>5, <3>6, <3>7
      DEF Next, vars, evidence, Request, HandlerStep, Clock, Operator,
          BeginCreate, BeginSync, InsertHeartbeat, ClaimNothing, AckCompleted,
          AckReplayed, RecordShadowSuccess, ReceiveEvent, LookupEvent,
          CheckHead, AppendLedger, Certify, DispatchWebhook, Bill,
          SetClientActive, DeadlinePasses, LeaseExpires, BackoffElapses, Crash
  <2>4. Recorded(<<j, "NOTIFICATION_SENT">>)' => job[j].rule # NoRule
    <3>1. CASE Recorded(<<j, "NOTIFICATION_SENT">>)
      BY <1>t, <3>1 DEF RuleBacked
    <3>2. ASSUME NEW h \in Handlers, AppendLedger(h),
                 ~Recorded(<<j, "NOTIFICATION_SENT">>),
                 Recorded(<<j, "NOTIFICATION_SENT">>)'
          PROVE  job[j].rule # NoRule
      <4> DEFINE e == call[h].ev
      <4>1. Key(e) = <<j, "NOTIFICATION_SENT">> /\ Ingesting(h, "append")
        BY <3>2 DEF AppendLedger, Recorded
      <4>2. e.job = j /\ e.type = "NOTIFICATION_SENT"
        BY <4>1 DEF Key
      <4>3. call[h].seen.status = "VAULTED"
        BY <4>1, <4>2
        DEF IInv, Grounded, CallsGrounded, CallGrounded, Ingesting, Predecessor
      <4> QED
        BY <4>1, <4>2, <4>3 DEF PolicyInv, RuleSeen, Ingesting
    <3> QED
      BY <1>t, <3>1, <3>2, LedgerGrowsBy DEF Recorded
  <2> QED
    BY <1>t, <1>g, <2>1, <2>2, <2>3, <2>4, VaultedWithGrows
    DEF RuleBacked, HardDeleted
<1> QED
  BY <1>1, <1>2

LEMMA RuleSeenStep ==
  ASSUME IInv, PolicyInv, [Next]_vars, NEW h \in Handlers
  PROVE  RuleSeen(h)'
<1>t. TypeOK /\ call \in [Handlers -> Call]
  BY DEF IInv, TypeOK
<1>g. /\ \A j, rule : VaultedWith(j, rule) => VaultedWith(j, rule)'
      /\ \A j : HardDeleted(j) => HardDeleted(j)'
  BY <1>t, Monotone, RecordedGrows, VaultedWithGrows DEF HardDeleted
<1>1. ASSUME call[h].op = "ingest", call'[h].op = "ingest",
             call'[h].ev = call[h].ev, call'[h].seen = call[h].seen
      PROVE  RuleSeen(h)'
  <2>1. call[h].ev.job \in Jobs
    BY <1>t, <1>1, IngestParts, EventParts
  <2>2. job[call[h].ev.job].rule # NoRule =>
          job'[call[h].ev.job].rule # NoRule
    BY <2>1, RuleStays DEF PolicyInv
  <2>3. RuleSeen(h)
    BY DEF PolicyInv
  <2> QED
    BY <1>1, <1>g, <2>2, <2>3 DEF RuleSeen
<1>2. ASSUME NEW e \in WorkerEvents, ReceiveEvent(h, e)
      PROVE  RuleSeen(h)'
  <2>1. /\ call'[h] = [op |-> "ingest", step |-> "lookup", ev |-> e,
                       seen |-> job[e.job]]
        /\ UNCHANGED <<job, ledger>> /\ MetadataMatches(e)
    BY <1>t, <1>2 DEF ReceiveEvent, evidence
  <2>2. RuleBacked(e.job)
    BY EventParts DEF PolicyInv
  <2> QED
    BY <2>1, <2>2
    DEF RuleSeen, RuleBacked, MetadataMatches, HardDeleted, VaultedWith,
        Recorded
<1>3. CASE call'[h].op # "ingest"
  BY <1>3 DEF RuleSeen
<1>4. \/ call'[h].op # "ingest"
      \/ \E e \in WorkerEvents : ReceiveEvent(h, e)
      \/ /\ call[h].op = "ingest" /\ call'[h].op = "ingest"
         /\ call'[h].ev = call[h].ev /\ call'[h].seen = call[h].seen
  BY <1>t, IngestStep
<1> QED
  BY <1>1, <1>2, <1>3, <1>4

LEMMA PolicyStep == IInv /\ PolicyInv /\ [Next]_vars => PolicyInv'
<1> SUFFICES ASSUME IInv, PolicyInv, [Next]_vars
             PROVE  PolicyStable'
  BY RuleBackedStep, RuleSeenStep DEF PolicyInv
<1>i. IInv'
  BY InductiveStep
<1>1. CASE ledger' = ledger
  BY <1>1 DEF PolicyInv, PolicyStable, Recorded
<1>2. ASSUME NEW h \in Handlers, AppendLedger(h), ~Recorded(Key(call[h].ev)),
             ledger' = ledger \union {call[h].ev}
      PROVE  PolicyStable'
  <2> DEFINE n == call[h].ev
  <2>1. Ingesting(h, "append")
    BY <1>2 DEF AppendLedger
  <2>2. n.type \in EventTypes /\ n.job \in Jobs
    BY <2>1, IngestParts, EventParts DEF IInv, Ingesting
  <2>3. call[h].seen.status = Predecessor(n.type) /\ RuleSeen(h)
    BY <2>1 DEF IInv, Grounded, CallsGrounded, CallGrounded, Ingesting, PolicyInv
  <2>4. SUFFICES ASSUME NEW v \in ledger', NEW e \in ledger',
                        v.job = e.job, v.type = "USER_VAULTED",
                        ~Recorded(<<v.job, "USER_HARD_DELETED">>)'
                 PROVE  e.rule = v.rule
    BY DEF PolicyStable
  <2>5. ~Recorded(<<v.job, "USER_HARD_DELETED">>)
    BY <1>2, <2>4 DEF Recorded
  <2>6. CASE v \in ledger /\ e \in ledger
    BY <2>4, <2>5, <2>6 DEF PolicyInv, PolicyStable
  <2>7. CASE v = n
    <3>1. ~Recorded(<<n.job, "USER_VAULTED">>)
      BY <1>2, <2>4, <2>7 DEF Key
    <3>2. /\ ~Recorded(<<n.job, "NOTIFICATION_SENT">>)
          /\ ~Recorded(<<n.job, "SHRED_SUCCESS">>)
      BY <2>2, <3>1 DEF IInv, LedgerOrder
    <3>3. e \in WorkerEvents
      BY <1>i DEF IInv, TypeOK
    <3>4. e.type \in EventTypes /\ e.job = n.job
      BY <2>4, <2>7, <3>3, EventParts
    <3>5. e \notin ledger
      BY <2>5, <2>7, <3>1, <3>2, <3>4 DEF Recorded, Key, EventTypes
    <3> QED
      BY <1>2, <2>7, <3>5
  <2>8. CASE e = n /\ v \in ledger
    <3>1. n.type # "USER_VAULTED"
      BY <1>2, <2>4, <2>8 DEF Recorded, Key
    <3>2. n.type # "USER_HARD_DELETED"
      BY <1>2, <2>4, <2>8 DEF Recorded, Key
    <3>3. call[h].seen.status \in {"VAULTED", "NOTICE_SENT"}
      BY <2>2, <2>3, <3>1, <3>2 DEF Predecessor, EventTypes
    <3>4. VaultedWith(n.job, n.rule)
      BY <2>1, <2>3, <2>4, <2>5, <2>8, <3>3
      DEF RuleSeen, Ingesting, HardDeleted
    <3>5. PICK w \in ledger : Key(w) = <<n.job, "USER_VAULTED">> /\ w.rule = n.rule
      BY <3>4 DEF VaultedWith
    <3>6. w = v
      BY <2>4, <2>8, <3>5 DEF IInv, Grounded, OneRowPerKey, Key
    <3> QED
      BY <2>8, <3>5, <3>6
  <2> QED
    BY <1>2, <2>6, <2>7, <2>8
<1> QED
  BY <1>1, <1>2, LedgerGrowsBy DEF IInv

(* The rule recorded with the vault event is the rule of every later event *)
(* of the job, unless a hard deletion intervened.                          *)
THEOREM PolicyIsStable == Spec => []PolicyStable
<1>1. Init => PolicyInv
  BY DEF Init, PolicyInv, PolicyStable, RuleBacked, RuleSeen, NoJob, Idle,
     Recorded
<1>2. PolicyInv => PolicyStable
  BY DEF PolicyInv
<1> QED
  BY <1>1, <1>2, Invariance, PolicyStep, PTL DEF Spec
-----------------------------------------------------------------------------
(* The burn-in gate.                                                       *)

GateRequired == BurnInRequired /\ RequiredSuccesses > 0

(* The gate stays open once it was opened, a call that passed it did so    *)
(* with the threshold reached, and a call on its way to count is about the *)
(* vault task of a shadow request.                                         *)
GateKept ==
  /\ client.live => client.successes >= RequiredSuccesses
  /\ \A h \in Handlers :
       /\ call[h].op = "burnIn" =>
            LET t == call[h].task
            IN  /\ t[2] = "VAULT_USER"
                /\ job[t[1]].status # "NONE" /\ job[t[1]].shadow
       /\ (call[h].op = "create" /\ GateRequired) =>
            (call[h].form.shadow \/ client.live)
  /\ GateRequired =>
       \A j \in Jobs : job[j].status # "NONE" => job[j].shadow \/ client.live

GateInv == BurnInGate /\ GateKept

LEMMA CountedFinite ==
  /\ IsFiniteSet(Counted)
  /\ Cardinality(Counted) \in Nat
<1>1. IsFiniteSet(TaskTypes)
  <2>1. TaskTypes = {"VAULT_USER"} \union {"NOTIFY_USER"} \union {"SHRED_USER"}
    BY DEF TaskTypes
  <2>2. IsFiniteSet({"VAULT_USER"})
    BY FS_Singleton
  <2>3. IsFiniteSet({"VAULT_USER"} \union {"NOTIFY_USER"})
    BY <2>2, FS_AddElement
  <2> QED
    BY <2>1, <2>3, FS_AddElement
<1>2. IsFiniteSet(TaskIds)
  BY <1>1, ConstantsAssumption, FS_Product DEF TaskIds
<1>3. Counted \in SUBSET TaskIds
  BY DEF Counted
<1> QED
  BY <1>2, <1>3, FS_Subset, FS_CardinalityType

(* What the gate relies on of a client row, a step but the count keeps.    *)
LEMMA ClientKept ==
  ASSUME TypeOK, [Next]_vars, ~\E h \in Handlers : RecordShadowSuccess(h)
  PROVE  client'.live = client.live /\ client'.successes = client.successes
<1>1. ASSUME NEW h \in Handlers, Request(h) \/ Crash(h)
      PROVE  client' = client
  BY <1>1 DEF Request, Crash, BeginCreate, BeginSync, AckCompleted,
     AckReplayed, ReceiveEvent
<1>2. ASSUME NEW h \in Handlers, HandlerStep(h)
      PROVE  client' = client
  BY <1>2 DEF HandlerStep, FinishCreate, InsertHeartbeat, ClaimTask,
     ClaimNothing, LookupEvent, CheckHead, AppendLedger, ApplyTransition,
     Certify, DispatchWebhook, Bill
<1>3. client' = client \/ \E a \in BOOLEAN : SetClientActive(a)
  BY <1>1, <1>2
  DEF Next, vars, Clock, Operator, Cancel, AckFailed, DeadlinePasses,
      LeaseExpires, BackoffElapses, RequeueDeadLetter
<1> QED
  BY <1>3 DEF SetClientActive, TypeOK

(* A call that creates or counts after a step did so before, or has just   *)
(* passed the gate, or has just completed a task.                          *)
LEMMA GatedCall ==
  ASSUME TypeOK, [Next]_vars, NEW h \in Handlers
  PROVE  \/ call'[h] = call[h]
         \/ call'[h].op \notin {"create", "burnIn"}
         \/ \E j \in Jobs, form \in Forms : BeginCreate(h, j, form)
         \/ \E t \in TaskIds : AckCompleted(h, t) \/ AckReplayed(h, t)
<1> DEFINE Goal == \/ call'[h] = call[h]
                   \/ call'[h].op \notin {"create", "burnIn"}
                   \/ \E j \in Jobs, form \in Forms : BeginCreate(h, j, form)
                   \/ \E t \in TaskIds : AckCompleted(h, t) \/ AckReplayed(h, t)
<1>t. call \in [Handlers -> Call]
  BY DEF TypeOK
<1>1. ASSUME NEW g \in Handlers, NEW c, c.op \notin {"create", "burnIn"},
             call' = [call EXCEPT ![g] = c]
      PROVE  Goal
  BY <1>t, <1>1
<1>2. ASSUME NEW g \in Handlers, NEW s \in IngestSteps, Ingesting(g, s),
             NEW r \in IngestSteps, Advance(g, r) \/ Return(g)
      PROVE  Goal
  <2>1. CASE g # h
    BY <1>t, <1>2, <2>1 DEF Advance, Return
  <2>2. CASE g = h /\ Advance(g, r)
    BY <1>2, <2>2, AdvanceCall DEF Ingesting
  <2>3. CASE g = h /\ Return(g)
    BY <1>t, <2>3 DEF Return, Idle
  <2> QED
    BY <1>2, <2>1, <2>2, <2>3
<1>3. ASSUME NEW g \in Handlers, g # h, NEW c,
             call' = [call EXCEPT ![g] = c]
      PROVE  Goal
  BY <1>t, <1>3
<1>4. ASSUME NEW g \in Handlers, Request(g)
      PROVE  Goal
  <2>1. ASSUME NEW e \in WorkerEvents, ReceiveEvent(g, e)
        PROVE  Goal
    <3>1. [op |-> "ingest", step |-> "lookup", ev |-> e,
           seen |-> job[e.job]].op \notin {"create", "burnIn"}
      OBVIOUS
    <3> QED
      BY <1>1, <2>1, <3>1 DEF ReceiveEvent
  <2>2. ASSUME NEW j \in Jobs, NEW form \in Forms, BeginCreate(g, j, form)
        PROVE  Goal
    BY <1>3, <2>2 DEF BeginCreate
  <2>3. ASSUME NEW c \in Configs, BeginSync(g, c)
        PROVE  Goal
    <3>1. [op |-> "sync", config |-> c, seen |-> head].op
            \notin {"create", "burnIn"}
      OBVIOUS
    <3> QED
      BY <1>1, <2>3, <3>1 DEF BeginSync
  <2>4. ASSUME NEW t \in TaskIds, AckCompleted(g, t) \/ AckReplayed(g, t)
        PROVE  Goal
    BY <1>3, <2>4 DEF AckCompleted, AckReplayed, AfterCompleted
  <2> QED
    BY <1>4, <2>1, <2>2, <2>3, <2>4 DEF Request
<1>5. ASSUME NEW g \in Handlers, Return(g)
      PROVE  Goal
  BY <1>1, <1>5 DEF Return, Idle
<1>6. ASSUME NEW g \in Handlers, InsertHeartbeat(g)
      PROVE  Goal
  <2>1. [op |-> "claim"].op \notin {"create", "burnIn"}
    OBVIOUS
  <2> QED
    BY <1>1, <1>6, <2>1 DEF InsertHeartbeat
<1>7. ASSUME NEW g \in Handlers,
             \/ LookupEvent(g) \/ CheckHead(g) \/ AppendLedger(g)
             \/ ApplyTransition(g) \/ Certify(g)
             \/ \E a, b \in BOOLEAN : DispatchWebhook(g, a, b)
      PROVE  Goal
  BY <1>2, <1>7
  DEF LookupEvent, CheckHead, AppendLedger, ApplyTransition, Certify,
      DispatchWebhook, IngestSteps
<1>8. ASSUME NEW g \in Handlers, HandlerStep(g) \/ Crash(g)
      PROVE  Goal
  BY <1>5, <1>6, <1>7, <1>8
  DEF HandlerStep, Crash, FinishCreate, ClaimTask, ClaimNothing,
      RecordShadowSuccess, Bill
<1> QED
  BY <1>4, <1>8
  DEF Next, vars, Clock, Operator, Cancel, AckFailed, DeadlinePasses,
      LeaseExpires, BackoffElapses, RequeueDeadLetter, SetClientActive

(* A step that counts nothing.                                             *)
LEMMA CountedKept ==
  ASSUME IInv, GateInv, [Next]_vars,
         ~\E h \in Handlers : RecordShadowSuccess(h)
  PROVE  Counted' = Counted
<1>1. ASSUME NEW t \in TaskIds
      PROVE  task'[t].counted = task[t].counted
  <2>1. task[t] \in TaskRow /\ task'[t] \in TaskRow
    BY StepType DEF IInv, TypeOK
  <2>2. task[t].counted \in BOOLEAN /\ task'[t].counted \in BOOLEAN
    BY <2>1 DEF TaskRow
  <2>3. task[t].counted => task[t].status = "COMPLETED"
    BY DEF GateInv, BurnInGate, Counted
  <2> QED
    BY <2>2, <2>3, TaskStep
<1> QED
  BY <1>1 DEF Counted

LEMMA BurnInGateStep ==
  ASSUME IInv, GateInv, [Next]_vars
  PROVE  /\ client'.successes = Cardinality(Counted')
         /\ client'.live => client'.successes >= RequiredSuccesses
         /\ client.live => client'.live
<1>t. /\ TypeOK /\ client \in [active : BOOLEAN, successes : Nat, live : BOOLEAN]
      /\ RequiredSuccesses \in Nat
  BY ConstantsAssumption DEF IInv, TypeOK
<1>1. CASE ~\E h \in Handlers : RecordShadowSuccess(h)
  BY <1>t, <1>1, ClientKept, CountedKept DEF GateInv, BurnInGate, GateKept
<1>2. ASSUME NEW h \in Handlers, RecordShadowSuccess(h)
      PROVE  /\ client'.successes = Cardinality(Counted')
             /\ client'.live => client'.successes >= RequiredSuccesses
             /\ client.live => client'.live
  <2>1. CASE UNCHANGED <<task, client>>
    BY <2>1 DEF GateInv, BurnInGate, GateKept, Counted
  <2>2. CASE ~UNCHANGED <<task, client>>
    <3> DEFINE n == client.successes + 1
               l == client.live \/ n >= RequiredSuccesses
    <3>1. PICK t \in TaskIds : t = call[h].task
      BY <1>t, <1>2 DEF RecordShadowSuccess, TypeOK, Call, Idle
    <3>2. /\ ~task[t].counted
          /\ task' = [task EXCEPT ![t].counted = TRUE]
          /\ client' = [client EXCEPT !.successes = n, !.live = l]
      BY <1>2, <2>2, <3>1 DEF RecordShadowSuccess
    <3>3. n \in Nat /\ l \in BOOLEAN
      BY <1>t
    <3> HIDE DEF n, l
    <3>4. client'.successes = n /\ client'.live = l
      BY <1>t, <3>2, <3>3
    <3>5. Counted' = Counted \union {t} /\ t \notin Counted
      BY <1>t, <3>2 DEF Counted, TypeOK, TaskRow
    <3>6. Cardinality(Counted') = Cardinality(Counted) + 1
      BY <3>5, CountedFinite, FS_AddElement
    <3> QED
      BY <1>t, <3>4, <3>6, CountedFinite
      DEF n, l, GateInv, BurnInGate, GateKept
  <2> QED
    BY <2>1, <2>2
<1> QED
  BY <1>1, <1>2

LEMMA GateStep == IInv /\ GateInv /\ [Next]_vars => GateInv'
<1> SUFFICES ASSUME IInv, GateInv, [Next]_vars
             PROVE  GateInv'
  OBVIOUS
<1>t. /\ TypeOK /\ TasksFollowJob /\ call \in [Handlers -> Call]
      /\ client \in [active : BOOLEAN, successes : Nat, live : BOOLEAN]
  BY DEF IInv, Grounded, TypeOK
<1>1. /\ client'.successes = Cardinality(Counted')
      /\ client'.live => client'.successes >= RequiredSuccesses
      /\ client.live => client'.live
  BY BurnInGateStep
<1>2. ASSUME NEW t \in TaskIds, task'[t].counted
      PROVE  /\ task'[t].status = "COMPLETED"
             /\ job'[t[1]].shadow /\ t[2] = "VAULT_USER"
  <2>1. CASE task[t].counted
    <3>1. /\ task[t].status = "COMPLETED"
          /\ job[t[1]].shadow /\ t[2] = "VAULT_USER"
      BY <2>1 DEF GateInv, BurnInGate, Counted
    <3>2. t[1] \in Jobs /\ job[t[1]].status # "NONE"
      BY <1>t, <3>1, TaskIdParts, BusyTask DEF Active
    <3> QED
      BY <3>1, <3>2, TaskStep, RowKept
  <2>2. CASE ~task[t].counted
    <3>1. PICK h \in Handlers : RecordShadowSuccess(h)
      BY <1>t, <1>2, <2>2, TaskStep DEF TypeOK, TaskRow
    <3>2. t = call[h].task /\ task[t].status = "COMPLETED" /\ call[h].op = "burnIn"
      BY <1>t, <1>2, <2>2, <3>1
      DEF RecordShadowSuccess, TypeOK, Call, Idle, TaskRow
    <3>3. task'[t].status = "COMPLETED" /\ job' = job
      BY <3>1, <3>2, TaskStep DEF RecordShadowSuccess
    <3> QED
      BY <3>2, <3>3 DEF GateInv, GateKept
  <2> QED
    BY <2>1, <2>2
<1>3. ASSUME NEW h \in Handlers, call'[h].op = "burnIn"
      PROVE  LET t == call'[h].task
             IN  /\ t[2] = "VAULT_USER"
                 /\ job'[t[1]].status # "NONE" /\ job'[t[1]].shadow
  <2>1. ASSUME NEW t \in TaskIds, AckCompleted(h, t) \/ AckReplayed(h, t)
        PROVE  /\ call'[h].task = t /\ t[2] = "VAULT_USER"
               /\ job[t[1]].status # "NONE" /\ job[t[1]].shadow
    <3> DEFINE c == IF CountsTowardsBurnIn(t)
                    THEN [op |-> "burnIn", task |-> t] ELSE Idle
    <3>1. call' = [call EXCEPT ![h] = c]
      BY <2>1 DEF AckCompleted, AckReplayed, AfterCompleted
    <3>2. call'[h] = c
      BY <1>t, <3>1
    <3>3. c.op = "burnIn"
      BY <1>3, <3>2
    <3>6. CountsTowardsBurnIn(t)
      BY <3>3 DEF Idle
    <3>4. job[t[1]].status # "NONE"
      BY <1>t, <2>1, BusyTask DEF AckCompleted, AckReplayed, Active
    <3>5. call'[h].task = t
      BY <3>2, <3>6
    <3>7. t[2] = "VAULT_USER" /\ job[t[1]].shadow
      BY <3>6 DEF CountsTowardsBurnIn
    <3> HIDE DEF c
    <3> QED
      BY <3>4, <3>5, <3>7
  <2>2. ASSUME call'[h] = call[h]
        PROVE  /\ call[h].task[2] = "VAULT_USER"
               /\ job[call[h].task[1]].status # "NONE"
               /\ job[call[h].task[1]].shadow
    BY <1>3, <2>2 DEF GateInv, GateKept
  <2>3. ASSUME NEW j \in Jobs, NEW form \in Forms, BeginCreate(h, j, form)
        PROVE  FALSE
    BY <1>t, <1>3, <2>3 DEF BeginCreate
  <2>4. /\ call'[h].task[2] = "VAULT_USER"
        /\ job[call'[h].task[1]].status # "NONE"
        /\ job[call'[h].task[1]].shadow
    BY <1>t, <1>3, <2>1, <2>2, <2>3, GatedCall DEF GateInv, GateKept
  <2>5. call'[h].task \in TaskIds
    <3>1. call'[h] \in Call
      BY <1>t, StepType DEF TypeOK
    <3> QED
      BY <1>3, <3>1 DEF Call, Idle
  <2> QED
    BY <2>4, <2>5, RowKept, TaskIdParts
<1>4. ASSUME NEW h \in Handlers, call'[h].op = "create", GateRequired
      PROVE  call'[h].form.shadow \/ client'.live
  <2>1. CASE call'[h] = call[h]
    BY <1>1, <1>4, <2>1 DEF GateInv, GateKept
  <2>2. ASSUME NEW j \in Jobs, NEW form \in Forms, BeginCreate(h, j, form)
        PROVE  form.shadow \/ client.live
    BY <1>4, <2>2 DEF BeginCreate, GateRequired
  <2>3. ASSUME NEW j \in Jobs, NEW form \in Forms, BeginCreate(h, j, form)
        PROVE  call'[h].form = form
    BY <1>t, <2>3 DEF BeginCreate
  <2>4. ASSUME NEW t \in TaskIds, AckCompleted(h, t) \/ AckReplayed(h, t)
        PROVE  FALSE
    <3> DEFINE c == IF CountsTowardsBurnIn(t)
                    THEN [op |-> "burnIn", task |-> t] ELSE Idle
    <3>1. call' = [call EXCEPT ![h] = c] /\ c.op # "create"
      BY <2>4 DEF AckCompleted, AckReplayed, AfterCompleted, Idle
    <3> HIDE DEF c
    <3> QED
      BY <1>t, <1>4, <3>1
  <2> QED
    BY <1>t, <1>1, <1>4, <2>1, <2>2, <2>3, <2>4, GatedCall
<1>5. ASSUME NEW j \in Jobs, job'[j].status # "NONE", GateRequired
      PROVE  job'[j].shadow \/ client'.live
  <2>1. CASE job[j].status # "NONE"
    BY <1>1, <1>5, <2>1, RowKept DEF GateInv, GateKept
  <2>2. CASE job[j].status = "NONE"
    <3>1. ASSUME NEW h \in Handlers, ApplyTransition(h)
          PROVE  FALSE
      BY <1>5, <2>2, <3>1, AppliedRow DEF IInv, Grounded, LedgerOfActive, Active
    <3>2. ASSUME NEW i \in Jobs, NEW s, job[i].status # "NONE",
                 job' = [job EXCEPT ![i].status = s]
          PROVE  FALSE
      BY <1>t, <1>5, <2>2, <3>2 DEF TypeOK, JobRow
    <3>3. PICK h \in Handlers : FinishCreate(h)
      BY <1>t, <1>5, <2>2, <3>1, <3>2, JobStep
    <3>4. call[h].job = j /\ job'[j].shadow = call[h].form.shadow
      BY <1>t, <1>5, <2>2, <3>3, CreatedRow
    <3> QED
      BY <1>1, <1>5, <3>3, <3>4 DEF GateInv, GateKept, FinishCreate
  <2> QED
    BY <2>1, <2>2
<1>6. (BurnInRequired /\ \E j \in Jobs :
         job'[j].status # "NONE" /\ ~job'[j].shadow)
      => Cardinality(Counted') >= RequiredSuccesses
  <2>1. SUFFICES ASSUME BurnInRequired, NEW j \in Jobs,
                        job'[j].status # "NONE", ~job'[j].shadow
                 PROVE  Cardinality(Counted') >= RequiredSuccesses
    OBVIOUS
  <2>2. CASE GateRequired
    BY <1>1, <1>5, <2>1, <2>2
  <2>3. CASE RequiredSuccesses = 0
    <3>1. client'.successes \in Nat
      BY <1>t, StepType DEF TypeOK
    <3> QED
      BY <1>1, <2>3, <3>1
  <2> QED
    BY <2>1, <2>2, <2>3, ConstantsAssumption DEF GateRequired
<1>7. BurnInGate'
  BY <1>1, <1>2, <1>6 DEF BurnInGate, Counted
<1>8. GateKept'
  BY <1>1, <1>3, <1>4, <1>5 DEF GateKept, GateRequired
<1> QED
  BY <1>7, <1>8 DEF GateInv

(* Each completed shadow vault is counted once, and no mutating request    *)
(* exists before enough of them were.                                      *)
THEOREM BurnInGateHolds == Spec => []BurnInGate
<1>1. Init => GateInv
  <2>1. SUFFICES ASSUME Init
                 PROVE  GateInv
    OBVIOUS
  <2>2. Counted = {}
    BY <2>1 DEF Init, Counted, NoTask
  <2>3. Cardinality(Counted) = 0
    BY <2>2, FS_EmptySet
  <2> QED
    BY <2>1, <2>2, <2>3
    DEF Init, GateInv, GateKept, BurnInGate, NoJob, Idle, GateRequired
<1>2. GateInv => BurnInGate
  BY DEF GateInv
<1> QED
  BY <1>1, <1>2, Invariance, GateStep, PTL DEF Spec
-----------------------------------------------------------------------------
(* The hash chain.                                                         *)

(* The hashes a row of the ledger may extend: rows, and the beginning.     *)
Positions == {Key(d) : d \in ledger} \union {Genesis}

(* The head, whichever heartbeat wrote it last, is the hash of a row, and  *)
(* so are the hashes that calls read from it before an await.              *)
ChainKept ==
  /\ head \in Positions
  /\ \A e \in ledger : e.prev \in Positions
  /\ \A h \in Handlers :
       /\ call[h].op = "sync" => call[h].seen \in Positions
       /\ Ingesting(h, "append") => call[h].ev.prev \in Positions

LEMMA ChainStep == TypeOK /\ ChainKept /\ [Next]_vars => ChainKept'
<1> SUFFICES ASSUME TypeOK, ChainKept, [Next]_vars
             PROVE  ChainKept'
  OBVIOUS
<1>t. call \in [Handlers -> Call]
  BY DEF TypeOK
<1>g. Positions \subseteq Positions'
  BY Monotone DEF Positions, Key
<1>1. head' \in Positions'
  <2>1. ASSUME NEW h \in Handlers, InsertHeartbeat(h)
        PROVE  head' = head \/ (head' = call[h].seen /\ call[h].op = "sync")
    BY <2>1 DEF InsertHeartbeat
  <2>2. ASSUME NEW h \in Handlers, AppendLedger(h)
        PROVE  head' = head \/ head' \in Positions'
    BY <2>2 DEF AppendLedger, Positions
  <2>3. \/ head' = head
        \/ \E h \in Handlers : InsertHeartbeat(h) \/ AppendLedger(h)
    <3>1. ASSUME NEW h \in Handlers, Request(h) \/ Crash(h)
          PROVE  head' = head
      BY <3>1 DEF evidence, Request, Crash, BeginCreate, BeginSync,
         AckCompleted, AckReplayed, ReceiveEvent
    <3>2. ASSUME NEW h \in Handlers, HandlerStep(h)
          PROVE  head' = head \/ InsertHeartbeat(h) \/ AppendLedger(h)
      BY <3>2 DEF evidence, HandlerStep, FinishCreate, ClaimTask, ClaimNothing,
         RecordShadowSuccess, LookupEvent, CheckHead, ApplyTransition, Certify,
         DispatchWebhook, Bill
    <3> QED
      BY <3>1, <3>2
      DEF Next, vars, evidence, Clock, Operator, Cancel, AckFailed,
          DeadlinePasses, LeaseExpires, BackoffElapses, RequeueDeadLetter,
          SetClientActive
  <2> QED
    BY <1>g, <2>1, <2>2, <2>3 DEF ChainKept
<1>2. \A e \in ledger' : e.prev \in Positions'
  <2>1. ASSUME NEW h \in Handlers, AppendLedger(h)
        PROVE  call[h].ev.prev \in Positions
    BY <2>1 DEF AppendLedger, ChainKept
  <2> QED
    BY <1>g, <2>1, LedgerGrowsBy DEF ChainKept
<1>3. ASSUME NEW h \in Handlers
      PROVE  /\ call'[h].op = "sync" => call'[h].seen \in Positions'
             /\ Ingesting(h, "append")' => call'[h].ev.prev \in Positions'
  <2> DEFINE Goal == /\ call'[h].op = "sync" => call'[h].seen \in Positions'
                     /\ Ingesting(h, "append")' => call'[h].ev.prev \in Positions'
  <2>1. ASSUME call'[h] = call[h]
        PROVE  Goal
    BY <1>g, <2>1 DEF ChainKept, Ingesting
  <2>2. ASSUME call'[h].op \notin {"sync", "ingest"}
        PROVE  Goal
    BY <2>2 DEF Ingesting
  <2>3. ASSUME NEW g \in Handlers, NEW c, c.op \notin {"sync", "ingest"},
               call' = [call EXCEPT ![g] = c]
        PROVE  Goal
    <3>1. CASE g = h
      <4>1. call'[h] = c
        BY <1>t, <2>3, <3>1
      <4> QED
        BY <2>2, <2>3, <4>1
    <3>2. CASE g # h
      BY <1>t, <2>1, <2>3, <3>2
    <3> QED
      BY <3>1, <3>2
  <2>4. ASSUME NEW g \in Handlers, Return(g)
        PROVE  Goal
    BY <2>3, <2>4 DEF Return, Idle
  <2>5. ASSUME NEW g \in Handlers, NEW s \in IngestSteps, Ingesting(g, s),
               NEW r \in IngestSteps \ {"append"}, Advance(g, r)
        PROVE  Goal
    <3>1. CASE g # h
      BY <1>t, <2>1, <2>5, <3>1 DEF Advance
    <3>2. CASE g = h
      BY <2>5, <3>2, AdvanceCall DEF Ingesting
    <3> QED
      BY <3>1, <3>2
  <2>6. ASSUME NEW g \in Handlers, CheckHead(g)
        PROVE  Goal
    <3>1. CASE Return(g)
      BY <2>4, <3>1
    <3>2. CASE call[g].ev.prev = head /\ Advance(g, "append")
      <4>1. CASE g # h
        BY <1>t, <2>1, <3>2, <4>1 DEF Advance
      <4>2. CASE g = h
        <5>1. /\ call'[h].op = "ingest" /\ call'[h].ev = call[h].ev
          BY <2>6, <3>2, <4>2, AdvanceCall DEF CheckHead, Ingesting, IngestSteps
        <5> QED
          BY <1>g, <3>2, <4>2, <5>1 DEF ChainKept
      <4> QED
        BY <4>1, <4>2
    <3> QED
      BY <2>6, <3>1, <3>2 DEF CheckHead
  <2>7. ASSUME NEW g \in Handlers,
               \/ LookupEvent(g) \/ AppendLedger(g)
               \/ ApplyTransition(g) \/ Certify(g)
               \/ \E a, b \in BOOLEAN : DispatchWebhook(g, a, b)
        PROVE  Goal
    BY <2>4, <2>5, <2>7
    DEF LookupEvent, AppendLedger, ApplyTransition, Certify, DispatchWebhook,
        IngestSteps
  <2>8. ASSUME NEW g \in Handlers, InsertHeartbeat(g)
        PROVE  Goal
    <3>1. [op |-> "claim"].op \notin {"sync", "ingest"}
      OBVIOUS
    <3> QED
      BY <2>3, <2>8, <3>1 DEF InsertHeartbeat
  <2>9. ASSUME NEW g \in Handlers, HandlerStep(g) \/ Crash(g)
        PROVE  Goal
    BY <2>4, <2>6, <2>7, <2>8, <2>9
    DEF HandlerStep, Crash, FinishCreate, ClaimTask, ClaimNothing,
        RecordShadowSuccess, Bill
  <2>10. ASSUME NEW g \in Handlers, NEW e \in WorkerEvents, ReceiveEvent(g, e)
         PROVE  Goal
    <3>1. CASE g # h
      BY <1>t, <2>1, <2>10, <3>1 DEF ReceiveEvent
    <3>2. CASE g = h
      BY <1>t, <2>10, <3>2 DEF ReceiveEvent, Ingesting
    <3> QED
      BY <3>1, <3>2
  <2>11. ASSUME NEW g \in Handlers, NEW c \in Configs, BeginSync(g, c)
         PROVE  Goal
    <3>1. CASE g # h
      BY <1>t, <2>1, <2>11, <3>1 DEF BeginSync
    <3>2. CASE g = h
      <4>1. call'[h] = [op |-> "sync", config |-> c, seen |-> head]
        BY <1>t, <2>11, <3>2 DEF BeginSync
      <4> QED
        BY <1>g, <4>1 DEF ChainKept, Ingesting
    <3> QED
      BY <3>1, <3>2
  <2>12. ASSUME NEW g \in Handlers, NEW j \in Jobs, NEW form \in Forms,
                BeginCreate(g, j, form)
         PROVE  Goal
    <3>1. [op |-> "create", job |-> j, form |-> form].op
            \notin {"sync", "ingest"}
      OBVIOUS
    <3> QED
      BY <2>3, <2>12, <3>1 DEF BeginCreate
  <2>13. ASSUME NEW g \in Handlers, NEW t \in TaskIds,
                AckCompleted(g, t) \/ AckReplayed(g, t)
         PROVE  Goal
    <3> DEFINE c == IF CountsTowardsBurnIn(t)
                    THEN [op |-> "burnIn", task |-> t] ELSE Idle
    <3>1. c.op \notin {"sync", "ingest"} /\ call' = [call EXCEPT ![g] = c]
      BY <2>13 DEF AckCompleted, AckReplayed, AfterCompleted, Idle
    <3> HIDE DEF c
    <3> QED
      BY <2>3, <3>1
  <2>14. ASSUME NEW g \in Handlers, Request(g)
         PROVE  Goal
    BY <2>10, <2>11, <2>12, <2>13, <2>14 DEF Request
  <2> QED
    BY <2>1, <2>9, <2>14
    DEF Next, vars, Clock, Operator, Cancel, AckFailed, DeadlinePasses,
        LeaseExpires, BackoffElapses, RequeueDeadLetter, SetClientActive
<1> QED
  BY <1>1, <1>2, <1>3 DEF ChainKept

LEMMA ChainKeptHolds == Spec => []ChainKept
<1>1. Init => ChainKept
  BY DEF Init, ChainKept, Positions, Idle, Ingesting
<1> QED
  BY <1>1, TypeCorrect, ChainStep, PTL DEF Spec

(* The ledger is one connected chain: every row extends a row that is      *)
(* there, or the beginning, although handlers compare with a head that     *)
(* heartbeats may move back in the meantime.                               *)
THEOREM ChainIsConnected == Spec => [](\A e \in ledger : e.prev \in Positions)
<1>1. ChainKept => \A e \in ledger : e.prev \in Positions
  BY DEF ChainKept
<1> QED
  BY <1>1, ChainKeptHolds, PTL

-----------------------------------------------------------------------------
(* ControlPlane implements ErasurePromise: the tables, the handlers and    *)
(* the statements they interleave are hidden, and what is left of every    *)
(* step is a step of the promise or nothing.                               *)

LEMMA InitRefines == Init => Promise!PInit
  BY DEF Init, NoJob, Stages, Stage, Promise!PInit

(* A step that neither takes a job up nor cancels or creates one keeps its *)
(* stage.                                                                  *)
LEMMA StagesKept ==
  ASSUME \A j \in Jobs : \/ job'[j].status = job[j].status
                         \/ /\ job[j].status \in Active
                            /\ job'[j].status \in Active
  PROVE  Stages' = Stages
<1>1. \A j \in Jobs : Stage(job'[j].status) = Stage(job[j].status)
  BY DEF Stage, Active
<1> QED
  BY <1>1 DEF Stages

(* A step that moves one job from one stage to another.                    *)
LEMMA StageMoves ==
  ASSUME NEW i \in Jobs, NEW from, NEW to,
         Stage(job[i].status) = from, Stage(job'[i].status) = to,
         \A j \in Jobs : j # i => job'[j].status = job[j].status,
         UNCHANGED <<ledger, certs, delivered, billed>>
  PROVE  Promise!Move(i, from, to)
<1>1. Stages[i] = from
  BY DEF Stages
<1>2. Stages' = [Stages EXCEPT ![i] = to]
  BY DEF Stages
<1> QED
  BY <1>1, <1>2 DEF Promise!Move

LEMMA StepRefines ==
  IInv /\ [Next]_vars => [Promise!PNext]_(Promise!promise)
<1> SUFFICES ASSUME IInv, [Next]_vars
             PROVE  Promise!PNext \/ UNCHANGED Promise!promise
  OBVIOUS
<1> DEFINE Goal == Promise!PNext \/ UNCHANGED Promise!promise
<1>t. /\ TypeOK /\ TasksFollowJob /\ LedgerOfActive /\ OneRowPerKey
      /\ CallsGrounded
  BY DEF IInv, Grounded
<1> USE DEF evidence
<1>0. ASSUME UNCHANGED <<ledger, certs, delivered, billed>>,
             \A j \in Jobs : \/ job'[j].status = job[j].status
                             \/ /\ job[j].status \in Active
                                /\ job'[j].status \in Active
      PROVE  Goal
  BY <1>0, StagesKept DEF Promise!promise
<1>1. ASSUME UNCHANGED <<job, ledger, certs, delivered, billed>>
      PROVE  Goal
  BY <1>0, <1>1
<1>2. ASSUME NEW h \in Handlers, FinishCreate(h)
      PROVE  Goal
  <2>1. UNCHANGED <<ledger, certs, delivered, billed>>
    BY <1>2 DEF FinishCreate
  <2>2. CASE job' = job
    BY <1>1, <2>1, <2>2
  <2>3. CASE job' # job
    <3>1. call[h].job \in Jobs /\ job[call[h].job].status = "NONE"
      BY <1>t, <1>2, <2>3 DEF FinishCreate, Call, Idle, TypeOK
    <3> DEFINE row == [NoJob EXCEPT !.status  = "WAITING_COOLDOWN",
                                    !.shadow  = call[h].form.shadow,
                                    !.webhook = call[h].form.webhook]
    <3>2. row.status = "WAITING_COOLDOWN"
      BY DEF NoJob
    <3>3. job' = [job EXCEPT ![call[h].job] = row]
      BY <1>2, <2>3 DEF FinishCreate
    <3> HIDE DEF row
    <3>4. PICK i \in Jobs : i = call[h].job
      BY <3>1
    <3>5. \A j \in Jobs : job'[j] = IF j = i THEN row ELSE job[j]
      BY <1>t, <3>3, <3>4 DEF TypeOK
    <3>6. Promise!Move(i, "none", "waiting")
      BY <2>1, <3>1, <3>2, <3>4, <3>5, StageMoves DEF Stage
    <3> QED
      BY <3>6 DEF Promise!PNext
  <2> QED
    BY <2>2, <2>3
<1>3. ASSUME NEW i \in Jobs, Cancel(i)
      PROVE  Goal
  <2>1. /\ UNCHANGED <<ledger, certs, delivered, billed>>
        /\ job[i].status = "WAITING_COOLDOWN"
        /\ \A j \in Jobs : job'[j].status = IF j = i THEN "CANCELLED"
                                                     ELSE job[j].status
    BY <1>t, <1>3 DEF Cancel, TypeOK, JobRow
  <2>2. Promise!Move(i, "waiting", "cancelled")
    BY <2>1, StageMoves DEF Stage
  <2> QED
    BY <2>2 DEF Promise!PNext
<1>4. ASSUME NEW h \in Handlers, NEW t \in TaskIds, ClaimTask(h, t)
      PROVE  Goal
  <2>1. UNCHANGED <<ledger, certs, delivered, billed>> /\ t[1] \in Jobs
    BY <1>4, TaskIdParts DEF ClaimTask
  <2>2. CASE job[t[1]].status = "WAITING_COOLDOWN"
    <3>1. job' = [job EXCEPT ![t[1]].status = "EXECUTING"]
      BY <1>4, <2>2 DEF ClaimTask
    <3>2. \A j \in Jobs : job'[j].status = IF j = t[1] THEN "EXECUTING"
                                                       ELSE job[j].status
      BY <1>t, <3>1 DEF TypeOK, JobRow
    <3>3. Promise!Move(t[1], "waiting", "active")
      BY <2>1, <2>2, <3>2, StageMoves DEF Stage
    <3> QED
      BY <2>1, <3>3 DEF Promise!PNext
  <2>3. CASE job[t[1]].status # "WAITING_COOLDOWN"
    <3>1. job' = [job EXCEPT ![t[1]].status = job[t[1]].status]
      BY <1>4, <2>3 DEF ClaimTask
    <3>2. \A j \in Jobs : job'[j].status = job[j].status
      BY <1>t, <3>1 DEF TypeOK, JobRow
    <3> QED
      BY <1>0, <2>1, <3>2
  <2> QED
    BY <2>2, <2>3
<1>5. ASSUME NEW t \in TaskIds, NEW r \in BOOLEAN, AckFailed(t, r)
      PROVE  Goal
  <2>1. /\ UNCHANGED <<ledger, certs, delivered, billed>>
        /\ job' = job \/ job' = [job EXCEPT ![t[1]].status = "FAILED"]
    BY <1>5 DEF AckFailed
  <2>2. job[t[1]].status \in Active /\ t[1] \in Jobs
    BY <1>t, <1>5, BusyTask, TaskIdParts DEF AckFailed
  <2>3. \A j \in Jobs : \/ job'[j].status = job[j].status
                        \/ j = t[1] /\ job'[j].status = "FAILED"
    BY <1>t, <2>1 DEF TypeOK, JobRow
  <2> QED
    BY <1>0, <2>1, <2>2, <2>3 DEF Active, JobStatus
<1>6. ASSUME NEW t \in TaskIds, RequeueDeadLetter(t)
      PROVE  Goal
  <2>1. /\ UNCHANGED <<ledger, certs, delivered, billed>>
        /\ \/ job' = [job EXCEPT ![t[1]].status = "EXECUTING"]
           \/ job' = [job EXCEPT ![t[1]].status = job[t[1]].status]
    BY <1>6 DEF RequeueDeadLetter
  <2>2. job[t[1]].status \in Active /\ t[1] \in Jobs
    BY <1>t, <1>6, BusyTask, TaskIdParts DEF RequeueDeadLetter
  <2>3. \A j \in Jobs : \/ job'[j].status = job[j].status
                        \/ j = t[1] /\ job'[j].status = "EXECUTING"
    BY <1>t, <2>1 DEF TypeOK, JobRow
  <2> QED
    BY <1>0, <2>1, <2>2, <2>3 DEF Active, JobStatus
<1>7. ASSUME NEW h \in Handlers, AppendLedger(h)
      PROVE  Goal
  <2>1. call[h].ev \in WorkerEvents /\ UNCHANGED <<job, certs, delivered, billed>>
    BY <1>t, <1>7, IngestParts DEF AppendLedger, Ingesting
  <2>2. CASE ledger' = ledger
    BY <1>1, <2>1, <2>2
  <2>3. CASE ledger' # ledger
    <3>1. PICK e \in WorkerEvents : e = call[h].ev
      BY <2>1
    <3>2. ~Recorded(Key(e)) /\ ledger' = ledger \union {e}
      BY <1>7, <2>3, <3>1 DEF AppendLedger
    <3>3. /\ e.job \in Jobs
          /\ job[e.job].status \in Active
          /\ e.type = "NOTIFICATION_SENT" => Recorded(<<e.job, "USER_VAULTED">>)
          /\ e.type = "SHRED_SUCCESS" => Recorded(<<e.job, "NOTIFICATION_SENT">>)
      BY <1>7, <3>1, CheckedStage, EventParts DEF AppendLedger
    <3>4. Stages[e.job] = "active"
      BY <3>3 DEF Stages, Stage, Active, JobStatus
    <3>5. ~Promise!Attests(ledger, e.job, e.type)
      BY <3>2 DEF Promise!Attests, Recorded, Key
    <3>6. \A type : Recorded(<<e.job, type>>) => Promise!Attests(ledger, e.job, type)
      BY DEF Promise!Attests, Recorded, Key
    <3>7. Stages' = Stages
      BY <2>1, StagesKept
    <3>8. Promise!Accept(e)
      BY <2>1, <3>2, <3>3, <3>4, <3>5, <3>6, <3>7 DEF Promise!Accept
    <3> QED
      BY <3>8 DEF Promise!PNext
  <2> QED
    BY <2>2, <2>3
<1>8. ASSUME NEW h \in Handlers, ApplyTransition(h)
      PROVE  Goal
  <2>1. PICK e \in WorkerEvents : e = call[h].ev
    BY <1>t, <1>8, IngestParts DEF ApplyTransition, Ingesting
  <2>2. /\ UNCHANGED <<ledger, certs, delivered, billed>>
        /\ job' = [job EXCEPT ![e.job] = Transitioned(job[e.job], e)]
    BY <1>8, <2>1 DEF ApplyTransition
  <2>3. e.job \in Jobs /\ job[e.job].status \in Active
    <3>1. CallGrounded(h)
      BY <1>t DEF CallsGrounded
    <3>2. e \in ledger
      BY <1>8, <2>1, <3>1 DEF ApplyTransition, Ingesting, CallGrounded
    <3> QED
      BY <1>t, <2>1, <3>2, EventParts DEF LedgerOfActive
  <2>4. job'[e.job].status \in Active
    BY <1>t, <2>3, Monotone
  <2>5. \A j \in Jobs : j = e.job \/ job'[j] = job[j]
    BY <1>t, <2>2 DEF TypeOK
  <2> QED
    BY <1>0, <2>2, <2>3, <2>4, <2>5
<1>9. ASSUME NEW h \in Handlers, Certify(h)
      PROVE  Goal
  <2>1. PICK e \in WorkerEvents : e = call[h].ev
    BY <1>t, <1>9, IngestParts DEF Certify, Ingesting
  <2>2. UNCHANGED <<job, ledger, delivered, billed>>
    BY <1>9 DEF Certify
  <2>3. CASE certs' = certs
    BY <1>1, <2>2, <2>3
  <2>4. CASE certs' # certs
    <3>1. PICK x : x = CertificateFor(call[h])
      OBVIOUS
    <3>2. /\ x.job = e.job /\ x.type = e.type
          /\ x \in Certificate
      BY <1>t, <1>9, <2>1, <3>1, IngestParts, EventParts
      DEF CertificateFor, Certificate, JobRow, Certify, Ingesting
    <3>3. certs' = certs \union {x} /\ ~Certified(e.job)
      BY <1>9, <2>1, <2>4, <3>1 DEF Certify
    <3>4. e \in ledger /\ e.type \in Terminal
      <4>1. CallGrounded(h)
        BY <1>t DEF CallsGrounded
      <4> QED
        BY <1>9, <2>1, <4>1 DEF Certify, Ingesting, CallGrounded
    <3>5. Promise!Attests(ledger, x.job, x.type) /\ x.type \in Promise!Terminal
      BY <3>2, <3>4 DEF Promise!Attests, Terminal, Promise!Terminal
    <3>6. \A y \in certs : y.job # x.job
      BY <3>2, <3>3 DEF Certified
    <3>7. Stages' = Stages
      BY <2>2, StagesKept
    <3>8. Promise!Issue(x)
      BY <2>2, <3>3, <3>5, <3>6, <3>7 DEF Promise!Issue
    <3> QED
      BY <3>2, <3>8 DEF Promise!PNext
  <2> QED
    BY <2>3, <2>4
<1>10. ASSUME NEW h \in Handlers, NEW a \in BOOLEAN, NEW b \in BOOLEAN,
              DispatchWebhook(h, a, b)
       PROVE  Goal
  <2>1. PICK e \in WorkerEvents : e = call[h].ev
    BY <1>t, <1>10, IngestParts DEF DispatchWebhook, Ingesting
  <2>2. /\ UNCHANGED <<job, ledger, certs, billed>>
        /\ delivered' = delivered \/ delivered' = delivered \union {Key(e)}
    BY <1>10, <2>1 DEF DispatchWebhook
  <2>3. PICK x \in certs : x.job = e.job /\ x.type = e.type
    <3>1. CallGrounded(h)
      BY <1>t DEF CallsGrounded
    <3> QED
      BY <1>10, <2>1, <3>1
      DEF DispatchWebhook, Ingesting, CallGrounded, CertificateFor
  <2>4. Stages' = Stages
    BY <2>2, StagesKept
  <2>5. CASE delivered' = delivered \union {Key(e)}
    <3>1. Promise!Announce(x)
      BY <2>2, <2>3, <2>4, <2>5 DEF Promise!Announce, Key
    <3> QED
      BY <2>3, <3>1 DEF Promise!PNext
  <2> QED
    BY <1>1, <2>2, <2>5
<1>11. ASSUME NEW h \in Handlers, Bill(h)
       PROVE  Goal
  <2>1. PICK e \in WorkerEvents : e = call[h].ev
    BY <1>t, <1>11, IngestParts DEF Bill, Ingesting
  <2>2. /\ UNCHANGED <<job, ledger, certs, delivered>>
        /\ billed' = billed \union {Key(e)}
    BY <1>11, <2>1 DEF Bill
  <2>3. e \in ledger
    <3>1. CallGrounded(h)
      BY <1>t DEF CallsGrounded
    <3> QED
      BY <1>11, <2>1, <3>1 DEF Bill, Ingesting, CallGrounded
  <2>4. Stages' = Stages
    BY <2>2, StagesKept
  <2>5. Promise!Charge(e)
    BY <2>2, <2>3, <2>4 DEF Promise!Charge, Key
  <2> QED
    BY <2>3, <2>5 DEF Promise!PNext
<1> QED
  <2>1. ASSUME NEW h \in Handlers, HandlerStep(h)
        PROVE  Goal
    <3>1. CASE InsertHeartbeat(h) \/ ClaimNothing(h) \/ RecordShadowSuccess(h)
               \/ LookupEvent(h) \/ CheckHead(h)
      BY <1>1, <3>1 DEF InsertHeartbeat, ClaimNothing, RecordShadowSuccess,
         LookupEvent, CheckHead
    <3> QED
      BY <1>2, <1>4, <1>7, <1>8, <1>9, <1>10, <1>11, <2>1, <3>1
      DEF HandlerStep
  <2>2. ASSUME NEW h \in Handlers, Request(h) \/ Crash(h)
        PROVE  Goal
    BY <1>1, <2>2 DEF Request, Crash, BeginCreate, BeginSync, AckCompleted,
       AckReplayed, ReceiveEvent
  <2>3. CASE Clock
    BY <1>1, <2>3 DEF Clock, DeadlinePasses, LeaseExpires, BackoffElapses
  <2>4. CASE Operator
    BY <1>1, <1>6, <2>4 DEF Operator, SetClientActive
  <2>5. CASE UNCHANGED vars
    BY <1>1, <2>5 DEF vars
  <2> QED
    BY <1>3, <1>5, <2>1, <2>2, <2>3, <2>4, <2>5 DEF Next

(* Under any interleaving, replay and crash the control plane does nothing *)
(* its promise does not allow: a request is cancelled or taken up once and *)
(* for all, evidence grows stage by stage, receipts follow evidence.       *)
THEOREM Implements == Spec => KeepsPromise
<1> QED
  BY InitRefines, StepRefines, Invariance, PTL
  DEF Spec, KeepsPromise, Promise!PSpec
=============================================================================
