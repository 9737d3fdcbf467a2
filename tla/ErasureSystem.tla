--------------------------- MODULE ErasureSystem ---------------------------
(***************************************************************************)
(* The platform end to end: the control plane of ControlPlane and the      *)
(* workers of WorkerEngine, joined by the three calls a worker makes.      *)
(*                                                                         *)
(*   sync    hands a claimed task to a free worker, or the answer is lost  *)
(*   ack     takes a report the worker really sent, late or repeatedly     *)
(*   outbox  delivers a row a transaction of the worker really committed   *)
(*                                                                         *)
(* Both sides stay as they are: every step here is a step of one of them,  *)
(* or of both together.                                                    *)
(*                                                                         *)
(* The two sides compare deadlines with clocks of their own.  The control  *)
(* plane's may lag behind; Skew says how many deadlines it may be ahead.   *)
(***************************************************************************)
EXTENDS ControlPlane

CONSTANTS
  Subjects, SubjectOf, Shadow, Dependent, StartAges, Workers, NoLock,
  MaxClock,   (* as in WorkerEngine                                        *)
  RuleOf,     (* the retention rule the worker applies to a subject        *)
  Skew,       (* deadlines the control plane's clock may be ahead          *)
  Together,   (* bound: the sets of requests made in one behaviour         *)
  MaxFaults   (* bound: failures in one behaviour                          *)

VARIABLES
  root, vault, keys, outbox, mailed, acks, clock, proc, (* WorkerEngine    *)
  settled,    (* outbox rows marked processed                              *)
  faults      (* failures so far                                           *)

engineState == <<root, vault, keys, outbox, mailed, acks, clock, proc>>
systemVars  == <<vars, engineState, settled, faults>>

Engine == INSTANCE WorkerEngine

(* The constants of WorkerEngine are what that module takes them to be,    *)
(* and the worker delivers any event it can record.                        *)
ASSUME SystemAssumption ==
  /\ SubjectOf \in [Jobs -> Subjects]
  /\ Shadow \subseteq Jobs /\ Dependent \subseteq Subjects
  /\ StartAges \subseteq 0..2
  /\ NoLock \notin Workers
  /\ MaxClock \in Nat
  /\ RuleOf \in [Subjects -> Rules]
  /\ WorkerEvents = Event
  /\ Skew \in Nat /\ MaxFaults \in Nat

SystemTypeOK ==
  /\ TypeOK
  /\ Engine!EngineTypeOK
  /\ settled \subseteq Keys
  /\ faults \in 0..MaxFaults

SystemInit ==
  /\ Init
  /\ Engine!EngineInit
  /\ settled = {}
  /\ faults = 0

Fault == faults < MaxFaults /\ faults' = faults + 1
ApiOnly == UNCHANGED <<engineState, settled>>
EngineOnly == UNCHANGED <<vars, settled>>
Free == {w \in Workers : proc[w].pc = "idle"}

-----------------------------------------------------------------------------
(* Requests and handlers of the control plane.                             *)

Asked == {k \in Jobs : job[k].status # "NONE"}

(* A request says itself whether it is a shadow run.                       *)
Ask(h, j) ==
  /\ \E R \in Together : Asked \union {j} \subseteq R
  /\ \E form \in Forms :
       (form.shadow <=> j \in Shadow) /\ BeginCreate(h, j, form)
  /\ ApiOnly /\ UNCHANGED faults

CancelRequest(j) == Cancel(j) /\ ApiOnly /\ UNCHANGED faults

(* The statements of a call, but those that end with an answer the worker  *)
(* acts on.                                                                *)
Serve(h) ==
  /\ \/ FinishCreate(h)
     \/ InsertHeartbeat(h)
     \/ ClaimNothing(h)
     \/ RecordShadowSuccess(h)
     \/ LookupEvent(h)
     \/ CheckHead(h)
     \/ AppendLedger(h)
     \/ ApplyTransition(h)
     \/ Certify(h)
     \/ DispatchWebhook(h, TRUE, TRUE)
  /\ ApiOnly /\ UNCHANGED faults

LoseCall(h) ==
  /\ Crash(h) \/ \E reached \in BOOLEAN : DispatchWebhook(h, reached, FALSE)
  /\ ApiOnly /\ Fault

(* An operator takes up a dead letter; counted as a failure.               *)
Requeue(t) == RequeueDeadLetter(t) /\ ApiOnly /\ Fault

-----------------------------------------------------------------------------
(* Tasks: sync, and the acknowledgements.                                  *)

Poll(h, c) ==
  /\ Free # {}
  /\ BeginSync(h, c)
  /\ ApiOnly /\ UNCHANGED faults

(* The claimed task reaches the worker, which starts it.                   *)
HandOut(h, w, t) ==
  /\ ClaimTask(h, t)
  /\ Engine!StartTask(w, t[1], t[2])
  /\ UNCHANGED <<settled, faults>>

(* The answer is lost: the task is leased to nobody.                       *)
LoseClaim(h, t) == ClaimTask(h, t) /\ ApiOnly /\ Fault

(* An acknowledgement a worker sent.  A worker reports final failures only.*)
TakeAck(h, t) ==
  /\ \/ /\ <<t[1], t[2], "completed">> \in acks
        /\ AckCompleted(h, t) \/ AckReplayed(h, t)
     \/ /\ <<t[1], t[2], "failed">> \in acks
        /\ AckFailed(t, FALSE)
  /\ ApiOnly /\ UNCHANGED faults

-----------------------------------------------------------------------------
(* Evidence: the outbox.                                                   *)

EventOf(r) == [job |-> r.key[1], type |-> r.key[2],
               rule |-> RuleOf[SubjectOf[r.key[1]]], prev |-> r.prev]

Unsettled == {r \in outbox : r.key \notin settled}

(* A row that is not marked processed is delivered, again if need be.      *)
Deliver(h, r) ==
  /\ Free # {}
  /\ r \in Unsettled
  /\ ReceiveEvent(h, EventOf(r))
  /\ ApiOnly /\ UNCHANGED faults

(* The last step of an ingestion answers the worker, which marks the row.  *)
Settle(h) ==
  /\ Bill(h)
  /\ settled' = settled \union {Key(call[h].ev)}
  /\ UNCHANGED <<engineState, faults>>

(* The answer is lost: the control plane has it all, the row stays.        *)
LoseAnswer(h) == Bill(h) /\ ApiOnly /\ Fault

-----------------------------------------------------------------------------
(* The worker's own steps, time and failures.                              *)

(* A run ends and reports nothing: its acknowledgement is lost, or it met  *)
(* the lease of a notice.  (A run that ends after a failed mail met its    *)
(* failure before.)                                                        *)
Unreported(w) ==
  /\ proc'[w].pc = "idle" /\ proc[w].pc # "clear"
  /\ \A status \in {"completed", "failed"} :
       <<proc[w].job, proc[w].type, status>> \notin acks'

Work(w) ==
  /\ \/ Engine!BeginVault(w) \/ Engine!CommitVault(w)
     \/ Engine!ReserveNotice(w) \/ Engine!BeginRecord(w)
     \/ Engine!CommitRecord(w) \/ Engine!ClearLease(w)
     \/ Engine!SendMail(w, TRUE, TRUE)
     \/ Engine!BeginShred(w) \/ Engine!CommitShred(w)
  /\ IF Unreported(w) THEN Fault ELSE UNCHANGED faults
  /\ EngineOnly

FailWork(w) ==
  /\ \/ Engine!FailTask(w) \/ Engine!Crash(w) \/ Engine!FailRecord(w)
     \/ \E reached \in BOOLEAN : Engine!SendMail(w, reached, FALSE)
  /\ EngineOnly /\ Fault

WorkerClock ==
  /\ \E s \in Subjects : Engine!DeadlinePasses(s) \/ Engine!NoticeLeaseExpires(s)
  /\ EngineOnly /\ UNCHANGED faults

(* The deadlines the worker reported for job j, by the worker's clock.     *)
WorkerAge(j) ==
  LET v == vault[SubjectOf[j]] IN IF v.job = j THEN Cooled + v.age ELSE Cooled

ApiClock(j) ==
  /\ age[j] < WorkerAge(j) + (IF WorkerAge(j) = Cooled THEN 0 ELSE Skew)
  /\ DeadlinePasses(j)
  /\ ApiOnly /\ UNCHANGED faults

(* A worker runs task t, or has told the control plane how it ended.       *)
Attended(t) ==
  \/ \E w \in Workers : proc[w].pc # "idle" /\ <<proc[w].job, proc[w].type>> = t
  \/ \E status \in {"completed", "failed"} : <<t[1], t[2], status>> \in acks

LeaseRunsOut(t) ==
  /\ LeaseExpires(t)
  /\ IF Attended(t) THEN Fault ELSE UNCHANGED faults
  /\ ApiOnly

-----------------------------------------------------------------------------

SystemNext ==
  \/ \E h \in Handlers, j \in Jobs : Ask(h, j)
  \/ \E j \in Jobs : CancelRequest(j) \/ ApiClock(j)
  \/ \E h \in Handlers : Serve(h) \/ LoseCall(h) \/ Settle(h) \/ LoseAnswer(h)
  \/ \E h \in Handlers, c \in Configs : Poll(h, c)
  \/ \E h \in Handlers, w \in Workers, t \in TaskIds : HandOut(h, w, t)
  \/ \E h \in Handlers, t \in TaskIds : LoseClaim(h, t) \/ TakeAck(h, t)
  \/ \E h \in Handlers : \E r \in outbox : Deliver(h, r)
  \/ \E t \in TaskIds : Requeue(t) \/ LeaseRunsOut(t)
  \/ \E w \in Workers : Work(w) \/ FailWork(w)
  \/ WorkerClock

SystemSpec == SystemInit /\ [][SystemNext]_systemVars

(* The row the relay sends first: terminal events before notices before    *)
(* vaults, and the oldest of a kind.                                       *)
Rank(type) ==
  CASE type = "SHRED_SUCCESS"     -> 0
    [] type = "USER_HARD_DELETED" -> 1
    [] type = "NOTIFICATION_SENT" -> 2
    [] OTHER                      -> 3
SentBefore(q, r) ==
  \/ Rank(q.key[2]) < Rank(r.key[2])
  \/ Rank(q.key[2]) = Rank(r.key[2]) /\ q.at < r.at
Front(r) == r \in Unsettled /\ \A q \in Unsettled \ {r} : SentBefore(r, q)

(* Calls that were taken up are finished; a worker goes on, polls again    *)
(* and again, and sends the first row of its outbox again and again; the   *)
(* queue does not stay empty-handed for ever while a task can be claimed;  *)
(* an ack that was not lost arrives; deadlines pass, and so do the leases  *)
(* of tasks nobody attends to.                                             *)
Fairness ==
  /\ \A h \in Handlers : WF_systemVars(Serve(h) \/ Settle(h))
  /\ \A w \in Workers : WF_systemVars(Work(w))
  /\ SF_systemVars(\E h \in Handlers, c \in Configs : Poll(h, c))
  /\ SF_systemVars(\E h \in Handlers, w \in Workers, t \in TaskIds :
                     HandOut(h, w, t))
  /\ SF_systemVars(\E h \in Handlers, t \in TaskIds :
                     task[t].status = "DISPATCHED" /\ TakeAck(h, t))
  /\ SF_systemVars(\E h \in Handlers : \E r \in outbox :
                     Front(r) /\ Deliver(h, r))
  /\ WF_systemVars(\/ WorkerClock
                   \/ \E j \in Jobs : ApiClock(j)
                   \/ \E t \in TaskIds : ~Attended(t) /\ LeaseRunsOut(t))

FairSystemSpec == SystemSpec /\ Fairness

-----------------------------------------------------------------------------
(* Safety properties.                                                      *)

(* Who holds a certificate, a webhook or a bill for an erasure can rely on *)
(* it: the row of the client's own database is gone, or what it held can   *)
(* never be decrypted again.  The two sides share no transaction.          *)
Gone(s) ==
  \/ root[s] = "deleted"
  \/ /\ root[s] = "masked"
     /\ vault[s].shredded /\ s \notin keys
CertificateIsTrue ==
  /\ \A x \in certs : Gone(SubjectOf[x.job])
  /\ \A key \in delivered \union billed :
       key[2] \in Terminal => Gone(SubjectOf[key[1]])

(* The ledger is a copy of what workers committed, in their order: every   *)
(* event is an outbox row, the rows before it in the chain are there too,  *)
(* and a row is marked processed only when it is there.                    *)
LedgerIsPrefix ==
  /\ \A e \in ledger : \E r \in outbox : e = EventOf(r)
  /\ \A r \in outbox : Recorded(r.key) => r.prev \in {Key(e) : e \in ledger}
                                                      \union {Genesis}
  /\ \A key \in settled : Recorded(key)

(* A customer who was told that the request is cancelled keeps the data:   *)
(* no worker ran, runs or will run the request.                            *)
CancelledIsSafe ==
  \A j \in Jobs : job[j].status = "CANCELLED" =>
    /\ Engine!Vaulted(SubjectOf[j]) => vault[SubjectOf[j]].job # j
    /\ \A r \in outbox : r.key[1] # j
    /\ \A w \in Workers : proc[w].pc # "idle" => proc[w].job # j

(* A key is destroyed only after the control plane holds the evidence of   *)
(* the notice, although the worker never asks for it: the shred task is    *)
(* not made before.                                                        *)
ShredIsDocumented ==
  \A s \in Subjects : (root[s] = "masked" /\ vault[s].shredded) =>
    Recorded(<<vault[s].job, "NOTIFICATION_SENT">>)

(* A certified request shows as shredded from then on, whatever is         *)
(* delivered again ("this method is replay-safe").                         *)
CertifiedIsShredded ==
  \A j \in Jobs : Certified(j) => job[j].status = "SHREDDED"

-----------------------------------------------------------------------------
(* Liveness: what becomes of a request.                                    *)

Ended(j) == job[j].status \in {"SHREDDED", "CANCELLED", "FAILED"}

(* The vault task was acknowledged as done, and there will be no evidence: *)
(* a shadow run, or the subject was vaulted for another request.           *)
Barren(j) ==
  /\ task[<<j, "VAULT_USER">>].status = "COMPLETED"
  /\ \A r \in outbox : r.key[1] # j

(* The notice was acknowledged as done before it was due by the worker's   *)
(* clock.  It is never handed out again.                                   *)
NotNoticed(j) ==
  /\ task[<<j, "NOTIFY_USER">>].status = "COMPLETED"
  /\ ~vault[SubjectOf[j]].sent

(* The job's status is behind what happened to it: a replayed event, or a  *)
(* requeue, has set it back, and what comes next is refused.               *)
DeadLetter(j, type) == task[<<j, type>>].status = "DEAD_LETTER"
SetBack(j) ==
  \/ job[j].status = "EXECUTING" /\ Recorded(<<j, "USER_VAULTED">>)
  \/ /\ job[j].status = "VAULTED"
     /\ Recorded(<<j, "NOTIFICATION_SENT">>) \/ DeadLetter(j, "NOTIFY_USER")
  \/ /\ job[j].status = "NOTICE_SENT"
     /\ Recorded(<<j, "SHRED_SUCCESS">>) \/ DeadLetter(j, "SHRED_USER")

(* The row at the front of the outbox is one the control plane refuses:    *)
(* the relay sends it again and again, and nothing behind it.              *)
Refused(e) ==
  \/ ~Recorded(Key(e)) /\ (e.prev # head \/ job[e.job].status # Predecessor(e.type))
  \/ /\ e.type \in Terminal /\ Certified(e.job)
     /\ [job |-> e.job, type |-> e.type, rule |-> job[e.job].rule] \notin certs
Jammed == \E r \in outbox : Front(r) /\ Refused(EventOf(r))

(* Every request comes to an end, or to a stand for one of these reasons,  *)
(* in a run with any clocks and any single failure.                        *)
RequestsEnd ==
  \A j \in Jobs :
    <>[](\/ job[j].status = "NONE" \/ Ended(j)
         \/ Barren(j) \/ NotNoticed(j) \/ SetBack(j) \/ Jammed)
=============================================================================
