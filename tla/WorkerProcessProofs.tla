-------------------------- MODULE WorkerProcessProofs --------------------------
(***************************************************************************)
(* The safety of WorkerProcess for any number of tasks, releases, keys,    *)
(* errors, faults and acts of operators: the types, that a process works   *)
(* with what its boot checked, and that tasks are given up for a cause.    *)
(***************************************************************************)
EXTENDS WorkerProcess, TLAPS

-----------------------------------------------------------------------------
(* The invariant.                                                          *)

(* A token is issued by an operator, so the edits left bound the next one. *)
TokensInBudget == client.keyId + budget.edits <= MaxEdits

(* What the process has read so far is what there still is, but for what   *)
(* was marked as changed.                                                  *)
Verified == {"hash", "configure", "inspect"} \union Loop
BootChecked ==
  /\ proc.pc \in Verified /\ "config" \notin changed =>
       /\ SigningRequired => disk.sig = disk.yaml
       /\ proc.pc # "hash" => proc.sent = disk.yaml
       /\ proc.pc \notin {"hash", "configure"} => proc.cfg = disk.yaml
  /\ proc.pc \in {"inspect"} \union Loop =>
       /\ proc.cfg \in Versions
       /\ "keys" \notin changed => proc.key = MasterKey(proc.cfg)
  /\ proc.pc \in Loop /\ "schema" \notin changed => schema = SchemaOf[proc.cfg]

(* What may be reported as the failure of a task.                          *)
Cause(e) ==
  /\ Transient(e) => e.detail
  /\ e.kind = "worker" => ~e.retryable /\ ~e.fatal
  /\ e.kind \notin {"none", "timeout"}

(* When a task may run, and when it may be reported as failed.             *)
Repeated(t) == store[t].committed => queue[t].claims = 2
Excused(t, e) ==
  store[t].committed => queue[t].claims = 2 \/ e \in Disconnects

RowsGrounded ==
  /\ \A t \in Tasks : store[t].committed => queue[t].claims # 0
  /\ \A t \in Tasks :
       queue[t].status = "dead" =>
         Cause(queue[t].error) /\ Excused(t, queue[t].error)

(* The process runs a task that is leased, and which has committed before  *)
(* only if it was claimed before; it reports as failed what has not        *)
(* committed, was claimed before, or lost its connection.                  *)
TaskGrounded ==
  /\ proc.pc \in {"execute", "ack", "nack"} => proc.task \in Tasks
  /\ proc.pc \in {"execute", "nack"} =>
       queue[proc.task].status = "leased" /\ queue[proc.task].claims # 0
  /\ proc.pc = "execute" => Repeated(proc.task)
  /\ proc.pc = "nack" => Cause(proc.error) /\ Excused(proc.task, proc.error)

TasksGrounded == RowsGrounded /\ TaskGrounded

ProcessInv ==
  ProcessTypeOK /\ TokensInBudget /\ BootChecked /\ TasksGrounded

USE DEF Boot, Loop, Verified, None

LEMMA DownType == Down \in ProcessState /\ Down.pc = "down"
BY ProcessAssumption DEF ProcessState, Down, Bootstrap

LEMMA VerifyType ==
  ASSUME NEW n \in 0..MaxEdits, NEW p,
         p = [Down EXCEPT !.pc = "verify", !.token = n]
  PROVE  p \in ProcessState /\ p.pc = "verify"
BY DownType DEF ProcessState

LEMMA InvInit == ProcessInit => ProcessInv
<1> SUFFICES ASSUME ProcessInit PROVE ProcessInv
  OBVIOUS
<1>1. /\ disk \in [yaml : Versions, sig : Versions]
      /\ schema \in Schemas
      /\ material \in [Slots -> Keys \union {NoKey}]
  BY ProcessAssumption DEF ProcessInit, Schemas
<1>2. /\ client \in [hash : 0..MaxEdits, keyId : 0..MaxEdits, active : BOOLEAN]
      /\ held \in 0..MaxEdits /\ clobbered \in BOOLEAN
      /\ budget \in [edits : 0..MaxEdits, faults : 0..MaxFaults]
      /\ TokensInBudget
  <2>1. MaxEdits \in Nat /\ MaxFaults \in Nat /\ 0 \in 0..MaxEdits
        /\ MaxEdits \in 0..MaxEdits /\ MaxFaults \in 0..MaxFaults
    BY ProcessAssumption
  <2>2. client.keyId = 0 /\ budget.edits = MaxEdits
    BY DEF ProcessInit, Bootstrap
  <2>3. TokensInBudget
    BY <2>1, <2>2 DEF TokensInBudget
  <2>4. client \in [hash : 0..MaxEdits, keyId : 0..MaxEdits, active : BOOLEAN]
    BY <2>1 DEF ProcessInit, Bootstrap
  <2>5. budget \in [edits : 0..MaxEdits, faults : 0..MaxFaults]
    BY <2>1 DEF ProcessInit
  <2>6. held \in 0..MaxEdits /\ clobbered \in BOOLEAN
    BY <2>1 DEF ProcessInit, Bootstrap
  <2> QED BY <2>3, <2>4, <2>5, <2>6
<1>3. /\ mood \in [Tasks -> Errors \union {Fine}]
      /\ queue \in [Tasks -> TaskRow] /\ store \in [Tasks -> EngineRow]
  BY ProcessAssumption DEF ProcessInit, TaskRow, EngineRow
<1>4. proc = Down /\ changed = {}
  BY DEF ProcessInit
<1>5. BootChecked
  BY <1>4, DownType DEF BootChecked
<1>6. TasksGrounded
  BY <1>4, DownType DEF ProcessInit, TasksGrounded, RowsGrounded, TaskGrounded
<1> QED
  BY <1>1, <1>2, <1>3, <1>4, <1>5, <1>6, DownType DEF ProcessInv, ProcessTypeOK

-----------------------------------------------------------------------------
(* Frames: what the two halves of the invariant depend on.                 *)

(* A step of the loop, or the end of the process.                          *)
LoopFrame ==
  /\ UNCHANGED site /\ changed' = changed
  /\ \/ proc'.pc = "down"
     \/ /\ proc.pc \in Loop /\ proc'.pc \in Loop
        /\ proc'.sent = proc.sent /\ proc'.cfg = proc.cfg
        /\ proc'.key = proc.key

LEMMA BootFrame == BootChecked /\ LoopFrame => BootChecked'
BY DEF BootChecked, LoopFrame, site, Verified, Loop, MasterKey

(* A step that leaves the tasks alone.                                     *)
LEMMA TaskFrame ==
  ASSUME TasksGrounded, UNCHANGED <<queue, store>>,
         \/ proc' = proc
         \/ proc'.pc \notin {"execute", "ack", "nack"}
  PROVE  TasksGrounded'
BY DEF TasksGrounded, RowsGrounded, TaskGrounded, Repeated, Excused, Cause,
       Transient

LEMMA ErrorFields ==
  /\ \A e \in Errors : /\ e.kind \in {"none", "worker", "postgres", "timeout",
                                      "other"}
                       /\ e.retryable \in BOOLEAN /\ e.fatal \in BOOLEAN
                       /\ e.detail \in BOOLEAN
  /\ Unreadable \in Errors /\ Disconnects \subseteq Errors
BY ProcessAssumption DEF ErrorRecord

-----------------------------------------------------------------------------
(* Boot.                                                                   *)

LEMMA StartStep ==
  ASSUME ProcessInv, NEW late \in BOOLEAN, Start(late)
  PROVE  ProcessInv'
<1>1. /\ UNCHANGED <<disk, schema, material, client, held, clobbered>>
      /\ UNCHANGED <<mood, store, budget>>
      /\ changed' = {}
  BY DEF Start, site
<1>2. proc' \in ProcessState /\ proc'.pc = "verify"
  BY VerifyType DEF Start, ProcessInv, ProcessTypeOK
<1>3. ASSUME NEW t \in Tasks
      PROVE  /\ queue[t] \in TaskRow
             /\ [queue[t] EXCEPT !.lease = 0] \in TaskRow
             /\ [queue[t] EXCEPT !.lease = 0].status = queue[t].status
             /\ [queue[t] EXCEPT !.lease = 0].claims = queue[t].claims
             /\ [queue[t] EXCEPT !.lease = 0].error = queue[t].error
  <2>1. queue[t] \in TaskRow /\ 0 \in 0..LeaseRounds
    BY ProcessAssumption DEF ProcessInv, ProcessTypeOK
  <2> QED BY <2>1 DEF TaskRow
<1>4. /\ queue' \in [Tasks -> TaskRow]
      /\ \A t \in Tasks : /\ queue'[t].status = queue[t].status
                          /\ queue'[t].claims = queue[t].claims
                          /\ queue'[t].error = queue[t].error
  BY <1>3 DEF Start, ProcessInv, ProcessTypeOK
<1>5. ProcessTypeOK'
  BY <1>1, <1>2, <1>4 DEF ProcessInv, ProcessTypeOK
<1>6. TokensInBudget' /\ BootChecked'
  BY <1>1, <1>2 DEF ProcessInv, TokensInBudget, BootChecked
<1>7. TasksGrounded'
  BY <1>1, <1>2, <1>4
  DEF ProcessInv, TasksGrounded, RowsGrounded, TaskGrounded, Repeated, Excused
<1> QED BY <1>5, <1>6, <1>7 DEF ProcessInv

LEMMA MasterKeyType ==
  ASSUME ProcessTypeOK, NEW v \in Versions
  PROVE  MasterKey(v) \in Keys \union {NoKey}
BY ProcessAssumption DEF ProcessTypeOK, MasterKey, Slots

LEMMA BootStep ==
  ASSUME ProcessInv,
         VerifyConfig \/ HashConfig \/ Configure \/ LoseKey \/ Inspect
  PROVE  ProcessInv'
<1>1. /\ UNCHANGED <<disk, schema, material, client, held, clobbered>>
      /\ UNCHANGED <<mood, queue, store>>
      /\ changed' \subseteq changed
  BY DEF VerifyConfig, HashConfig, Configure, LoseKey, Inspect, site
<1>2. budget' \in [edits : 0..MaxEdits, faults : 0..MaxFaults]
      /\ budget'.edits = budget.edits
  BY ProcessAssumption
  DEF VerifyConfig, HashConfig, Configure, LoseKey, Inspect, Fault,
      ProcessInv, ProcessTypeOK
<1>3. /\ proc' \in ProcessState
      /\ proc'.pc \in {"hash", "configure", "inspect", "sync", "down"}
      /\ BootChecked'
  <2> USE DEF ProcessInv, ProcessTypeOK, At, BootChecked
  <2>1. CASE VerifyConfig
    <3>1. CASE Signed
      <4>1. proc' = [proc EXCEPT !.pc = "hash"] /\ UNCHANGED changed
        BY <2>1, <3>1 DEF VerifyConfig, Goto
      <4>2. proc' \in ProcessState /\ proc'.pc = "hash"
        BY <4>1 DEF ProcessState
      <4> QED BY <1>1, <3>1, <4>1, <4>2 DEF Signed
    <3>2. CASE ~Signed
      BY <2>1, <3>2, DownType DEF VerifyConfig, Exit
    <3> QED BY <3>1, <3>2
  <2>2. CASE HashConfig
    BY <2>2, <1>1 DEF HashConfig, ProcessState
  <2>3. CASE Configure
    <3>1. CASE proc' = Down
      BY <3>1, DownType
    <3>2. CASE proc' # Down
      <4>1. /\ proc' = [proc EXCEPT !.pc = "inspect", !.cfg = disk.yaml,
                                   !.key = MasterKey(disk.yaml)]
            /\ proc.pc = "configure" /\ UNCHANGED changed
        BY <2>3, <3>2 DEF Configure, Exit
      <4>2. disk.yaml \in Versions /\ MasterKey(disk.yaml) \in Keys \union {NoKey}
        BY MasterKeyType
      <4>3. /\ proc' \in ProcessState /\ proc'.pc = "inspect"
            /\ proc'.cfg = disk.yaml /\ proc'.sent = proc.sent
            /\ proc'.key = MasterKey(disk.yaml)
        BY <4>1, <4>2 DEF ProcessState
      <4>4. MasterKey(disk.yaml)' = MasterKey(disk.yaml)
        BY <1>1 DEF MasterKey
      <4> QED BY <1>1, <4>1, <4>2, <4>3, <4>4
    <3> QED BY <3>1, <3>2
  <2>4. CASE LoseKey
    BY <2>4, DownType DEF LoseKey, Exit
  <2>5. CASE Inspect
    <3>1. CASE SchemaMatches
      <4>1. /\ proc' \in ProcessState /\ proc'.pc = "sync"
            /\ proc'.cfg = proc.cfg /\ proc'.sent = proc.sent
            /\ proc'.key = proc.key
            /\ proc.pc = "inspect" /\ schema = SchemaOf[proc.cfg]
        BY <2>5, <3>1 DEF Inspect, Goto, SchemaMatches, ProcessState
      <4>2. MasterKey(proc.cfg)' = MasterKey(proc.cfg)
        BY <1>1, <4>1 DEF MasterKey
      <4>3. "config" \in changed' <=> "config" \in changed
        BY <2>5 DEF Inspect
      <4>4. "keys" \in changed' <=> "keys" \in changed
        BY <2>5 DEF Inspect
      <4> QED BY <1>1, <4>1, <4>2, <4>3, <4>4
    <3>2. CASE ~SchemaMatches
      BY <2>5, <3>2, DownType DEF Inspect, Exit
    <3> QED BY <3>1, <3>2
  <2> QED BY <2>1, <2>2, <2>3, <2>4, <2>5
<1>4. ProcessTypeOK' /\ TokensInBudget'
  BY <1>1, <1>2, <1>3
  DEF ProcessInv, ProcessTypeOK, TokensInBudget
<1>5. TasksGrounded'
  BY <1>1, <1>3, TaskFrame DEF ProcessInv
<1> QED BY <1>3, <1>4, <1>5 DEF ProcessInv

-----------------------------------------------------------------------------
(* The queue.                                                              *)

(* Claiming a task and recording its acknowledgement keep the rows typed,  *)
(* and what is grounded about them.                                        *)

LEMMA LeaseStep ==
  ASSUME ProcessTypeOK, RowsGrounded, NEW t \in Tasks, Open(t), Leased(t),
         store' = store
  PROVE  /\ queue' \in [Tasks -> TaskRow] /\ RowsGrounded'
         /\ queue'[t].status = "leased" /\ queue'[t].claims # 0 /\ Repeated(t)'
<1>1. /\ queue[t] \in TaskRow /\ LeaseRounds \in 0..LeaseRounds
      /\ queue[t].claims \in 0..2
  BY ProcessAssumption DEF ProcessTypeOK, TaskRow
<1>2. PICK n \in {1, 2} : /\ n = (IF queue[t].claims = 0 THEN 1 ELSE 2)
                         /\ queue' = [queue EXCEPT
                              ![t] = [@ EXCEPT !.status = "leased",
                                               !.lease = LeaseRounds,
                                               !.claims = n]]
  BY DEF Leased, ProcessTypeOK, TaskRow
<1>3. /\ queue'[t] \in TaskRow /\ queue'[t].status = "leased"
      /\ queue'[t].claims = n
      /\ \A u \in Tasks \ {t} : queue'[u] = queue[u]
  <2>1. /\ queue'[t] = [queue[t] EXCEPT !.status = "leased",
                                      !.lease = LeaseRounds, !.claims = n]
        /\ \A u \in Tasks \ {t} : queue'[u] = queue[u]
    BY <1>2 DEF ProcessTypeOK
  <2>2. n \in 0..2
    BY <1>2
  <2> QED BY <1>1, <2>1, <2>2 DEF TaskRow
<1>4. queue' \in [Tasks -> TaskRow]
  BY <1>1, <1>2, <1>3 DEF ProcessTypeOK
<1> QED BY <1>2, <1>3, <1>4 DEF RowsGrounded, Repeated, Excused

LEMMA AckStep ==
  ASSUME ProcessTypeOK, RowsGrounded, NEW t \in Tasks,
         NEW error \in Errors \union {Fine},
         \/ Acknowledged(t, "done", error)
         \/ /\ Acknowledged(t, "dead", error)
            /\ Cause(error) /\ Excused(t, error),
         store' = store
  PROVE  queue' \in [Tasks -> TaskRow] /\ RowsGrounded'
<1>1. CASE queue' = queue
  BY <1>1 DEF ProcessTypeOK, RowsGrounded, Excused
<1>2. CASE queue' # queue
  <2>1. PICK status \in {"done", "dead"} :
          /\ status = "dead" => Cause(error) /\ Excused(t, error)
          /\ queue' = [queue EXCEPT ![t] = [@ EXCEPT !.status = status,
                                                    !.lease = 0,
                                                    !.error = error]]
    BY <1>2 DEF Acknowledged, ProcessTypeOK, TaskRow
  <2>2. queue[t] \in TaskRow /\ 0 \in 0..LeaseRounds
    BY ProcessAssumption DEF ProcessTypeOK
  <2>3. /\ queue'[t] \in TaskRow /\ queue'[t].status = status
        /\ queue'[t].claims = queue[t].claims /\ queue'[t].error = error
        /\ \A u \in Tasks \ {t} : queue'[u] = queue[u]
    BY <2>1, <2>2 DEF ProcessTypeOK, TaskRow
  <2>4. queue' \in [Tasks -> TaskRow]
    BY <2>1, <2>3 DEF ProcessTypeOK
  <2> QED BY <2>1, <2>3, <2>4 DEF RowsGrounded, Excused
<1> QED BY <1>1, <1>2

(* Delivered evidence.                                                     *)
LEMMA SentStep ==
  ASSUME ProcessTypeOK, RowsGrounded, NEW some, Sent(some), queue' = queue
  PROVE  store' \in [Tasks -> EngineRow] /\ RowsGrounded'
<1>1. \A t \in Tasks : /\ store[t] \in EngineRow
                       /\ [store[t] EXCEPT !.evidence = "sent"] \in EngineRow
                       /\ [store[t] EXCEPT !.evidence = "sent"].committed
                            = store[t].committed
  BY DEF ProcessTypeOK, EngineRow
<1>2. \A t \in Tasks : store'[t] \in EngineRow
                       /\ store'[t].committed = store[t].committed
  BY <1>1 DEF Sent
<1>3. store' \in [Tasks -> EngineRow]
  BY <1>2 DEF Sent
<1> QED BY <1>2, <1>3 DEF RowsGrounded, Excused

(* A transaction that commits, of a task that is leased; and an event that *)
(* the ledger will refuse.                                                 *)
LEMMA CommitStep ==
  ASSUME ProcessTypeOK, RowsGrounded, NEW t \in Tasks, Committed(t),
         queue[t].status = "leased" /\ queue[t].claims # 0, queue' = queue
  PROVE  store' \in [Tasks -> EngineRow] /\ RowsGrounded'
<1>1. proc.key \in Keys \union {NoKey}
  BY DEF ProcessTypeOK, ProcessState
<1>2. /\ store' \in [Tasks -> EngineRow]
      /\ \A u \in Tasks \ {t} : store'[u] = store[u]
  BY <1>1 DEF Committed, ProcessTypeOK, EngineRow
<1> QED BY <1>2 DEF RowsGrounded, Excused

-----------------------------------------------------------------------------
(* The loop.                                                               *)

(* What a step of the loop does to the process.                            *)
LEMMA GotoStep ==
  ASSUME ProcessTypeOK, proc.pc \in Loop, NEW p \in Loop, NEW t \in 0..N,
         NEW e \in Errors \union {Fine},
         \/ Goto(p) /\ t = proc.task /\ e = proc.error
         \/ proc' = [proc EXCEPT !.pc = p, !.task = t] /\ e = proc.error
         \/ proc' = [proc EXCEPT !.pc = p, !.error = e] /\ t = proc.task
         \/ Iterate(p) /\ t = None /\ e = Fine,
         UNCHANGED site, changed' = changed
  PROVE  /\ proc' \in ProcessState /\ LoopFrame
         /\ proc'.pc = p /\ proc'.task = t /\ proc'.error = e
<1>1. /\ proc \in ProcessState /\ p \in Boot \union Loop \union {"down"}
      /\ t \in 0..N
  BY DEF ProcessTypeOK
<1>2. /\ proc' \in ProcessState
      /\ proc'.pc = p /\ proc'.task = t /\ proc'.error = e
      /\ proc'.sent = proc.sent /\ proc'.cfg = proc.cfg /\ proc'.key = proc.key
  <2>1. CASE proc' = [proc EXCEPT !.pc = p] /\ t = proc.task /\ e = proc.error
    BY <1>1, <2>1 DEF ProcessState
  <2>2. CASE proc' = [proc EXCEPT !.pc = p, !.task = t] /\ e = proc.error
    BY <1>1, <2>2 DEF ProcessState
  <2>3. CASE proc' = [proc EXCEPT !.pc = p, !.error = e] /\ t = proc.task
    BY <1>1, <2>3 DEF ProcessState
  <2>4. CASE Iterate(p) /\ t = None /\ e = Fine
    BY <1>1, <2>4 DEF Iterate, ProcessState
  <2> QED BY <2>1, <2>2, <2>3, <2>4 DEF Goto
<1> QED BY <1>2 DEF LoopFrame

(* The end of an iteration.                                                *)
LEMMA IterateStep ==
  ASSUME ProcessTypeOK, proc.pc \in Loop, NEW p \in {"sleep", "sync"},
         Iterate(p), UNCHANGED site, changed' = changed
  PROVE  proc' \in ProcessState /\ LoopFrame /\ proc'.pc = p
<1>1. p \in Loop /\ None \in 0..N /\ Fine \in Errors \union {Fine}
  BY ProcessAssumption
<1> QED BY <1>1, GotoStep

LEMMA ExitStep ==
  ASSUME Exit, UNCHANGED site, changed' = changed
  PROVE  proc' \in ProcessState /\ LoopFrame /\ proc'.pc = "down"
BY DownType DEF Exit, LoopFrame

LEMMA FaultStep ==
  ASSUME ProcessTypeOK, Fault \/ UNCHANGED budget
  PROVE  /\ budget' \in [edits : 0..MaxEdits, faults : 0..MaxFaults]
         /\ budget'.edits = budget.edits
BY ProcessAssumption DEF ProcessTypeOK, Fault

LEMMA LoopStep ==
  ASSUME ProcessInv, LoopFrame, proc' \in ProcessState, mood' = mood,
         Fault \/ UNCHANGED budget,
         queue' \in [Tasks -> TaskRow], store' \in [Tasks -> EngineRow],
         RowsGrounded', TaskGrounded'
  PROVE  ProcessInv'
<1>1. BootChecked'
  BY BootFrame DEF ProcessInv
<1>2. UNCHANGED <<disk, schema, material, client, held, clobbered, changed>>
  BY DEF LoopFrame, site
<1>3. ProcessTypeOK' /\ TokensInBudget'
  BY <1>2, FaultStep DEF ProcessInv, ProcessTypeOK, TokensInBudget
<1> QED BY <1>1, <1>3 DEF ProcessInv, TasksGrounded

(* What a step of the loop may rely on.                                    *)
LEMMA LoopFacts ==
  ASSUME ProcessInv
  PROVE  /\ ProcessTypeOK /\ RowsGrounded /\ TaskGrounded /\ TasksGrounded
         /\ proc.task \in 0..N /\ proc.error \in Errors \union {Fine}
         /\ queue \in [Tasks -> TaskRow] /\ store \in [Tasks -> EngineRow]
BY DEF ProcessInv, TasksGrounded, ProcessTypeOK, ProcessState

LEMMA SyncStep ==
  ASSUME ProcessInv, Sync \/ LoseSync
  PROVE  ProcessInv'
<1>1. /\ proc.pc \in Loop /\ UNCHANGED site /\ changed' = changed /\ mood' = mood
      /\ store' = store /\ (Fault \/ UNCHANGED budget)
  BY DEF Sync, LoseSync, At
<1>2. \/ \E t \in Tasks : Open(t) /\ Leased(t)
                         /\ proc' = [proc EXCEPT !.pc = "execute", !.task = t]
      \/ \E t \in Tasks : Open(t) /\ Leased(t) /\ Iterate("sleep")
      \/ proc' = [proc EXCEPT !.pc = "flush", !.task = None] /\ queue' = queue
      \/ Iterate("sleep") /\ queue' = queue
  BY DEF Sync, LoseSync, Head, Claimable, Open
<1>3. ASSUME NEW t \in Tasks, Open(t), Leased(t),
             \/ proc' = [proc EXCEPT !.pc = "execute", !.task = t]
             \/ Iterate("sleep")
      PROVE  ProcessInv'
  <2>1. /\ queue' \in [Tasks -> TaskRow] /\ RowsGrounded'
        /\ queue'[t].status = "leased" /\ queue'[t].claims # 0 /\ Repeated(t)'
    BY <1>1, <1>3, LeaseStep, LoopFacts
  <2>2. t \in 0..N
    BY ProcessAssumption DEF Tasks
  <2>3. CASE proc' = [proc EXCEPT !.pc = "execute", !.task = t]
    <3>1. /\ proc' \in ProcessState /\ LoopFrame
          /\ proc'.pc = "execute" /\ proc'.task = t
      BY <1>1, <2>2, <2>3, GotoStep, LoopFacts
    <3>2. TaskGrounded'
      BY <2>1, <3>1 DEF TaskGrounded, Repeated
    <3> QED BY <1>1, <2>1, <3>1, <3>2, LoopStep, LoopFacts
  <2>4. CASE Iterate("sleep")
    <3>1. proc' \in ProcessState /\ LoopFrame /\ proc'.pc = "sleep"
      BY <1>1, <2>4, IterateStep, LoopFacts
    <3>2. TaskGrounded'
      BY <3>1 DEF TaskGrounded
    <3> QED BY <1>1, <2>1, <3>1, <3>2, LoopStep, LoopFacts
  <2> QED BY <1>3, <2>3, <2>4
<1>4. ASSUME queue' = queue,
             \/ proc' = [proc EXCEPT !.pc = "flush", !.task = None]
             \/ Iterate("sleep")
      PROVE  ProcessInv'
  <2>1. 0 \in 0..N
    BY ProcessAssumption
  <2>2. /\ proc' \in ProcessState /\ LoopFrame
        /\ proc'.pc \in {"flush", "sleep"}
    BY <1>1, <1>4, <2>1, GotoStep, IterateStep, LoopFacts
  <2>3. TasksGrounded'
    BY <1>1, <1>4, <2>2, TaskFrame, LoopFacts
  <2> QED BY <1>1, <1>4, <2>2, <2>3, LoopStep, LoopFacts DEF TasksGrounded
<1> QED BY <1>2, <1>3, <1>4

LEMMA SucceedStep ==
  ASSUME ProcessInv, NEW t \in Tasks, Succeed(t)
  PROVE  ProcessInv'
<1>1. /\ proc.pc = "execute" /\ UNCHANGED site /\ changed' = changed
      /\ mood' = mood /\ queue' = queue /\ UNCHANGED budget /\ proc.task = t
      /\ Goto("ack") /\ Committed(t)
  BY DEF Succeed, At
<1>2. proc' \in ProcessState /\ LoopFrame /\ proc'.pc = "ack" /\ proc'.task = t
  BY <1>1, GotoStep, LoopFacts
<1>3. queue[t].status = "leased" /\ queue[t].claims # 0
  BY <1>1, LoopFacts DEF TaskGrounded
<1>4. store' \in [Tasks -> EngineRow] /\ RowsGrounded'
  BY <1>1, <1>3, CommitStep, LoopFacts
<1>5. TaskGrounded'
  BY <1>2 DEF TaskGrounded
<1> QED BY <1>1, <1>2, <1>4, <1>5, LoopStep, LoopFacts

(* What becomes of an error, whose transaction has not committed, or whose *)
(* connection broke.                                                       *)
LEMMA CaughtStep ==
  ASSUME ProcessInv, proc.pc = "execute", UNCHANGED site, changed' = changed,
         mood' = mood, queue' = queue, Fault \/ UNCHANGED budget,
         store' \in [Tasks -> EngineRow], RowsGrounded',
         NEW e \in Errors, Caught(e), store' = store \/ e \in Disconnects
  PROVE  ProcessInv'
<1>1. CASE Exit
  <2>1. proc' \in ProcessState /\ LoopFrame /\ proc'.pc = "down"
    BY <1>1, ExitStep
  <2>2. TaskGrounded'
    BY <2>1 DEF TaskGrounded
  <2> QED BY <2>1, <2>2, LoopStep, LoopFacts
<1>2. CASE Iterate("sleep")
  <2>1. proc' \in ProcessState /\ LoopFrame /\ proc'.pc = "sleep"
    BY <1>2, IterateStep, LoopFacts
  <2>2. TaskGrounded'
    BY <2>1 DEF TaskGrounded
  <2> QED BY <2>1, <2>2, LoopStep, LoopFacts
<1>3. CASE /\ ~Fatal(e) /\ ~Retryable(e)
           /\ proc' = [proc EXCEPT !.pc = "nack", !.error = e]
  <2>1. /\ proc' \in ProcessState /\ LoopFrame
        /\ proc'.pc = "nack" /\ proc'.task = proc.task /\ proc'.error = e
    BY <1>3, GotoStep, LoopFacts
  <2>2. Cause(e)
    <3>1. e.kind # "none"
      BY ProcessAssumption DEF ErrorRecord, Fine
    <3> QED BY <1>3, <3>1, ErrorFields DEF Cause, Fatal, Retryable, Transient,
                                           LooksLikeProblem
  <2>3. Cause(e)'
    BY <2>2 DEF Cause, Transient
  <2>4. /\ proc.task \in Tasks /\ Repeated(proc.task)
        /\ queue[proc.task].status = "leased" /\ queue[proc.task].claims # 0
    BY LoopFacts DEF TaskGrounded
  <2>5. Excused(proc.task, e)'
    BY <2>1, <2>4 DEF Excused, Repeated
  <2>6. TaskGrounded'
    BY <2>1, <2>3, <2>4, <2>5 DEF TaskGrounded, Excused
  <2> QED BY <2>1, <2>6, LoopStep, LoopFacts
<1> QED BY <1>1, <1>2, <1>3 DEF Caught

LEMMA FailStep ==
  ASSUME ProcessInv, NEW t \in Tasks, Fail(t)
  PROVE  ProcessInv'
<1>1. /\ proc.pc = "execute" /\ UNCHANGED site /\ changed' = changed
      /\ mood' = mood /\ queue' = queue /\ UNCHANGED budget /\ store' = store
      /\ Caught(Thrown(t)) /\ Thrown(t) # Fine
  BY DEF Fail, At
<1>2. Thrown(t) \in Errors
  BY <1>1, ErrorFields DEF Thrown, ProcessInv, ProcessTypeOK
<1>3. RowsGrounded'
  BY <1>1, LoopFacts DEF RowsGrounded, Excused, Cause, Transient
<1> QED BY <1>1, <1>2, <1>3, CaughtStep, LoopFacts

LEMMA DisconnectStep ==
  ASSUME ProcessInv, NEW t \in Tasks, Disconnect(t)
  PROVE  ProcessInv'
<1>1. /\ proc.pc = "execute" /\ UNCHANGED site /\ changed' = changed
      /\ mood' = mood /\ queue' = queue /\ Fault /\ proc.task = t
      /\ store' = store \/ Committed(t)
  BY DEF Disconnect, At
<1>2. PICK e \in Disconnects : Caught(e)
  BY DEF Disconnect
<1>3. store' \in [Tasks -> EngineRow] /\ RowsGrounded'
  <2>1. CASE store' = store
    BY <1>1, <2>1, LoopFacts DEF RowsGrounded, Excused, Cause, Transient
  <2>2. CASE Committed(t)
    <3>1. queue[t].status = "leased" /\ queue[t].claims # 0
      BY <1>1, LoopFacts DEF TaskGrounded
    <3> QED BY <1>1, <2>2, <3>1, CommitStep, LoopFacts
  <2> QED BY <1>1, <2>1, <2>2
<1> QED BY <1>1, <1>2, <1>3, ErrorFields, CaughtStep

(* A step that ends the process.                                           *)
LEMMA DeathStep ==
  ASSUME ProcessInv, Exit, UNCHANGED site, changed' = changed, mood' = mood,
         Fault \/ UNCHANGED budget, queue' = queue, store' = store
  PROVE  ProcessInv'
<1>1. proc' \in ProcessState /\ LoopFrame /\ proc'.pc = "down"
  BY ExitStep
<1>2. TasksGrounded'
  BY <1>1, TaskFrame, LoopFacts
<1> QED BY <1>1, <1>2, LoopStep, LoopFacts DEF TasksGrounded

LEMMA EndStep ==
  ASSUME ProcessInv, Reject \/ RejectRequest \/ Crash
  PROVE  ProcessInv'
<1>1. /\ Exit /\ UNCHANGED site /\ changed' = changed /\ mood' = mood
      /\ (Fault \/ UNCHANGED budget) /\ queue' = queue /\ store' = store
  BY DEF Reject, RejectRequest, Crash
<1> QED BY <1>1, DeathStep

(* An acknowledgement, whether its answer arrives or not.                  *)
LEMMA AcknowledgeStep ==
  ASSUME ProcessInv, Ack \/ Nack \/ LoseAck \/ LoseNack
  PROVE  ProcessInv'
<1>1. /\ proc.pc \in {"ack", "nack"} /\ UNCHANGED site /\ changed' = changed
      /\ mood' = mood /\ store' = store /\ (Fault \/ UNCHANGED budget)
  BY DEF Ack, Nack, LoseAck, LoseNack, At
<1>2. proc.task \in Tasks /\ Fine \in Errors \union {Fine}
  BY <1>1, LoopFacts DEF TaskGrounded
<1>3. \/ queue' = queue
      \/ Acknowledged(proc.task, "done", Fine)
      \/ /\ Acknowledged(proc.task, "dead", proc.error)
         /\ proc.pc = "nack"
  BY DEF Ack, Nack, LoseAck, LoseNack, At
<1>4. queue' \in [Tasks -> TaskRow] /\ RowsGrounded'
  <2>1. CASE queue' = queue
    BY <1>1, <2>1, LoopFacts DEF RowsGrounded, Excused, Cause, Transient
  <2>2. CASE Acknowledged(proc.task, "done", Fine)
    BY <1>1, <1>2, <2>2, AckStep, LoopFacts
  <2>3. CASE Acknowledged(proc.task, "dead", proc.error) /\ proc.pc = "nack"
    <3>1. Cause(proc.error) /\ Excused(proc.task, proc.error)
      BY <2>3, LoopFacts DEF TaskGrounded
    <3> QED BY <1>1, <1>2, <2>3, <3>1, AckStep, LoopFacts
  <2> QED BY <1>3, <2>1, <2>2, <2>3
<1>5. \/ Goto("flush") \/ Iterate("sleep")
      \/ proc' = [proc EXCEPT !.pc = "flush", !.error = Fine]
  BY DEF Ack, Nack, LoseAck, LoseNack
<1>6. proc' \in ProcessState /\ LoopFrame /\ proc'.pc \in {"flush", "sleep"}
  BY <1>1, <1>2, <1>5, GotoStep, IterateStep, LoopFacts
<1>7. TaskGrounded'
  BY <1>6 DEF TaskGrounded
<1> QED BY <1>1, <1>4, <1>6, <1>7, LoopStep, LoopFacts

LEMMA FlushStep ==
  ASSUME ProcessInv, Flush \/ FlushSome \/ MeetRefused
  PROVE  ProcessInv'
<1>1. /\ proc.pc \in Loop /\ UNCHANGED site /\ changed' = changed
      /\ mood' = mood /\ queue' = queue /\ (Fault \/ UNCHANGED budget)
      /\ Continue \/ Iterate("sleep") \/ Exit
  BY DEF Flush, FlushSome, MeetRefused, At
<1>2. PICK some : Sent(some)
  BY DEF Flush, FlushSome, MeetRefused
<1>3. store' \in [Tasks -> EngineRow] /\ RowsGrounded'
  BY <1>1, <1>2, SentStep, LoopFacts
<1>4. Exit \/ \E p \in {"sleep", "sync"} : Iterate(p)
  BY <1>1 DEF Continue
<1>5. /\ proc' \in ProcessState /\ LoopFrame
      /\ proc'.pc \in {"sleep", "sync", "down"}
  BY <1>1, <1>4, IterateStep, ExitStep, LoopFacts
<1>6. TaskGrounded'
  BY <1>5 DEF TaskGrounded
<1> QED BY <1>1, <1>3, <1>5, <1>6, LoopStep, LoopFacts

LEMMA StrandStep ==
  ASSUME ProcessInv, NEW t \in Tasks, Strand(t)
  PROVE  ProcessInv'
<1>1. /\ UNCHANGED <<disk, schema, material, client, held, clobbered>>
      /\ UNCHANGED <<proc, changed, mood, queue>> /\ Fault
      /\ store' = [store EXCEPT ![t].evidence = "refused"]
  BY DEF Strand, site
<1>2. /\ store' \in [Tasks -> EngineRow]
      /\ \A u \in Tasks : store'[u].committed = store[u].committed
  BY <1>1, LoopFacts DEF EngineRow
<1>3. TasksGrounded'
  BY <1>1, <1>2, LoopFacts
  DEF TasksGrounded, RowsGrounded, TaskGrounded, Repeated, Excused, Cause,
      Transient
<1>4. ProcessTypeOK' /\ TokensInBudget'
  BY <1>1, <1>2, FaultStep DEF ProcessInv, ProcessTypeOK, TokensInBudget
<1>5. BootChecked'
  BY <1>1 DEF ProcessInv, BootChecked, MasterKey
<1> QED BY <1>3, <1>4, <1>5 DEF ProcessInv

LEMMA SleepStep ==
  ASSUME ProcessInv, Sleep
  PROVE  ProcessInv'
<1>1. /\ proc.pc \in Loop /\ UNCHANGED site /\ changed' = changed
      /\ mood' = mood /\ store' = store /\ UNCHANGED budget /\ Goto("sync")
  BY DEF Sleep, At
<1>2. proc' \in ProcessState /\ LoopFrame /\ proc'.pc = "sync"
  BY <1>1, GotoStep, LoopFacts
<1>3. ASSUME NEW t \in Tasks
      PROVE  /\ queue'[t] \in TaskRow /\ queue'[t].status = queue[t].status
             /\ queue'[t].claims = queue[t].claims
             /\ queue'[t].error = queue[t].error
  <2>1. queue[t] \in TaskRow
    BY LoopFacts
  <2>2. PICK n \in 0..LeaseRounds : queue'[t] = [queue[t] EXCEPT !.lease = n]
    <3>1. queue[t].lease \in 0..LeaseRounds /\ LeaseRounds \in Nat
      BY <2>1, ProcessAssumption DEF TaskRow
    <3>2. queue'[t] = [queue[t] EXCEPT
                         !.lease = IF @ = 0 THEN 0 ELSE @ - 1]
      BY DEF Sleep
    <3>3. CASE queue[t].lease = 0
      BY <3>1, <3>2, <3>3, <2>1 DEF TaskRow
    <3>4. CASE queue[t].lease # 0
      <4>1. queue[t].lease - 1 \in 0..LeaseRounds
        BY <3>1, <3>4
      <4>2. queue'[t] = [queue[t] EXCEPT !.lease = queue[t].lease - 1]
        BY <3>2, <3>4, <2>1 DEF TaskRow
      <4> QED BY <4>1, <4>2
    <3> QED BY <3>3, <3>4
  <2> QED BY <2>1, <2>2 DEF TaskRow
<1>4. queue' \in [Tasks -> TaskRow]
  <2>1. queue' = [t \in Tasks |-> queue'[t]]
    BY DEF Sleep
  <2> QED BY <2>1, <1>3
<1>5. RowsGrounded' /\ TaskGrounded'
  BY <1>1, <1>2, <1>3, LoopFacts
  DEF RowsGrounded, TaskGrounded, Repeated, Excused
<1> QED BY <1>1, <1>2, <1>4, <1>5, LoopStep, LoopFacts

-----------------------------------------------------------------------------
(* Operators.                                                              *)

(* What changes under a process that is up is marked as changed.           *)
LEMMA TouchStep ==
  ASSUME ProcessTypeOK, NEW what \in {"config", "keys", "schema"}, Touch(what)
  PROVE  /\ changed' \in SUBSET {"config", "keys", "schema"}
         /\ changed \subseteq changed'
         /\ proc.pc # "down" => what \in changed'
BY DEF ProcessTypeOK, Touch

LEMMA EditStep ==
  ASSUME ProcessTypeOK, Edit
  PROVE  /\ budget' \in [edits : 0..MaxEdits, faults : 0..MaxFaults]
         /\ budget.edits \in Nat /\ budget.edits > 0
         /\ budget'.edits = budget.edits - 1
BY ProcessAssumption DEF ProcessTypeOK, Edit

(* The client row and the token of the deployment.                         *)
LEMMA ClientStep ==
  ASSUME ProcessInv,
         RotateKey \/ DeactivateClient \/ EnsureClient \/ Redeploy
  PROVE  ProcessInv'
<1>1. /\ UNCHANGED <<disk, schema, material, proc, changed, mood, queue, store>>
  BY DEF RotateKey, DeactivateClient, EnsureClient, Redeploy
<1>2. /\ MaxEdits \in Nat /\ client \in [hash : 0..MaxEdits,
                                         keyId : 0..MaxEdits, active : BOOLEAN]
      /\ held \in 0..MaxEdits /\ clobbered \in BOOLEAN
      /\ budget \in [edits : 0..MaxEdits, faults : 0..MaxFaults]
      /\ client.keyId + budget.edits <= MaxEdits
  BY ProcessAssumption DEF ProcessInv, ProcessTypeOK, TokensInBudget
<1>3. /\ client' \in [hash : 0..MaxEdits, keyId : 0..MaxEdits,
                      active : BOOLEAN]
      /\ held' \in 0..MaxEdits /\ clobbered' \in BOOLEAN
      /\ budget' \in [edits : 0..MaxEdits, faults : 0..MaxFaults]
      /\ client'.keyId + budget'.edits <= MaxEdits
  <2>1. CASE RotateKey
    <3>1. /\ client' = [hash |-> client.keyId + 1, keyId |-> client.keyId + 1,
                        active |-> TRUE]
          /\ clobbered' = FALSE /\ held' = held /\ Edit
      BY <2>1 DEF RotateKey
    <3>2. /\ budget' \in [edits : 0..MaxEdits, faults : 0..MaxFaults]
          /\ budget.edits \in Nat /\ budget.edits > 0
          /\ budget'.edits = budget.edits - 1
      BY <3>1, EditStep DEF ProcessInv
    <3>3. client.keyId \in Nat /\ client.keyId + 1 \in 0..MaxEdits
      BY <1>2, <3>2
    <3>4. /\ client' \in [hash : 0..MaxEdits, keyId : 0..MaxEdits,
                          active : BOOLEAN]
          /\ client'.keyId = client.keyId + 1
      BY <3>1, <3>3
    <3>5. client'.keyId + budget'.edits <= MaxEdits
      BY <1>2, <3>2, <3>3, <3>4
    <3> QED BY <1>2, <3>1, <3>2, <3>4, <3>5
  <2>2. CASE DeactivateClient
    <3>1. /\ client' = [client EXCEPT !.active = FALSE]
          /\ clobbered' = clobbered /\ held' = held /\ Edit
      BY <2>2 DEF DeactivateClient
    <3>2. /\ budget' \in [edits : 0..MaxEdits, faults : 0..MaxFaults]
          /\ budget.edits \in Nat /\ budget.edits > 0
          /\ budget'.edits = budget.edits - 1
      BY <3>1, EditStep DEF ProcessInv
    <3>3. /\ client' \in [hash : 0..MaxEdits, keyId : 0..MaxEdits,
                          active : BOOLEAN]
          /\ client'.keyId = client.keyId /\ client.keyId \in Nat
      <4>1. client' = [client EXCEPT !.active = FALSE] /\ FALSE \in BOOLEAN
        BY <3>1
      <4>2. client \in [hash : 0..MaxEdits, keyId : 0..MaxEdits,
                        active : BOOLEAN]
        BY <1>2
      <4>3. client' \in [hash : 0..MaxEdits, keyId : 0..MaxEdits,
                         active : BOOLEAN]
        BY <4>1, <4>2
      <4>4. client'.keyId = client.keyId
        BY <4>1, <4>2
      <4>5. client.keyId \in Nat
        BY <4>2, ProcessAssumption
      <4> QED BY <4>3, <4>4, <4>5
    <3>4. client'.keyId + budget'.edits <= MaxEdits
      BY <1>2, <3>2, <3>3
    <3> QED BY <1>2, <3>1, <3>2, <3>3, <3>4
  <2>3. CASE EnsureClient
    BY <1>2, <2>3 DEF EnsureClient, Bootstrap
  <2>4. CASE Redeploy
    BY <1>2, <2>4 DEF Redeploy
  <2> QED BY <2>1, <2>2, <2>3, <2>4
<1>4. ProcessTypeOK' /\ TokensInBudget'
  BY <1>1, <1>3 DEF ProcessInv, ProcessTypeOK, TokensInBudget
<1>5. BootChecked'
  BY <1>1 DEF ProcessInv, BootChecked, MasterKey
<1>6. TasksGrounded'
  BY <1>1, TaskFrame, LoopFacts
<1> QED BY <1>4, <1>5, <1>6 DEF ProcessInv

(* What else an operator replaces.                                         *)
LEMMA SiteStep ==
  ASSUME ProcessInv,
         \/ \E v \in Versions, file \in {"yaml", "sig"} : ReplaceFile(file, v)
         \/ \E s \in Schemas : Migrate(s)
         \/ \E slot \in Slots, key \in Keys \union {NoKey} :
              ReplaceKey(slot, key)
         \/ \E t \in Tasks, e \in Errors \union {Fine} : Upset(t, e)
  PROVE  ProcessInv'
<1>1. /\ UNCHANGED <<client, held, clobbered, proc, queue, store>> /\ Edit
  BY DEF ReplaceFile, Migrate, ReplaceKey, Upset, site
<1>2. /\ budget' \in [edits : 0..MaxEdits, faults : 0..MaxFaults]
      /\ TokensInBudget'
  <2>1. /\ budget' \in [edits : 0..MaxEdits, faults : 0..MaxFaults]
        /\ budget.edits \in Nat /\ budget'.edits = budget.edits - 1
    BY <1>1, EditStep DEF ProcessInv
  <2>2. client.keyId \in Nat /\ MaxEdits \in Nat
    BY ProcessAssumption DEF ProcessInv, ProcessTypeOK
  <2> QED BY <1>1, <2>1, <2>2 DEF ProcessInv, TokensInBudget
<1>3. /\ disk' \in [yaml : Versions, sig : Versions]
      /\ schema' \in Schemas
      /\ material' \in [Slots -> Keys \union {NoKey}]
      /\ changed' \in SUBSET {"config", "keys", "schema"}
      /\ mood' \in [Tasks -> Errors \union {Fine}]
      /\ BootChecked'
  <2>1. /\ disk \in [yaml : Versions, sig : Versions]
        /\ schema \in Schemas
        /\ material \in [Slots -> Keys \union {NoKey}]
        /\ changed \in SUBSET {"config", "keys", "schema"}
        /\ mood \in [Tasks -> Errors \union {Fine}]
        /\ ProcessTypeOK /\ BootChecked
    BY DEF ProcessInv, ProcessTypeOK
  <2> DEFINE Goal == /\ disk' \in [yaml : Versions, sig : Versions]
                     /\ schema' \in Schemas
                     /\ material' \in [Slots -> Keys \union {NoKey}]
                     /\ changed' \in SUBSET {"config", "keys", "schema"}
                     /\ mood' \in [Tasks -> Errors \union {Fine}]
                     /\ BootChecked'
  <2>2. ASSUME NEW v \in Versions, NEW file \in {"yaml", "sig"},
               ReplaceFile(file, v)
        PROVE  Goal
    <3>1. /\ UNCHANGED <<schema, material, mood, proc>>
          /\ disk' = [disk EXCEPT ![file] = v] /\ Touch("config")
      BY <2>2 DEF ReplaceFile
    <3>2. /\ changed' \in SUBSET {"config", "keys", "schema"}
          /\ changed \subseteq changed'
          /\ proc.pc # "down" => "config" \in changed'
      BY <2>1, <3>1, TouchStep
    <3>3. BootChecked'
      BY <2>1, <3>1, <3>2 DEF BootChecked, MasterKey
    <3>4. disk' \in [yaml : Versions, sig : Versions]
      BY <2>1, <3>1
    <3> QED BY <2>1, <3>1, <3>2, <3>3, <3>4
  <2>3. ASSUME NEW s \in Schemas, Migrate(s)
        PROVE  Goal
    <3>1. UNCHANGED <<disk, material, mood, proc>> /\ schema' = s
          /\ Touch("schema")
      BY <2>3 DEF Migrate
    <3>2. /\ changed' \in SUBSET {"config", "keys", "schema"}
          /\ changed \subseteq changed'
          /\ proc.pc # "down" => "schema" \in changed'
      BY <2>1, <3>1, TouchStep
    <3>3. BootChecked'
      BY <2>1, <3>1, <3>2 DEF BootChecked, MasterKey
    <3> QED BY <2>1, <3>1, <3>2, <3>3
  <2>4. ASSUME NEW slot \in Slots, NEW key \in Keys \union {NoKey},
               ReplaceKey(slot, key)
        PROVE  Goal
    <3>1. /\ UNCHANGED <<disk, schema, mood, proc>>
          /\ material' = [material EXCEPT ![slot] = key] /\ Touch("keys")
      BY <2>4 DEF ReplaceKey
    <3>2. /\ changed' \in SUBSET {"config", "keys", "schema"}
          /\ changed \subseteq changed'
          /\ proc.pc # "down" => "keys" \in changed'
      BY <2>1, <3>1, TouchStep
    <3>3. BootChecked'
      BY <2>1, <3>1, <3>2 DEF BootChecked
    <3>4. material' \in [Slots -> Keys \union {NoKey}]
      BY <2>1, <3>1
    <3> QED BY <2>1, <3>1, <3>2, <3>3, <3>4
  <2>5. ASSUME NEW t \in Tasks, NEW e \in Errors \union {Fine}, Upset(t, e)
        PROVE  Goal
    <3>1. UNCHANGED <<disk, schema, material, proc, changed>>
          /\ mood' = [mood EXCEPT ![t] = e]
      BY <2>5 DEF Upset, site
    <3>2. BootChecked'
      BY <2>1, <3>1 DEF BootChecked, MasterKey
    <3>3. mood' \in [Tasks -> Errors \union {Fine}]
      BY <2>1, <3>1
    <3> QED BY <2>1, <3>1, <3>2, <3>3
  <2> QED BY <2>2, <2>3, <2>4, <2>5
<1>4. ProcessTypeOK'
  BY <1>1, <1>2, <1>3 DEF ProcessInv, ProcessTypeOK
<1>5. TasksGrounded'
  BY <1>1, TaskFrame, LoopFacts
<1> QED BY <1>2, <1>3, <1>4, <1>5 DEF ProcessInv

-----------------------------------------------------------------------------

LEMMA InvStep == ProcessInv /\ [ProcessNext]_processVars => ProcessInv'
<1> SUFFICES ASSUME ProcessInv, [ProcessNext]_processVars PROVE ProcessInv'
  OBVIOUS
<1>1. CASE Run
  BY <1>1, StartStep, BootStep, SyncStep, AcknowledgeStep, FlushStep, EndStep,
     SleepStep, SucceedStep, FailStep DEF Run
<1>2. CASE Disturb
  BY <1>2, BootStep, SyncStep, AcknowledgeStep, FlushStep, EndStep,
     DisconnectStep, StrandStep DEF Disturb
<1>3. CASE Operate
  BY <1>3, ClientStep, SiteStep DEF Operate
<1>4. CASE UNCHANGED processVars
  <2>1. UNCHANGED <<disk, schema, material, client, held, clobbered, proc,
                    changed, mood, queue, store, budget>>
    BY <1>4 DEF processVars
  <2>2. ProcessTypeOK' /\ TokensInBudget' /\ BootChecked'
    BY <2>1 DEF ProcessInv, ProcessTypeOK, TokensInBudget, BootChecked,
                MasterKey
  <2>3. TasksGrounded'
    BY <2>1, TaskFrame, LoopFacts
  <2> QED BY <2>2, <2>3 DEF ProcessInv
<1> QED BY <1>1, <1>2, <1>3, <1>4 DEF ProcessNext

(* The types of WorkerProcess, that what a process has read is what there  *)
(* is or was marked as changed, and that rows and tasks in hand are        *)
(* grounded: the inductive invariant of index.ts and worker.ts.            *)
THEOREM ProcessInvariance == ProcessSpec => []ProcessInv
<1> QED BY InvInit, InvStep, PTL DEF ProcessSpec

(* A process in its loop works with the release, the key and the schema    *)
(* its boot checked, or they were replaced since it read them.             *)
THEOREM ChecksHold == ProcessSpec => []RunsWhatWasChecked
<1>1. ProcessInv => RunsWhatWasChecked
  <2> SUFFICES ASSUME ProcessInv, proc.pc \in Loop PROVE RunsWhatWasChecked
    BY DEF RunsWhatWasChecked
  <2>1. /\ disk \in [yaml : Versions, sig : Versions] /\ BootChecked
    BY DEF ProcessInv, ProcessTypeOK
  <2>2. disk = [yaml |-> disk.yaml, sig |-> disk.sig]
    BY <2>1
  <2> QED BY <2>1, <2>2 DEF BootChecked, RunsWhatWasChecked, MasterKey
<1> QED BY <1>1, ProcessInvariance, PTL

(* A task is given up for an error that its execution may be reported for: *)
(* no abort, no WorkerError with a flag, no listed SQLSTATE without a       *)
(* DETAIL; and once its transaction committed, only if it was claimed      *)
(* again or its connection broke.                                          *)
THEOREM FailuresHaveCause == ProcessSpec => []GivenUpForCause
<1>1. ProcessInv => GivenUpForCause
  BY DEF ProcessInv, TasksGrounded, RowsGrounded, GivenUpForCause, Cause,
         Excused
<1> QED BY <1>1, ProcessInvariance, PTL
===============================================================================
