-------------------------- MODULE OutboxRelayProofs --------------------------
(***************************************************************************)
(* Proofs about OutboxRelay, for any outbox, any order of claims, any      *)
(* number of replicas and failures: the rows' types, that nothing is lost, *)
(* and that what is settled stays so.                                      *)
(***************************************************************************)
EXTENDS OutboxRelay, TLAPS

USE DEF Rows, RowStatus, OutboxRow, Replies

-----------------------------------------------------------------------------
(* At most one row of a batch has its turn.                                *)
LEMMA OneTurn ==
  ASSUME NEW w \in Workers, NEW i \in Rows, NEW j \in Rows,
         Turn(w, i), Turn(w, j)
  PROVE  i = j
<1>1. /\ Priority[i] \in 0..3 /\ Priority[j] \in 0..3
      /\ i \in Nat /\ j \in Nat
  BY RelayAssumption
<1>2. SUFFICES ASSUME i # j PROVE FALSE
  OBVIOUS
<1>3. Precedes(i, j) /\ Precedes(j, i)
  BY <1>2 DEF Turn
<1> QED BY <1>1, <1>3 DEF Precedes

-----------------------------------------------------------------------------
(* The inductive invariant: attempts stay below the maximum until a row is *)
(* given up, an accepted delivery is in the ledger before its row is       *)
(* settled, and a replica without a batch waits for no answer.             *)
AttemptsLeft ==
  \A i \in Rows :
    IF row[i].status = "dead_letter" THEN row[i].attempts = MaxAttempts
                                     ELSE row[i].attempts < MaxAttempts
SettledIsAccepted ==
  /\ \A i \in Rows : row[i].status = "processed" => i <= accepted
  /\ \A w \in Workers, i \in Rows :
       Turn(w, i) /\ reply[w] = "ok" => i <= accepted
IdleWaitsForNothing ==
  \A w \in Workers : batch[w] = {} => reply[w] = "none"

RelayInv ==
  RelayTypeOK /\ AttemptsLeft /\ SettledIsAccepted /\ IdleWaitsForNothing

LEMMA InvInit == RelayInit => RelayInv
BY RelayAssumption
   DEF RelayInit, RelayInv, RelayTypeOK, AttemptsLeft, SettledIsAccepted,
       IdleWaitsForNothing, Turn
-----------------------------------------------------------------------------
(* What the updates of one row preserve, whoever makes them.               *)

(* Rewriting one row, with the attempts in range.                          *)
LEMMA StoredRow ==
  ASSUME RelayInv, NEW i \in Rows, NEW status \in RowStatus,
         NEW attempts \in 0..MaxAttempts, NEW due \in BOOLEAN,
         Stored(i, status, attempts, due)
  PROVE  /\ row' \in [Rows -> OutboxRow]
         /\ row'[i].status = status /\ row'[i].attempts = attempts
         /\ \A k \in Rows \ {i} : row'[k] = row[k]
BY DEF Stored, RelayInv, RelayTypeOK

(* Handling a row of a batch leaves the replica without an answer.         *)
LEMMA ContinueBatch ==
  ASSUME RelayInv, NEW w \in Workers, NEW i, Continue(w, i) \/ Abandon(w)
  PROVE  /\ batch' \in [Workers -> SUBSET Rows]
         /\ reply' \in [Workers -> Replies]
         /\ reply'[w] = "none"
         /\ \A v \in Workers \ {w} : batch'[v] = batch[v] /\ reply'[v] = reply[v]
BY DEF Continue, Abandon, Answer, RelayInv, RelayTypeOK

(* What one replica does to its batch and its answer leaves the invariant  *)
(* when the answer is none and the rows and the ledger respect theirs.     *)
LEMMA SettledStep ==
  ASSUME RelayInv, NEW w \in Workers,
         accepted' \in 0..N, accepted <= accepted',
         \A i \in Rows : row'[i].status = "processed" => i <= accepted',
         reply'[w] = "none",
         \A v \in Workers \ {w} : batch'[v] = batch[v] /\ reply'[v] = reply[v]
  PROVE  SettledIsAccepted' /\ IdleWaitsForNothing'
<1>1. ASSUME NEW v \in Workers, NEW i \in Rows, Turn(v, i)', reply'[v] = "ok"
      PROVE  i <= accepted'
  <2>1. v # w
    BY <1>1
  <2>2. Turn(v, i) /\ reply[v] = "ok"
    BY <1>1, <2>1 DEF Turn, Precedes
  <2>3. i <= accepted /\ i \in Nat /\ accepted \in Nat /\ accepted' \in Nat
    BY <2>2, RelayAssumption DEF RelayInv, SettledIsAccepted, RelayTypeOK
  <2> QED BY <2>3
<1>2. IdleWaitsForNothing'
  BY DEF RelayInv, IdleWaitsForNothing
<1> QED BY <1>1, <1>2 DEF SettledIsAccepted

(* A step that leaves batches and answers alone.                           *)
LEMMA RowStep ==
  ASSUME RelayInv, UNCHANGED <<batch, reply, accepted>>,
         \A i \in Rows : row'[i].status = "processed" => row[i].status = "processed"
  PROVE  SettledIsAccepted' /\ IdleWaitsForNothing'
BY DEF RelayInv, SettledIsAccepted, IdleWaitsForNothing, Turn, Precedes

-----------------------------------------------------------------------------
(* The steps.                                                              *)

LEMMA TimeStep ==
  ASSUME RelayInv, NEW i \in Rows, Enqueue(i) \/ Time(i)
  PROVE  RelayInv'
<1>1. RelayTypeOK' /\ AttemptsLeft'
  <2>1. PICK r \in OutboxRow :
          /\ row' = [row EXCEPT ![i] = r]
          /\ r.attempts = row[i].attempts
          /\ r.status = "dead_letter" <=> row[i].status = "dead_letter"
    <3>1. row[i] \in OutboxRow
      BY DEF RelayInv, RelayTypeOK
    <3>2. CASE Enqueue(i)
      <4> DEFINE r == [row[i] EXCEPT !.status = "pending"]
      <4>1. row' = [row EXCEPT ![i] = r]
        BY <3>2 DEF Enqueue
      <4>2. r \in OutboxRow /\ r.attempts = row[i].attempts
            /\ r.status # "dead_letter" /\ row[i].status # "dead_letter"
        BY <3>1, <3>2 DEF Enqueue
      <4> HIDE DEF r
      <4> QED BY <4>1, <4>2
    <3>3. CASE LeaseExpires(i)
      <4> DEFINE r == [row[i] EXCEPT !.held = FALSE]
      <4>1. row' = [row EXCEPT ![i] = r]
        BY <3>3 DEF LeaseExpires
      <4>2. r \in OutboxRow /\ r.attempts = row[i].attempts
            /\ r.status = row[i].status
        BY <3>1
      <4> HIDE DEF r
      <4> QED BY <4>1, <4>2
    <3>4. CASE BackoffElapses(i)
      <4> DEFINE r == [row[i] EXCEPT !.due = TRUE]
      <4>1. row' = [row EXCEPT ![i] = r]
        BY <3>4 DEF BackoffElapses
      <4>2. r \in OutboxRow /\ r.attempts = row[i].attempts
            /\ r.status = row[i].status
        BY <3>1
      <4> HIDE DEF r
      <4> QED BY <4>1, <4>2
    <3> QED BY <3>2, <3>3, <3>4 DEF Time
  <2>2. budget' \in 0..Failures
    BY RelayAssumption
       DEF RelayInv, RelayTypeOK, Enqueue, Time, LeaseExpires, BackoffElapses
  <2>3. UNCHANGED <<batch, reply, accepted>>
    BY DEF Enqueue, Time, LeaseExpires, BackoffElapses
  <2> QED BY <2>1, <2>2, <2>3 DEF RelayInv, RelayTypeOK, AttemptsLeft
<1>2. SettledIsAccepted' /\ IdleWaitsForNothing'
  <2>1. \A k \in Rows : row'[k].status = "processed" => row[k].status = "processed"
    BY DEF RelayInv, RelayTypeOK, Enqueue, Time, LeaseExpires, BackoffElapses
  <2> QED BY <2>1, RowStep DEF Enqueue, Time, LeaseExpires, BackoffElapses
<1> QED BY <1>1, <1>2 DEF RelayInv

LEMMA ClaimStep ==
  ASSUME RelayInv, NEW w \in Workers, Claim(w)
  PROVE  RelayInv'
<1>1. PICK taken \in SUBSET {i \in Rows : Claimable(i)} :
        /\ batch' = [batch EXCEPT ![w] = taken]
        /\ row' = [i \in Rows |->
                     IF i \in taken
                     THEN [row[i] EXCEPT !.status = "leased", !.token = w,
                                         !.held = TRUE]
                     ELSE row[i]]
  BY DEF Claim
<1>2. batch[w] = {} /\ UNCHANGED <<reply, accepted, budget>>
  BY DEF Claim
<1>3. RelayTypeOK'
  <2>1. ASSUME NEW i \in Rows
        PROVE  row'[i] \in OutboxRow
    <3>1. row[i] \in OutboxRow
      BY DEF RelayInv, RelayTypeOK
    <3>2. [row[i] EXCEPT !.status = "leased", !.token = w, !.held = TRUE]
            \in OutboxRow
      BY <3>1 DEF OutboxRow, RowStatus
    <3> QED BY <1>1, <3>1, <3>2
  <2>2. row' \in [Rows -> OutboxRow]
    BY <1>1, <2>1
  <2>3. batch' \in [Workers -> SUBSET Rows]
    BY <1>1 DEF RelayInv, RelayTypeOK
  <2> QED BY <1>2, <2>2, <2>3 DEF RelayInv, RelayTypeOK
<1>4. AttemptsLeft'
  BY <1>1 DEF RelayInv, RelayTypeOK, AttemptsLeft, Claimable
<1>5. SettledIsAccepted' /\ IdleWaitsForNothing'
  <2>1. reply'[w] = "none"
    BY <1>2 DEF RelayInv, IdleWaitsForNothing
  <2>2. \A i \in Rows : row'[i].status = "processed" => i <= accepted'
    BY <1>1, <1>2 DEF RelayInv, RelayTypeOK, SettledIsAccepted
  <2>3. \A v \in Workers \ {w} : batch'[v] = batch[v] /\ reply'[v] = reply[v]
    BY <1>1, <1>2 DEF RelayInv, RelayTypeOK
  <2>4. accepted' \in 0..N /\ accepted <= accepted'
    BY <1>2, RelayAssumption DEF RelayInv, RelayTypeOK
  <2> QED BY <2>1, <2>2, <2>3, <2>4, SettledStep
<1> QED BY <1>3, <1>4, <1>5 DEF RelayInv

(* The answer to a delivery: the ledger may have grown, up to the row.     *)
LEMMA AnswerStep ==
  ASSUME RelayInv, NEW w \in Workers, NEW i \in Rows,
         \/ Accept(w, i) \/ Refuse(w, i)
         \/ \E reached \in BOOLEAN : Lose(w, i, reached)
  PROVE  RelayInv'
<1>1. PICK r \in Replies :
        /\ reply' = [reply EXCEPT ![w] = r]
        /\ r = "ok" => i <= accepted'
        /\ UNCHANGED <<row, batch>>
        /\ Turn(w, i)
        /\ accepted' = accepted \/ (i > accepted /\ accepted' = i)
  BY RelayAssumption
     DEF Accept, Refuse, Lose, Answer, Delivers, RelayInv, RelayTypeOK
<1>2. accepted' \in 0..N /\ accepted <= accepted'
  BY <1>1, RelayAssumption DEF RelayInv, RelayTypeOK
<1>3. RelayTypeOK'
  <2>1. budget' \in 0..Failures
    BY RelayAssumption DEF Accept, Refuse, Lose, RelayInv, RelayTypeOK
  <2> QED BY <1>1, <1>2, <2>1 DEF RelayInv, RelayTypeOK
<1>4. AttemptsLeft'
  BY <1>1 DEF RelayInv, AttemptsLeft
<1>5. \A k \in Rows : row'[k].status = "processed" => k <= accepted'
  BY <1>1, <1>2, RelayAssumption DEF RelayInv, SettledIsAccepted, RelayTypeOK
<1>6. ASSUME NEW v \in Workers, NEW k \in Rows, Turn(v, k)', reply'[v] = "ok"
      PROVE  k <= accepted'
  <2>1. Turn(v, k)
    BY <1>1, <1>6 DEF Turn, Precedes
  <2>2. CASE v = w
    <3>1. k = i
      BY <1>1, <2>1, <2>2, OneTurn
    <3> QED BY <1>1, <1>6, <2>2, <3>1 DEF RelayInv, RelayTypeOK
  <2>3. CASE v # w
    <3>1. k <= accepted
      BY <1>1, <1>6, <2>1, <2>3 DEF RelayInv, SettledIsAccepted, RelayTypeOK
    <3> QED BY <3>1, <1>2, RelayAssumption DEF RelayInv, RelayTypeOK
  <2> QED BY <2>2, <2>3
<1>7. IdleWaitsForNothing'
  BY <1>1 DEF RelayInv, RelayTypeOK, IdleWaitsForNothing, Turn
<1> QED BY <1>3, <1>4, <1>5, <1>6, <1>7 DEF RelayInv, SettledIsAccepted

(* The conditional updates: the row was leased, so attempts were left.     *)
LEMMA UpdateStep ==
  ASSUME RelayInv, NEW w \in Workers, NEW i \in Rows,
         MarkProcessed(w, i) \/ MarkFailed(w, i) \/ Release(w, i)
  PROVE  RelayInv'
<1>1. row[i].status = "leased" /\ row[i].attempts \in 0..MaxAttempts
      /\ row[i].attempts < MaxAttempts /\ row[i].due \in BOOLEAN
  BY DEF MarkProcessed, MarkFailed, Release, Owns, RelayInv, RelayTypeOK,
         AttemptsLeft
<1>2. PICK status \in RowStatus, attempts \in 0..MaxAttempts, due \in BOOLEAN :
        /\ Stored(i, status, attempts, due)
        /\ IF status = "dead_letter" THEN attempts = MaxAttempts
                                     ELSE attempts < MaxAttempts
        /\ status = "processed" => reply[w] = "ok"
  <2>1. CASE MarkProcessed(w, i)
    BY <1>1, <2>1 DEF MarkProcessed, Answered
  <2>2. CASE MarkFailed(w, i)
    <3>1. row[i].attempts + 1 \in 0..MaxAttempts /\ MaxAttempts \in Nat
      BY <1>1, RelayAssumption
    <3>2. CASE row[i].attempts + 1 >= MaxAttempts
      <4>1. Stored(i, "dead_letter", row[i].attempts + 1, TRUE)
        BY <2>2, <3>1, <3>2, <1>1 DEF MarkFailed, Stored
      <4>2. row[i].attempts + 1 = MaxAttempts
        BY <3>1, <3>2
      <4> QED BY <3>1, <4>1, <4>2
    <3>3. CASE row[i].attempts + 1 < MaxAttempts
      <4>1. Stored(i, "pending", row[i].attempts + 1, FALSE)
        BY <2>2, <3>1, <3>3, <1>1 DEF MarkFailed, Stored
      <4> QED BY <3>1, <3>3, <4>1
    <3> QED BY <3>1, <3>2, <3>3
  <2>3. CASE Release(w, i)
    BY <1>1, <2>3 DEF Release
  <2> QED BY <2>1, <2>2, <2>3
<1>3. /\ Continue(w, i) \/ Abandon(w)
      /\ Turn(w, i)
      /\ UNCHANGED <<accepted, budget>>
  BY DEF MarkProcessed, MarkFailed, Release, Answered
<1>4. RelayTypeOK'
  <2>1. row' \in [Rows -> OutboxRow]
    BY <1>2, StoredRow DEF RelayInv, RelayTypeOK
  <2>2. /\ batch' \in [Workers -> SUBSET Rows]
        /\ reply' \in [Workers -> Replies]
    BY <1>3, ContinueBatch DEF RelayInv, RelayTypeOK
  <2> QED BY <1>3, <2>1, <2>2 DEF RelayInv, RelayTypeOK
<1>5. AttemptsLeft'
  <2> SUFFICES ASSUME NEW k \in Rows
               PROVE  IF row'[k].status = "dead_letter"
                      THEN row'[k].attempts = MaxAttempts
                      ELSE row'[k].attempts < MaxAttempts
    BY DEF AttemptsLeft
  <2>1. CASE k = i
    BY <1>2, <2>1, StoredRow
  <2>2. CASE k # i
    BY <1>2, <2>2, StoredRow DEF RelayInv, AttemptsLeft
  <2> QED BY <2>1, <2>2
<1>6. SettledIsAccepted' /\ IdleWaitsForNothing'
  <2>1. ASSUME NEW k \in Rows, row'[k].status = "processed"
        PROVE  k <= accepted'
    <3>1. CASE k = i
      BY <1>2, <1>3, <2>1, <3>1, StoredRow DEF RelayInv, SettledIsAccepted
    <3>2. CASE k # i
      BY <1>2, <1>3, <2>1, <3>2, StoredRow DEF RelayInv, SettledIsAccepted
    <3> QED BY <3>1, <3>2
  <2>2. accepted' \in 0..N /\ accepted <= accepted'
    BY <1>3, RelayAssumption DEF RelayInv, RelayTypeOK
  <2>3. /\ reply'[w] = "none"
        /\ \A v \in Workers \ {w} : batch'[v] = batch[v] /\ reply'[v] = reply[v]
    BY <1>3, ContinueBatch
  <2> QED BY <2>1, <2>2, <2>3, SettledStep
<1> QED BY <1>4, <1>5, <1>6 DEF RelayInv

LEMMA AbandonStep ==
  ASSUME RelayInv, NEW w \in Workers,
         Crash(w) \/ \E i \in Rows : LoseLease(w, i)
  PROVE  RelayInv'
<1>1. Abandon(w) /\ UNCHANGED <<row, accepted>>
  BY DEF Crash, LoseLease
<1>2. budget' \in 0..Failures
  BY RelayAssumption DEF Crash, LoseLease, RelayInv, RelayTypeOK
<1>3. /\ batch' \in [Workers -> SUBSET Rows]
      /\ reply' \in [Workers -> Replies]
      /\ reply'[w] = "none"
      /\ \A v \in Workers \ {w} : batch'[v] = batch[v] /\ reply'[v] = reply[v]
  BY <1>1, ContinueBatch
<1>4. RelayTypeOK' /\ AttemptsLeft'
  BY <1>1, <1>2, <1>3 DEF RelayInv, RelayTypeOK, AttemptsLeft
<1>5. /\ accepted' \in 0..N /\ accepted <= accepted'
      /\ \A i \in Rows : row'[i].status = "processed" => i <= accepted'
  BY <1>1, RelayAssumption DEF RelayInv, RelayTypeOK, SettledIsAccepted
<1>6. SettledIsAccepted' /\ IdleWaitsForNothing'
  BY <1>3, <1>5, SettledStep
<1> QED BY <1>4, <1>6 DEF RelayInv

LEMMA InvNext == RelayInv /\ [RelayNext]_relayVars => RelayInv'
<1> SUFFICES ASSUME RelayInv, [RelayNext]_relayVars PROVE RelayInv'
  OBVIOUS
<1>1. CASE \E i \in Rows : Enqueue(i) \/ Time(i)
  BY <1>1, TimeStep
<1>2. CASE \E w \in Workers : Relay(w)
  BY <1>2, ClaimStep, AnswerStep, UpdateStep, AbandonStep DEF Relay, RelayRow
<1>3. CASE \E w \in Workers : Fault(w)
  BY <1>3, AnswerStep, AbandonStep DEF Fault
<1>4. CASE UNCHANGED relayVars
  BY <1>4 DEF relayVars, RelayInv, RelayTypeOK, AttemptsLeft,
              SettledIsAccepted, IdleWaitsForNothing, Turn, Precedes
<1> QED BY <1>1, <1>2, <1>3, <1>4 DEF RelayNext

-----------------------------------------------------------------------------
(* The theorems.                                                           *)

(* The relay's invariant: attempts are left until a row is given up, and   *)
(* what counts as delivered is in the control plane's ledger.              *)
THEOREM RelayInvariance == RelaySpec => []RelayInv
<1>1. RelayInit => RelayInv
  BY InvInit
<1>2. RelayInv /\ [RelayNext]_relayVars => RelayInv'
  BY InvNext
<1> QED BY <1>1, <1>2, PTL DEF RelaySpec

(* Every row, batch and answer is of its type; in particular no row is     *)
(* tried more often than outbox.max_attempts (markOutboxEventFailed).      *)
THEOREM RelayTypes == RelaySpec => []RelayTypeOK
<1>1. RelayInv => RelayTypeOK
  BY DEF RelayInv
<1> QED BY <1>1, RelayInvariance, PTL

(* A row is marked processed only when the control plane has it, and given *)
(* up only after its last attempt, whatever answers are lost and whichever *)
(* replica comes late (markOutboxEventProcessed, markOutboxEventFailed).   *)
THEOREM NoLoss == RelaySpec => []NothingLost
<1>1. RelayInv => NothingLost
  BY DEF RelayInv, AttemptsLeft, SettledIsAccepted, NothingLost
<1> QED BY <1>1, RelayInvariance, PTL

(* A settled row is never touched again: every update is conditional on    *)
(* the row still being leased to the replica that makes it.                *)
THEOREM SettledStays == RelaySpec => SettledIsFinal
<1> DEFINE Final == \A i \in Rows : row[i].status \in {"processed", "dead_letter"}
                                     => row'[i] = row[i]
<1>1. ASSUME RelayInv, RelayNext PROVE Final
  <2> SUFFICES ASSUME NEW i \in Rows, row[i].status \in {"processed", "dead_letter"}
               PROVE  row'[i] = row[i]
    OBVIOUS
  <2> USE DEF RelayInv, RelayTypeOK
  <2>1. CASE \E k \in Rows : Enqueue(k) \/ Time(k)
    BY <1>1, <2>1 DEF Enqueue, Time, LeaseExpires, BackoffElapses
  <2>2. CASE \E w \in Workers : Claim(w)
    BY <1>1, <2>2 DEF Claim, Claimable
  <2>3. CASE \E w \in Workers, k \in Rows : RelayRow(w, k)
    BY <1>1, <2>3 DEF RelayRow, Accept, Refuse, MarkProcessed, MarkFailed,
                      Release, LoseLease, Owns, Stored
  <2>4. CASE \E w \in Workers : Fault(w)
    BY <1>1, <2>4 DEF Fault, Crash, Lose
  <2> QED BY <1>1, <2>1, <2>2, <2>3, <2>4 DEF RelayNext, Relay
<1>2. RelayInv /\ [RelayNext]_relayVars => [Final]_relayVars
  BY <1>1
<1> QED BY <1>2, RelayInvariance, PTL DEF RelaySpec, SettledIsFinal
=============================================================================
