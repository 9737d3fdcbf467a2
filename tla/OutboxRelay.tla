----------------------------- MODULE OutboxRelay -----------------------------
(***************************************************************************)
(* The relay that carries the worker's outbox to the control plane:        *)
(* processOutbox, run after every task by each worker replica.             *)
(*                                                                         *)
(* A batch is claimed in one transaction under a lease; each delivery and  *)
(* each update of a row is a step of its own, outside it.  The update is   *)
(* conditional on the lease token, which is fresh for every claim: as a    *)
(* replica runs one batch at a time, the replica stands for its token.     *)
(*                                                                         *)
(* Row i extends row i - 1, as a single worker writes them (ChainLinear in *)
(* WorkerEngine).  The control plane is external: it has accepted a prefix *)
(* of the chain, answers a row of the prefix as a replay, takes the next   *)
(* row, and refuses any other (CheckHead in ControlPlane).                 *)
(***************************************************************************)
EXTENDS Naturals, FiniteSets

CONSTANTS
  N,           (* rows in the outbox                                       *)
  Priority,    (* the claim's CASE over the event type of each row         *)
  Workers,     (* worker replicas                                          *)
  NoToken,     (* lease_token IS NULL                                      *)
  BatchSize,   (* outbox.batch_size                                        *)
  MaxAttempts, (* outbox.max_attempts                                      *)
  Failures     (* bound: crashes, lost answers and outlived leases         *)

Rows == 1..N
RowStatus == {"none", "pending", "leased", "processed", "dead_letter"}

ASSUME RelayAssumption ==
  /\ N \in Nat /\ Priority \in [Rows -> 0..3]
  /\ NoToken \notin Workers
  /\ BatchSize \in Nat \ {0} /\ MaxAttempts \in Nat \ {0}
  /\ Failures \in Nat

VARIABLES
  row,       (* status, attempts and lease of every outbox row             *)
  batch,     (* the rows each replica has claimed and not yet handled      *)
  reply,     (* the answer to the delivery it made last                    *)
  accepted,  (* rows in the control plane's ledger                         *)
  budget     (* failures the environment has left                          *)

relayVars == <<row, batch, reply, accepted, budget>>

OutboxRow == [status : RowStatus, attempts : 0..MaxAttempts, due : BOOLEAN,
              token : Workers \union {NoToken}, held : BOOLEAN]
Replies == {"none", "ok", "retryable", "fatal"}
RelayTypeOK ==
  /\ row \in [Rows -> OutboxRow]
  /\ batch \in [Workers -> SUBSET Rows]
  /\ reply \in [Workers -> Replies]
  /\ accepted \in 0..N
  /\ budget \in 0..Failures

RelayInit ==
  /\ row = [i \in Rows |-> [status |-> "none", attempts |-> 0, due |-> TRUE,
                            token |-> NoToken, held |-> FALSE]]
  /\ batch = [w \in Workers |-> {}]
  /\ reply = [w \in Workers |-> "none"]
  /\ accepted = 0
  /\ budget = Failures

-----------------------------------------------------------------------------

(* A mutation commits the next row (enqueueOutboxEvent).                   *)
Enqueue(i) ==
  /\ row[i].status = "none"
  /\ i > 1 => row[i - 1].status # "none"
  /\ row' = [row EXCEPT ![i].status = "pending"]
  /\ UNCHANGED <<batch, reply, accepted, budget>>

(* Mutant: rows whose lease ran out are not claimed again.                 *)
Claimable_PendingOnly(i) == row[i].status = "pending" /\ row[i].due

Claimable(i) ==
  /\ \/ row[i].status = "pending"
     \/ row[i].status = "leased" /\ ~row[i].held
  /\ row[i].due

(* ORDER BY priority, created_at.                                          *)
Precedes(i, j) ==
  \/ Priority[i] < Priority[j]
  \/ Priority[i] = Priority[j] /\ i < j

(* claimOutboxBatch: the first BatchSize claimable rows.  The replica is   *)
(* between two tasks; a claim of nothing changes nothing.                  *)
Claim(w) ==
  /\ batch[w] = {}
  /\ LET due == {i \in Rows : Claimable(i)}
         taken == {i \in due :
                     Cardinality({j \in due : Precedes(j, i)}) < BatchSize}
     IN /\ taken # {}
        /\ batch' = [batch EXCEPT ![w] = taken]
        /\ row' = [i \in Rows |->
                     IF i \in taken
                     THEN [row[i] EXCEPT !.status = "leased", !.token = w,
                                         !.held = TRUE]
                     ELSE row[i]]
  /\ UNCHANGED <<reply, accepted, budget>>

-----------------------------------------------------------------------------
(* Delivery of the rows of a batch, in the order of the claim.             *)

Turn(w, i) == i \in batch[w] /\ \A j \in batch[w] \ {i} : Precedes(i, j)
Delivers(w, i) == Turn(w, i) /\ reply[w] = "none"
Answer(w, r) == reply' = [reply EXCEPT ![w] = r]

(* The control plane has the row or takes it, and the answer arrives.      *)
Accept(w, i) ==
  /\ Delivers(w, i)
  /\ i <= accepted + 1
  /\ accepted' = IF i > accepted THEN i ELSE accepted
  /\ Answer(w, "ok")
  /\ UNCHANGED <<row, batch, budget>>

(* It refuses a row that does not extend its chain: any 4xx is fatal.      *)
Refuse(w, i) ==
  /\ Delivers(w, i)
  /\ i > accepted + 1
  /\ Answer(w, "fatal")
  /\ UNCHANGED <<row, batch, accepted, budget>>

(* A timeout or a 5xx, before or after the control plane took the row.     *)
Lose(w, i, reached) ==
  /\ Delivers(w, i)
  /\ budget > 0 /\ budget' = budget - 1
  /\ accepted' = IF reached /\ i = accepted + 1 THEN i ELSE accepted
  /\ Answer(w, "retryable")
  /\ UNCHANGED <<row, batch>>

-----------------------------------------------------------------------------
(* The update after a delivery, conditional on the lease.                  *)

Answered(w, i, r) == Turn(w, i) /\ reply[w] = r

(* Mutant: the update does not compare the lease token.                    *)
Owns_Any(w, i) == TRUE

Owns(w, i) == row[i].status = "leased" /\ row[i].token = w

Stored(i, status, attempts, due) ==
  row' = [row EXCEPT ![i] = [status |-> status, attempts |-> attempts,
                             due |-> due, token |-> NoToken, held |-> FALSE]]
Continue(w, i) ==
  batch' = [batch EXCEPT ![w] = @ \ {i}] /\ Answer(w, "none")
(* An error leaves processOutbox: the rest of the batch stays leased.      *)
Abandon(w) == batch' = [batch EXCEPT ![w] = {}] /\ Answer(w, "none")

MarkProcessed(w, i) ==
  /\ Answered(w, i, "ok")
  /\ Owns(w, i)
  /\ Stored(i, "processed", row[i].attempts, row[i].due)
  /\ Continue(w, i)
  /\ UNCHANGED <<accepted, budget>>

(* Mutant: the attempts are compared one failure too late.                 *)
MarkFailed_Late(w, i) ==
  /\ Answered(w, i, "retryable")
  /\ Owns(w, i)
  /\ Stored(i, IF row[i].attempts >= MaxAttempts THEN "dead_letter"
               ELSE "pending", row[i].attempts + 1, FALSE)
  /\ Continue(w, i)
  /\ UNCHANGED <<accepted, budget>>

(* Mutant: a row is given up on its first failure.                         *)
MarkFailed_AtOnce(w, i) ==
  /\ Answered(w, i, "retryable")
  /\ Owns(w, i)
  /\ Stored(i, "dead_letter", row[i].attempts + 1, TRUE)
  /\ Continue(w, i)
  /\ UNCHANGED <<accepted, budget>>

(* Backoff, or the dead-letter state after the last attempt.               *)
MarkFailed(w, i) ==
  /\ Answered(w, i, "retryable")
  /\ Owns(w, i)
  /\ LET attempts == row[i].attempts + 1
     IN \/ /\ attempts >= MaxAttempts
           /\ Stored(i, "dead_letter", attempts, TRUE)
        \/ /\ attempts < MaxAttempts
           /\ Stored(i, "pending", attempts, FALSE)
  /\ Continue(w, i)
  /\ UNCHANGED <<accepted, budget>>

(* releaseOutboxLease; the error is rethrown, and the process exits and is *)
(* started again.                                                          *)
Release(w, i) ==
  /\ Answered(w, i, "fatal")
  /\ Owns(w, i)
  /\ Stored(i, "pending", row[i].attempts, TRUE)
  /\ Abandon(w)
  /\ UNCHANGED <<accepted, budget>>

(* DPDP_OUTBOX_LEASE_LOST: the update found no row, whatever it was for.   *)
LoseLease(w, i) ==
  /\ Turn(w, i) /\ reply[w] # "none"
  /\ ~Owns(w, i)
  /\ Abandon(w)
  /\ UNCHANGED <<row, accepted, budget>>

-----------------------------------------------------------------------------
(* Time and failure.                                                       *)

InUse(i) == \E w \in Workers : row[i].token = w /\ i \in batch[w]

(* A lease outlived by its delivery counts as a failure.                   *)
LeaseExpires(i) ==
  /\ row[i].status = "leased" /\ row[i].held
  /\ IF InUse(i) THEN budget > 0 /\ budget' = budget - 1 ELSE UNCHANGED budget
  /\ row' = [row EXCEPT ![i].held = FALSE]
  /\ UNCHANGED <<batch, reply, accepted>>

BackoffElapses(i) ==
  /\ row[i].status = "pending" /\ ~row[i].due
  /\ row' = [row EXCEPT ![i].due = TRUE]
  /\ UNCHANGED <<batch, reply, accepted, budget>>

Crash(w) ==
  /\ batch[w] # {}
  /\ budget > 0 /\ budget' = budget - 1
  /\ Abandon(w)
  /\ UNCHANGED <<row, accepted>>

-----------------------------------------------------------------------------

RelayRow(w, i) ==
  \/ Accept(w, i) \/ Refuse(w, i)
  \/ MarkProcessed(w, i) \/ MarkFailed(w, i) \/ Release(w, i)
  \/ LoseLease(w, i)
Relay(w) == Claim(w) \/ \E i \in Rows : RelayRow(w, i)
Time(i) == LeaseExpires(i) \/ BackoffElapses(i)
Fault(w) ==
  Crash(w) \/ \E i \in Rows, reached \in BOOLEAN : Lose(w, i, reached)

RelayNext ==
  \/ \E i \in Rows : Enqueue(i) \/ Time(i)
  \/ \E w \in Workers : Relay(w) \/ Fault(w)

RelaySpec == RelayInit /\ [][RelayNext]_relayVars

(* The loop runs on, the clock advances, and the environment fails only    *)
(* finitely often (Failures); nothing is assumed about who claims what.    *)
RelayFairness ==
  /\ \A w \in Workers : WF_relayVars(Relay(w))
  /\ \A i \in Rows : WF_relayVars(Time(i))
FairRelaySpec == RelaySpec /\ RelayFairness

-----------------------------------------------------------------------------
(* Properties.                                                             *)

(* A row is processed only when the control plane's ledger holds it, and   *)
(* it is given up only after its last attempt; a stale replica's update    *)
(* never counts.                                                           *)
NothingLost ==
  \A i \in Rows :
    /\ row[i].status = "processed" => i <= accepted
    /\ row[i].status = "dead_letter" => row[i].attempts = MaxAttempts

(* What is processed or given up stays so: an update of a replica that     *)
(* lost its lease does not reopen it.                                      *)
SettledIsFinal ==
  [][\A i \in Rows : row[i].status \in {"processed", "dead_letter"}
                     => row'[i] = row[i]]_relayVars

(* After finitely many failures every row is processed, unless it or a row *)
(* it extends was given up.                                                *)
CatchesUp ==
  \A i \in Rows :
    (row[i].status = "pending") ~>
      \/ row[i].status = "processed"
      \/ \E k \in 1..i : row[k].status = "dead_letter"
=============================================================================
