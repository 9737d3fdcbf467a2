--------------------------- MODULE ErasurePromise ---------------------------
(***************************************************************************)
(* What the control plane promises about an erasure request, without its   *)
(* tables, queues and handlers: a request is waiting until it is either    *)
(* cancelled for good or taken up for good; only a request taken up gains  *)
(* evidence; evidence is only ever added, stage by stage; and every        *)
(* receipt (certificate, announcement, charge) follows what it attests.    *)
(***************************************************************************)

CONSTANTS
  Jobs,     (* erasure requests                                            *)
  Events,   (* records with at least a job and a type                      *)
  Receipts  (* certificates: records with at least a job and a type        *)

VARIABLES
  stage,      (* how far each request has come                             *)
  accepted,   (* worker events in evidence                                 *)
  issued,     (* certificates                                              *)
  announced,  (* job and type of each terminal webhook received            *)
  charged     (* job and type of each event billed                         *)

promise == <<stage, accepted, issued, announced, charged>>

Stages   == {"none", "waiting", "active", "cancelled"}
Terminal == {"USER_HARD_DELETED", "SHRED_SUCCESS"}

Attests(set, j, type) == \E r \in set : r.job = j /\ r.type = type

PInit ==
  /\ stage = [j \in Jobs |-> "none"]
  /\ accepted = {} /\ issued = {} /\ announced = {} /\ charged = {}

Move(j, from, to) ==
  /\ stage[j] = from
  /\ stage' = [stage EXCEPT ![j] = to]
  /\ UNCHANGED <<accepted, issued, announced, charged>>

Accept(e) ==
  /\ stage[e.job] = "active"
  /\ ~Attests(accepted, e.job, e.type)
  /\ e.type = "NOTIFICATION_SENT" => Attests(accepted, e.job, "USER_VAULTED")
  /\ e.type = "SHRED_SUCCESS" => Attests(accepted, e.job, "NOTIFICATION_SENT")
  /\ accepted' = accepted \union {e}
  /\ UNCHANGED <<stage, issued, announced, charged>>

Issue(r) ==
  /\ r.type \in Terminal
  /\ Attests(accepted, r.job, r.type)
  /\ \A s \in issued : s.job # r.job
  /\ issued' = issued \union {r}
  /\ UNCHANGED <<stage, accepted, announced, charged>>

Announce(r) ==
  /\ r \in issued
  /\ announced' = announced \union {<<r.job, r.type>>}
  /\ UNCHANGED <<stage, accepted, issued, charged>>

Charge(e) ==
  /\ e \in accepted
  /\ charged' = charged \union {<<e.job, e.type>>}
  /\ UNCHANGED <<stage, accepted, issued, announced>>

PNext ==
  \/ \E j \in Jobs : \/ Move(j, "none", "waiting")
                     \/ Move(j, "waiting", "active")
                     \/ Move(j, "waiting", "cancelled")
  \/ \E e \in Events : Accept(e)
  \/ \E e \in accepted : Charge(e)
  \/ \E r \in Receipts : Issue(r)
  \/ \E r \in issued : Announce(r)

PSpec == PInit /\ [][PNext]_promise
=============================================================================
