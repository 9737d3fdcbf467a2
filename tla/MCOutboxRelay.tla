---------------------------- MODULE MCOutboxRelay ----------------------------
(* Instance of OutboxRelay for TLC: an outbox of vault events, which one    *)
(* worker writes as one chain.                                             *)
EXTENDS OutboxRelay

VaultsOnly == [i \in Rows |-> 3]
=============================================================================
