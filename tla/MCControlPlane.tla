--------------------------- MODULE MCControlPlane ---------------------------
(* Model-checking instance of ControlPlane.                                *)
EXTENDS ControlPlane, TLC

CONSTANTS r1, r2  \* members of Rules

Ev(j, type, rule, prev) == [job |-> j, type |-> type, rule |-> rule,
                            prev |-> prev]

(* The history a worker produces before it shreds.                         *)
ChainEvents == UNION {
  {Ev(j, "USER_VAULTED", r1, Genesis),
   Ev(j, "NOTIFICATION_SENT", r1, <<j, "USER_VAULTED">>)} : j \in Jobs}

(* Deviations the handlers check for: a second rule, a hard delete and a   *)
(* shred behind a vault event, a key that comes back with another chain    *)
(* position.                                                               *)
DeviantEvents == UNION {
  {Ev(j, "USER_VAULTED", r1, Genesis),
   Ev(j, "NOTIFICATION_SENT", r2, <<j, "USER_VAULTED">>),
   Ev(j, "SHRED_SUCCESS", r1, <<j, "USER_VAULTED">>),
   Ev(j, "USER_HARD_DELETED", r1, <<j, "USER_VAULTED">>),
   Ev(j, "USER_VAULTED", r1, <<j, "USER_HARD_DELETED">>)} : j \in Jobs}

NoEvent == {}

Plain == {[shadow |-> FALSE, webhook |-> FALSE]}
WithWebhook == {[shadow |-> FALSE, webhook |-> TRUE]}
ShadowOrLive == [shadow : BOOLEAN, webhook : {FALSE}]

(* Bounds of the ingestion runs: the client is not deactivated and no      *)
(* lease expires; Early, for the larger event set, also has no deferred    *)
(* deadline pass.                                                          *)
LeasesHold ==
  /\ client.active
  /\ \A t \in TaskIds : task[t].status = "DISPATCHED" => task[t].leased
Early  == LeasesHold /\ \A j \in Jobs : age[j] <= Cooled

Symmetry == Permutations(Handlers) \union Permutations(Configs)
=============================================================================
