-------------------------- MODULE MCErasureSystem --------------------------
(* Model-checking instance of ErasureSystem.                               *)
EXTENDS ErasureSystem, TLC

CONSTANTS j1, j2, j3, j4, s1, s2, r1

(* j1 and j4 are for s1, which is vaulted, j2 and j3 for s2, which is       *)
(* deleted at once; j4 is a shadow run.                                    *)
Owner == [j \in Jobs |-> IF j \in {j1, j4} THEN s1 ELSE s2]
OneRule == [s \in Subjects |-> r1]
AllEvents == Event
AnyRetention == {0, 2}  \* Retained and Expired of WorkerEngine
WebhookOrShadow == {[shadow |-> FALSE, webhook |-> TRUE],
                    [shadow |-> TRUE, webhook |-> FALSE]}
Pairs == {{j1, j3}, {j2, j3}, {j4}}
Alone == {{j1}}
=============================================================================
