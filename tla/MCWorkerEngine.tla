--------------------------- MODULE MCWorkerEngine ---------------------------
(***************************************************************************)
(* Instances of WorkerEngine for TLC: s1 has dependent data and is         *)
(* vaulted, s2 has none and is hard-deleted; j3 is a request for s2, the   *)
(* others are for s1.                                                      *)
(***************************************************************************)
EXTENDS WorkerEngine, TLC

CONSTANTS j1, j2, j3, j4, s1, s2

Owner == [j \in Jobs |-> IF j = j3 THEN s2 ELSE s1]
AnyRetention == {Retained, Expired}

Symmetry == Permutations(Workers) \union Permutations({j1, j2})
=============================================================================
