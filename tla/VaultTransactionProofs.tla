------------------------ MODULE VaultTransactionProofs ------------------------
(***************************************************************************)
(* The safety of VaultTransaction for any schema, any set of satellites,   *)
(* rows and transactions of the application: the types, that no row of a   *)
(* satellite survives without an excuse, that files are followed, that the *)
(* retention is the one the evidence asks for, and that no row is lost by  *)
(* a key the dependency graph should have refused.                         *)
(*                                                                         *)
(* The first two relate a committed outcome to rows that the application   *)
(* goes on writing.  So the invariant says what a running transaction has  *)
(* made sure of (Swept, FilesFound), and what the application's locks and  *)
(* the rows' histories leave possible (LocksHold, SeenRowsStay).           *)
(*                                                                         *)
(* The last two rest on the recursive functions Longest and Walk.  Both are*)
(* unrolled first: a function that fits the recursion exists, by induction *)
(* over its domain, and induction itself follows from the least element of *)
(* a set of numbers.                                                       *)
(***************************************************************************)
EXTENDS VaultTransaction, TLAPS, WellFoundedInduction, FiniteSetTheorems

-----------------------------------------------------------------------------
(* The invariant.                                                          *)

Places == {"idle", "root", "plan", "satellites", "finish", "done"}
Running == tx.pc \in {"satellites", "finish"}

TxShape ==
  tx \in [pc : Places, seen : SUBSET Rows, rootSeen : {tx.rootSeen},
          years : {tx.years}, linked : {tx.linked},
          todo : SUBSET DOMAIN Satellites, swept : SUBSET Rows,
          passed : SUBSET Rows, silent : {tx.silent}, files : SUBSET Items]

(* An open transaction of the application found its row as it needs it,    *)
(* and the row is still like that.                                         *)
LocksHold ==
  \A r \in Rows :
    /\ app[r] = "insert" => row[r] = "absent"
    /\ app[r] \in {"update", "delete"} => row[r] = "plain"

(* A row once seen is never absent again.                                  *)
SeenRowsStay == \A r \in tx.seen : row[r] # "absent"

(* What the loops over the satellites have done so far.                    *)
Swept ==
  /\ tx.swept # {} => Running
  /\ \A r \in tx.swept : app[r] = "free" /\ TableOf[r] \in DOMAIN Satellites
  /\ Running => \A r \in tx.seen :
       TableOf[r] \in (DOMAIN Satellites \ blank) \ tx.todo
         => r \in tx.swept \union tx.passed
  /\ tx.pc = "finish" => tx.todo = {}

FilesFound == tx.pc = "finish" => tx.files = Files

(* A transaction that works has no outcome yet; an outcome that is none of *)
(* a vault ends the task.                                                  *)
OneOutcome ==
  /\ outcome.kind = "none" => outcome = Undecided
  /\ Running => outcome = Undecided
  /\ outcome # Undecided /\ ~Done => tx.pc = "done"

(* What a committed outcome says of the rows, whatever happened to them    *)
(* since.                                                                  *)
OutcomeHolds ==
  Done =>
    /\ outcome.seen \subseteq Rows
    /\ rootFile => Followed(Root)
    /\ \A r \in outcome.seen :
         /\ row[r] # "absent"
         /\ TableOf[r] \in DOMAIN Satellites \ blank =>
              r \in outcome.passed \/ row[r] # "plain"
         /\ TableOf[r] \in FileTables =>
              Followed(r) \/ (row[r] # "plain" /\ Hides(TableOf[r]))

VaultInv ==
  /\ VaultTypeOK /\ TxShape
  /\ LocksHold /\ SeenRowsStay
  /\ Swept /\ FilesFound
  /\ OneOutcome /\ OutcomeHolds

LEMMA InvInit == VaultInit => VaultInv
BY VaultAssumption
   DEF VaultInit, VaultInv, VaultTypeOK, TxShape, Places, LocksHold,
       SeenRowsStay, Swept, Running, FilesFound, OneOutcome, Done,
       OutcomeHolds, NoTx, Undecided, Items

-----------------------------------------------------------------------------
(* Steps of the transaction that leave tables and outcome alone.           *)

LEMMA ReadStep ==
  ASSUME VaultInv,
         \/ Snapshot \/ LockRoot \/ LoseRoot \/ AlreadyDone \/ LoseFiles
         \/ Replay \/ \E t \in DOMAIN Satellites : LoseSweep(t)
  PROVE  VaultInv'
<1>1. /\ UNCHANGED <<row, outcome, blank, rootFile, app, schema>>
      /\ moved' \subseteq Items /\ root' = root
  BY DEF VaultInv, VaultTypeOK, Snapshot, LockRoot, LoseRoot, AlreadyDone,
         LoseFiles, Replay, LoseSweep, RollBack, Static, Database
<1>2. /\ tx'.pc \in {"idle", "root", "plan", "done"}
      /\ tx'.swept = {}
      /\ tx'.seen \subseteq Rows /\ \A r \in tx'.seen : row[r] # "absent"
      /\ outcome # Undecided /\ ~Done => tx'.pc = "done"
      /\ TxShape'
  <2>1. CASE Snapshot
    BY <2>1 DEF VaultInv, VaultTypeOK, OneOutcome, Snapshot, At, NoTx, TxShape,
                Places
  <2>2. CASE LockRoot
    BY <2>2 DEF VaultInv, VaultTypeOK, OneOutcome, LockRoot, At, TxShape,
                Places, SeenRowsStay, Swept, Running
  <2>3. CASE LoseRoot \/ LoseFiles \/ \E t \in DOMAIN Satellites : LoseSweep(t)
    BY <2>3 DEF VaultInv, OneOutcome, LoseRoot, LoseFiles, LoseSweep, RollBack,
                At, NoTx, TxShape, Places, Running
  <2>4. CASE AlreadyDone
    BY <2>4 DEF AlreadyDone, NoTx, TxShape, Places
  <2>5. CASE Replay
    BY <2>5 DEF Replay, Done, NoTx, TxShape, Places
  <2> QED BY <2>1, <2>2, <2>3, <2>4, <2>5
<1>3. /\ writes' \in 0..MaxWrites /\ replays' \in 0..MaxReplays
  BY VaultAssumption
  DEF VaultInv, VaultTypeOK, Snapshot, LockRoot, LoseRoot, AlreadyDone,
         LoseFiles, Replay, LoseSweep, RollBack, Static
<1>4. VaultTypeOK'
  BY <1>1, <1>2, <1>3 DEF VaultInv, VaultTypeOK
<1>5. LocksHold' /\ SeenRowsStay' /\ Swept' /\ FilesFound'
  BY <1>1, <1>2 DEF VaultInv, LocksHold, SeenRowsStay, Swept, Running,
                    FilesFound
<1>6. OneOutcome' /\ OutcomeHolds'
  BY <1>1, <1>2 DEF VaultInv, OneOutcome, OutcomeHolds, Followed, Running, Done
<1> QED BY <1>2, <1>4, <1>5, <1>6 DEF VaultInv

(* ... and those of the work itself.                                       *)

LEMMA PlanStep == VaultInv /\ Plan => VaultInv'
<1> SUFFICES ASSUME VaultInv, Plan PROVE VaultInv'
  OBVIOUS
<1>1. /\ UNCHANGED <<row, outcome, blank, rootFile, app, schema, moved, root,
                     writes, replays>>
  BY DEF Plan, Static, Database
<1>2. PICK linked, years :
        tx' = [tx EXCEPT !.pc = "satellites", !.linked = linked,
                         !.years = years, !.todo = DOMAIN Satellites \ blank]
  BY DEF Plan
<1>3. /\ TxShape' /\ tx'.pc = "satellites" /\ tx'.seen = tx.seen
      /\ tx'.swept = tx.swept /\ tx'.todo = DOMAIN Satellites \ blank
  BY <1>2 DEF VaultInv, TxShape, Places
<1>4. tx.swept = {} /\ outcome = Undecided /\ ~Done
  BY DEF VaultInv, Swept, Running, OneOutcome, Plan, Fresh, At, Undecided, Done
<1> QED
  BY <1>1, <1>3, <1>4
  DEF VaultInv, VaultTypeOK, TxShape, LocksHold, SeenRowsStay, Swept,
      FilesFound, OneOutcome, OutcomeHolds, Followed, Running, Done

LEMMA SweepStep ==
  ASSUME VaultInv, NEW t \in DOMAIN Satellites, Sweep(t)
  PROVE  VaultInv'
<1>1. /\ UNCHANGED <<row, outcome, blank, rootFile, app, schema, moved, root,
                     writes, replays>>
      /\ tx.pc = "satellites"
  BY DEF Sweep, Static, Database, At
<1>2. PICK B \in Batches(t) :
        \E silent : tx' = [tx EXCEPT !.swept = @ \union B, !.silent = silent]
  BY DEF Sweep
<1>3. B \subseteq tx.seen /\ \A r \in B : r \in Rows /\ app[r] = "free" /\ TableOf[r] = t
  BY <1>2 DEF Batches, Candidates, Within, RowsOf
<1>4. /\ TxShape' /\ tx'.pc = tx.pc /\ tx'.seen = tx.seen /\ tx'.todo = tx.todo
      /\ tx'.swept = tx.swept \union B /\ tx'.passed = tx.passed
  <2>1. PICK silent :
          tx' = [tx EXCEPT !.swept = @ \union B, !.silent = silent]
    BY <1>2
  <2> QED BY <1>3, <2>1 DEF VaultInv, TxShape
<1>5. outcome = Undecided /\ ~Done
  BY <1>1 DEF VaultInv, Running, OneOutcome, Undecided, Done
<1> QED
  BY <1>1, <1>3, <1>4, <1>5
  DEF VaultInv, VaultTypeOK, LocksHold, SeenRowsStay, Swept,
      FilesFound, OneOutcome, OutcomeHolds, Followed, Running, Done

LEMMA EndSweepStep ==
  ASSUME VaultInv, NEW t \in DOMAIN Satellites, EndSweep(t)
  PROVE  VaultInv'
<1>1. /\ UNCHANGED <<row, outcome, blank, rootFile, app, schema, moved, root,
                     writes, replays>>
      /\ tx.pc = "satellites"
      /\ tx' = [tx EXCEPT !.todo = @ \ {t}, !.passed = @ \union Within(t)]
  BY DEF EndSweep, Static, Database, At
<1>2. \A r : r \in Within(t) <=> r \in tx.seen \ tx.swept /\ r \in Rows /\ TableOf[r] = t
  BY DEF Within, RowsOf
<1>3. /\ TxShape' /\ tx'.pc = tx.pc /\ tx'.seen = tx.seen
      /\ tx'.todo = tx.todo \ {t}
      /\ tx'.swept = tx.swept /\ tx'.passed = tx.passed \union Within(t)
  BY <1>1, <1>2 DEF VaultInv, TxShape
<1>4. outcome = Undecided /\ ~Done
  BY <1>1 DEF VaultInv, Running, OneOutcome, Undecided, Done
<1>5. tx.seen \subseteq Rows
  BY DEF VaultInv, VaultTypeOK
<1> QED
  BY <1>1, <1>2, <1>3, <1>4, <1>5
  DEF VaultInv, VaultTypeOK, LocksHold, SeenRowsStay, Swept,
      FilesFound, OneOutcome, OutcomeHolds, Followed, Running, Done

LEMMA CollectStep == VaultInv /\ Collect => VaultInv'
<1> SUFFICES ASSUME VaultInv, Collect PROVE VaultInv'
  OBVIOUS
<1>1. /\ UNCHANGED <<row, outcome, blank, rootFile, app, schema, moved, root,
                     writes, replays>>
      /\ tx.pc = "satellites" /\ tx.todo = {}
      /\ tx' = [tx EXCEPT !.pc = "finish", !.files = Files]
  BY DEF Collect, Static, Database, At
<1>2. Files \subseteq Items
  BY DEF VaultInv, VaultTypeOK, Files, Linked, Items
<1>3. /\ TxShape' /\ tx'.pc = "finish" /\ tx'.seen = tx.seen
      /\ tx'.todo = tx.todo /\ tx'.swept = tx.swept /\ tx'.passed = tx.passed
      /\ tx'.files = Files
  BY <1>1, <1>2 DEF VaultInv, TxShape, Places
<1>4. Files' = Files
  BY <1>1, <1>3 DEF Files, Linked, Hidden
<1>5. outcome = Undecided /\ ~Done
  BY <1>1 DEF VaultInv, Running, OneOutcome, Undecided, Done
<1> QED
  BY <1>1, <1>3, <1>4, <1>5
  DEF VaultInv, VaultTypeOK, LocksHold, SeenRowsStay, Swept,
      FilesFound, OneOutcome, OutcomeHolds, Followed, Running, Done

-----------------------------------------------------------------------------
(* Steps that decide the task.                                             *)

LEMMA GiveUpStep ==
  ASSUME VaultInv,
         \/ RootMissing \/ Refuse \/ ShadowRollback
         \/ \E t \in DOMAIN Satellites : BlockedSweep(t)
  PROVE  VaultInv'
<1>1. /\ UNCHANGED <<row, blank, rootFile, app, schema, moved, root, writes,
                     replays>>
      /\ tx' = [NoTx EXCEPT !.pc = "done"]
  BY DEF RootMissing, Refuse, ShadowRollback, BlockedSweep, Decide, Static,
         Database
<1>2. /\ TxShape' /\ tx'.pc = "done" /\ tx'.seen = {} /\ tx'.swept = {}
  BY <1>1 DEF TxShape, Places, NoTx
<1>3. PICK kind \in {"missing", "refused", "shadow", "blocked"} :
        outcome' = IF outcome = Undecided THEN [kind |-> kind] ELSE outcome
  BY DEF RootMissing, Refuse, ShadowRollback, BlockedSweep, Decide
<1>4. outcome = Undecided
  BY DEF VaultInv, Running, OneOutcome, Undecided, Done, RootMissing, Refuse,
         Fresh, ShadowRollback, BlockedSweep, At
<1>5. outcome'.kind = kind /\ ~Done'
  BY <1>3, <1>4 DEF Done
<1> QED
  BY <1>1, <1>2, <1>5
  DEF VaultInv, VaultTypeOK, LocksHold, SeenRowsStay, Swept,
      FilesFound, OneOutcome, OutcomeHolds, Followed, Running

LEMMA CommitStep == VaultInv /\ Commit => VaultInv'
<1> SUFFICES ASSUME VaultInv, Commit PROVE VaultInv'
  OBVIOUS
<1>1. /\ UNCHANGED <<blank, rootFile, app, schema, moved, writes, replays>>
      /\ tx.pc = "finish" /\ tx' = [NoTx EXCEPT !.pc = "done"]
      /\ root' \in {"masked", "gone"}
  BY DEF Commit, Decide, Static, At
<1>2. outcome = Undecided
  BY <1>1 DEF VaultInv, Running, OneOutcome
<1>3. outcome' = Result
  BY <1>2 DEF Commit, Decide
<1>4. /\ outcome'.kind = IF Erased THEN "hard_deleted" ELSE "vaulted"
      /\ outcome'.seen = tx.seen /\ outcome'.passed = tx.passed
      /\ outcome'.files = tx.files
  BY <1>3 DEF Result
<1>5. \A r \in Rows : IF r \in tx.swept THEN row'[r] \in {"masked", "gone"}
                                       ELSE row'[r] = row[r]
  BY DEF Commit
<1>6. row' \in [Rows -> {"absent", "plain", "masked", "gone"}]
  BY DEF Commit, VaultInv, VaultTypeOK
<1>7. /\ TxShape' /\ tx'.pc = "done" /\ tx'.seen = {} /\ tx'.swept = {}
  BY <1>1 DEF TxShape, Places, NoTx
<1>8. VaultTypeOK'
  BY <1>1, <1>4, <1>6, <1>7 DEF VaultInv, VaultTypeOK
<1>9. LocksHold'
  BY <1>1, <1>5 DEF VaultInv, LocksHold, Swept
<1>10. OutcomeHolds'
  <2>1. tx.seen \subseteq Rows /\ tx.swept \subseteq tx.seen
    BY DEF VaultInv, VaultTypeOK
  <2>5. rootFile' => Followed(Root)'
    BY <1>1, <1>4 DEF VaultInv, FilesFound, Files, Erased, Followed
  <2> SUFFICES ASSUME NEW r \in tx.seen
               PROVE  /\ row'[r] # "absent"
                      /\ TableOf[r] \in DOMAIN Satellites \ blank =>
                           r \in tx.passed \/ row'[r] # "plain"
                      /\ TableOf[r] \in FileTables =>
                           \/ r \in tx.files /\ outcome'.kind = "vaulted"
                           \/ row'[r] # "plain" /\ Hides(TableOf[r])
    BY <1>1, <1>4, <2>1, <2>5 DEF OutcomeHolds, Followed
  <2>2. row'[r] # "absent"
    BY <1>5, <2>1 DEF VaultInv, SeenRowsStay
  <2>3. TableOf[r] \in DOMAIN Satellites \ blank =>
          r \in tx.passed \/ row'[r] # "plain"
    BY <1>1, <1>5, <2>1 DEF VaultInv, Swept, Running
  <2>4. ASSUME TableOf[r] \in FileTables
        PROVE  \/ r \in tx.files /\ outcome'.kind = "vaulted"
               \/ row'[r] # "plain" /\ Hides(TableOf[r])
    <3>1. CASE Hidden(r)
      BY <1>5, <2>1, <3>1 DEF VaultInv, Swept, Hidden
    <3>2. CASE ~Hidden(r)
      BY <1>1, <1>4, <2>4, <3>2 DEF VaultInv, FilesFound, Files, Linked, Erased
    <3> QED BY <3>1, <3>2
  <2> QED BY <2>2, <2>3, <2>4
<1> QED
  BY <1>1, <1>4, <1>7, <1>8, <1>9, <1>10
  DEF VaultInv, SeenRowsStay, Swept, FilesFound, OneOutcome, Running,
      Undecided, Done

-----------------------------------------------------------------------------
(* Steps of the application.                                               *)

LEMMA WriteStep ==
  ASSUME VaultInv, NEW x \in Busy, NEW op \in {"insert", "update", "delete"},
         Write(x, op)
  PROVE  VaultInv'
<1>1. /\ UNCHANGED <<schema, blank, shadow, rootFile, tx, replays, root, row,
                     moved, outcome>>
      /\ writes' = writes + 1 /\ writes < MaxWrites
      /\ app' = [app EXCEPT ![x] = op] /\ x \notin Locked /\ Possible(x, op)
  BY DEF Write, Database
<1>2. x \in Items /\ Root \notin Rows /\ MaxWrites \in Nat
  BY VaultAssumption
<1>3. VaultTypeOK'
  BY <1>1, <1>2 DEF VaultInv, VaultTypeOK
<1>4. LocksHold'
  BY <1>1, <1>2 DEF VaultInv, VaultTypeOK, LocksHold, Possible, Items
<1>5. Swept'
  BY <1>1, <1>2 DEF VaultInv, VaultTypeOK, Swept, Running, Locked, Items
<1> QED
  BY <1>1, <1>3, <1>4, <1>5
  DEF VaultInv, TxShape, SeenRowsStay, FilesFound, Files, Linked, Hidden,
      OneOutcome, OutcomeHolds, Followed, Running, Done

LEMMA EndWriteStep ==
  ASSUME VaultInv, NEW x \in Busy, EndWrite(x)
  PROVE  VaultInv'
<1>1. /\ UNCHANGED <<schema, blank, shadow, rootFile, tx, outcome, writes,
                     replays>>
      /\ app[x] # "free" /\ app' = [app EXCEPT ![x] = "free"]
  BY DEF EndWrite
<1>2. x \in Items /\ Root \notin Rows
  BY VaultAssumption
<1>3. /\ row' \in [Rows -> {"absent", "plain", "masked", "gone"}]
      /\ root' \in {"plain", "masked", "gone"} /\ moved' \subseteq Items
      /\ \A r \in Rows : r # x => row'[r] = row[r]
      /\ x \in Rows => row'[x] = row[x]
                       \/ row'[x] = IF app[x] = "delete" THEN "gone" ELSE "plain"
  BY <1>2 DEF EndWrite, VaultInv, VaultTypeOK, Items
<1>4. VaultTypeOK'
  BY <1>1, <1>2, <1>3 DEF VaultInv, VaultTypeOK
<1>5. LocksHold'
  BY <1>1, <1>2, <1>3 DEF VaultInv, VaultTypeOK, LocksHold
<1>6. \A r \in Rows : row[r] # "absent" =>
        row'[r] # "absent" /\ (row[r] # "plain" => row'[r] # "plain")
  BY <1>1, <1>2, <1>3 DEF VaultInv, VaultTypeOK, LocksHold, Items
<1>7. SeenRowsStay' /\ Swept'
  BY <1>1, <1>2, <1>6
  DEF VaultInv, VaultTypeOK, SeenRowsStay, Swept, Running, Items
<1>8. OutcomeHolds'
  BY <1>1, <1>6 DEF VaultInv, OutcomeHolds, Followed, Done
<1> QED
  BY <1>1, <1>4, <1>5, <1>7, <1>8
  DEF VaultInv, TxShape, FilesFound, Files, Linked, Hidden, OneOutcome,
      Running, Done

-----------------------------------------------------------------------------

LEMMA InvStep == VaultInv /\ [VaultNext]_vaultVars => VaultInv'
<1> SUFFICES ASSUME VaultInv, [VaultNext]_vaultVars PROVE VaultInv'
  OBVIOUS
<1>1. CASE Vault
  BY <1>1, ReadStep, PlanStep, SweepStep, EndSweepStep, CollectStep,
     GiveUpStep, CommitStep
  DEF Vault
<1>2. CASE Replay
  BY <1>2, ReadStep
<1>3. CASE \E x \in Busy, op \in {"insert", "update", "delete"} : Write(x, op)
  BY <1>3, WriteStep
<1>4. CASE \E x \in Busy : EndWrite(x)
  BY <1>4, EndWriteStep
<1>5. CASE UNCHANGED vaultVars
  BY <1>5
  DEF vaultVars, VaultInv, VaultTypeOK, TxShape, LocksHold, SeenRowsStay,
      Swept, FilesFound, Files, Linked, Hidden, OneOutcome, OutcomeHolds,
      Followed, Running, Done
<1> QED BY <1>1, <1>2, <1>3, <1>4, <1>5 DEF VaultNext

(* The invariant holds in every reachable state, so a vault transaction    *)
(* always acts on what it made sure of, whatever the application does.     *)
THEOREM VaultInvariance == VaultSpec => []VaultInv
<1>1. VaultInit => VaultInv
  BY InvInit
<1>2. VaultInv /\ [VaultNext]_vaultVars => VaultInv'
  BY InvStep
<1> QED BY <1>1, <1>2, PTL DEF VaultSpec

(* After a committed vault no satellite row holds the subject's value but  *)
(* those the transaction did not see or had to pass over.                  *)
THEOREM SurvivorsAreExcused == VaultSpec => []SurvivorsExcused
<1>1. VaultInv => SurvivorsExcused
  BY DEF VaultInv, OutcomeHolds, SurvivorsExcused
<1> QED BY <1>1, VaultInvariance, PTL

(* The files of a vaulted subject are on record, and a subject with files  *)
(* is not deleted, but for rows a satellite's sweep deleted, or redacted   *)
(* in their root id, before the files were looked for.                     *)
THEOREM FilesAreFollowed == VaultSpec => []FilesFollowed
<1>1. VaultInv => FilesFollowed
  BY DEF VaultInv, OutcomeHolds, FilesFollowed
<1> QED BY <1>1, VaultInvariance, PTL

-----------------------------------------------------------------------------
(* Induction over numbers.                                                 *)

(* A set of numbers has a least element ...                                *)
LEMMA LeastNat ==
  ASSUME NEW S \in SUBSET Nat, S # {}
  PROVE  \E m \in S : \A k \in S : m <= k
<1> DEFINE R == OpToRel(<, Nat)
<1>1. IsWellFoundedOn(R, Nat)
  BY NatLessThanWellFounded
<1>2. \A x, y \in Nat : x < y => <<x, y>> \in R
  BY DEF OpToRel
<1> HIDE DEF R
<1>3. PICK m \in S : \A y \in S : ~ (<<y, m>> \in R)
  BY <1>1, WFMin
<1>4. \A y \in S : ~ (y < m)
  BY <1>2, <1>3
<1> QED
  BY <1>3, <1>4

(* ... so induction is a fact about sets of numbers, and needs no operator *)
(* for a parameter.                                                        *)
LEMMA Inductive ==
  ASSUME NEW S, 0 \in S, \A n \in Nat : n \in S => n + 1 \in S
  PROVE  Nat \subseteq S
<1> SUFFICES ASSUME Nat \ S # {} PROVE FALSE
  OBVIOUS
<1>1. PICK m \in Nat \ S : \A k \in Nat \ S : m <= k
  BY LeastNat
<1>2. m # 0 /\ m - 1 \in Nat
  BY <1>1
<1>3. m - 1 \in S
  BY <1>1, <1>2
<1>4. (m - 1) + 1 = m
  BY <1>1
<1> QED
  BY <1>1, <1>2, <1>3, <1>4

-----------------------------------------------------------------------------
(* The retention: the recursive function unrolls, and what it computes.    *)

LongestOf(f, i) ==
  IF i = 0 THEN DefaultYears
  ELSE IF Longer(i, f[i - 1]) THEN Rules[i].years ELSE f[i - 1]

(* For any number of rules there is a function that fits the recursion, so *)
(* the one Longest chooses does.                                           *)
LEMMA LongestExists ==
  ASSUME NEW n \in Nat
  PROVE  \E f : f = [i \in 0..n |-> LongestOf(f, i)]
<1> DEFINE S == {k \in Nat : \E f : f = [i \in 0..k |-> LongestOf(f, i)]}
<1>1. 0 \in S
  <2> DEFINE f == [i \in 0..0 |-> DefaultYears]
  <2>1. f = [i \in 0..0 |-> LongestOf(f, i)]
    BY DEF LongestOf
  <2> HIDE DEF f
  <2> QED BY <2>1
<1>2. ASSUME NEW k \in Nat, k \in S PROVE k + 1 \in S
  <2>1. PICK f : f = [i \in 0..k |-> LongestOf(f, i)]
    BY <1>2
  <2> DEFINE h == [i \in 0..(k + 1) |->
                     IF i = k + 1 THEN LongestOf(f, i) ELSE f[i]]
  <2>2. \A i \in 0..k : h[i] = f[i]
    OBVIOUS
  <2>3. ASSUME NEW i \in 0..(k + 1) PROVE h[i] = LongestOf(h, i)
    <3>1. i # 0 => h[i - 1] = f[i - 1]
      BY <2>2
    <3>2. LongestOf(h, i) = LongestOf(f, i)
      BY <3>1 DEF LongestOf
    <3>3. i # k + 1 => i \in 0..k /\ f[i] = LongestOf(f, i)
      BY <2>1
    <3> QED BY <3>2, <3>3
  <2>4. h = [i \in 0..(k + 1) |-> LongestOf(h, i)]
    BY <2>3
  <2> HIDE DEF h
  <2> QED BY <2>4
<1> HIDE DEF S
<1>3. n \in S
  BY <1>1, <1>2, Inductive
<1> QED BY <1>3 DEF S

(* Longest satisfies its own recursion.                                    *)
LEMMA LongestUnrolls ==
  Longest = [i \in 0..Len(Rules) |-> LongestOf(Longest, i)]
<1>1. Len(Rules) \in Nat
  BY VaultAssumption
<1>2. \E f : f = [i \in 0..Len(Rules) |-> LongestOf(f, i)]
  BY <1>1, LongestExists
<1> QED BY <1>2 DEF Longest, LongestOf

(* The years after the first i rules: no less than any of them with        *)
(* evidence asks for, and asked for by one of them or by the default.      *)
Chooses(i) ==
  /\ Longest[i] \in Nat
  /\ \A j \in 1..i : HasEvidence(j) => Rules[j].years <= Longest[i]
  /\ \/ Longest[i] = DefaultYears
     \/ \E j \in 1..i : HasEvidence(j) /\ Longest[i] = Rules[j].years

(* The whole sequence of rules, by induction over its prefixes.            *)
LEMMA LongestHolds == Chooses(Len(Rules))
<1> DEFINE S == {i \in Nat : i <= Len(Rules) => Chooses(i)}
<1>1. /\ Len(Rules) \in Nat /\ DefaultYears \in Nat
      /\ \A j \in 1..Len(Rules) : Rules[j].years \in Nat
  <2> DEFINE Rule == [evidence : SUBSET Tables, years : Nat]
  <2>1. Rules \in Seq(Rule) /\ DefaultYears \in Nat
    BY VaultAssumption
  <2>2. \A rule \in Rule : rule.years \in Nat
    OBVIOUS
  <2> HIDE DEF Rule
  <2>3. \A j \in 1..Len(Rules) : Rules[j] \in Rule
    BY <2>1
  <2> QED BY <2>1, <2>2, <2>3
<1>2. \A i \in 0..Len(Rules) : Longest[i] = LongestOf(Longest, i)
  BY LongestUnrolls
<1>3. 0 \in S
  BY <1>1, <1>2 DEF LongestOf, Chooses
<1>4. ASSUME NEW i \in Nat, i \in S PROVE i + 1 \in S
  <2> SUFFICES ASSUME i + 1 <= Len(Rules) PROVE Chooses(i + 1)
    OBVIOUS
  <2>1. Chooses(i)
    BY <1>1, <1>4
  <2>2. Longest[i + 1] = IF Longer(i + 1, Longest[i]) THEN Rules[i + 1].years
                         ELSE Longest[i]
    BY <1>1, <1>2 DEF LongestOf
  <2>3. Rules[i + 1].years \in Nat /\ Longest[i] \in Nat
    BY <1>1, <2>1 DEF Chooses
  <2>4. CASE Longer(i + 1, Longest[i])
    <3>1. /\ HasEvidence(i + 1) /\ Longest[i + 1] = Rules[i + 1].years
          /\ Longest[i] < Rules[i + 1].years
      BY <2>2, <2>3, <2>4 DEF Longer
    <3>2. ASSUME NEW j \in 1..(i + 1), HasEvidence(j)
          PROVE  Rules[j].years <= Longest[i + 1]
      <4>1. CASE j = i + 1
        BY <2>3, <3>1, <4>1
      <4>2. CASE j # i + 1
        <5>1. j \in 1..i /\ Rules[j].years \in Nat
          BY <1>1, <4>2
        <5>2. Rules[j].years <= Longest[i]
          BY <2>1, <3>2, <5>1 DEF Chooses
        <5> QED BY <2>3, <3>1, <5>1, <5>2
      <4> QED BY <4>1, <4>2
    <3>3. i + 1 \in 1..(i + 1)
      OBVIOUS
    <3> QED BY <2>3, <3>1, <3>2, <3>3 DEF Chooses
  <2>5. CASE ~Longer(i + 1, Longest[i])
    BY <2>1, <2>2, <2>3, <2>5, <1>1 DEF Longer, Chooses
  <2> QED BY <2>4, <2>5
<1> HIDE DEF S
<1>5. Len(Rules) \in S
  BY <1>1, <1>3, <1>4, Inductive
<1> QED BY <1>1, <1>5 DEF S

-----------------------------------------------------------------------------
(* The dependency graph: the levels of Walk, and the paths of its nodes.   *)

FirstLevel ==
  {[key |-> f, depth |-> 1, path |-> {Root, f.child}] :
     f \in {k \in schema : k.parent = Root}}
NextLevel(nodes, d) ==
  {[key |-> step[2], depth |-> d,
    path |-> step[1].path \union {step[2].child}] :
     step \in {s \in nodes \X schema :
                 /\ s[2].parent = s[1].key.child
                 /\ s[2].child \notin s[1].path}}
WalkOf(f, d) == IF d = 1 THEN FirstLevel ELSE NextLevel(f[d - 1], d)

(* The recursion over the levels, as for Longest.                          *)
LEMMA WalkExists ==
  ASSUME NEW n \in Nat
  PROVE  \E f : f = [d \in 1..(n + 1) |-> WalkOf(f, d)]
<1> DEFINE S == {k \in Nat : \E f : f = [d \in 1..(k + 1) |-> WalkOf(f, d)]}
<1>1. 0 \in S
  <2> DEFINE f == [d \in 1..(0 + 1) |-> FirstLevel]
  <2>1. f = [d \in 1..(0 + 1) |-> WalkOf(f, d)]
    BY DEF WalkOf
  <2> HIDE DEF f
  <2> QED BY <2>1
<1>2. ASSUME NEW k \in Nat, k \in S PROVE k + 1 \in S
  <2>1. PICK f : f = [d \in 1..(k + 1) |-> WalkOf(f, d)]
    BY <1>2
  <2> DEFINE h == [d \in 1..((k + 1) + 1) |->
                     IF d = k + 2 THEN WalkOf(f, d) ELSE f[d]]
  <2>2. \A d \in 1..(k + 1) : h[d] = f[d]
    OBVIOUS
  <2>3. ASSUME NEW d \in 1..((k + 1) + 1) PROVE h[d] = WalkOf(h, d)
    <3>1. d # 1 => h[d - 1] = f[d - 1]
      BY <2>2
    <3>2. WalkOf(h, d) = WalkOf(f, d)
      BY <3>1 DEF WalkOf
    <3>3. d # k + 2 => d \in 1..(k + 1) /\ f[d] = WalkOf(f, d)
      BY <2>1
    <3> QED BY <3>2, <3>3
  <2>4. h = [d \in 1..((k + 1) + 1) |-> WalkOf(h, d)]
    BY <2>3
  <2> HIDE DEF h
  <2> QED BY <2>4
<1> HIDE DEF S
<1>3. n \in S
  BY <1>1, <1>2, Inductive
<1> QED BY <1>3 DEF S

(* Walk satisfies its own recursion.                                       *)
LEMMA WalkUnrolls ==
  \A d \in 1..MaxDepth :
    Walk[d] = IF d = 1 THEN FirstLevel ELSE NextLevel(Walk[d - 1], d)
<1>1. MaxDepth - 1 \in Nat /\ (MaxDepth - 1) + 1 = MaxDepth
  BY VaultAssumption
<1>2. \E f : f = [d \in 1..MaxDepth |-> WalkOf(f, d)]
  BY <1>1, WalkExists
<1>3. Walk = [d \in 1..MaxDepth |-> WalkOf(Walk, d)]
  BY <1>2 DEF Walk, WalkOf, FirstLevel, NextLevel
<1> QED BY <1>3 DEF WalkOf

(* The first level holds the keys of the root, the next what the keys of a *)
(* node's table lead to.                                                   *)
LEMMA FirstNodes ==
  /\ \A f \in schema : f.parent = Root =>
       \E n \in Walk[1] : n.key = f /\ n.path = {Root, f.child}
  /\ \A n \in Walk[1] :
       /\ n.key \in schema /\ n.key.parent = Root /\ n.depth = 1
       /\ n.path = {Root, n.key.child}
<1>1. 1 \in 1..MaxDepth
  BY VaultAssumption
<1>2. Walk[1] = FirstLevel
  BY <1>1, WalkUnrolls
<1>3. ASSUME NEW f \in schema, f.parent = Root
      PROVE  \E n \in Walk[1] : n.key = f /\ n.path = {Root, f.child}
  <2> DEFINE n == [key |-> f, depth |-> 1, path |-> {Root, f.child}]
  <2>1. n \in Walk[1]
    BY <1>2, <1>3 DEF FirstLevel
  <2> QED BY <2>1
<1>4. ASSUME NEW n \in Walk[1]
      PROVE  /\ n.key \in schema /\ n.key.parent = Root /\ n.depth = 1
             /\ n.path = {Root, n.key.child}
  BY <1>2 DEF FirstLevel
<1> QED BY <1>3, <1>4

(* A level but the last is followed by every step that does not return to  *)
(* a table of its path, and by no other.                                   *)
LEMMA NextNodes ==
  ASSUME NEW d \in 1..MaxDepth, d # MaxDepth
  PROVE  /\ \A n \in Walk[d], f \in schema :
              f.parent = n.key.child /\ f.child \notin n.path =>
                \E m \in Walk[d + 1] : m.key = f /\ m.path = n.path \union {f.child}
         /\ \A m \in Walk[d + 1] : \E n \in Walk[d] :
              /\ m.key \in schema /\ m.key.parent = n.key.child
              /\ m.depth = d + 1 /\ m.path = n.path \union {m.key.child}
<1>1. d + 1 \in 1..MaxDepth /\ d + 1 # 1 /\ (d + 1) - 1 = d
  BY VaultAssumption
<1>2. Walk[d + 1] = NextLevel(Walk[d], d + 1)
  BY <1>1, WalkUnrolls
<1>3. ASSUME NEW n \in Walk[d], NEW f \in schema,
             f.parent = n.key.child, f.child \notin n.path
      PROVE  \E m \in Walk[d + 1] : m.key = f /\ m.path = n.path \union {f.child}
  <2> DEFINE m == [key |-> f, depth |-> d + 1, path |-> n.path \union {f.child}]
  <2>1. <<n, f>> \in {s \in Walk[d] \X schema :
                        /\ s[2].parent = s[1].key.child
                        /\ s[2].child \notin s[1].path}
    BY <1>3
  <2>2. m \in Walk[d + 1]
    BY <1>2, <2>1, <<n, f>>[1] = n, <<n, f>>[2] = f DEF NextLevel
  <2> QED BY <2>2
<1>4. ASSUME NEW m \in Walk[d + 1]
      PROVE  \E n \in Walk[d] :
              /\ m.key \in schema /\ m.key.parent = n.key.child
              /\ m.depth = d + 1 /\ m.path = n.path \union {m.key.child}
  <2>1. PICK s \in Walk[d] \X schema :
          /\ s[2].parent = s[1].key.child
          /\ m = [key |-> s[2], depth |-> d + 1,
                  path |-> s[1].path \union {s[2].child}]
    BY <1>2 DEF NextLevel
  <2> QED BY <2>1
<1> QED BY <1>3, <1>4

(* Every table of a path is itself found, by a path within it.             *)
PathKnown(n) ==
  \A x \in n.path : x = Root \/ \E m \in Found : m.key.child = x /\ m.path \subseteq n.path

(* By induction over the levels.                                           *)
LEMMA NodesHold ==
  \A d \in 1..MaxDepth : \A n \in Walk[d] :
    n.key \in schema /\ n.depth = d /\ n.key.child \in n.path /\ PathKnown(n)
<1> DEFINE Good(n, d) == /\ n.key \in schema /\ n.depth = d
                         /\ n.key.child \in n.path /\ PathKnown(n)
           S == {k \in Nat : k + 1 \in 1..MaxDepth =>
                               \A n \in Walk[k + 1] : Good(n, k + 1)}
<1>1. 0 \in S
  <2> SUFFICES ASSUME NEW n \in Walk[1], 1 \in 1..MaxDepth PROVE Good(n, 1)
    OBVIOUS
  <2>1. n \in Found
    BY DEF Found
  <2> QED BY <2>1, FirstNodes DEF PathKnown
<1>2. ASSUME NEW k \in Nat, k \in S PROVE k + 1 \in S
  <2> SUFFICES ASSUME (k + 1) + 1 \in 1..MaxDepth, NEW m \in Walk[(k + 1) + 1]
               PROVE  Good(m, (k + 1) + 1)
    OBVIOUS
  <2> DEFINE d == k + 1
  <2>1. d \in 1..MaxDepth /\ d # MaxDepth
    BY VaultAssumption
  <2>2. \A n \in Walk[d] : Good(n, d)
    BY <1>2, <2>1
  <2> HIDE DEF d, S
  <2>3. PICK n \in Walk[d] :
          /\ m.key \in schema /\ m.key.parent = n.key.child
          /\ m.depth = d + 1 /\ m.path = n.path \union {m.key.child}
    BY <2>1, NextNodes DEF d
  <2>4. m \in Found
    BY DEF Found
  <2>5. PathKnown(m)
    BY <2>2, <2>3, <2>4 DEF PathKnown
  <2> QED BY <2>3, <2>5 DEF d
<1> HIDE DEF S
<1>3. Nat \subseteq S
  BY <1>1, <1>2, Inductive
<1>4. ASSUME NEW d \in 1..MaxDepth PROVE \A n \in Walk[d] : Good(n, d)
  <2>1. d - 1 \in S /\ (d - 1) + 1 = d
    BY <1>3, VaultAssumption
  <2> QED BY <2>1 DEF S
<1> QED BY <1>4

(* An accepted graph with no path cut at the limit holds a node of every   *)
(* column the root leads to without the column's own table: a key there    *)
(* that deletes or rewrites rows is refused, unless another hides it.      *)
LEMMA CascadeIsSeen ==
  ASSUME schema \in Schemas, NEW G \in Graphs, Accepted(G), ~CutShort,
         NEW f \in schema, f.onDelete \in Unsafe, f.child \in Tables,
         f.parent \in Reachable(f.child)
  PROVE  \E g \in schema \ {f} : g.child = f.child /\ g.column = f.column
<1>1. MaxDepth \in 1..MaxDepth /\ 1 \in 1..MaxDepth /\ Root \notin Tables
      /\ schema \subseteq ForeignKey
  BY VaultAssumption
<1>2. G \subseteq Found
  BY DEF Graphs
<1>3. \A n \in Found : \E m \in G : Column(m) = Column(n) /\ Nearest(m)
  <2> SUFFICES ASSUME NEW n \in Found
               PROVE  \E m \in G : Column(m) = Column(n) /\ Nearest(m)
    OBVIOUS
  <2>1. Cardinality({m \in G : Column(m) = Column(n)}) = 1
    BY DEF Graphs
  <2>2. {m \in G : Column(m) = Column(n)} # {}
    BY <2>1, FS_EmptySet
  <2> QED BY <2>2 DEF Graphs
<1>4. Walk[MaxDepth] = {}
  <2> SUFFICES ASSUME NEW n \in Walk[MaxDepth] PROVE FALSE
    OBVIOUS
  <2>1. n \in Found /\ n.depth = MaxDepth
    BY <1>1, NodesHold DEF Found
  <2>2. Nearest(n)
    BY DEF CutShort
  <2>3. PICK m \in G : Column(m) = Column(n) /\ Nearest(m)
    BY <1>3, <2>1
  <2>4. m.depth < MaxDepth
    BY DEF Accepted
  <2>5. n.depth <= m.depth
    BY <1>2, <2>2, <2>3 DEF Nearest
  <2>6. m.depth \in Nat /\ MaxDepth \in Nat
    BY <1>2, NodesHold, VaultAssumption DEF Found
  <2> QED BY <2>1, <2>4, <2>5, <2>6
<1>5. \A n \in Found, g \in schema :
        g.parent = n.key.child /\ g.child \notin n.path =>
          \E m \in Found : m.key = g /\ m.path = n.path \union {g.child}
  <2> SUFFICES ASSUME NEW n \in Found, NEW g \in schema,
                      g.parent = n.key.child, g.child \notin n.path
               PROVE  \E m \in Found : m.key = g /\ m.path = n.path \union {g.child}
    OBVIOUS
  <2>1. PICK d \in 1..MaxDepth : n \in Walk[d]
    BY DEF Found
  <2>2. d # MaxDepth
    BY <1>4, <2>1
  <2>3. PICK m \in Walk[d + 1] : m.key = g /\ m.path = n.path \union {g.child}
    BY <2>1, <2>2, NextNodes
  <2>4. d + 1 \in 1..MaxDepth
    BY <2>2, VaultAssumption
  <2> QED BY <2>3, <2>4 DEF Found
<1>6. Walk[1] \subseteq Found
  BY <1>1 DEF Found
<1> DEFINE t == f.child
           S == {Root} \union {p \in Tables :
                  \E n \in Found : n.key.child = p /\ t \notin n.path}
<1>7. ASSUME NEW g \in schema, g.parent \in S, g.child # t PROVE g.child \in S
  <2>1. g.child \in Tables \union {Root}
    BY <1>1 DEF ForeignKey
  <2>2. CASE g.parent = Root
    <3>1. PICK n \in Walk[1] : n.key = g /\ n.path = {Root, g.child}
      BY <2>2, FirstNodes
    <3> QED BY <1>1, <1>6, <1>7, <2>1, <3>1
  <2>3. CASE g.parent # Root
    <3>1. PICK n \in Found : n.key.child = g.parent /\ t \notin n.path
      BY <1>7, <2>3
    <3>2. CASE g.child \notin n.path
      <4>1. PICK m \in Found : m.key = g /\ m.path = n.path \union {g.child}
        BY <1>5, <3>1, <3>2
      <4> QED BY <1>7, <2>1, <3>1, <4>1
    <3>3. CASE g.child \in n.path
      <4>1. PathKnown(n)
        BY NodesHold DEF Found
      <4> QED BY <2>1, <3>1, <3>3, <4>1 DEF PathKnown
    <3> QED BY <3>2, <3>3
  <2> QED BY <2>2, <2>3
<1>8. f.parent \in S /\ f.parent # Root
  <2>1. S \in SUBSET (Tables \union {Root}) /\ Root \in S
    OBVIOUS
  <2> HIDE DEF S
  <2> QED BY <1>1, <1>7, <2>1 DEF Reachable
<1>9. PICK n \in Found : n.key.child = f.parent /\ t \notin n.path
  BY <1>8
<1>10. PICK m \in Found : m.key = f
  BY <1>5, <1>9
<1>11. PICK k \in G : Column(k) = Column(m)
  BY <1>3
<1>12. k.key \in schema /\ k.key.onDelete \notin Unsafe
  BY <1>2, NodesHold DEF Found, Accepted
<1>13. k.key.child = f.child /\ k.key.column = f.column
  BY <1>10, <1>11 DEF Column
<1> QED BY <1>12, <1>13

-----------------------------------------------------------------------------
(* What the plan decides, and carries to the outcome.                      *)

Chosen(seen, years) ==
  LET applicable == {i \in DOMAIN Rules :
                       \E r \in seen : TableOf[r] \in Rules[i].evidence}
  IN  /\ years \in Nat
      /\ \A i \in applicable : years >= Rules[i].years
      /\ years \in {DefaultYears} \union {Rules[i].years : i \in applicable}

(* Keys a delete of a satellite's rows may take rows along by.             *)
Cascades == {f \in schema : f.onDelete \in Unsafe /\ f.child \in Tables}
Admitted == \E G \in Graphs : Accepted(G)

PlanInv ==
  /\ tx.silent \subseteq Cascades
  /\ Running => Chosen(tx.seen, tx.years) /\ Admitted
  /\ Done => /\ Chosen(outcome.seen, outcome.years)
             /\ outcome.due <= outcome.years
             /\ outcome.silent \subseteq Cascades
             /\ Admitted

(* Plan takes the retention the evidence of its snapshot asks for.         *)
LEMMA PlanChooses == Chosen(tx.seen, Longest[Len(Rules)])
<1>1. Chooses(Len(Rules))
  BY LongestHolds
<1>2. DOMAIN Rules = 1..Len(Rules)
  BY VaultAssumption
<1>3. \A i \in DOMAIN Rules : Rules[i].years \in Nat
  <2> DEFINE Rule == [evidence : SUBSET Tables, years : Nat]
  <2>1. Rules \in Seq(Rule)
    BY VaultAssumption
  <2>2. \A rule \in Rule : rule.years \in Nat
    OBVIOUS
  <2> HIDE DEF Rule
  <2> QED BY <2>1, <2>2
<1> QED BY <1>1, <1>2, <1>3 DEF Chosen, Chooses, HasEvidence

(* The schema does not change, so neither does what the graph found.       *)
LEMMA SchemaFixed ==
  ASSUME UNCHANGED schema
  PROVE  Admitted' = Admitted /\ Cascades' = Cascades
<1>1. Walk' = Walk
  BY DEF Walk
<1>2. Found' = Found
  BY <1>1 DEF Found
<1>3. Graphs' = Graphs
  BY <1>2 DEF Graphs, Nearest
<1> QED BY <1>3 DEF Admitted, Cascades, Accepted

(* A decision is made by Plan, widened by a sweep, kept by the rest of the *)
(* work, and handed over by Commit.                                        *)
LEMMA PlanInvStep ==
  ASSUME VaultInv, PlanInv, [VaultNext]_vaultVars
  PROVE  PlanInv'
<1>1. UNCHANGED schema
  BY DEF VaultNext, Vault, Snapshot, LockRoot, LoseRoot, AlreadyDone, RootMissing,
         Refuse, Plan, Sweep, EndSweep, LoseSweep, BlockedSweep, Collect, LoseFiles,
         Commit, ShadowRollback, Replay, Write, EndWrite, Static, RollBack, vaultVars
<1>2. Admitted' = Admitted /\ Cascades' = Cascades
  BY <1>1, SchemaFixed
<1>3. ASSUME UNCHANGED outcome \/ ~Done', tx'.silent = {} \/ tx'.silent = tx.silent,
             tx'.pc \notin {"satellites", "finish"}
      PROVE  PlanInv'
  BY <1>2, <1>3 DEF PlanInv, Running, Done
<1>4. CASE \/ Snapshot \/ LoseRoot \/ LoseFiles \/ AlreadyDone \/ Replay
           \/ \E t \in DOMAIN Satellites : LoseSweep(t)
  <2>1. UNCHANGED outcome
    BY <1>4 DEF Snapshot, LoseRoot, LoseFiles, AlreadyDone, Replay, LoseSweep,
                RollBack, Database
  <2>2. tx'.silent = {} /\ tx'.pc \in {"idle", "root", "done"}
    <3>1. CASE Snapshot
      BY <3>1 DEF Snapshot, NoTx
    <3>2. CASE \/ LoseRoot \/ LoseFiles \/ Replay
               \/ \E t \in DOMAIN Satellites : LoseSweep(t)
      BY <3>2 DEF LoseRoot, LoseFiles, Replay, LoseSweep, RollBack, NoTx
    <3>3. CASE AlreadyDone
      BY <3>3 DEF AlreadyDone, NoTx
    <3> QED BY <1>4, <3>1, <3>2, <3>3
  <2> QED BY <1>3, <2>1, <2>2
<1>5. CASE LockRoot
  <2>1. UNCHANGED outcome /\ tx'.silent = tx.silent /\ tx'.pc = "plan"
    BY <1>5 DEF LockRoot, Database, VaultInv, TxShape
  <2> QED BY <1>3, <2>1
<1>6. CASE \/ RootMissing \/ Refuse \/ ShadowRollback
           \/ \E t \in DOMAIN Satellites : BlockedSweep(t)
  <2>1. tx'.silent = {} /\ tx'.pc = "done"
    BY <1>6 DEF RootMissing, Refuse, ShadowRollback, BlockedSweep, Decide, NoTx
  <2>2. outcome' = outcome \/ outcome'.kind \in {"missing", "refused", "shadow", "blocked"}
    BY <1>6 DEF RootMissing, Refuse, ShadowRollback, BlockedSweep, Decide
  <2>3. outcome' = outcome \/ ~Done'
    BY <2>2 DEF Done
  <2> QED BY <1>3, <2>1, <2>3
<1>7. CASE Plan
  <2>1. /\ UNCHANGED outcome /\ Admitted
        /\ tx'.pc = "satellites" /\ tx'.seen = tx.seen /\ tx'.silent = tx.silent
        /\ tx'.years = Longest[Len(Rules)]
    BY <1>7 DEF Plan, Database, Admitted, VaultInv, TxShape
  <2>2. Chosen(tx'.seen, tx'.years)
    BY <2>1, PlanChooses
  <2> QED BY <1>2, <2>1, <2>2 DEF PlanInv, Running, Done
<1>8. ASSUME NEW t \in DOMAIN Satellites, Sweep(t) PROVE PlanInv'
  <2>1. Referenced(t, Unsafe) \subseteq Cascades
    BY VaultAssumption DEF Referenced, RowsOf, Cascades
  <2>2. /\ UNCHANGED outcome /\ tx.pc = "satellites"
        /\ tx'.pc = tx.pc /\ tx'.seen = tx.seen /\ tx'.years = tx.years
        /\ \/ tx'.silent = tx.silent
           \/ tx'.silent = tx.silent \union Referenced(t, Unsafe)
    BY <1>8 DEF Sweep, Database, At, VaultInv, TxShape
  <2> QED BY <1>2, <2>1, <2>2 DEF PlanInv, Running, Done
<1>9. CASE Collect \/ \E t \in DOMAIN Satellites : EndSweep(t)
  <2>1. /\ UNCHANGED outcome /\ tx.pc = "satellites"
        /\ tx'.seen = tx.seen /\ tx'.years = tx.years /\ tx'.silent = tx.silent
    BY <1>9 DEF Collect, EndSweep, Database, At, VaultInv, TxShape
  <2> QED BY <1>2, <2>1 DEF PlanInv, Running, Done
<1>10. CASE Commit
  <2>1. tx.pc = "finish" /\ tx'.silent = {} /\ tx'.pc = "done"
    BY <1>10 DEF Commit, Decide, At, NoTx
  <2>2. outcome' = Result
    BY <1>10, <2>1 DEF Commit, Decide, VaultInv, OneOutcome, Running
  <2>3. /\ outcome'.seen = tx.seen /\ outcome'.years = tx.years
        /\ outcome'.silent = tx.silent /\ outcome'.due = NoticeAt(tx.years)
    BY <2>2 DEF Result
  <2>4. Chosen(tx.seen, tx.years) /\ tx.years \in Nat
    BY <2>1 DEF PlanInv, Running, Chosen
  <2>5. NoticeAt(tx.years) <= tx.years
    BY <2>4, VaultAssumption DEF NoticeAt
  <2> QED BY <1>2, <2>1, <2>3, <2>4, <2>5 DEF PlanInv, Running
<1>11. CASE \/ \E x \in Busy, op \in {"insert", "update", "delete"} : Write(x, op)
            \/ \E x \in Busy : EndWrite(x)
            \/ UNCHANGED vaultVars
  <2>1. UNCHANGED <<tx, outcome>>
    BY <1>11 DEF Write, EndWrite, Database, vaultVars
  <2> QED BY <1>2, <2>1 DEF PlanInv, Running, Done
<1> QED BY <1>4, <1>5, <1>6, <1>7, <1>8, <1>9, <1>10, <1>11 DEF VaultNext, Vault

(* The plan's decisions hold in every reachable state.                     *)
LEMMA PlanInvHolds == VaultSpec => [](VaultInv /\ PlanInv)
<1>1. VaultInit => PlanInv
  BY DEF VaultInit, PlanInv, Running, Done, NoTx, Undecided
<1>2. VaultInv /\ PlanInv /\ [VaultNext]_vaultVars => PlanInv'
  BY PlanInvStep
<1> QED BY <1>1, <1>2, VaultInvariance, PTL DEF VaultSpec

(* A vaulted subject is kept as long as the longest rule with evidence     *)
(* demands, and no rule without evidence prolongs it.                      *)
THEOREM EvidenceIsHonoured == VaultSpec => []EvidenceHonoured
<1>1. PlanInv => EvidenceHonoured
  BY DEF PlanInv, Chosen, Done, EvidenceHonoured
<1> QED BY <1>1, PlanInvHolds, PTL

(* A delete takes no row along by a key the dependency graph should have   *)
(* refused; the exceptions are those of the query itself.                  *)
THEOREM NothingIsLostSilently == VaultSpec => []NoSilentLoss
<1>1. VaultInv /\ PlanInv => NoSilentLoss
  <2> SUFFICES ASSUME VaultInv, PlanInv, Done, NEW f \in outcome.silent,
                      f.parent \in Reachable(f.child), ~CutShort
               PROVE  \E g \in schema \ {f} : g.child = f.child /\ g.column = f.column
    BY DEF NoSilentLoss
  <2>1. f \in schema /\ f.onDelete \in Unsafe /\ f.child \in Tables
    BY DEF PlanInv, Cascades
  <2>2. PICK G \in Graphs : Accepted(G)
    BY DEF PlanInv, Admitted
  <2>3. schema \in Schemas
    BY DEF VaultInv, VaultTypeOK
  <2> QED BY <2>1, <2>2, <2>3, CascadeIsSeen
<1> QED BY <1>1, PlanInvHolds, PTL
===============================================================================
