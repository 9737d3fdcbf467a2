-------------------------- MODULE VaultTransaction --------------------------
(***************************************************************************)
(* The vault transaction against the live application schema: one subject, *)
(* its root row, and the rows of other tables that belong to it.           *)
(*                                                                         *)
(* The transaction runs under REPEATABLE READ.  Its first statement fixes  *)
(* what it sees; what the application commits later it does not see, and a *)
(* row changed since then cannot be locked (40001).  It locks the root     *)
(* row, walks the foreign keys, chooses the retention, sweeps the          *)
(* satellite tables in batches that pass over rows locked by others,       *)
(* collects the files, and then deletes or vaults the root row.            *)
(*                                                                         *)
(* The application's transactions write one row each and hold its lock     *)
(* until they end.  What a vault record becomes later is WorkerEngine's,   *)
(* what happens to the files BlobErasure's.                                *)
(***************************************************************************)
EXTENDS Naturals, FiniteSets, Sequences, FiniteSetsExt

CONSTANTS
  Tables,        (* application tables but the root                        *)
  Root,          (* graph.root_table, and the subject's row in it          *)
  Schemas,       (* the sets of foreign keys the schema may have           *)
  MaxDepth,      (* graph.max_depth                                        *)
  Satellites,    (* satellite_targets: [table -> "redact", "hard_delete"]  *)
  ByRootId,      (* satellites whose lookup_column is the root id column   *)
  FileTables,    (* blob_targets; may hold Root                            *)
  Rules,         (* retention_rules: sequence of [evidence, years]         *)
  DefaultYears,  (* default_retention_years                                *)
  NoticeWindow,  (* notice_window_hours, in years                          *)
  Rows, TableOf, (* rows of the subject, and the table of each             *)
  Born,          (* rows there from the start                              *)
  Busy,          (* rows the application writes; may hold Root             *)
  BatchSize,     (* DEFAULT_SATELLITE_BATCH_SIZE                           *)
  MaxWrites,     (* bound: transactions of the application                 *)
  MaxReplays     (* bound: repeated vault tasks                            *)

VARIABLES
  schema,   (* the foreign keys                                            *)
  blank,    (* satellites whose lookup column is null in the root row      *)
  shadow,   (* the task is a shadow run                                    *)
  rootFile, (* the root row itself names a file                            *)
  root,     (* the root row: "plain", "masked" or "gone"                   *)
  row,      (* each other row: "absent", "plain", "masked" or "gone"       *)
  app,      (* what an open transaction of the application does to a row   *)
  moved,    (* rows the application changed since the snapshot             *)
  tx,       (* the vault transaction                                       *)
  outcome,  (* what it came to                                             *)
  writes, replays

vaultVars == <<schema, blank, shadow, rootFile, root, row, app, moved, tx,
               outcome, writes, replays>>

Deletes == {"NO_ACTION", "RESTRICT", "CASCADE", "SET_NULL", "SET_DEFAULT"}
Unsafe  == {"CASCADE", "SET_NULL", "SET_DEFAULT"}
ForeignKey == [child : Tables \union {Root}, column : STRING,
               parent : Tables \union {Root}, onDelete : Deletes]
Items == Rows \union {Root}

ASSUME VaultAssumption ==
  /\ Root \notin Rows /\ Root \notin Tables
  /\ Schemas \subseteq SUBSET ForeignKey
  /\ DOMAIN Satellites \subseteq Tables
  /\ FileTables \subseteq Tables \union {Root}
  /\ TableOf \in [Rows -> Tables]
  /\ Born \subseteq Rows /\ Busy \subseteq Items
  /\ MaxDepth \in Nat \ {0} /\ BatchSize \in Nat \ {0}
  /\ Rules \in Seq([evidence : SUBSET Tables, years : Nat])
  /\ DefaultYears \in Nat /\ NoticeWindow \in Nat
  /\ MaxWrites \in Nat /\ MaxReplays \in Nat

NoTx == [pc |-> "idle", seen |-> {}, rootSeen |-> "gone", years |-> 0,
         linked |-> FALSE, todo |-> {}, swept |-> {}, passed |-> {},
         silent |-> {}, files |-> {}]
Undecided == [kind |-> "none"]

VaultTypeOK ==
  /\ schema \in Schemas
  /\ blank \subseteq DOMAIN Satellites
  /\ rootFile \in BOOLEAN
  /\ root \in {"plain", "masked", "gone"}
  /\ row \in [Rows -> {"absent", "plain", "masked", "gone"}]
  /\ app \in [Items -> {"free", "insert", "update", "delete"}]
  /\ moved \subseteq Items
  /\ tx.pc \in {"idle", "root", "plan", "satellites", "finish", "done"}
  /\ tx.seen \subseteq Rows /\ tx.swept \subseteq tx.seen
  /\ outcome.kind \in {"none", "shadow", "refused", "vaulted",
                       "hard_deleted", "missing", "blocked"}
  /\ writes \in 0..MaxWrites /\ replays \in 0..MaxReplays

VaultInit ==
  /\ schema \in Schemas
  /\ blank \in SUBSET DOMAIN Satellites
  /\ shadow \in BOOLEAN
  /\ rootFile \in BOOLEAN /\ (rootFile => Root \in FileTables)
  /\ root = "plain"
  /\ row = [r \in Rows |-> IF r \in Born THEN "plain" ELSE "absent"]
  /\ app = [x \in Items |-> "free"]
  /\ moved = {}
  /\ tx = NoTx
  /\ outcome = Undecided
  /\ writes = 0 /\ replays = 0

RowsOf(t) == {r \in Rows : TableOf[r] = t}

-----------------------------------------------------------------------------
(* The dependency graph: one level of the recursive query after another.   *)
(* A path does not visit a table twice.                                    *)

Walk[d \in 1..MaxDepth] ==
  IF d = 1
  THEN {[key |-> f, depth |-> 1, path |-> {Root, f.child}] :
          f \in {k \in schema : k.parent = Root}}
  ELSE {[key |-> step[2], depth |-> d,
         path |-> step[1].path \union {step[2].child}] :
          step \in {s \in Walk[d - 1] \X schema :
                      /\ s[2].parent = s[1].key.child
                      /\ s[2].child \notin s[1].path}}

Found == UNION {Walk[d] : d \in 1..MaxDepth}

Column(node) == <<node.key.child, node.key.column>>

(* DISTINCT ON (table, column): the node of least depth is kept, and of    *)
(* several any one.                                                        *)
Nearest(node) ==
  \A other \in Found : Column(other) = Column(node) =>
                         node.depth <= other.depth
Graphs ==
  {G \in SUBSET {n \in Found : Nearest(n)} :
     \A n \in Found : Cardinality({m \in G : Column(m) = Column(n)}) = 1}

Accepted_AnyAction(G) == \A node \in G : node.depth < MaxDepth
Accepted(G) ==
  /\ \A node \in G : node.key.onDelete \notin Unsafe
  /\ \A node \in G : node.depth < MaxDepth

-----------------------------------------------------------------------------
(* Retention: the rules in their order, each taken when it is longer.      *)

HasEvidence(i) == \E r \in tx.seen : TableOf[r] \in Rules[i].evidence

Longer_Any(i, years) == HasEvidence(i)
Longer(i, years) == HasEvidence(i) /\ Rules[i].years > years

Longest[i \in 0..Len(Rules)] ==
  IF i = 0 THEN DefaultYears
  ELSE IF Longer(i, Longest[i - 1]) THEN Rules[i].years ELSE Longest[i - 1]

(* The notice is due NoticeWindow before the expiry, and never in the past.*)
NoticeAt(years) == IF years > NoticeWindow THEN years - NoticeWindow ELSE 0

-----------------------------------------------------------------------------
(* The vault transaction.                                                  *)

At(pc) == tx.pc = pc
Static == UNCHANGED <<schema, blank, shadow, rootFile, app, writes, replays>>
Database == UNCHANGED <<root, row, moved, outcome>>

(* The locks of the application that a lock on x waits for: an insert      *)
(* into a table that references the root row holds a share of its key.     *)
Referring(r) == \E f \in schema : f.child = TableOf[r] /\ f.parent = Root
Holders(x) ==
  {y \in Items : /\ app[y] # "free"
                 /\ y = x \/ (x = Root /\ y \in Rows /\ app[y] = "insert"
                                /\ Referring(y))}

(* A retryable failure: everything is rolled back, the task comes again.   *)
RollBack == tx' = NoTx /\ Static /\ Database

(* The end of the task.                                                    *)
Decide(result) ==
  /\ tx' = [NoTx EXCEPT !.pc = "done"]
  /\ outcome' = IF outcome = Undecided THEN result ELSE outcome

(* SELECT ... FOR UPDATE of the root row: the snapshot, then the lock.     *)
Snapshot ==
  /\ At("idle")
  /\ tx' = [NoTx EXCEPT !.pc = "root", !.rootSeen = root,
                        !.seen = {r \in Rows : row[r] = "plain"}]
  /\ moved' = {}
  /\ Static /\ UNCHANGED <<root, row, outcome>>

LockRoot ==
  /\ At("root")
  /\ tx.rootSeen # "gone" => Holders(Root) = {} /\ Root \notin moved
  /\ tx' = [tx EXCEPT !.pc = "plan"]
  /\ Static /\ Database

(* lock_timeout (55P03), or the row was changed meanwhile (40001).         *)
LoseRoot ==
  /\ At("root") /\ tx.rootSeen # "gone"
  /\ Holders(Root) # {} \/ Root \in moved
  /\ RollBack

(* A vault row, or a hard-delete event: the task was done before.          *)
AlreadyDone ==
  /\ At("plan")
  /\ outcome.kind \in {"vaulted", "hard_deleted"}
  /\ tx' = [NoTx EXCEPT !.pc = "done"]
  /\ Static /\ Database

RootMissing ==
  /\ At("plan")
  /\ outcome.kind \notin {"vaulted", "hard_deleted"}
  /\ tx.rootSeen = "gone"
  /\ Decide([kind |-> "missing"])
  /\ Static /\ UNCHANGED <<root, row, moved>>

Fresh ==
  /\ At("plan")
  /\ outcome.kind \notin {"vaulted", "hard_deleted"}
  /\ tx.rootSeen # "gone"

(* An unsafe delete action or the depth limit: fatal.                      *)
Refuse ==
  /\ Fresh
  /\ \E G \in Graphs : ~Accepted(G)
  /\ Decide([kind |-> "refused"])
  /\ Static /\ UNCHANGED <<root, row, moved>>

(* The graph and the retention.  A satellite without a lookup value is     *)
(* done at once.                                                           *)
Plan ==
  /\ Fresh
  /\ \E G \in Graphs :
       /\ Accepted(G)
       /\ tx' = [tx EXCEPT !.pc = "satellites",
                           !.linked = (G # {}),
                           !.years = Longest[Len(Rules)],
                           !.todo = DOMAIN Satellites \ blank]
  /\ Static /\ Database

(* FOR UPDATE SKIP LOCKED: rows it sees, not done yet and locked by nobody.*)
Within_Again(t) == tx.seen \intersect RowsOf(t)
Within(t) == (tx.seen \intersect RowsOf(t)) \ tx.swept
Candidates(t) == {r \in Within(t) : app[r] = "free"}
Batches(t) ==
  {B \in SUBSET Candidates(t) :
     Cardinality(B) = Min({BatchSize, Cardinality(Candidates(t))})}

(* Foreign keys that delete or rewrite rows with a deleted satellite row,  *)
(* and those that forbid it.                                               *)
Referenced(t, actions) ==
  {f \in schema : /\ f.parent = t /\ f.child # t /\ f.onDelete \in actions
                  /\ \E r \in RowsOf(f.child) \ tx.swept : row[r] = "plain"}
Forbidden(t) == Satellites[t] = "hard_delete"
                /\ Referenced(t, Deletes \ Unsafe) # {}

(* One batch of a satellite: redacted in its lookup column, or deleted.    *)
Sweep(t) ==
  /\ At("satellites") /\ t \in tx.todo /\ Candidates(t) # {}
  /\ ~Forbidden(t)
  /\ \E B \in Batches(t) :
       /\ B \intersect moved = {}
       /\ tx' = [tx EXCEPT
            !.swept = @ \union B,
            !.silent = IF Satellites[t] = "hard_delete"
                       THEN @ \union Referenced(t, Unsafe)
                       ELSE @]
  /\ Static /\ Database

(* An empty batch ends the loop, whether or not locked rows remain.        *)
EndSweep_First(t) ==
  /\ At("satellites") /\ t \in tx.todo
  /\ Candidates(t) = {} \/ tx.swept \intersect RowsOf(t) # {}
  /\ tx' = [tx EXCEPT !.todo = @ \ {t}, !.passed = @ \union
                        {r \in Within(t) : app[r] # "free"}]
  /\ Static /\ Database
EndSweep(t) ==
  /\ At("satellites") /\ t \in tx.todo /\ Candidates(t) = {}
  /\ tx' = [tx EXCEPT !.todo = @ \ {t}, !.passed = @ \union Within(t)]
  /\ Static /\ Database

(* A row of the batch was changed since the snapshot: 40001.               *)
LoseSweep(t) ==
  /\ At("satellites") /\ t \in tx.todo
  /\ \E B \in Batches(t) : B \intersect moved # {}
  /\ RollBack

(* A foreign key forbids the delete (23503), which is not retried.         *)
BlockedSweep(t) ==
  /\ At("satellites") /\ t \in tx.todo /\ Candidates(t) # {} /\ Forbidden(t)
  /\ Decide([kind |-> "blocked"])
  /\ Static /\ UNCHANGED <<root, row, moved>>

(* The files: that of the root row, from the row as it was locked, and     *)
(* those of other rows, by root id, as the sweep left them: a deleted row  *)
(* has none, and a row redacted in its root id is not found.               *)
Hides(t) == t \in DOMAIN Satellites
            /\ (Satellites[t] = "hard_delete" \/ t \in ByRootId)
Hidden(r) == r \in tx.swept /\ Hides(TableOf[r])
Linked == {r \in tx.seen : TableOf[r] \in FileTables /\ ~Hidden(r)}
Files == Linked \union {x \in {Root} : rootFile}

Collect ==
  /\ At("satellites") /\ tx.todo = {}
  /\ \A r \in Linked : Holders(r) = {} /\ r \notin moved
  /\ tx' = [tx EXCEPT !.pc = "finish", !.files = Files]
  /\ Static /\ Database

LoseFiles ==
  /\ At("satellites") /\ tx.todo = {}
  /\ \E r \in Linked : Holders(r) # {} \/ r \in moved
  /\ RollBack

(* No table depends on the root and no file was found: the row is deleted. *)
(* Otherwise it is vaulted.  A shadow run rolls everything back.           *)
Erased_AnyFiles == ~tx.linked
Erased == ~tx.linked /\ tx.files = {}

Result ==
  [kind |-> IF Erased THEN "hard_deleted" ELSE "vaulted",
   years |-> tx.years, due |-> NoticeAt(tx.years), files |-> tx.files,
   seen |-> tx.seen, passed |-> tx.passed, silent |-> tx.silent]

Commit ==
  /\ At("finish") /\ ~shadow
  /\ root' = IF Erased THEN "gone" ELSE "masked"
  /\ row' = [r \in Rows |->
               IF r \notin tx.swept THEN row[r]
               ELSE IF Satellites[TableOf[r]] = "redact" THEN "masked"
               ELSE "gone"]
  /\ Decide(Result)
  /\ Static /\ UNCHANGED moved

ShadowRollback ==
  /\ At("finish") /\ shadow
  /\ Decide([kind |-> "shadow"])
  /\ Static /\ UNCHANGED <<root, row, moved>>

(* The task was answered, but comes again.                                 *)
Replay ==
  /\ At("done") /\ replays < MaxReplays
  /\ outcome.kind \in {"vaulted", "hard_deleted"}
  /\ tx' = NoTx
  /\ replays' = replays + 1
  /\ UNCHANGED <<schema, blank, shadow, rootFile, app, writes>> /\ Database

-----------------------------------------------------------------------------
(* The application.                                                        *)

(* Rows the vault transaction holds a lock on.                             *)
Locked == tx.swept
          \union (IF tx.pc = "finish" THEN tx.files ELSE {})
          \union (IF tx.pc \in {"plan", "satellites", "finish"}
                     /\ tx.rootSeen # "gone" THEN {Root} ELSE {})

Possible(x, op) ==
  CASE op = "insert" -> x # Root /\ row[x] = "absent"
                        /\ (Referring(x) => Root \notin Locked
                                            /\ root # "gone")
    [] x = Root      -> root = "plain"
                        /\ (op = "delete" =>
                              \A f \in schema : f.parent # Root)
    [] OTHER         -> row[x] = "plain"

(* A transaction of the application takes the lock of a row ...            *)
Write(x, op) ==
  /\ writes < MaxWrites
  /\ app[x] = "free" /\ x \notin Locked /\ Possible(x, op)
  /\ app' = [app EXCEPT ![x] = op]
  /\ writes' = writes + 1
  /\ UNCHANGED <<schema, blank, shadow, rootFile, tx, replays>> /\ Database

(* ... and ends.  An update leaves the subject's values in the row.        *)
EndWrite(x) ==
  /\ app[x] # "free"
  /\ app' = [app EXCEPT ![x] = "free"]
  /\ \/ /\ moved' = IF app[x] = "insert" THEN moved ELSE moved \union {x}
        /\ LET now == IF app[x] = "delete" THEN "gone" ELSE "plain"
           IN  IF x = Root THEN root' = now /\ UNCHANGED row
                           ELSE row' = [row EXCEPT ![x] = now]
                                /\ UNCHANGED root
     \/ UNCHANGED <<root, row, moved>>
  /\ UNCHANGED <<schema, blank, shadow, rootFile, tx, outcome, writes,
                 replays>>

-----------------------------------------------------------------------------
Vault ==
  \/ Snapshot
  \/ LockRoot \/ LoseRoot
  \/ AlreadyDone \/ RootMissing \/ Refuse
  \/ Plan
  \/ \E t \in DOMAIN Satellites :
       Sweep(t) \/ EndSweep(t) \/ LoseSweep(t) \/ BlockedSweep(t)
  \/ Collect \/ LoseFiles
  \/ Commit \/ ShadowRollback

VaultNext ==
  \/ Vault
  \/ Replay
  \/ \E x \in Busy, op \in {"insert", "update", "delete"} : Write(x, op)
  \/ \E x \in Busy : EndWrite(x)

VaultSpec == VaultInit /\ [][VaultNext]_vaultVars

(* A task is worked on until it is answered; the application's             *)
(* transactions end.                                                       *)
FairVaultSpec ==
  VaultSpec /\ WF_vaultVars(Vault)
            /\ \A x \in Busy : WF_vaultVars(EndWrite(x))
-----------------------------------------------------------------------------
(* Properties.                                                             *)

Done == outcome.kind \in {"vaulted", "hard_deleted"}

(* After the vault no satellite row holds the subject's value, but rows the*)
(* snapshot did not have, rows locked by the application when the loop over*)
(* their table ended, and those of a table whose lookup value is null: the *)
(* task is answered as a success, and no later one looks at the satellites *)
(* again.                                                                  *)
SurvivorsExcused ==
  Done => \A r \in Rows :
    (row[r] = "plain" /\ TableOf[r] \in DOMAIN Satellites \ blank)
      => r \in outcome.passed \/ r \notin outcome.seen

(* The retention of a vaulted subject is the longest of the rules with     *)
(* evidence, the default when none is longer.  Only a row that came while  *)
(* the transaction ran, after its snapshot, may go unnoticed.              *)
EvidenceHonoured ==
  outcome.kind = "vaulted" =>
    LET applicable == {i \in DOMAIN Rules :
                         \E r \in outcome.seen : TableOf[r] \in Rules[i].evidence}
    IN  /\ \A i \in applicable : outcome.years >= Rules[i].years
        /\ outcome.years \in {DefaultYears} \union
                              {Rules[i].years : i \in applicable}
        /\ outcome.due <= outcome.years

(* The tables foreign keys lead to from the root without passing t.        *)
Reachable(t) ==
  {p \in Tables :
     \A S \in SUBSET (Tables \union {Root}) :
       (/\ Root \in S
        /\ \A f \in schema : (f.parent \in S /\ f.child # t) => f.child \in S)
         => p \in S}

(* A delete of the transaction takes no row along that the configuration   *)
(* does not name: getDependencyGraph refuses such a key.  It does not see  *)
(* a key of a table that does not hang on the root, one whose parent is    *)
(* reached through its own table only, and one that shares its column with *)
(* another key; and it goes on when a path was cut at the depth limit and  *)
(* its last column is found on a shorter path too (CutShort).              *)
CutShort == \E node \in Walk[MaxDepth] : ~Nearest(node)
NoSilentLoss ==
  Done => \A f \in outcome.silent :
    \/ f.parent \notin Reachable(f.child)
    \/ \E g \in schema \ {f} : g.child = f.child /\ g.column = f.column
    \/ CutShort

Followed(x) == x \in outcome.files /\ outcome.kind = "vaulted"

(* A file of the subject is on record when its subject is vaulted, and a   *)
(* subject with files is not deleted, but for the files of rows the sweep  *)
(* of the satellites deleted, or redacted in their root id, before the     *)
(* files were looked for.                                                  *)
FilesFollowed ==
  Done =>
    /\ rootFile => Followed(Root)
    /\ \A r \in outcome.seen : TableOf[r] \in FileTables =>
         Followed(r) \/ (row[r] # "plain" /\ Hides(TableOf[r]))

(* A vault task is decided: lost locks and conflicts with the application  *)
(* are retried, and the loops over the satellites end.                     *)
VaultDecides == <>(outcome # Undecided /\ At("done"))
=============================================================================
