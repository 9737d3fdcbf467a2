----------------------------- MODULE BlobErasure -----------------------------
(***************************************************************************)
(* The erasure of a subject's file in S3: protectBlobTargets, called by    *)
(* the vault transaction, and shredBlobObjects, called by the shred one.   *)
(*                                                                         *)
(* Both call S3 one request at a time in the middle of a Postgres          *)
(* transaction.  What the transaction wrote disappears when it fails, what *)
(* S3 did stays, and the task is run again from the start.  The row locks  *)
(* of the transaction keep other workers off the subject; nothing keeps    *)
(* them off the object, which the rows of several subjects may name.       *)
(*                                                                         *)
(* S3 is external, and modelled from the requests the worker sends it: the *)
(* bucket has versioning and Object Lock, as legal holds require.  Each    *)
(* subject has one configured blob cell.                                   *)
(***************************************************************************)
EXTENDS Naturals, Sequences

CONSTANTS
  Subjects,    (* rows of the configured root table                        *)
  Objects,     (* S3 objects: a bucket and a key                           *)
  Workers,     (* worker replicas                                          *)
  MaxUploads,  (* bound: new versions the application uploads              *)
  MaxFailures  (* bound: crashes and failed or unanswered S3 calls         *)

ASSUME BlobAssumption ==
  /\ "none" \notin Objects
  /\ MaxUploads \in Nat /\ MaxFailures \in Nat

VARIABLES
  cell,      (* the URL in the blob column of each subject                 *)
  object,    (* the versions of each S3 object, oldest first               *)
  blob,      (* blob_objects, at most one row per subject                  *)
  due,       (* vaulted subjects past retention, with the notice sent      *)
  proc,      (* the transaction each worker is in                          *)
  uploads, failures

blobVars == <<cell, object, blob, due, proc, uploads, failures>>

-----------------------------------------------------------------------------

Actions == {"versioned_hard_delete", "hard_delete", "overwrite",
            "legal_hold_only"}

(* A version id is the version's position.  A URL may carry no ?versionId; *)
(* a row may have no overwrite_version_id.                                 *)
None == 0
Versions == Nat \ {None}

Version == [body : {"document", "placeholder"}, held : BOOLEAN, gone : BOOLEAN]
NewVersion(body) == [body |-> body, held |-> FALSE, gone |-> FALSE]

Url == [object : Objects, version : {None} \union Versions]
(* The cell is empty, or its URL has been replaced by an HMAC.             *)
NoUrl == [object |-> "none"]

NoRow == [status |-> "none"]
BlobRow == [object : Objects, version : Versions, action : Actions,
            over : {None} \union Versions,
            status : {"pending", "purged", "captured_version_deleted",
                      "retained_by_policy"},
            deleted : SUBSET Versions, retained : SUBSET Versions]

Idle == [pc |-> "idle"]
VaultStep == [pc : {"head", "hold", "put", "vault"}, subject : Subjects,
              action : Actions, version : {None} \union Versions,
              over : {None} \union Versions]
ShredStep == [pc : {"release", "list", "delete", "shred"}, subject : Subjects,
              todo : SUBSET Versions, done : SUBSET Versions]

(* Every variable has its type.  Among other things a row always names the *)
(* version it captured, which an unpinned URL does not give.               *)
BlobTypeOK ==
  /\ cell \in [Subjects -> Url \union {NoUrl}]
  /\ object \in [Objects -> Seq(Version)]
  /\ blob \in [Subjects -> BlobRow \union {NoRow}]
  /\ due \subseteq Subjects
  /\ proc \in [Workers -> VaultStep \union ShredStep \union {Idle}]
  /\ uploads \in 0..MaxUploads /\ failures \in 0..MaxFailures

BlobInit ==
  /\ cell \in [Subjects -> [object : Objects, version : {None, 1}]
                             \union {NoUrl}]
  /\ object = [o \in Objects |-> <<NewVersion("document")>>]
  /\ blob = [s \in Subjects |-> NoRow]
  /\ due = {}
  /\ proc = [w \in Workers |-> Idle]
  /\ uploads = 0 /\ failures = 0

-----------------------------------------------------------------------------
(* S3.                                                                     *)

Exists(o, v) == v \in DOMAIN object[o] /\ ~object[o][v].gone
Existing(o) == {v \in DOMAIN object[o] : ~object[o][v].gone}
Current(o) == {v \in Existing(o) : \A u \in Existing(o) : u <= v}

(* The version a URL or a request is about: the one it is pinned to, or    *)
(* the current one.  There is none when S3 answers 404.                    *)
Named(url) ==
  IF url.version = None THEN Current(url.object)
  ELSE Existing(url.object) \intersect {url.version}

Put(o, body) == object' = [object EXCEPT ![o] = Append(@, NewVersion(body))]
SetHold(o, v, on) == object' = [object EXCEPT ![o][v].held = on]
(* A legal hold forbids the deletion.                                      *)
DeleteObject(o, v) ==
  object' = IF object[o][v].held THEN object
            ELSE [object EXCEPT ![o][v].gone = TRUE]

-----------------------------------------------------------------------------
(* Transactions.                                                           *)

At(w, pc) == proc[w].pc = pc
Goto(w, pc) == proc' = [proc EXCEPT ![w].pc = pc]
Finish(w) == proc' = [proc EXCEPT ![w] = Idle]
Row(w) == blob[proc[w].subject]
Free(s) == \A w \in Workers : proc[w] # Idle => proc[w].subject # s
Pending(s) == blob[s].status = "pending"
Active(s) == blob[s].status \in {"pending", "retained_by_policy"}

(* The transaction rolls back: the call it made was rejected.              *)
Abort(w) == Finish(w) /\ UNCHANGED object

-----------------------------------------------------------------------------
(* VAULT_USER.                                                             *)

(* The root row is locked and the cell read.  The action is that of the    *)
(* target in the configuration the worker runs with.                       *)
BeginVault(w, s, action) ==
  /\ proc[w] = Idle /\ Free(s)
  /\ cell[s] # NoUrl
  /\ proc' = [proc EXCEPT ![w] = [pc |-> "head", subject |-> s,
                                  action |-> action, version |-> None,
                                  over |-> None]]
  /\ UNCHANGED <<cell, object, blob, due, uploads, failures>>

(* Mutant: the version S3 answers with is not used.                        *)
Captured_UrlOnly(url, head) == url.version

(* versionId = pointer.versionId ?? head.versionId                         *)
Captured(url, head) == IF url.version = None THEN head ELSE url.version

HeadObject(w) ==
  /\ At(w, "head")
  /\ LET url == cell[proc[w].subject]
     IN \/ \E v \in Named(url) :
             proc' = [proc EXCEPT ![w].pc = "hold",
                                  ![w].version = Captured(url, v)]
        \/ Named(url) = {} /\ Finish(w)
  /\ UNCHANGED <<cell, object, blob, due, uploads, failures>>

(* Mutant: the request leaves the version id out.                          *)
HoldRequest_Unpinned(w) ==
  [object |-> cell[proc[w].subject].object, version |-> None]

HoldRequest(w) ==
  [object |-> cell[proc[w].subject].object, version |-> proc[w].version]

(* putObjectLegalHold with status ON.                                      *)
PutLegalHold(w) ==
  /\ At(w, "hold")
  /\ LET r == HoldRequest(w)
     IN \/ \E v \in Named(r) :
             /\ SetHold(r.object, v, TRUE)
             /\ Goto(w, IF proc[w].action = "overwrite" THEN "put" ELSE "vault")
        \/ Named(r) = {} /\ Abort(w)
  /\ UNCHANGED <<cell, blob, due, uploads, failures>>

(* putObject: the masking asset becomes the current version.               *)
PutPlaceholder(w) ==
  /\ At(w, "put")
  /\ LET o == cell[proc[w].subject].object
     IN /\ Put(o, "placeholder")
        /\ proc' = [proc EXCEPT ![w].pc = "vault",
                                ![w].over = Len(object[o]) + 1]
  /\ UNCHANGED <<cell, blob, due, uploads, failures>>

(* The masked cell and the row of insertBlobObject are committed.          *)
CommitVault(w) ==
  /\ At(w, "vault")
  /\ LET s == proc[w].subject
     IN /\ cell' = [cell EXCEPT ![s] = NoUrl]
        /\ blob' = [blob EXCEPT ![s] =
                      [object |-> cell[s].object, version |-> proc[w].version,
                       action |-> proc[w].action, over |-> proc[w].over,
                       status |-> "pending", deleted |-> {}, retained |-> {}]]
  /\ Finish(w)
  /\ UNCHANGED <<object, due, uploads, failures>>

-----------------------------------------------------------------------------
(* SHRED_USER.                                                             *)

(* Mutant: rows of finished shreds count as references.                    *)
OtherReferences_All(s) ==
  \E t \in Subjects \ {s} : blob[t] # NoRow /\ blob[t].object = blob[s].object

(* countOtherActiveBlobReferences, over the transaction's snapshot.        *)
OtherReferences(s) ==
  \E t \in Subjects \ {s} : Active(t) /\ blob[t].object = blob[s].object

(* The vault row is locked.  While the object has other references every   *)
(* attempt is refused (DPDP_BLOB_SHARED_OBJECT_CONFLICT) and changes       *)
(* nothing.                                                                *)
BeginShred(w, s) ==
  /\ proc[w] = Idle /\ Free(s)
  /\ Pending(s) /\ s \in due
  /\ blob[s].action = "legal_hold_only" \/ ~OtherReferences(s)
  /\ proc' = [proc EXCEPT ![w] =
                [pc |-> IF blob[s].action = "legal_hold_only" THEN "shred"
                        ELSE "release",
                 subject |-> s, todo |-> {}, done |-> {}]]
  /\ UNCHANGED <<cell, object, blob, due, uploads, failures>>

(* putObjectLegalHold with status OFF; a pending row always has            *)
(* legal_hold_status ON.                                                   *)
ReleaseHold(w) ==
  /\ At(w, "release")
  /\ LET o == Row(w).object
         v == Row(w).version
     IN IF Exists(o, v)
        THEN /\ SetHold(o, v, FALSE)
             /\ proc' = IF Row(w).action = "hard_delete"
                        THEN [proc EXCEPT ![w].pc = "delete", ![w].todo = {v}]
                        ELSE [proc EXCEPT ![w].pc = "list"]
        ELSE Abort(w)
  /\ UNCHANGED <<cell, blob, due, uploads, failures>>

(* Mutant: the placeholder is not filtered out.                            *)
ToDelete_All(row) == Existing(row.object)

(* filterVersionsForDeletion                                               *)
ToDelete(row) == Existing(row.object) \ {row.over}

ListObjectVersions(w) ==
  /\ At(w, "list")
  /\ proc' = [proc EXCEPT ![w].todo = ToDelete(Row(w)),
                          ![w].pc = IF ToDelete(Row(w)) = {} THEN "shred"
                                    ELSE "delete"]
  /\ UNCHANGED <<cell, object, blob, due, uploads, failures>>

(* Mutant: a rejected delete counts as done.                               *)
Refused_Never(o, v) == FALSE

(* assertS3Response: a held version answers 403, one that is gone already  *)
(* is deleted again without an error.                                      *)
Refused(o, v) == object[o][v].held

(* One version is deleted, in the order S3 listed them.                    *)
DeleteObjectVersion(w) ==
  /\ At(w, "delete")
  /\ \E v \in proc[w].todo :
       LET o == Row(w).object
       IN \/ Refused(o, v) /\ Abort(w)
          \/ /\ ~Refused(o, v)
             /\ DeleteObject(o, v)
             /\ proc' = [proc EXCEPT
                           ![w].todo = @ \ {v}, ![w].done = @ \union {v},
                           ![w].pc = IF proc[w].todo = {v} THEN "shred" ELSE @]
  /\ UNCHANGED <<cell, blob, due, uploads, failures>>

Outcome(action) ==
  CASE action = "legal_hold_only" -> "retained_by_policy"
    [] action = "hard_delete"     -> "captured_version_deleted"
    [] OTHER                      -> "purged"

Retained(row) ==
  CASE row.action = "legal_hold_only"                  -> {row.version}
    [] row.action = "overwrite" /\ row.over # None     -> {row.over}
    [] OTHER                                           -> {}

(* markBlobObjectShredded, and the rest of the shred, are committed.       *)
CommitShred(w) ==
  /\ At(w, "shred")
  /\ blob' = [blob EXCEPT ![proc[w].subject] =
                [Row(w) EXCEPT !.status = Outcome(Row(w).action),
                               !.deleted = proc[w].done,
                               !.retained = Retained(Row(w))]]
  /\ Finish(w)
  /\ UNCHANGED <<cell, object, due, uploads, failures>>

-----------------------------------------------------------------------------
(* Failures and the environment.                                           *)

(* The worker dies, an S3 call fails or its answer is lost, or the commit  *)
(* fails: Postgres rolls back, S3 keeps what was done.                     *)
Fail(w) ==
  /\ proc[w] # Idle
  /\ failures < MaxFailures
  /\ failures' = failures + 1
  /\ Finish(w)
  /\ UNCHANGED <<cell, object, blob, due, uploads>>

(* External: retention has expired and the notice has been sent.           *)
DeadlinePasses(s) ==
  /\ blob[s] # NoRow /\ s \notin due
  /\ due' = due \union {s}
  /\ UNCHANGED <<cell, object, blob, proc, uploads, failures>>

(* External: the application stores a new version of a live user's file.   *)
Upload(s) ==
  /\ cell[s] # NoUrl
  /\ uploads < MaxUploads
  /\ uploads' = uploads + 1
  /\ Put(cell[s].object, "document")
  /\ UNCHANGED <<cell, blob, due, proc, failures>>

VaultNext(w) ==
  HeadObject(w) \/ PutLegalHold(w) \/ PutPlaceholder(w) \/ CommitVault(w)
ShredNext(w) ==
  \/ ReleaseHold(w) \/ ListObjectVersions(w) \/ DeleteObjectVersion(w)
  \/ CommitShred(w)

BlobNext ==
  \/ \E w \in Workers : VaultNext(w) \/ ShredNext(w) \/ Fail(w)
  \/ \E w \in Workers, s \in Subjects :
       \/ BeginShred(w, s)
       \/ \E action \in Actions : BeginVault(w, s, action)
  \/ \E s \in Subjects : DeadlinePasses(s) \/ Upload(s)

BlobSpec == BlobInit /\ [][BlobNext]_blobVars

(* A transaction goes on unless it fails.  The control plane hands the     *)
(* shred of a subject out again and again: a lease that runs out returns   *)
(* the task to the queue, a dead letter is requeued by its operator, and a *)
(* worker claims the oldest task first.                                    *)
Fairness ==
  /\ \A w \in Workers : WF_blobVars(VaultNext(w) \/ ShredNext(w))
  /\ \A s \in Subjects : SF_blobVars(\E w \in Workers : BeginShred(w, s))

FairBlobSpec == BlobSpec /\ Fairness

-----------------------------------------------------------------------------
(* Properties.                                                             *)

(* The object s refers or referred to; Sole: nobody else's.                *)
File(s) == IF blob[s] = NoRow THEN cell[s].object ELSE blob[s].object
Sole(s) == \A t \in Subjects \ {s} : File(t) # File(s)
Documents(o) == {v \in Existing(o) : object[o][v].body = "document"}

(* A file recorded as purged is gone: no version of it up to the captured  *)
(* one is a document, and none at all when no other subject may have       *)
(* stored one since.  A captured version recorded as deleted is gone.      *)
ErasedForGood ==
  \A s \in Subjects :
    LET o == blob[s].object
        v == blob[s].version
    IN /\ blob[s].status = "purged" =>
             /\ \A u \in Documents(o) : u > v
             /\ Sole(s) => Documents(o) = {}
       /\ blob[s].status = "captured_version_deleted" => ~Exists(o, v)

(* The receipt the certificate quotes is true: the versions it lists as    *)
(* deleted are gone, and the version it lists as retained is there as long *)
(* as no other subject's file is the same object.                          *)
ReceiptIsTrue ==
  \A s \in Subjects : blob[s] # NoRow =>
    /\ \A v \in blob[s].deleted : ~Exists(blob[s].object, v)
    /\ Sole(s) => \A v \in blob[s].retained : Exists(blob[s].object, v)

(* The application can still read the file of a URL.                       *)
Resolves(url) ==
  IF url.version = None THEN Existing(url.object) # {}
  ELSE Exists(url.object, url.version)

(* A file no other subject refers to is kept as long as it must be: a live *)
(* user's URL resolves, and until the shred is due, or for good under      *)
(* legal_hold_only, the captured version exists under a legal hold.        *)
FileKeptUntilDue ==
  \A s \in Subjects : Sole(s) =>
    /\ cell[s] # NoUrl => Resolves(cell[s])
    /\ \/ Pending(s) /\ s \notin due
       \/ blob[s].status = "retained_by_policy"
       => /\ Exists(blob[s].object, blob[s].version)
          /\ object[blob[s].object][blob[s].version].held

(* What makes every later attempt fail: the captured version was deleted   *)
(* by an attempt that did not commit, so that its hold cannot be released, *)
(* or a vault that did not commit left a hold on another version.          *)
Torn(s) ==
  LET o == blob[s].object
  IN \/ ~Exists(o, blob[s].version)
     \/ \E v \in Existing(o) \ {blob[s].version} : object[o][v].held

(* Another subject's file is the same object and not purged.               *)
Contended(s) ==
  \E t \in Subjects \ {s} : File(t) = File(s) /\ Active(t)

(* A shred that is due is recorded as done, unless another subject's row   *)
(* on the same object is in the way or an interrupted attempt left the     *)
(* object torn.                                                            *)
ShredSettles ==
  \A s \in Subjects :
    (Pending(s) /\ s \in due) ~> (~Pending(s) \/ Contended(s) \/ Torn(s))
=============================================================================
