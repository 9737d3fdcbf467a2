-------------------------- MODULE BlobErasureProofs --------------------------
(***************************************************************************)
(* The safety of BlobErasure for any number of subjects, objects, workers, *)
(* uploads and failures.                                                   *)
(*                                                                         *)
(* Every step is taken for one subject, and changes no object but that     *)
(* subject's file.  So the invariant is a conjunction over subjects and    *)
(* over the transactions in progress, and what has to be shown of a step   *)
(* is what it does to its own subject (lemma OwnSubject); for the others   *)
(* it is enough that objects only evolve: versions are added, and never    *)
(* come back.                                                              *)
(***************************************************************************)
EXTENDS BlobErasure, SequenceTheorems, TLAPS

-----------------------------------------------------------------------------
(* The invariant.                                                          *)

Busy(w) == proc[w] # Idle
Known(o, v) == v \in DOMAIN object[o]
Gone(o, v) == Known(o, v) /\ object[o][v].gone
Held(o, v) == Exists(o, v) /\ object[o][v].held

(* A subject is in one transaction at most.                                *)
OneEach ==
  \A w, x \in Workers :
    Busy(w) /\ Busy(x) /\ w # x => proc[w].subject # proc[x].subject

(* The placeholder is in place, as far as nobody else deletes it.          *)
Placed(s, o, over) ==
  over # None =>
    /\ Known(o, over) /\ object[o][over].body = "placeholder"
    /\ Sole(s) => Exists(o, over)

(* A row: what it says was captured is known, what it says was done is.    *)
RowGrounded(s) ==
  LET r == blob[s]
  IN r # NoRow =>
       /\ cell[s] = NoUrl
       /\ Known(r.object, r.version) /\ r.over # r.version
       /\ Placed(s, r.object, r.over)
       /\ Sole(s) /\ ( \/ r.status = "retained_by_policy"
                       \/ /\ r.status = "pending"
                          /\ s \notin due \/ r.action = "legal_hold_only" )
          => Held(r.object, r.version)
       /\ r.status = "pending" => r.deleted = {} /\ r.retained = {}
       /\ \A v \in r.deleted : Gone(r.object, v)
       /\ Sole(s) => \A v \in r.retained : Exists(r.object, v)
       /\ r.status = "purged" =>
            /\ \A u \in Documents(r.object) : u > r.version
            /\ Sole(s) => Documents(r.object) = {}
       /\ r.status = "captured_version_deleted" => Gone(r.object, r.version)

(* A subject's file: a subject without a row is not due, and its own file  *)
(* can be read.                                                            *)
SubjectGrounded(s) ==
  /\ RowGrounded(s)
  /\ s \in due => blob[s] # NoRow
  /\ Sole(s) /\ cell[s] # NoUrl => Resolves(cell[s])

(* A vault in progress: the cell it has read is still there, the version   *)
(* it captured is known, and held once the request for it was answered.    *)
VaultGrounded(w) ==
  proc[w].pc \in {"head", "hold", "put", "vault"} =>
    LET p == proc[w]
        s == p.subject
        o == cell[s].object
    IN /\ cell[s] # NoUrl /\ blob[s] = NoRow
       /\ p.pc # "head" => p.version # None /\ Known(o, p.version)
       /\ p.pc = "vault" \/ p.over = None
       /\ p.pc # "head" => p.over # p.version
       /\ p.pc \in {"put", "vault"} /\ Sole(s) => Held(o, p.version)
       /\ Placed(s, o, p.over)

(* A shred in progress: its row is pending and due; every version is still *)
(* on its list, or gone, that the outcome says will be gone.               *)
ShredGrounded(w) ==
  proc[w].pc \in {"release", "list", "delete", "shred"} =>
    LET p == proc[w]
        s == p.subject
        r == blob[s]
    IN /\ r # NoRow /\ r.status = "pending" /\ s \in due
       /\ p.pc # "shred" => r.action # "legal_hold_only"
       /\ p.pc = "list" => r.action # "hard_delete"
       /\ p.pc \in {"release", "list"} => p.todo = {} /\ p.done = {}
       /\ p.pc = "shred" => p.todo = {}
       /\ \A v \in p.todo : Known(r.object, v) /\ v # r.over
       /\ \A v \in p.done : Gone(r.object, v)
       /\ p.pc \in {"delete", "shred"} =>
            /\ r.action = "hard_delete" =>
                 r.version \in p.todo \/ Gone(r.object, r.version)
            /\ r.action \notin {"hard_delete", "legal_hold_only"} =>
                 /\ \A u \in Documents(r.object) : u > r.version \/ u \in p.todo
                 /\ Sole(s) => Documents(r.object) \subseteq p.todo

TaskGrounded(w) == VaultGrounded(w) /\ ShredGrounded(w)

BlobInv ==
  /\ BlobTypeOK
  /\ OneEach
  /\ \A s \in Subjects : SubjectGrounded(s)
  /\ \A w \in Workers : TaskGrounded(w)

-----------------------------------------------------------------------------
(* What a request does to an object.                                       *)

(* Versions are only added, each with an id above the known ones; a        *)
(* version keeps its body, and does not come back.                         *)
Evolves(o) ==
  /\ DOMAIN object[o] \subseteq DOMAIN object'[o]
  /\ \A v \in DOMAIN object[o] :
       /\ object'[o][v].body = object[o][v].body
       /\ object[o][v].gone => object'[o][v].gone
  /\ \A v \in DOMAIN object'[o] \ DOMAIN object[o] :
       \A u \in DOMAIN object[o] : u < v

LEMMA ObjectDomain ==
  ASSUME BlobTypeOK, NEW o \in Objects
  PROVE  /\ object[o] \in Seq(Version)
         /\ Len(object[o]) \in Nat
         /\ DOMAIN object[o] = 1..Len(object[o])
         /\ \A v \in DOMAIN object[o] : object[o][v] \in Version
<1>1. object[o] \in Seq(Version)
  BY DEF BlobTypeOK
<1> QED BY <1>1, LenProperties

LEMMA SameObjects ==
  ASSUME UNCHANGED object, NEW o
  PROVE  Evolves(o)
BY DEF Evolves

LEMMA PutEffect ==
  ASSUME BlobTypeOK, NEW o \in Objects,
         NEW body \in {"document", "placeholder"}, Put(o, body)
  PROVE  /\ object' \in [Objects -> Seq(Version)]
         /\ \A p \in Objects : Evolves(p) /\ (p # o => object'[p] = object[p])
         /\ Len(object[o]) + 1 \notin DOMAIN object[o]
         /\ DOMAIN object'[o] = DOMAIN object[o] \union {Len(object[o]) + 1}
         /\ \A v \in DOMAIN object[o] : object'[o][v] = object[o][v]
         /\ object'[o][Len(object[o]) + 1] = NewVersion(body)
<1>1. /\ object \in [Objects -> Seq(Version)]
      /\ object[o] \in Seq(Version) /\ Len(object[o]) \in Nat
      /\ DOMAIN object[o] = 1..Len(object[o])
  BY ObjectDomain DEF BlobTypeOK
<1>2. NewVersion(body) \in Version
  BY DEF NewVersion, Version
<1> DEFINE new == Append(object[o], NewVersion(body))
<1>3. /\ new \in Seq(Version) /\ Len(new) = Len(object[o]) + 1
      /\ \A i \in 1..Len(object[o]) : new[i] = object[o][i]
      /\ new[Len(object[o]) + 1] = NewVersion(body)
  BY <1>1, <1>2, AppendProperties
<1>4. DOMAIN new = 1..(Len(object[o]) + 1)
  BY <1>3, LenProperties
<1>5. object' = [object EXCEPT ![o] = new]
  BY DEF Put
<1>6. /\ object'[o] = new /\ object' \in [Objects -> Seq(Version)]
      /\ \A p \in Objects : p # o => object'[p] = object[p]
  <2> HIDE DEF new
  <2> QED BY <1>1, <1>3, <1>5
<1>7. 1..(Len(object[o]) + 1) = 1..Len(object[o]) \union {Len(object[o]) + 1}
  BY <1>1
<1>8. Evolves(o)
  <2> HIDE DEF new
  <2> QED BY <1>1, <1>3, <1>4, <1>6 DEF Evolves
<1>9. ASSUME NEW p \in Objects, p # o PROVE Evolves(p)
  BY <1>6, <1>9 DEF Evolves
<1> HIDE DEF new
<1> QED BY <1>1, <1>3, <1>4, <1>6, <1>7, <1>8, <1>9

(* Rewriting one version without changing its body or bringing it back.    *)
LEMMA RewriteEffect ==
  ASSUME BlobTypeOK, NEW o \in Objects, NEW v \in DOMAIN object[o],
         NEW new \in Version,
         new.body = object[o][v].body, object[o][v].gone => new.gone,
         object' = [object EXCEPT ![o] = [@ EXCEPT ![v] = new]]
  PROVE  /\ object' \in [Objects -> Seq(Version)]
         /\ \A p \in Objects : Evolves(p) /\ (p # o => object'[p] = object[p])
         /\ DOMAIN object'[o] = DOMAIN object[o]
         /\ \A u \in DOMAIN object[o] :
              object'[o][u] = IF u = v THEN new ELSE object[o][u]
<1>1. /\ object \in [Objects -> Seq(Version)]
      /\ object[o] \in Seq(Version) /\ Len(object[o]) \in Nat
      /\ DOMAIN object[o] = 1..Len(object[o])
  BY ObjectDomain DEF BlobTypeOK
<1> DEFINE seq == [object[o] EXCEPT ![v] = new]
<1>2. /\ seq \in Seq(Version) /\ Len(seq) = Len(object[o])
      /\ \A j \in 1..Len(object[o]) :
           seq[j] = IF j = v THEN new ELSE object[o][j]
  BY <1>1, ExceptSeq
<1>3. DOMAIN seq = DOMAIN object[o]
  OBVIOUS
<1>4. object' = [object EXCEPT ![o] = seq]
  OBVIOUS
<1> HIDE DEF seq
<1>5. /\ object'[o] = seq /\ object' \in [Objects -> Seq(Version)]
      /\ \A p \in Objects : p # o => object'[p] = object[p]
  BY <1>1, <1>2, <1>4
<1>6. Evolves(o)
  BY <1>1, <1>2, <1>3, <1>5 DEF Evolves
<1>7. ASSUME NEW p \in Objects, p # o PROVE Evolves(p)
  BY <1>5, <1>7 DEF Evolves
<1> QED BY <1>1, <1>2, <1>3, <1>5, <1>6, <1>7

LEMMA HoldEffect ==
  ASSUME BlobTypeOK, NEW o \in Objects, NEW v \in DOMAIN object[o],
         NEW on \in BOOLEAN, SetHold(o, v, on)
  PROVE  /\ object' \in [Objects -> Seq(Version)]
         /\ \A p \in Objects : Evolves(p) /\ (p # o => object'[p] = object[p])
         /\ DOMAIN object'[o] = DOMAIN object[o]
         /\ \A u \in DOMAIN object[o] :
              /\ object'[o][u].body = object[o][u].body
              /\ object'[o][u].gone = object[o][u].gone
              /\ u # v => object'[o][u].held = object[o][u].held
         /\ object'[o][v].held = on
<1> DEFINE new == [object[o][v] EXCEPT !.held = on]
<1>1. object[o][v] \in Version
  BY ObjectDomain
<1>2. /\ new \in Version /\ new.held = on
      /\ new.body = object[o][v].body /\ new.gone = object[o][v].gone
  BY <1>1 DEF Version
<1>3. object' = [object EXCEPT ![o] = [@ EXCEPT ![v] = new]]
  BY DEF SetHold
<1> HIDE DEF new
<1> QED BY <1>2, <1>3, RewriteEffect

LEMMA DeleteEffect ==
  ASSUME BlobTypeOK, NEW o \in Objects, NEW v \in DOMAIN object[o],
         ~object[o][v].held, DeleteObject(o, v)
  PROVE  /\ object' \in [Objects -> Seq(Version)]
         /\ \A p \in Objects : Evolves(p) /\ (p # o => object'[p] = object[p])
         /\ DOMAIN object'[o] = DOMAIN object[o]
         /\ \A u \in DOMAIN object[o] :
              u # v => object'[o][u] = object[o][u]
         /\ object'[o][v].gone
<1> DEFINE new == [object[o][v] EXCEPT !.gone = TRUE]
<1>1. object[o][v] \in Version
  BY ObjectDomain
<1>2. new \in Version /\ new.gone /\ new.body = object[o][v].body
  BY <1>1 DEF Version
<1>3. object' = [object EXCEPT ![o] = [@ EXCEPT ![v] = new]]
  BY DEF DeleteObject
<1> HIDE DEF new
<1> QED BY <1>2, <1>3, RewriteEffect

-----------------------------------------------------------------------------
(* Other subjects.                                                         *)

(* A step for t: what it leaves of the other subjects, and of the objects. *)
Only(t) ==
  /\ \A s \in Subjects \ {t} :
       cell'[s] = cell[s] /\ blob'[s] = blob[s] /\ (s \in due' <=> s \in due)
  /\ \A s \in Subjects : File(s)' = File(s)
  /\ \A o \in Objects : Evolves(o) /\ (o # File(t) => object'[o] = object[o])

(* What follows about a version, and about the documents of an object.     *)
LEMMA Evolution ==
  ASSUME NEW o, Evolves(o)
  PROVE  /\ \A v : Known(o, v) => Known(o, v)'
         /\ \A v : Gone(o, v) => Gone(o, v)'
         /\ \A v : Known(o, v) /\ object[o][v].body = "placeholder"
                   => object'[o][v].body = "placeholder"
         /\ \A v : \A u \in Documents(o)' :
              Known(o, v) => u > v \/ u \in Documents(o)
BY DEF Evolves, Known, Gone, Documents, Existing

LEMMA NoEvolution ==
  ASSUME NEW o, object'[o] = object[o]
  PROVE  /\ \A v : Exists(o, v) <=> Exists(o, v)'
         /\ \A v : Held(o, v) <=> Held(o, v)'
         /\ Existing(o)' = Existing(o) /\ Documents(o)' = Documents(o)
BY DEF Exists, Held, Existing, Documents

(* A subject's own file is another object than that of a step for t.       *)
LEMMA SoleKept ==
  ASSUME NEW t \in Subjects, Only(t), NEW s \in Subjects
  PROVE  /\ Sole(s)' <=> Sole(s)
         /\ s # t /\ Sole(s) => File(s) # File(t)
BY DEF Only, Sole

LEMMA OtherSubject ==
  ASSUME BlobTypeOK, NEW t \in Subjects, Only(t),
         NEW s \in Subjects \ {t}, SubjectGrounded(s)
  PROVE  SubjectGrounded(s)'
<1>1. /\ cell'[s] = cell[s] /\ blob'[s] = blob[s]
      /\ s \in due' <=> s \in due
  BY DEF Only
<1>2. PICK r : r = blob[s]
  OBVIOUS
<1>3. PICK c : c = cell[s]
  OBVIOUS
<1>4. /\ blob'[s] = r /\ cell'[s] = c
      /\ Sole(s)' <=> Sole(s)
      /\ Sole(s) => File(s) # File(t)
  BY <1>1, <1>2, <1>3, SoleKept
<1>5. s \in due' => r # NoRow
  BY <1>1, <1>2 DEF SubjectGrounded
<1>6. RowGrounded(s)'
  <2>1. SUFFICES ASSUME r # NoRow PROVE RowGrounded(s)'
    BY <1>4 DEF RowGrounded
  <2>2. r \in BlobRow /\ File(s) = r.object /\ r.object \in Objects
    BY <2>1, <1>2 DEF BlobTypeOK, File, BlobRow
  <2>3. PICK o \in Objects : o = r.object
    BY <2>2
  <2>4. Evolves(o) /\ (Sole(s) => object'[o] = object[o])
    BY <1>4, <2>2, <2>3 DEF Only
  <2>5. /\ c = NoUrl
        /\ Known(o, r.version) /\ r.over # r.version
        /\ Placed(s, o, r.over)
        /\ Sole(s) /\ ( \/ r.status = "retained_by_policy"
                        \/ /\ r.status = "pending"
                           /\ s \notin due \/ r.action = "legal_hold_only" )
           => Held(o, r.version)
        /\ r.status = "pending" => r.deleted = {} /\ r.retained = {}
        /\ \A v \in r.deleted : Gone(o, v)
        /\ Sole(s) => \A v \in r.retained : Exists(o, v)
        /\ r.status = "purged" =>
             /\ \A u \in Documents(o) : u > r.version
             /\ Sole(s) => Documents(o) = {}
        /\ r.status = "captured_version_deleted" => Gone(o, r.version)
    BY <1>2, <1>3, <2>1, <2>3 DEF SubjectGrounded, RowGrounded
  <2>6. /\ Known(o, r.version)'
        /\ \A v \in r.deleted : Gone(o, v)'
        /\ r.status = "captured_version_deleted" => Gone(o, r.version)'
        /\ r.status = "purged" => \A u \in Documents(o)' : u > r.version
    BY <2>4, <2>5, Evolution
  <2>7. Sole(s) =>
          /\ Held(o, r.version) => Held(o, r.version)'
          /\ \A v : Exists(o, v) => Exists(o, v)'
          /\ Documents(o)' = Documents(o)
    BY <2>4, NoEvolution
  <2>8. Placed(s, o, r.over)'
    BY <1>4, <2>4, <2>5, <2>7, Evolution DEF Placed
  <2> QED BY <1>1, <1>4, <2>3, <2>5, <2>6, <2>7, <2>8 DEF RowGrounded
<1>7. Sole(s) /\ c # NoUrl => Resolves(cell[s])'
  <2>1. SUFFICES ASSUME Sole(s), c # NoUrl PROVE Resolves(c)'
    BY <1>4 DEF Resolves
  <2>2. r = NoRow /\ c \in Url /\ Resolves(c)
    BY <1>2, <1>3, <2>1 DEF SubjectGrounded, RowGrounded, BlobTypeOK
  <2>3. c.object \in Objects /\ File(s) = c.object
    BY <1>2, <1>3, <2>2 DEF File, Url
  <2>4. object'[c.object] = object[c.object]
    BY <1>4, <2>1, <2>3 DEF Only
  <2> QED BY <2>2, <2>4 DEF Resolves, Existing, Exists
<1> QED BY <1>4, <1>5, <1>6, <1>7 DEF SubjectGrounded

(* A task of another subject.                                              *)
LEMMA OtherVault ==
  ASSUME BlobTypeOK, NEW t \in Subjects, Only(t), NEW x \in Workers,
         proc'[x] = proc[x], proc[x].subject \in Subjects \ {t},
         VaultGrounded(x)
  PROVE  VaultGrounded(x)'
<1>1. PICK p : p = proc[x]
  OBVIOUS
<1>2. PICK s \in Subjects \ {t} : s = p.subject
  BY <1>1
<1>3. PICK c : c = cell[s]
  OBVIOUS
<1>4. /\ cell'[s] = c /\ blob'[s] = blob[s] /\ proc'[x] = p
      /\ Sole(s)' <=> Sole(s)
      /\ Sole(s) => File(s) # File(t)
  BY <1>1, <1>3, SoleKept DEF Only
<1>5. SUFFICES ASSUME p.pc \in {"head", "hold", "put", "vault"}
               PROVE  VaultGrounded(x)'
  BY <1>4 DEF VaultGrounded
<1>6. /\ c # NoUrl /\ blob[s] = NoRow
      /\ p.pc # "head" => p.version # None /\ Known(c.object, p.version)
      /\ p.pc = "vault" \/ p.over = None
      /\ p.pc # "head" => p.over # p.version
      /\ p.pc \in {"put", "vault"} /\ Sole(s) => Held(c.object, p.version)
      /\ Placed(s, c.object, p.over)
  BY <1>1, <1>2, <1>3, <1>5 DEF VaultGrounded
<1>7. PICK o \in Objects : o = c.object
  BY <1>3, <1>6 DEF BlobTypeOK, Url
<1>8. Evolves(o) /\ (Sole(s) => object'[o] = object[o])
  BY <1>3, <1>4, <1>6, <1>7 DEF Only, File
<1>9. /\ Known(o, p.version) => Known(o, p.version)'
      /\ Sole(s) => (Held(o, p.version) => Held(o, p.version)')
  BY <1>8, Evolution, NoEvolution
<1>10. Placed(s, o, p.over)'
  <2>1. Placed(s, o, p.over)
    BY <1>6, <1>7
  <2> QED BY <1>4, <1>8, <2>1, Evolution, NoEvolution DEF Placed
<1> QED BY <1>2, <1>4, <1>6, <1>7, <1>9, <1>10 DEF VaultGrounded

LEMMA OtherShred ==
  ASSUME BlobTypeOK, NEW t \in Subjects, Only(t), NEW x \in Workers,
         proc'[x] = proc[x], proc[x].subject \in Subjects \ {t},
         RowGrounded(proc[x].subject), ShredGrounded(x)
  PROVE  ShredGrounded(x)'
<1>1. PICK p : p = proc[x]
  OBVIOUS
<1>2. PICK s \in Subjects \ {t} : s = p.subject
  BY <1>1
<1>3. PICK r : r = blob[s]
  OBVIOUS
<1>4. /\ blob'[s] = r /\ proc'[x] = p
      /\ s \in due' <=> s \in due
      /\ Sole(s)' <=> Sole(s)
      /\ Sole(s) => File(s) # File(t)
  BY <1>1, <1>3, SoleKept DEF Only
<1>5. SUFFICES ASSUME p.pc \in {"release", "list", "delete", "shred"}
               PROVE  ShredGrounded(x)'
  BY <1>4 DEF ShredGrounded
<1>6. r # NoRow
  BY <1>1, <1>2, <1>3, <1>5 DEF ShredGrounded
<1>7. PICK o \in Objects : o = r.object
  BY <1>3, <1>6 DEF BlobTypeOK, BlobRow
<1>8. /\ r.status = "pending" /\ s \in due
      /\ p.pc # "shred" => r.action # "legal_hold_only"
      /\ p.pc = "list" => r.action # "hard_delete"
      /\ p.pc \in {"release", "list"} => p.todo = {} /\ p.done = {}
      /\ p.pc = "shred" => p.todo = {}
      /\ \A v \in p.todo : Known(o, v) /\ v # r.over
      /\ \A v \in p.done : Gone(o, v)
      /\ p.pc \in {"delete", "shred"} =>
           /\ r.action = "hard_delete" =>
                r.version \in p.todo \/ Gone(o, r.version)
           /\ r.action \notin {"hard_delete", "legal_hold_only"} =>
                /\ \A u \in Documents(o) : u > r.version \/ u \in p.todo
                /\ Sole(s) => Documents(o) \subseteq p.todo
  BY <1>1, <1>2, <1>3, <1>5, <1>7 DEF ShredGrounded
<1>9. Evolves(o) /\ (Sole(s) => object'[o] = object[o])
  BY <1>3, <1>4, <1>6, <1>7 DEF Only, File
<1>10. Known(o, r.version)
  BY <1>1, <1>2, <1>3, <1>6, <1>7 DEF RowGrounded
<1>11. /\ \A v \in p.todo : Known(o, v)'
       /\ \A v \in p.done : Gone(o, v)'
       /\ Gone(o, r.version) => Gone(o, r.version)'
       /\ \A u \in Documents(o)' : u > r.version \/ u \in Documents(o)
       /\ Sole(s) => Documents(o)' = Documents(o)
  BY <1>8, <1>9, <1>10, Evolution, NoEvolution
<1> QED BY <1>2, <1>4, <1>6, <1>7, <1>8, <1>11 DEF ShredGrounded

LEMMA TaskSubject ==
  ASSUME BlobTypeOK, NEW w \in Workers, Busy(w)
  PROVE  proc[w].subject \in Subjects
BY DEF BlobTypeOK, Busy, VaultStep, ShredStep

(* So a step for t has to preserve the invariant for t and its tasks.      *)
LEMMA OwnSubject ==
  ASSUME BlobInv, BlobTypeOK', OneEach', NEW t \in Subjects, Only(t),
         SubjectGrounded(t)',
         \A x \in Workers :
           \/ Busy(x) /\ proc[x].subject # t /\ proc'[x] = proc[x]
           \/ TaskGrounded(x)'
  PROVE  BlobInv'
<1>1. BlobTypeOK
  BY DEF BlobInv
<1>2. ASSUME NEW s \in Subjects PROVE SubjectGrounded(s)'
  BY <1>1, OtherSubject DEF BlobInv
<1>3. ASSUME NEW x \in Workers PROVE TaskGrounded(x)'
  <2>1. CASE Busy(x) /\ proc[x].subject # t /\ proc'[x] = proc[x]
    <3>1. proc[x].subject \in Subjects \ {t}
      BY <1>1, <2>1, TaskSubject
    <3>2. /\ VaultGrounded(x) /\ ShredGrounded(x)
          /\ RowGrounded(proc[x].subject)
      BY <3>1 DEF BlobInv, TaskGrounded, SubjectGrounded
    <3>3. VaultGrounded(x)'
      BY <1>1, <2>1, <3>1, <3>2, OtherVault
    <3>4. ShredGrounded(x)'
      BY <1>1, <2>1, <3>1, <3>2, OtherShred
    <3> QED BY <3>3, <3>4 DEF TaskGrounded
  <2> QED BY <2>1
<1> QED BY <1>2, <1>3 DEF BlobInv

LEMMA IdleTask ==
  ASSUME NEW w \in Workers, proc'[w] = Idle
  PROVE  TaskGrounded(w)'
BY DEF Idle, TaskGrounded, VaultGrounded, ShredGrounded

(* A step that worker w takes for t.                                       *)
Acts(w, t) ==
  /\ (Busy(w) /\ proc[w].subject = t) \/ Free(t)
  /\ \A x \in Workers \ {w} : proc'[x] = proc[x]
  /\ proc'[w] = Idle \/ proc'[w].subject = t

LEMMA WorkerStep ==
  ASSUME BlobInv, BlobTypeOK', NEW t \in Subjects, NEW w \in Workers,
         Only(t), Acts(w, t), SubjectGrounded(t)', TaskGrounded(w)'
  PROVE  BlobInv'
<1>1. BlobTypeOK /\ OneEach
  BY DEF BlobInv
<1>2. ASSUME NEW x \in Workers \ {w}, Busy(x)
      PROVE  proc[x].subject # t
  BY <1>1, <1>2 DEF OneEach, Free, Busy, Acts
<1>3. OneEach'
  BY <1>1, <1>2 DEF OneEach, Busy, Acts
<1>4. ASSUME NEW x \in Workers \ {w}
      PROVE  \/ Busy(x) /\ proc[x].subject # t /\ proc'[x] = proc[x]
             \/ TaskGrounded(x)'
  <2>1. proc'[x] = proc[x]
    BY DEF Acts
  <2>2. CASE Busy(x)
    BY <1>2, <2>1, <2>2
  <2>3. CASE ~Busy(x)
    <3>1. proc'[x] = Idle
      BY <2>1, <2>3 DEF Busy
    <3>2. TaskGrounded(x)'
      BY <3>1, IdleTask
    <3> QED BY <3>2
  <2> QED BY <2>2, <2>3
<1> QED BY <1>3, <1>4, OwnSubject

-----------------------------------------------------------------------------
(* Steps that change no table and no object.                               *)

LEMMA OnlyQuiet ==
  ASSUME UNCHANGED <<cell, object, blob, due>>, NEW t
  PROVE  Only(t)
BY SameObjects DEF Only, File

LEMMA QuietSubject ==
  ASSUME UNCHANGED <<cell, object, blob, due>>, NEW s, SubjectGrounded(s)
  PROVE  SubjectGrounded(s)'
<1>1. /\ Sole(s)' <=> Sole(s)
      /\ \A o, v : /\ Known(o, v)' <=> Known(o, v)
                   /\ Gone(o, v)' <=> Gone(o, v)
                   /\ Held(o, v)' <=> Held(o, v)
                   /\ Exists(o, v)' <=> Exists(o, v)
      /\ \A o : Documents(o)' = Documents(o)
  BY DEF Sole, File, Known, Gone, Held, Exists, Documents, Existing
<1>2. RowGrounded(s)'
  BY <1>1 DEF SubjectGrounded, RowGrounded, Placed
<1>3. Resolves(cell[s])' <=> Resolves(cell[s])
  BY DEF Resolves, Existing, Exists
<1> QED BY <1>1, <1>2, <1>3 DEF SubjectGrounded

LEMMA QuietStep ==
  ASSUME BlobInv, UNCHANGED <<cell, object, blob, due>>,
         uploads' \in 0..MaxUploads, failures' \in 0..MaxFailures,
         proc' \in [Workers -> VaultStep \union ShredStep \union {Idle}],
         NEW t \in Subjects, NEW w \in Workers, Acts(w, t), TaskGrounded(w)'
  PROVE  BlobInv'
<1>1. BlobTypeOK'
  BY DEF BlobInv, BlobTypeOK
<1>2. Only(t) /\ SubjectGrounded(t)'
  BY OnlyQuiet, QuietSubject DEF BlobInv
<1> QED BY <1>1, <1>2, WorkerStep

LEMMA FinishActs ==
  ASSUME BlobTypeOK, NEW w \in Workers, Finish(w)
  PROVE  /\ proc' \in [Workers -> VaultStep \union ShredStep \union {Idle}]
         /\ proc'[w] = Idle
         /\ \A x \in Workers \ {w} : proc'[x] = proc[x]
BY DEF Finish, BlobTypeOK

(* A rejected call and a failure: the transaction is rolled back.          *)
LEMMA RolledBack ==
  ASSUME BlobInv, NEW w \in Workers, Busy(w), Finish(w),
         UNCHANGED <<cell, object, blob, due>>,
         uploads' \in 0..MaxUploads, failures' \in 0..MaxFailures
  PROVE  BlobInv'
<1>1. BlobTypeOK
  BY DEF BlobInv
<1>2. PICK t \in Subjects : t = proc[w].subject
  BY <1>1, TaskSubject
<1>3. Acts(w, t)
  BY <1>1, <1>2, FinishActs DEF Acts
<1>4. TaskGrounded(w)'
  BY <1>1, FinishActs, IdleTask
<1>5. proc' \in [Workers -> VaultStep \union ShredStep \union {Idle}]
  BY <1>1, FinishActs
<1> QED BY <1>3, <1>4, <1>5, QuietStep

(* The transaction w is in, by its next step.                              *)
LEMMA VaultTask ==
  ASSUME BlobInv, NEW w \in Workers,
         proc[w].pc \in {"head", "hold", "put", "vault"}
  PROVE  /\ proc[w] \in VaultStep /\ Busy(w) /\ proc[w].subject \in Subjects
         /\ VaultGrounded(w)
         /\ cell[proc[w].subject] \in Url
<1>1. proc[w] \in VaultStep /\ Busy(w)
  BY DEF BlobInv, BlobTypeOK, VaultStep, ShredStep, Idle, Busy
<1>2. VaultGrounded(w)
  BY DEF BlobInv, TaskGrounded
<1> QED BY <1>1, <1>2 DEF VaultGrounded, VaultStep, BlobInv, BlobTypeOK

LEMMA ShredTask ==
  ASSUME BlobInv, NEW w \in Workers,
         proc[w].pc \in {"release", "list", "delete", "shred"}
  PROVE  /\ proc[w] \in ShredStep /\ Busy(w) /\ proc[w].subject \in Subjects
         /\ ShredGrounded(w) /\ RowGrounded(proc[w].subject)
         /\ blob[proc[w].subject] \in BlobRow
<1>1. proc[w] \in ShredStep /\ Busy(w)
  BY DEF BlobInv, BlobTypeOK, VaultStep, ShredStep, Idle, Busy
<1>2. ShredGrounded(w) /\ RowGrounded(proc[w].subject)
  BY <1>1 DEF BlobInv, TaskGrounded, SubjectGrounded, ShredStep
<1> QED BY <1>1, <1>2 DEF ShredGrounded, ShredStep, BlobInv, BlobTypeOK

LEMMA BeginVaultInv ==
  ASSUME BlobInv, NEW w \in Workers, NEW s \in Subjects,
         NEW action \in Actions, BeginVault(w, s, action)
  PROVE  BlobInv'
<1> DEFINE p == [pc |-> "head", subject |-> s, action |-> action,
                 version |-> None, over |-> None]
<1>1. p \in VaultStep
  BY DEF VaultStep, None
<1>2. p.pc = "head" /\ p.subject = s /\ p.over = None
  OBVIOUS
<1>3. proc' = [proc EXCEPT ![w] = p] /\ Free(s) /\ cell[s] # NoUrl
      /\ UNCHANGED <<cell, object, blob, due, uploads, failures>>
  BY DEF BeginVault
<1> HIDE DEF p
<1>4. /\ proc' \in [Workers -> VaultStep \union ShredStep \union {Idle}]
      /\ proc'[w] = p /\ \A x \in Workers \ {w} : proc'[x] = proc[x]
      /\ uploads' \in 0..MaxUploads /\ failures' \in 0..MaxFailures
  BY <1>1, <1>3 DEF BlobInv, BlobTypeOK
<1>5. Acts(w, s)
  BY <1>2, <1>3, <1>4 DEF Acts
<1>6. blob[s] = NoRow
  BY <1>3 DEF BlobInv, SubjectGrounded, RowGrounded
<1>7. TaskGrounded(w)'
  BY <1>2, <1>3, <1>4, <1>6 DEF TaskGrounded, VaultGrounded, ShredGrounded, Placed
<1> QED BY <1>3, <1>4, <1>5, <1>7, QuietStep

LEMMA HeadObjectInv ==
  ASSUME BlobInv, NEW w \in Workers, HeadObject(w)
  PROVE  BlobInv'
<1>1. BlobTypeOK /\ proc[w].pc = "head"
  BY DEF BlobInv, HeadObject, At
<1>2. PICK p : p = proc[w]
  OBVIOUS
<1>3. PICK s \in Subjects : s = p.subject
  BY <1>1, <1>2, VaultTask
<1>4. PICK url : url = cell[s]
  OBVIOUS
<1>5. /\ p \in VaultStep /\ Busy(w) /\ url \in Url
      /\ url # NoUrl /\ blob[s] = NoRow /\ p.over = None
  BY <1>1, <1>2, <1>3, <1>4, VaultTask DEF VaultGrounded
<1>6. UNCHANGED <<cell, object, blob, due, uploads, failures>>
  BY DEF HeadObject
<1>7. uploads' \in 0..MaxUploads /\ failures' \in 0..MaxFailures
  BY <1>1, <1>6 DEF BlobTypeOK
<1>8. CASE Finish(w)
  BY <1>5, <1>6, <1>7, <1>8, RolledBack
<1>9. CASE \E v \in Named(url) :
             proc' = [proc EXCEPT ![w].pc = "hold",
                                  ![w].version = Captured(url, v)]
  <2>1. PICK v \in Named(url) :
               proc' = [proc EXCEPT ![w].pc = "hold",
                                    ![w].version = Captured(url, v)]
    BY <1>9
  <2>2. url.object \in Objects
    BY <1>5 DEF Url
  <2>3. v \in Existing(url.object) /\ Captured(url, v) = v
    BY <2>1 DEF Named, Captured, Current
  <2>4. v \in DOMAIN object[url.object] /\ v \in Nat /\ v # 0
    BY <1>1, <2>2, <2>3, ObjectDomain DEF Existing
  <2> DEFINE q == [p EXCEPT !.pc = "hold", !.version = v]
  <2>5. /\ q \in VaultStep /\ q.pc = "hold" /\ q.subject = s
        /\ q.version = v /\ q.over = None
    BY <1>3, <1>5, <2>4 DEF VaultStep, None, Versions
  <2>6. proc' = [proc EXCEPT ![w] = q]
    BY <1>2, <2>1, <2>3
  <2> HIDE DEF q
  <2>7. /\ proc' \in [Workers -> VaultStep \union ShredStep \union {Idle}]
        /\ proc'[w] = q /\ \A x \in Workers \ {w} : proc'[x] = proc[x]
    BY <1>1, <2>5, <2>6 DEF BlobTypeOK
  <2>8. Acts(w, s)
    BY <1>2, <1>3, <1>5, <2>5, <2>7 DEF Acts
  <2>9. Known(url.object, v)'
    BY <1>6, <2>4 DEF Known
  <2>10. TaskGrounded(w)'
    BY <1>4, <1>5, <1>6, <2>4, <2>5, <2>7, <2>9
       DEF TaskGrounded, VaultGrounded, ShredGrounded, Placed, None
  <2> QED BY <1>6, <1>7, <2>7, <2>8, <2>10, QuietStep
<1> QED BY <1>2, <1>3, <1>4, <1>8, <1>9 DEF HeadObject

-----------------------------------------------------------------------------
(* The other steps of a vault.                                             *)

(* A step that changes the subject's file and goes on.                     *)
LEMMA OnlyFile ==
  ASSUME UNCHANGED <<cell, blob, due>>, NEW t \in Subjects,
         \A o \in Objects :
           Evolves(o) /\ (o # File(t) => object'[o] = object[o])
  PROVE  Only(t)
BY DEF Only, File

LEMMA VaultTypes ==
  ASSUME BlobTypeOK, NEW w \in Workers,
         UNCHANGED <<cell, blob, due, uploads, failures>>,
         object' \in [Objects -> Seq(Version)],
         NEW q \in VaultStep \union ShredStep, proc' = [proc EXCEPT ![w] = q]
  PROVE  /\ BlobTypeOK'
         /\ proc'[w] = q /\ \A x \in Workers \ {w} : proc'[x] = proc[x]
BY DEF BlobTypeOK

(* While the vault is in progress the subject has no row.                  *)
LEMMA VaultingSubject ==
  ASSUME NEW s \in Subjects, blob'[s] = NoRow, s \notin due',
         Sole(s) => Resolves(cell[s])', Sole(s)' <=> Sole(s)
  PROVE  SubjectGrounded(s)'
BY DEF SubjectGrounded, RowGrounded

LEMMA StillResolves ==
  ASSUME NEW c \in Url,
         \A v : Exists(c.object, v) => Exists(c.object, v)', Resolves(c)
  PROVE  Resolves(c)'
<1>1. \A v \in Existing(c.object) : v \in Existing(c.object)'
  BY DEF Exists, Existing
<1> QED BY <1>1 DEF Resolves

LEMMA PutLegalHoldInv ==
  ASSUME BlobInv, NEW w \in Workers, PutLegalHold(w)
  PROVE  BlobInv'
<1>1. BlobTypeOK /\ proc[w].pc = "hold"
  BY DEF BlobInv, PutLegalHold, At
<1>2. PICK p : p = proc[w]
  OBVIOUS
<1>3. PICK s \in Subjects : s = p.subject
  BY <1>1, <1>2, VaultTask
<1>4. PICK url : url = cell[s]
  OBVIOUS
<1>5. /\ p \in VaultStep /\ Busy(w) /\ url \in Url
      /\ url # NoUrl /\ blob[s] = NoRow /\ p.over = None
      /\ p.version # None /\ p.over # p.version
  BY <1>1, <1>2, <1>3, <1>4, VaultTask DEF VaultGrounded
<1>6. UNCHANGED <<cell, blob, due, uploads, failures>>
  BY DEF PutLegalHold
<1>7. uploads' \in 0..MaxUploads /\ failures' \in 0..MaxFailures
  BY <1>1, <1>6 DEF BlobTypeOK
<1>8. PICK o \in Objects : o = url.object
  BY <1>5 DEF Url
<1>9. PICK v : v = p.version
  OBVIOUS
<1>10. HoldRequest(w) = [object |-> o, version |-> v]
  BY <1>2, <1>3, <1>4, <1>8, <1>9 DEF HoldRequest
<1>11. Named(HoldRequest(w)) = Existing(o) \intersect {v}
  BY <1>5, <1>9, <1>10 DEF Named
<1>12. CASE Abort(w)
  BY <1>5, <1>6, <1>7, <1>12, RolledBack DEF Abort
<1>13. CASE \E u \in Named(HoldRequest(w)) :
              /\ SetHold(HoldRequest(w).object, u, TRUE)
              /\ Goto(w, IF proc[w].action = "overwrite" THEN "put"
                         ELSE "vault")
  <2>1. /\ v \in Existing(o) /\ SetHold(o, v, TRUE)
        /\ Goto(w, IF p.action = "overwrite" THEN "put" ELSE "vault")
    <3>1. PICK u \in Named(HoldRequest(w)) :
                 /\ SetHold(HoldRequest(w).object, u, TRUE)
                 /\ Goto(w, IF proc[w].action = "overwrite" THEN "put"
                            ELSE "vault")
      BY <1>13
    <3>2. u = v /\ v \in Existing(o)
      BY <1>11
    <3>3. HoldRequest(w).object = o
      BY <1>10
    <3> QED BY <1>2, <3>1, <3>2, <3>3
  <2> DEFINE q == [p EXCEPT !.pc = IF p.action = "overwrite" THEN "put"
                                   ELSE "vault"]
  <2>2. /\ q \in VaultStep /\ q.pc \in {"put", "vault"} /\ q.subject = s
        /\ q.version = v /\ q.over = None
    BY <1>3, <1>5, <1>9 DEF VaultStep
  <2>3. proc' = [proc EXCEPT ![w] = q]
    BY <1>2, <2>1 DEF Goto
  <2> HIDE DEF q
  <2>4. v \in DOMAIN object[o] /\ ~object[o][v].gone
    BY <2>1 DEF Existing
  <2>5. /\ object' \in [Objects -> Seq(Version)]
        /\ \A x \in Objects : Evolves(x) /\ (x # o => object'[x] = object[x])
        /\ DOMAIN object'[o] = DOMAIN object[o]
        /\ \A u \in DOMAIN object[o] :
             object'[o][u].gone = object[o][u].gone
        /\ object'[o][v].held = TRUE
    BY <1>1, <2>1, <2>4, HoldEffect
  <2>6. /\ BlobTypeOK'
        /\ proc'[w] = q /\ \A x \in Workers \ {w} : proc'[x] = proc[x]
    BY <1>1, <1>6, <2>2, <2>3, <2>5, VaultTypes
  <2>7. Acts(w, s)
    BY <1>2, <1>3, <1>5, <2>2, <2>6 DEF Acts
  <2>8. File(s) = o
    BY <1>4, <1>5, <1>8 DEF File
  <2>9. Only(s)
    BY <1>6, <2>5, <2>8, OnlyFile
  <2>10. Sole(s)' <=> Sole(s)
    BY <2>9, SoleKept
  <2>11. \A u : Exists(o, u) => Exists(o, u)'
    BY <2>5 DEF Exists
  <2>12. SubjectGrounded(s)'
    <3>1. s \notin due /\ (Sole(s) => Resolves(url))
      BY <1>4, <1>5 DEF BlobInv, SubjectGrounded
    <3>2. Sole(s) => Resolves(url)'
      BY <1>5, <1>8, <2>11, <3>1, StillResolves
    <3>3. Resolves(cell[s])' <=> Resolves(url)'
      BY <1>4, <1>6 DEF Resolves
    <3> QED BY <1>5, <1>6, <2>10, <3>1, <3>2, <3>3, VaultingSubject
  <2>13. Known(o, v)' /\ Held(o, v)'
    BY <2>4, <2>5 DEF Known, Held, Exists
  <2>14. TaskGrounded(w)'
    BY <1>4, <1>5, <1>6, <1>8, <1>9, <2>2, <2>6, <2>13
       DEF TaskGrounded, VaultGrounded, ShredGrounded, Placed
  <2> QED BY <2>6, <2>7, <2>9, <2>12, <2>14, WorkerStep
<1> QED BY <1>12, <1>13 DEF PutLegalHold

LEMMA PutPlaceholderInv ==
  ASSUME BlobInv, NEW w \in Workers, PutPlaceholder(w)
  PROVE  BlobInv'
<1>1. BlobTypeOK /\ proc[w].pc = "put"
  BY DEF BlobInv, PutPlaceholder, At
<1>2. PICK p : p = proc[w]
  OBVIOUS
<1>3. PICK s \in Subjects : s = p.subject
  BY <1>1, <1>2, VaultTask
<1>4. PICK url : url = cell[s]
  OBVIOUS
<1>5. PICK o \in Objects : o = url.object
  BY <1>1, <1>2, <1>3, <1>4, VaultTask DEF Url
<1>6. /\ p \in VaultStep /\ Busy(w) /\ url \in Url
      /\ url # NoUrl /\ blob[s] = NoRow
      /\ p.version # None /\ Known(o, p.version)
      /\ Sole(s) => Held(o, p.version)
  BY <1>1, <1>2, <1>3, <1>4, <1>5, VaultTask DEF VaultGrounded
<1>7. UNCHANGED <<cell, blob, due, uploads, failures>>
  BY DEF PutPlaceholder
<1>8. PICK n : n = Len(object[o]) + 1
  OBVIOUS
<1>9. /\ Put(o, "placeholder")
      /\ proc' = [proc EXCEPT ![w].pc = "vault", ![w].over = n]
  BY <1>2, <1>3, <1>4, <1>5, <1>8 DEF PutPlaceholder
<1>10. /\ object' \in [Objects -> Seq(Version)]
       /\ \A x \in Objects : Evolves(x) /\ (x # o => object'[x] = object[x])
       /\ n \notin DOMAIN object[o]
       /\ DOMAIN object'[o] = DOMAIN object[o] \union {n}
       /\ \A v \in DOMAIN object[o] : object'[o][v] = object[o][v]
       /\ object'[o][n] = NewVersion("placeholder")
  BY <1>1, <1>8, <1>9, PutEffect
<1>11. n \in Versions /\ n # None
  BY <1>1, <1>8, ObjectDomain DEF Versions, None
<1> DEFINE q == [p EXCEPT !.pc = "vault", !.over = n]
<1>12. /\ q \in VaultStep /\ q.pc = "vault" /\ q.subject = s
       /\ q.version = p.version /\ q.over = n
  BY <1>3, <1>6, <1>11 DEF VaultStep
<1>13. proc' = [proc EXCEPT ![w] = q]
  BY <1>2, <1>9
<1> HIDE DEF q
<1>14. /\ BlobTypeOK'
       /\ proc'[w] = q /\ \A x \in Workers \ {w} : proc'[x] = proc[x]
  BY <1>1, <1>7, <1>10, <1>12, <1>13, VaultTypes
<1>15. Acts(w, s)
  BY <1>2, <1>3, <1>6, <1>12, <1>14 DEF Acts
<1>16. Only(s)
  <2>1. File(s) = o
    BY <1>4, <1>5, <1>6 DEF File
  <2> QED BY <1>7, <1>10, <2>1, OnlyFile
<1>17. Sole(s)' <=> Sole(s)
  BY <1>16, SoleKept
<1>18. \A u : /\ Exists(o, u) => Exists(o, u)'
              /\ Held(o, u) => Held(o, u)'
  BY <1>10 DEF Exists, Held
<1>19. SubjectGrounded(s)'
  <2>1. s \notin due /\ (Sole(s) => Resolves(url))
    BY <1>4, <1>6 DEF BlobInv, SubjectGrounded
  <2>2. Sole(s) => Resolves(url)'
    BY <1>5, <1>6, <1>18, <2>1, StillResolves
  <2>3. Resolves(cell[s])' <=> Resolves(url)'
    BY <1>4, <1>7 DEF Resolves
  <2> QED BY <1>6, <1>7, <1>17, <2>1, <2>2, <2>3, VaultingSubject
<1>20. Known(o, p.version)' /\ (Sole(s)' => Held(o, p.version)')
  BY <1>6, <1>10, <1>17, <1>18 DEF Known
<1>21. Placed(s, o, n)'
  BY <1>10 DEF Placed, Known, Exists, NewVersion
<1>22. p.version # n
  BY <1>6, <1>10 DEF Known
<1>23. TaskGrounded(w)'
  BY <1>4, <1>5, <1>6, <1>7, <1>12, <1>14, <1>20, <1>21, <1>22
     DEF TaskGrounded, VaultGrounded, ShredGrounded
<1> QED BY <1>14, <1>15, <1>16, <1>19, <1>23, WorkerStep

LEMMA CommitVaultInv ==
  ASSUME BlobInv, NEW w \in Workers, CommitVault(w)
  PROVE  BlobInv'
<1>1. BlobTypeOK /\ proc[w].pc = "vault"
  BY DEF BlobInv, CommitVault, At
<1>2. PICK p : p = proc[w]
  OBVIOUS
<1>3. PICK s \in Subjects : s = p.subject
  BY <1>1, <1>2, VaultTask
<1>4. PICK url : url = cell[s]
  OBVIOUS
<1>5. PICK o \in Objects : o = url.object
  BY <1>1, <1>2, <1>3, <1>4, VaultTask DEF Url
<1>6. /\ p \in VaultStep /\ Busy(w) /\ url \in Url
      /\ url # NoUrl /\ blob[s] = NoRow
      /\ p.version # None /\ p.over # p.version /\ Known(o, p.version)
      /\ Sole(s) => Held(o, p.version)
      /\ Placed(s, o, p.over)
  BY <1>1, <1>2, <1>3, <1>4, <1>5, VaultTask DEF VaultGrounded
<1>7. s \notin due
  BY <1>6 DEF BlobInv, SubjectGrounded
<1>8. UNCHANGED <<object, due, uploads, failures>> /\ Finish(w)
  BY DEF CommitVault
<1>9. PICK r : r = [object |-> o, version |-> p.version,
                    action |-> p.action, over |-> p.over,
                    status |-> "pending", deleted |-> {}, retained |-> {}]
  OBVIOUS
<1>10. r \in BlobRow /\ r # NoRow
  BY <1>6, <1>9 DEF BlobRow, VaultStep, Versions, NoRow
<1>11. /\ r.object = o /\ r.version = p.version /\ r.over = p.over
       /\ r.status = "pending" /\ r.deleted = {} /\ r.retained = {}
  BY <1>9
<1>12. cell' = [cell EXCEPT ![s] = NoUrl] /\ blob' = [blob EXCEPT ![s] = r]
  BY <1>2, <1>3, <1>4, <1>5, <1>9 DEF CommitVault
<1>13. /\ cell' \in [Subjects -> Url \union {NoUrl}]
       /\ blob' \in [Subjects -> BlobRow \union {NoRow}]
       /\ cell'[s] = NoUrl /\ blob'[s] = r
       /\ \A t \in Subjects \ {s} : cell'[t] = cell[t] /\ blob'[t] = blob[t]
  BY <1>1, <1>10, <1>12 DEF BlobTypeOK
<1>14. /\ proc' \in [Workers -> VaultStep \union ShredStep \union {Idle}]
       /\ proc'[w] = Idle /\ \A x \in Workers \ {w} : proc'[x] = proc[x]
  BY <1>1, <1>8, FinishActs
<1>15. BlobTypeOK'
  BY <1>1, <1>8, <1>13, <1>14 DEF BlobTypeOK
<1>16. Acts(w, s)
  BY <1>2, <1>3, <1>6, <1>14 DEF Acts
<1>17. Only(s)
  <2>1. \A t \in Subjects : File(t)' = File(t)
    BY <1>4, <1>5, <1>6, <1>10, <1>11, <1>13 DEF File
  <2> QED BY <1>8, <1>13, <2>1, SameObjects DEF Only
<1>18. Sole(s)' <=> Sole(s)
  BY <1>17, SoleKept
<1>19. \A v : /\ Known(o, v) => Known(o, v)'
              /\ Held(o, v) => Held(o, v)'
              /\ Exists(o, v) => Exists(o, v)'
  BY <1>8 DEF Known, Held, Exists
<1>20. Placed(s, o, p.over)'
  BY <1>6, <1>8, <1>18, <1>19 DEF Placed
<1>21. SubjectGrounded(s)'
  BY <1>6, <1>7, <1>8, <1>10, <1>11, <1>13, <1>18, <1>19, <1>20
     DEF SubjectGrounded, RowGrounded
<1>22. TaskGrounded(w)'
  BY <1>14, IdleTask
<1> QED BY <1>15, <1>16, <1>17, <1>21, <1>22, WorkerStep

-----------------------------------------------------------------------------
(* The steps of a shred.                                                   *)

LEMMA BeginShredInv ==
  ASSUME BlobInv, NEW w \in Workers, NEW s \in Subjects, BeginShred(w, s)
  PROVE  BlobInv'
<1>1. PICK r : r = blob[s]
  OBVIOUS
<1>2. PICK q : q = [pc |-> IF r.action = "legal_hold_only" THEN "shred"
                           ELSE "release",
                    subject |-> s, todo |-> {}, done |-> {}]
  OBVIOUS
<1>3. q \in ShredStep
  BY <1>2 DEF ShredStep
<1>4. /\ q.pc = IF r.action = "legal_hold_only" THEN "shred" ELSE "release"
      /\ q.subject = s /\ q.todo = {} /\ q.done = {}
  BY <1>2
<1>5. /\ proc' = [proc EXCEPT ![w] = q]
      /\ Free(s) /\ r.status = "pending" /\ s \in due
      /\ UNCHANGED <<cell, object, blob, due, uploads, failures>>
  BY <1>1, <1>2 DEF BeginShred, Pending
<1>6. /\ proc' \in [Workers -> VaultStep \union ShredStep \union {Idle}]
      /\ proc'[w] = q /\ \A x \in Workers \ {w} : proc'[x] = proc[x]
      /\ uploads' \in 0..MaxUploads /\ failures' \in 0..MaxFailures
  BY <1>3, <1>5 DEF BlobInv, BlobTypeOK
<1>7. Acts(w, s)
  BY <1>4, <1>5, <1>6 DEF Acts
<1>8. r # NoRow /\ blob'[s] = r /\ s \in due'
  BY <1>1, <1>5 DEF NoRow
<1>9. TaskGrounded(w)'
  BY <1>4, <1>5, <1>6, <1>8
     DEF TaskGrounded, VaultGrounded, ShredGrounded
<1> QED BY <1>5, <1>6, <1>7, <1>9, QuietStep

LEMMA ListInv ==
  ASSUME BlobInv, NEW w \in Workers, ListObjectVersions(w)
  PROVE  BlobInv'
<1>1. BlobTypeOK /\ proc[w].pc = "list"
  BY DEF BlobInv, ListObjectVersions, At
<1>2. PICK p : p = proc[w]
  OBVIOUS
<1>3. PICK s \in Subjects : s = p.subject
  BY <1>1, <1>2, ShredTask
<1>4. PICK r : r = blob[s]
  OBVIOUS
<1>5. PICK o \in Objects : o = r.object
  BY <1>1, <1>2, <1>3, <1>4, ShredTask DEF BlobRow
<1>6. /\ p \in ShredStep /\ Busy(w) /\ r \in BlobRow
      /\ r # NoRow /\ r.status = "pending" /\ s \in due
      /\ r.action \notin {"hard_delete", "legal_hold_only"}
      /\ p.todo = {} /\ p.done = {}
      /\ Placed(s, o, r.over)
  BY <1>1, <1>2, <1>3, <1>4, <1>5, ShredTask
     DEF ShredGrounded, RowGrounded
<1>7. PICK all : all = ToDelete(r)
  OBVIOUS
<1>8. all = Existing(o) \ {r.over}
  BY <1>5, <1>7 DEF ToDelete
<1>9. all \subseteq Versions
  BY <1>1, <1>8, ObjectDomain DEF Existing, Versions, None
<1> DEFINE q == [p EXCEPT !.todo = all,
                          !.pc = IF all = {} THEN "shred" ELSE "delete"]
<1>10. /\ q \in ShredStep /\ q.pc = IF all = {} THEN "shred" ELSE "delete"
       /\ q.subject = s /\ q.todo = all /\ q.done = {}
  BY <1>3, <1>6, <1>9 DEF ShredStep
<1>11. UNCHANGED <<cell, object, blob, due, uploads, failures>>
  BY DEF ListObjectVersions
<1>12. proc' = [proc EXCEPT ![w] = q]
  BY <1>2, <1>3, <1>4, <1>7 DEF ListObjectVersions, Row
<1> HIDE DEF q
<1>13. /\ proc' \in [Workers -> VaultStep \union ShredStep \union {Idle}]
       /\ proc'[w] = q /\ \A x \in Workers \ {w} : proc'[x] = proc[x]
       /\ uploads' \in 0..MaxUploads /\ failures' \in 0..MaxFailures
  BY <1>1, <1>10, <1>11, <1>12 DEF BlobTypeOK
<1>14. Acts(w, s)
  BY <1>2, <1>3, <1>6, <1>10, <1>13 DEF Acts
<1>15. r.over \notin Documents(o)
  <2>1. CASE r.over = None
    BY <1>1, <2>1, ObjectDomain DEF Documents, Existing, None
  <2>2. CASE r.over # None
    BY <1>6, <2>2 DEF Placed, Documents
  <2> QED BY <2>1, <2>2
<1>16. Documents(o)' \subseteq all
  BY <1>8, <1>11, <1>15 DEF Documents, Existing
<1>17. \A v \in all : Known(o, v)' /\ v # r.over
  BY <1>8, <1>11 DEF Known, Existing
<1>18. TaskGrounded(w)'
  BY <1>4, <1>5, <1>6, <1>10, <1>11, <1>13, <1>16, <1>17
     DEF TaskGrounded, VaultGrounded, ShredGrounded
<1> QED BY <1>11, <1>13, <1>14, <1>18, QuietStep

(* The subject of a shred whose version is not retained under its hold.    *)
LEMMA ShreddingSubject ==
  ASSUME NEW s \in Subjects, NEW r \in BlobRow, NEW o \in Objects,
         blob[s] = r, r.object = o, r # NoRow, r.status = "pending",
         s \in due, r.action # "legal_hold_only", RowGrounded(s),
         UNCHANGED <<cell, blob, due>>, Sole(s)' <=> Sole(s), Evolves(o),
         r.over # None => (Exists(o, r.over) => Exists(o, r.over)')
  PROVE  SubjectGrounded(s)'
<1>1. /\ cell[s] = NoUrl /\ Known(o, r.version) /\ r.over # r.version
      /\ Placed(s, o, r.over) /\ r.deleted = {} /\ r.retained = {}
  BY DEF RowGrounded
<1>2. Known(o, r.version)'
  BY <1>1, Evolution
<1>3. Placed(s, o, r.over)'
  BY <1>1, Evolution DEF Placed
<1> QED BY <1>1, <1>2, <1>3 DEF SubjectGrounded, RowGrounded

LEMMA ReleaseHoldInv ==
  ASSUME BlobInv, NEW w \in Workers, ReleaseHold(w)
  PROVE  BlobInv'
<1>1. BlobTypeOK /\ proc[w].pc = "release"
  BY DEF BlobInv, ReleaseHold, At
<1>2. PICK p : p = proc[w]
  OBVIOUS
<1>3. PICK s \in Subjects : s = p.subject
  BY <1>1, <1>2, ShredTask
<1>4. PICK r : r = blob[s]
  OBVIOUS
<1>5. PICK o \in Objects : o = r.object
  BY <1>1, <1>2, <1>3, <1>4, ShredTask DEF BlobRow
<1>6. /\ p \in ShredStep /\ Busy(w) /\ r \in BlobRow
      /\ r # NoRow /\ r.status = "pending" /\ s \in due
      /\ r.action # "legal_hold_only"
      /\ p.todo = {} /\ p.done = {}
      /\ RowGrounded(s) /\ r.over # r.version
  BY <1>1, <1>2, <1>3, <1>4, <1>5, ShredTask
     DEF ShredGrounded, RowGrounded
<1>7. PICK v : v = r.version
  OBVIOUS
<1>8. UNCHANGED <<cell, blob, due, uploads, failures>>
  BY DEF ReleaseHold
<1>9. uploads' \in 0..MaxUploads /\ failures' \in 0..MaxFailures
  BY <1>1, <1>8 DEF BlobTypeOK
<1>10. CASE ~Exists(o, v)
  <2>1. Abort(w)
    BY <1>2, <1>3, <1>4, <1>5, <1>7, <1>10 DEF ReleaseHold, Row
  <2> QED BY <1>6, <1>8, <1>9, <2>1, RolledBack DEF Abort
<1>11. CASE Exists(o, v)
  <2>1. /\ SetHold(o, v, FALSE)
        /\ proc' = IF r.action = "hard_delete"
                   THEN [proc EXCEPT ![w].pc = "delete", ![w].todo = {v}]
                   ELSE [proc EXCEPT ![w].pc = "list"]
    BY <1>2, <1>3, <1>4, <1>5, <1>7, <1>11 DEF ReleaseHold, Row
  <2>2. v \in DOMAIN object[o] /\ v \in Versions
    BY <1>6, <1>7, <1>11 DEF Exists, BlobRow
  <2>3. /\ object' \in [Objects -> Seq(Version)]
        /\ \A x \in Objects : Evolves(x) /\ (x # o => object'[x] = object[x])
        /\ DOMAIN object'[o] = DOMAIN object[o]
        /\ \A u \in DOMAIN object[o] :
             object'[o][u].gone = object[o][u].gone
    BY <1>1, <2>1, <2>2, HoldEffect
  <2> DEFINE q == IF r.action = "hard_delete"
                  THEN [p EXCEPT !.pc = "delete", !.todo = {v}]
                  ELSE [p EXCEPT !.pc = "list"]
  <2>4. /\ q \in ShredStep /\ q.subject = s /\ q.done = {}
        /\ r.action = "hard_delete" => q.pc = "delete" /\ q.todo = {v}
        /\ r.action # "hard_delete" => q.pc = "list" /\ q.todo = {}
    BY <1>3, <1>6, <2>2 DEF ShredStep
  <2>5. proc' = [proc EXCEPT ![w] = q]
    BY <1>2, <2>1
  <2> HIDE DEF q
  <2>6. /\ BlobTypeOK'
        /\ proc'[w] = q /\ \A x \in Workers \ {w} : proc'[x] = proc[x]
    BY <1>1, <1>8, <2>3, <2>4, <2>5, VaultTypes
  <2>7. Acts(w, s)
    BY <1>2, <1>3, <1>6, <2>4, <2>6 DEF Acts
  <2>8. Only(s)
    <3>1. File(s) = o
      BY <1>4, <1>5, <1>6 DEF File
    <3> QED BY <1>8, <2>3, <3>1, OnlyFile
  <2>9. Sole(s)' <=> Sole(s)
    BY <2>8, SoleKept
  <2>10. \A u : Exists(o, u) => Exists(o, u)'
    BY <2>3 DEF Exists
  <2>11. SubjectGrounded(s)'
    BY <1>4, <1>5, <1>6, <1>8, <2>3, <2>9, <2>10, ShreddingSubject
  <2>12. Known(o, v)'
    BY <2>2, <2>3 DEF Known
  <2>13. blob'[s] = r /\ due' = due
    BY <1>4, <1>8
  <2>14. TaskGrounded(w)'
    BY <1>5, <1>6, <1>7, <2>4, <2>6, <2>12, <2>13
       DEF TaskGrounded, VaultGrounded, ShredGrounded
  <2> QED BY <2>6, <2>7, <2>8, <2>11, <2>14, WorkerStep
<1> QED BY <1>10, <1>11

LEMMA DeleteInv ==
  ASSUME BlobInv, NEW w \in Workers, DeleteObjectVersion(w)
  PROVE  BlobInv'
<1>1. BlobTypeOK /\ proc[w].pc = "delete"
  BY DEF BlobInv, DeleteObjectVersion, At
<1>2. PICK p : p = proc[w]
  OBVIOUS
<1>3. PICK s \in Subjects : s = p.subject
  BY <1>1, <1>2, ShredTask
<1>4. PICK r : r = blob[s]
  OBVIOUS
<1>5. PICK o \in Objects : o = r.object
  BY <1>1, <1>2, <1>3, <1>4, ShredTask DEF BlobRow
<1>6. /\ p \in ShredStep /\ Busy(w) /\ r \in BlobRow
      /\ r # NoRow /\ r.status = "pending" /\ s \in due
      /\ r.action # "legal_hold_only"
      /\ \A u \in p.todo : Known(o, u) /\ u # r.over
      /\ \A u \in p.done : Gone(o, u)
      /\ r.action = "hard_delete" =>
           r.version \in p.todo \/ Gone(o, r.version)
      /\ r.action # "hard_delete" =>
           /\ \A u \in Documents(o) : u > r.version \/ u \in p.todo
           /\ Sole(s) => Documents(o) \subseteq p.todo
      /\ RowGrounded(s)
  BY <1>1, <1>2, <1>3, <1>4, <1>5, ShredTask DEF ShredGrounded
<1>7. UNCHANGED <<cell, blob, due, uploads, failures>>
  BY DEF DeleteObjectVersion
<1>8. uploads' \in 0..MaxUploads /\ failures' \in 0..MaxFailures
  BY <1>1, <1>7 DEF BlobTypeOK
<1>9. PICK v \in p.todo :
        \/ Refused(o, v) /\ Abort(w)
        \/ /\ ~Refused(o, v)
           /\ DeleteObject(o, v)
           /\ proc' = [proc EXCEPT
                         ![w].todo = @ \ {v}, ![w].done = @ \union {v},
                         ![w].pc = IF p.todo = {v} THEN "shred" ELSE @]
  BY <1>2, <1>3, <1>4, <1>5 DEF DeleteObjectVersion, Row
<1>10. CASE Abort(w)
  BY <1>6, <1>7, <1>8, <1>10, RolledBack DEF Abort
<1>11. CASE /\ ~Refused(o, v)
            /\ DeleteObject(o, v)
            /\ proc' = [proc EXCEPT
                          ![w].todo = @ \ {v}, ![w].done = @ \union {v},
                          ![w].pc = IF p.todo = {v} THEN "shred" ELSE @]
  <2>1. v \in DOMAIN object[o] /\ v # r.over /\ v \in Versions
    BY <1>6 DEF Known, ShredStep
  <2>2. /\ object' \in [Objects -> Seq(Version)]
        /\ \A x \in Objects : Evolves(x) /\ (x # o => object'[x] = object[x])
        /\ DOMAIN object'[o] = DOMAIN object[o]
        /\ \A u \in DOMAIN object[o] : u # v => object'[o][u] = object[o][u]
        /\ object'[o][v].gone
    BY <1>1, <1>11, <2>1, DeleteEffect DEF Refused
  <2> DEFINE q == [p EXCEPT !.todo = p.todo \ {v}, !.done = p.done \union {v},
                            !.pc = IF p.todo = {v} THEN "shred" ELSE "delete"]
  <2>3. /\ q \in ShredStep /\ q.subject = s
        /\ q.todo = p.todo \ {v} /\ q.done = p.done \union {v}
        /\ q.pc \in {"delete", "shred"} /\ (q.pc = "shred" => q.todo = {})
    BY <1>3, <1>6, <2>1 DEF ShredStep
  <2>4. proc' = [proc EXCEPT ![w] = q]
    BY <1>1, <1>2, <1>11
  <2> HIDE DEF q
  <2>5. /\ BlobTypeOK'
        /\ proc'[w] = q /\ \A x \in Workers \ {w} : proc'[x] = proc[x]
    BY <1>1, <1>7, <2>2, <2>3, <2>4, VaultTypes
  <2>6. Acts(w, s)
    BY <1>2, <1>3, <1>6, <2>3, <2>5 DEF Acts
  <2>7. Only(s)
    <3>1. File(s) = o
      BY <1>4, <1>5, <1>6 DEF File
    <3> QED BY <1>7, <2>2, <3>1, OnlyFile
  <2>8. Sole(s)' <=> Sole(s)
    BY <2>7, SoleKept
  <2>9. Exists(o, r.over) => Exists(o, r.over)'
    BY <2>1, <2>2 DEF Exists
  <2>10. SubjectGrounded(s)'
    BY <1>4, <1>5, <1>6, <1>7, <2>2, <2>8, <2>9, ShreddingSubject
  <2>11. /\ \A u : Known(o, u) => Known(o, u)'
         /\ \A u : Gone(o, u) => Gone(o, u)'
         /\ Gone(o, v)'
    BY <2>1, <2>2, Evolution DEF Known, Gone
  <2>12. Documents(o)' \subseteq Documents(o) \ {v}
    BY <2>1, <2>2 DEF Documents, Existing
  <2>13. blob'[s] = r /\ due' = due
    BY <1>4, <1>7
  <2>14. /\ \A u \in q.todo : Known(o, u)' /\ u # r.over
         /\ \A u \in q.done : Gone(o, u)'
         /\ r.action = "hard_delete" =>
              r.version \in q.todo \/ Gone(o, r.version)'
         /\ r.action # "hard_delete" =>
              /\ \A u \in Documents(o)' : u > r.version \/ u \in q.todo
              /\ Sole(s)' => Documents(o)' \subseteq q.todo
    BY <1>6, <2>3, <2>8, <2>11, <2>12
  <2>15. TaskGrounded(w)'
    BY <1>5, <1>6, <2>3, <2>5, <2>13, <2>14
       DEF TaskGrounded, VaultGrounded, ShredGrounded
  <2> QED BY <2>5, <2>6, <2>7, <2>10, <2>15, WorkerStep
<1> QED BY <1>9, <1>10, <1>11

LEMMA CommitShredInv ==
  ASSUME BlobInv, NEW w \in Workers, CommitShred(w)
  PROVE  BlobInv'
<1>1. BlobTypeOK /\ proc[w].pc = "shred"
  BY DEF BlobInv, CommitShred, At
<1>2. PICK p : p = proc[w]
  OBVIOUS
<1>3. PICK s \in Subjects : s = p.subject
  BY <1>1, <1>2, ShredTask
<1>4. PICK r : r = blob[s]
  OBVIOUS
<1>5. PICK o \in Objects : o = r.object
  BY <1>1, <1>2, <1>3, <1>4, ShredTask DEF BlobRow
<1>6. /\ p \in ShredStep /\ Busy(w) /\ r \in BlobRow
      /\ r # NoRow /\ r.status = "pending" /\ s \in due
      /\ p.todo = {} /\ \A v \in p.done : Gone(o, v)
      /\ r.action = "hard_delete" => Gone(o, r.version)
      /\ r.action \notin {"hard_delete", "legal_hold_only"} =>
           /\ \A u \in Documents(o) : u > r.version
           /\ Sole(s) => Documents(o) = {}
  BY <1>1, <1>2, <1>3, <1>4, <1>5, ShredTask DEF ShredGrounded
<1>7. /\ cell[s] = NoUrl /\ Known(o, r.version) /\ r.over # r.version
      /\ Placed(s, o, r.over)
      /\ Sole(s) /\ r.action = "legal_hold_only" => Held(o, r.version)
  BY <1>1, <1>2, <1>3, <1>4, <1>5, <1>6, ShredTask DEF RowGrounded
<1>8. UNCHANGED <<cell, object, due, uploads, failures>> /\ Finish(w)
  BY DEF CommitShred
<1>9. PICK n : n = [r EXCEPT !.status = Outcome(r.action),
                             !.deleted = p.done, !.retained = Retained(r)]
  OBVIOUS
<1>10. /\ n.object = o /\ n.version = r.version /\ n.over = r.over
       /\ n.action = r.action /\ n.status = Outcome(r.action)
       /\ n.deleted = p.done /\ n.retained = Retained(r)
  BY <1>5, <1>6, <1>9 DEF BlobRow
<1>11. n \in BlobRow
  <2>1. Outcome(r.action) \in {"pending", "purged",
                               "captured_version_deleted", "retained_by_policy"}
    BY DEF Outcome
  <2>2. Retained(r) \subseteq Versions
    BY <1>6 DEF Retained, BlobRow
  <2>3. p.done \subseteq Versions
    BY <1>6 DEF ShredStep
  <2> QED BY <1>6, <1>9, <2>1, <2>2, <2>3 DEF BlobRow
<1>12. n # NoRow /\ n.status # "pending"
  BY <1>10 DEF Outcome, NoRow
<1>13. blob' = [blob EXCEPT ![s] = n]
  BY <1>2, <1>3, <1>4, <1>9 DEF CommitShred, Row
<1>14. /\ blob' \in [Subjects -> BlobRow \union {NoRow}] /\ blob'[s] = n
       /\ \A t \in Subjects \ {s} : blob'[t] = blob[t]
  BY <1>1, <1>11, <1>13 DEF BlobTypeOK
<1>15. /\ proc' \in [Workers -> VaultStep \union ShredStep \union {Idle}]
       /\ proc'[w] = Idle /\ \A x \in Workers \ {w} : proc'[x] = proc[x]
  BY <1>1, <1>8, FinishActs
<1>16. BlobTypeOK'
  BY <1>1, <1>8, <1>14, <1>15 DEF BlobTypeOK
<1>17. Acts(w, s)
  BY <1>2, <1>3, <1>6, <1>15 DEF Acts
<1>18. Only(s)
  <2>1. \A t \in Subjects : File(t)' = File(t)
    BY <1>4, <1>5, <1>6, <1>8, <1>10, <1>12, <1>14 DEF File
  <2> QED BY <1>8, <1>14, <2>1, SameObjects DEF Only
<1>19. Sole(s)' <=> Sole(s)
  BY <1>18, SoleKept
<1>20. /\ \A v : /\ Known(o, v)' <=> Known(o, v)
                 /\ Held(o, v)' <=> Held(o, v)
                 /\ Gone(o, v)' <=> Gone(o, v)
                 /\ Exists(o, v)' <=> Exists(o, v)
       /\ Documents(o)' = Documents(o)
  BY <1>8 DEF Known, Held, Gone, Exists, Documents, Existing
<1>21. Placed(s, o, r.over)'
  BY <1>7, <1>8, <1>19, <1>20 DEF Placed
<1>22. /\ n.status = "retained_by_policy" => r.action = "legal_hold_only"
       /\ n.status = "captured_version_deleted" => r.action = "hard_delete"
       /\ n.status = "purged" =>
            r.action \notin {"hard_delete", "legal_hold_only"}
  BY <1>10 DEF Outcome
<1>23. Sole(s) => \A v \in n.retained : Exists(o, v)
  BY <1>7, <1>10 DEF Retained, Placed, Held
<1>24. RowGrounded(s)'
  BY <1>6, <1>7, <1>8, <1>10, <1>12, <1>14, <1>19, <1>20, <1>21, <1>22, <1>23
     DEF RowGrounded
<1>25. SubjectGrounded(s)'
  BY <1>7, <1>8, <1>12, <1>14, <1>24 DEF SubjectGrounded
<1>26. TaskGrounded(w)'
  BY <1>15, IdleTask
<1> QED BY <1>16, <1>17, <1>18, <1>25, <1>26, WorkerStep

-----------------------------------------------------------------------------
(* Failures and the environment.                                           *)

LEMMA FailInv ==
  ASSUME BlobAssumption, BlobInv, NEW w \in Workers, Fail(w)
  PROVE  BlobInv'
<1>1. /\ Busy(w) /\ Finish(w) /\ UNCHANGED <<cell, object, blob, due, uploads>>
      /\ failures < MaxFailures /\ failures' = failures + 1
  BY DEF Fail, Busy
<1>2. uploads' \in 0..MaxUploads /\ failures' \in 0..MaxFailures
  BY <1>1, BlobAssumption DEF BlobInv, BlobTypeOK
<1> QED BY <1>1, <1>2, RolledBack

LEMMA DeadlinePassesInv ==
  ASSUME BlobInv, NEW s \in Subjects, DeadlinePasses(s)
  PROVE  BlobInv'
<1>1. /\ UNCHANGED <<cell, object, blob, proc, uploads, failures>>
      /\ blob[s] # NoRow /\ due' = due \union {s}
  BY DEF DeadlinePasses
<1>2. BlobTypeOK' /\ OneEach'
  BY <1>1 DEF BlobInv, BlobTypeOK, OneEach, Busy
<1>3. Only(s)
  BY <1>1, SameObjects DEF Only, File
<1>4. /\ \A t : Sole(t)' <=> Sole(t)
      /\ \A o, v : /\ Known(o, v)' <=> Known(o, v)
                   /\ Gone(o, v)' <=> Gone(o, v)
                   /\ Held(o, v)' <=> Held(o, v)
                   /\ Exists(o, v)' <=> Exists(o, v)
      /\ \A o : Documents(o)' = Documents(o)
  BY <1>1 DEF Sole, File, Known, Gone, Held, Exists, Documents, Existing
<1>5. SubjectGrounded(s)'
  <2>1. SubjectGrounded(s)
    BY DEF BlobInv
  <2>2. RowGrounded(s)'
    BY <1>1, <1>4, <2>1 DEF SubjectGrounded, RowGrounded, Placed
  <2>3. cell'[s] = NoUrl
    BY <1>1, <2>1 DEF SubjectGrounded, RowGrounded
  <2> QED BY <1>1, <2>2, <2>3 DEF SubjectGrounded
<1>6. ASSUME NEW x \in Workers PROVE TaskGrounded(x)'
  <2>1. VaultGrounded(x) /\ ShredGrounded(x)
    BY DEF BlobInv, TaskGrounded
  <2>2. VaultGrounded(x)'
    BY <1>1, <1>4, <2>1 DEF VaultGrounded, Placed
  <2>3. ShredGrounded(x)'
    BY <1>1, <1>4, <2>1 DEF ShredGrounded
  <2> QED BY <2>2, <2>3 DEF TaskGrounded
<1> QED BY <1>2, <1>3, <1>5, <1>6, OwnSubject

LEMMA UploadInv ==
  ASSUME BlobAssumption, BlobInv, NEW s \in Subjects, Upload(s)
  PROVE  BlobInv'
<1>1. BlobTypeOK /\ SubjectGrounded(s)
  BY DEF BlobInv
<1>2. /\ UNCHANGED <<cell, blob, due, proc, failures>>
      /\ cell[s] # NoUrl /\ Put(cell[s].object, "document")
      /\ uploads < MaxUploads /\ uploads' = uploads + 1
  BY DEF Upload
<1>3. PICK url \in Url : url = cell[s]
  BY <1>1, <1>2 DEF BlobTypeOK
<1>4. PICK o \in Objects : o = url.object
  BY DEF Url
<1>5. /\ object' \in [Objects -> Seq(Version)]
      /\ \A x \in Objects : Evolves(x) /\ (x # o => object'[x] = object[x])
      /\ DOMAIN object[o] \subseteq DOMAIN object'[o]
      /\ \A v \in DOMAIN object[o] : object'[o][v] = object[o][v]
  <2>1. Put(o, "document")
    BY <1>2, <1>3, <1>4
  <2> QED BY <1>1, <2>1, PutEffect
<1>6. BlobTypeOK' /\ OneEach'
  BY <1>1, <1>2, <1>5, BlobAssumption
     DEF BlobInv, BlobTypeOK, OneEach, Busy
<1>7. blob[s] = NoRow /\ s \notin due
  BY <1>1, <1>2 DEF SubjectGrounded, RowGrounded
<1>8. Only(s)
  <2>1. File(s) = o
    BY <1>3, <1>4, <1>7 DEF File
  <2> QED BY <1>2, <1>5, <2>1, OnlyFile
<1>9. Sole(s)' <=> Sole(s)
  BY <1>8, SoleKept
<1>10. \A v : /\ Known(o, v) => Known(o, v)'
              /\ Exists(o, v) => Exists(o, v)'
              /\ Held(o, v) => Held(o, v)'
  BY <1>5 DEF Known, Exists, Held
<1>11. SubjectGrounded(s)'
  <2>1. Sole(s) => Resolves(url)
    BY <1>1, <1>2, <1>3 DEF SubjectGrounded
  <2>2. Sole(s) => Resolves(url)'
    BY <1>4, <1>10, <2>1, StillResolves
  <2>3. Resolves(cell[s])' <=> Resolves(url)'
    BY <1>2, <1>3 DEF Resolves
  <2> QED BY <1>2, <1>7, <1>9, <2>2, <2>3, VaultingSubject
<1>12. ASSUME NEW x \in Workers
       PROVE  \/ Busy(x) /\ proc[x].subject # s /\ proc'[x] = proc[x]
              \/ TaskGrounded(x)'
  <2>1. PICK p : p = proc[x]
    OBVIOUS
  <2>2. proc'[x] = p
    BY <1>2, <2>1
  <2>3. CASE ~Busy(x)
    BY <1>2, <2>3, IdleTask DEF Busy
  <2>4. CASE Busy(x) /\ p.subject = s
    <3>1. VaultGrounded(x) /\ ShredGrounded(x)
      BY DEF BlobInv, TaskGrounded
    <3>2. p.pc \notin {"release", "list", "delete", "shred"}
      BY <1>7, <2>1, <2>4, <3>1 DEF ShredGrounded
    <3>3. VaultGrounded(x)'
      <4>1. SUFFICES ASSUME p.pc \in {"head", "hold", "put", "vault"}
                     PROVE  VaultGrounded(x)'
        BY <2>2 DEF VaultGrounded
      <4>2. /\ p.pc # "head" => p.version # None /\ Known(o, p.version)
            /\ p.pc = "vault" \/ p.over = None
            /\ p.pc # "head" => p.over # p.version
            /\ p.pc \in {"put", "vault"} /\ Sole(s) => Held(o, p.version)
            /\ Placed(s, o, p.over)
        BY <1>3, <1>4, <2>1, <2>4, <3>1, <4>1 DEF VaultGrounded
      <4>3. Placed(s, o, p.over)'
        BY <1>5, <1>9, <1>10, <4>2 DEF Placed, Known
      <4>4. cell'[s] = url /\ url # NoUrl /\ blob'[s] = NoRow
        BY <1>2, <1>3, <1>7
      <4> QED BY <1>4, <1>9, <1>10, <2>2, <2>4, <4>1, <4>2, <4>3, <4>4
              DEF VaultGrounded
    <3> QED BY <2>2, <3>2, <3>3 DEF TaskGrounded, ShredGrounded
  <2> QED BY <2>1, <2>2, <2>3, <2>4
<1> QED BY <1>6, <1>8, <1>11, <1>12, OwnSubject

-----------------------------------------------------------------------------
(* The theorems.                                                           *)

LEMMA BlobInvInit ==
  ASSUME BlobAssumption, BlobInit
  PROVE  BlobInv
<1>1. /\ cell \in [Subjects -> [object : Objects, version : {None, 1}]
                                \union {NoUrl}]
      /\ object = [o \in Objects |-> <<NewVersion("document")>>]
      /\ \A s \in Subjects : blob[s] = NoRow
      /\ due = {} /\ \A w \in Workers : proc[w] = Idle
  BY DEF BlobInit
<1>2. NewVersion("document") \in Version
  BY DEF NewVersion, Version
<1>3. BlobTypeOK
  <2>1. cell \in [Subjects -> Url \union {NoUrl}]
    BY <1>1 DEF Url, Versions, None
  <2>2. <<NewVersion("document")>> \in Seq(Version)
    BY <1>2
  <2>3. object \in [Objects -> Seq(Version)]
    BY <1>1, <2>2
  <2> QED BY <2>1, <2>3, BlobAssumption DEF BlobInit, BlobTypeOK
<1>4. OneEach
  BY <1>1 DEF OneEach, Busy
<1>5. ASSUME NEW s \in Subjects PROVE SubjectGrounded(s)
  <2>1. ASSUME cell[s] # NoUrl PROVE Resolves(cell[s])
    <3>1. PICK url : url = cell[s]
      OBVIOUS
    <3>2. url.object \in Objects /\ url.version \in {None, 1}
      BY <1>1, <2>1, <3>1
    <3>3. object[url.object] = <<NewVersion("document")>>
      BY <1>1, <3>2
    <3>4. 1 \in DOMAIN object[url.object] /\ ~object[url.object][1].gone
      BY <3>3 DEF NewVersion
    <3> QED BY <3>1, <3>2, <3>4 DEF Resolves, Existing, Exists, None
  <2> QED BY <1>1, <2>1 DEF SubjectGrounded, RowGrounded
<1>6. \A w \in Workers : TaskGrounded(w)
  BY <1>1 DEF Idle, TaskGrounded, VaultGrounded, ShredGrounded
<1> QED BY <1>3, <1>4, <1>5, <1>6 DEF BlobInv

LEMMA BlobInvNext ==
  ASSUME BlobAssumption, BlobInv, [BlobNext]_blobVars
  PROVE  BlobInv'
<1>1. ASSUME NEW w \in Workers, VaultNext(w) PROVE BlobInv'
  BY <1>1, HeadObjectInv, PutLegalHoldInv, PutPlaceholderInv, CommitVaultInv
     DEF VaultNext
<1>2. ASSUME NEW w \in Workers, ShredNext(w) PROVE BlobInv'
  BY <1>2, ReleaseHoldInv, ListInv, DeleteInv, CommitShredInv DEF ShredNext
<1>3. ASSUME NEW w \in Workers, Fail(w) PROVE BlobInv'
  BY <1>3, BlobAssumption, FailInv
<1>4. ASSUME NEW w \in Workers, NEW s \in Subjects, BeginShred(w, s)
      PROVE  BlobInv'
  BY <1>4, BeginShredInv
<1>5. ASSUME NEW w \in Workers, NEW s \in Subjects, NEW action \in Actions,
             BeginVault(w, s, action)
      PROVE  BlobInv'
  BY <1>5, BeginVaultInv
<1>6. ASSUME NEW s \in Subjects, DeadlinePasses(s) PROVE BlobInv'
  BY <1>6, DeadlinePassesInv
<1>7. ASSUME NEW s \in Subjects, Upload(s) PROVE BlobInv'
  BY <1>7, BlobAssumption, UploadInv
<1>8. CASE UNCHANGED blobVars
  <2>1. UNCHANGED <<cell, object, blob, due, proc, uploads, failures>>
    BY <1>8 DEF blobVars
  <2>2. BlobTypeOK' /\ OneEach'
    BY <2>1 DEF BlobInv, BlobTypeOK, OneEach, Busy
  <2>3. \A s \in Subjects : SubjectGrounded(s)'
    BY <2>1, QuietSubject DEF BlobInv
  <2>4. ASSUME NEW w \in Workers PROVE TaskGrounded(w)'
    <3>1. VaultGrounded(w) /\ ShredGrounded(w)
      BY DEF BlobInv, TaskGrounded
    <3>2. VaultGrounded(w)'
      BY <2>1, <3>1
         DEF VaultGrounded, Placed, Sole, File, Known, Held, Exists
    <3>3. ShredGrounded(w)'
      BY <2>1, <3>1
         DEF ShredGrounded, Sole, File, Known, Gone, Documents, Existing
    <3> QED BY <3>2, <3>3 DEF TaskGrounded
  <2> QED BY <2>2, <2>3, <2>4 DEF BlobInv
<1> QED BY <1>1, <1>2, <1>3, <1>4, <1>5, <1>6, <1>7, <1>8 DEF BlobNext

(* Whatever the workers, the crashes and the application do, the rows, the *)
(* tasks in progress and the objects fit together as BlobInv says.         *)
THEOREM BlobInvariance == BlobSpec => []BlobInv
<1>1. BlobInit => BlobInv
  BY BlobAssumption, BlobInvInit
<1>2. BlobInv /\ [BlobNext]_blobVars => BlobInv'
  BY BlobAssumption, BlobInvNext
<1> QED BY <1>1, <1>2, PTL DEF BlobSpec

(* A file recorded as purged is gone, and a captured version recorded as   *)
(* deleted is: no retry, upload or other worker brings it back.            *)
THEOREM ErasureIsFinal == BlobSpec => []ErasedForGood
<1>1. ASSUME BlobInv PROVE ErasedForGood
  <2>1. ASSUME NEW s \in Subjects,
               blob[s].status \in {"purged", "captured_version_deleted"}
        PROVE  RowGrounded(s) /\ blob[s] # NoRow
    BY <1>1, <2>1 DEF BlobInv, SubjectGrounded, NoRow
  <2> QED BY <2>1 DEF RowGrounded, ErasedForGood, Gone, Exists
<1> QED BY <1>1, BlobInvariance, PTL

(* The versions that a receipt lists as deleted are gone, and the one it   *)
(* lists as retained is there unless another subject shares the file.      *)
THEOREM ReceiptsAreTrue == BlobSpec => []ReceiptIsTrue
<1>1. BlobInv => ReceiptIsTrue
  BY DEF BlobInv, SubjectGrounded, RowGrounded, ReceiptIsTrue, Gone, Exists
<1> QED BY <1>1, BlobInvariance, PTL

(* A file that no other subject refers to can be read while its user is    *)
(* live, and keeps its captured version under a hold until the shred.      *)
THEOREM FilesAreKept == BlobSpec => []FileKeptUntilDue
<1>1. BlobInv => FileKeptUntilDue
  BY DEF BlobInv, SubjectGrounded, RowGrounded, FileKeptUntilDue, Pending,
         Held, NoRow
<1> QED BY <1>1, BlobInvariance, PTL

(* Every variable has its type: a committed row names the version it       *)
(* captured.                                                               *)
THEOREM BlobTypes == BlobSpec => []BlobTypeOK
<1>1. BlobInv => BlobTypeOK
  BY DEF BlobInv
<1> QED BY <1>1, BlobInvariance, PTL
=============================================================================
