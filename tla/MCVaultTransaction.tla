------------------------- MODULE MCVaultTransaction -------------------------
(* The root table is users.  The logs are deleted, the leads redacted; the *)
(* documents are evidence; they, the logs, the leads and perhaps the root  *)
(* row have files.                                                         *)
EXTENDS VaultTransaction

CONSTANTS logs, leads, docs, attach, scans, l1, l2, n1, d1, a1

Key(c, col, p, onDelete) ==
  [child |-> c, column |-> col, parent |-> p, onDelete |-> onDelete]
LogsOfUser   == Key(logs, "user", Root, "NO_ACTION")
AttachOfLog  == Key(attach, "ref", logs, "CASCADE")
AttachOfUser == Key(attach, "ref", Root, "NO_ACTION")
DocsOfLog    == Key(docs, "log", logs, "RESTRICT")
Owned        == Key(attach, "owner", Root, "NO_ACTION")
LogsOfAttach == Key(logs, "attach", attach, "NO_ACTION")
AttachKept   == Key(attach, "ref", logs, "NO_ACTION")
ScansOf      == Key(scans, "of", attach, "NO_ACTION")
DocsOfUser   == Key(docs, "user", Root, "NO_ACTION")
ScansOfDocs  == Key(scans, "doc", docs, "NO_ACTION")
LogsOfScans  == Key(logs, "attach", scans, "NO_ACTION")

(* No key; a satellite no key reaches, with a cascade; a reachable one,    *)
(* without, with, and with a cascade that hides behind another key of its  *)
(* column; a key that forbids the delete; a cascade behind its own table;  *)
(* a chain as long as MaxDepth; a cascade behind such a chain, whose last  *)
(* column is also the last of a shorter one, through the cascade's table.  *)
SomeSchemas == {
  {}, {AttachOfLog}, {LogsOfUser}, {LogsOfUser, AttachOfLog},
  {LogsOfUser, AttachOfLog, AttachOfUser}, {LogsOfUser, DocsOfLog},
  {Owned, LogsOfAttach, AttachOfLog}, {LogsOfUser, AttachKept, ScansOf},
  {Owned, LogsOfAttach, AttachOfLog, DocsOfUser, ScansOfDocs, LogsOfScans}}

SomeSatellites == [t \in {logs, leads} |->
                     IF t = logs THEN "hard_delete" ELSE "redact"]
SomeRules == <<[evidence |-> {docs}, years |-> 3],
               [evidence |-> {leads}, years |-> 2]>>
Table == [r \in Rows |-> CASE r \in {l1, l2} -> logs [] r = n1 -> leads
                            [] r = d1 -> docs [] r = a1 -> attach]
=============================================================================
