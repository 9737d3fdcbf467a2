--------------------------- MODULE MCWorkerProcess ---------------------------
(* Task 2 is the notice of the row that task 1 vaults.  Release 2 expects  *)
(* a migrated schema and takes the master key from a provider; release 3   *)
(* is not well-formed.                                                     *)
EXTENDS WorkerProcess, TLC

CONSTANTS k1, k2, s1, s2

OneNotice == <<0, 1>>
Releases == {1, 2, 3}
Good == {1, 2}
TwoSchemas == <<s1, s2, s2>>
EachFits == (s1 :> {1}) @@ (s2 :> {1, 2, 3})
Sources == <<NoSource, "remote", NoSource>>
ErrorOf(kind, retryable, fatal, detail) ==
  [kind |-> kind, retryable |-> retryable, fatal |-> fatal, detail |-> detail]
(* A 4xx of the mailer; an unreadable key; an abort of a fetch; 55P03 or,  *)
(* when it breaks a connection, 57P01, admin_shutdown; 40P01, deadlock_    *)
(* detected, whose DETAIL the server always sends; CONNECTION_CLOSED of    *)
(* the driver, or a fetch of the mailer that was refused.                  *)
Broken == ErrorOf("worker", FALSE, TRUE, FALSE)
Lost == ErrorOf("worker", FALSE, FALSE, FALSE)
Aborted == ErrorOf("timeout", FALSE, FALSE, FALSE)
Locked == ErrorOf("postgres", TRUE, FALSE, FALSE)
Deadlock == ErrorOf("postgres", TRUE, FALSE, TRUE)
Closed == ErrorOf("other", FALSE, FALSE, FALSE)
Breaks == {Locked, Closed}
AllErrors == {Broken, Lost, Aborted, Locked, Deadlock, Closed}
==============================================================================
