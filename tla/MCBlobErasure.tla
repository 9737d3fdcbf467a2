--------------------------- MODULE MCBlobErasure ---------------------------
(* Instances of BlobErasure for TLC. *)
EXTENDS BlobErasure, TLC
=============================================================================
