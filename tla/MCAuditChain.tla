---------------------------- MODULE MCAuditChain ----------------------------
(* The audit chain on a small instance; the bounds are in the .cfg files. *)
EXTENDS AuditChain
=============================================================================
