----------------------------- MODULE MCAuditChain -----------------------------
(* Small instances of AuditChain; see the .cfg files. *)
EXTENDS AuditChain, TLC
=============================================================================
