----------------------------- MODULE MCAuditLog -----------------------------
(* Model-checking instance of AuditLog. *)
EXTENDS AuditLog, TLC

Symmetry == Permutations(Writers)
=============================================================================
