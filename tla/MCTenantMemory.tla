--------------------------- MODULE MCTenantMemory ---------------------------
(* Model-checking instance of TenantMemory.  Tenants and ids are only      *)
(* compared for equality and the properties are safety properties, so both *)
(* sets are symmetric.                                                     *)
EXTENDS TenantMemory, TLC

Symmetry == Permutations(Tenants) \cup Permutations(Ids)
=============================================================================
