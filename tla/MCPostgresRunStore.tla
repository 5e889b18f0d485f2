------------------------- MODULE MCPostgresRunStore -------------------------
(* Model-checking instance of PostgresRunStore. *)
EXTENDS PostgresRunStore
=============================================================================
