------------------------------ MODULE MCRouter ------------------------------
(* Model-checking instance of Router. *)
EXTENDS Router
=============================================================================
