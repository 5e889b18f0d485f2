------------------------------ MODULE MCPhases ------------------------------
(* Model-checking instance of Phases. *)
EXTENDS Phases
=============================================================================
