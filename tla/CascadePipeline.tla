--------------------------- MODULE CascadePipeline ---------------------------
(***************************************************************************)
(* Phase 1, src/src/chen/phases/phase1_cascade.py: each expert gets the    *)
(* previous expert's text output as its prompt, with shared memory         *)
(* prepended at every step.                                                *)
(***************************************************************************)
EXTENDS Pipeline

Init ==
    /\ StartOfRun
    /\ config.phase = 1
    /\ config.fallback_to_text       \* no such fields in this phase
    /\ config.handoff = "text"
    /\ sequence \in Chains
    /\ text_mode = TRUE
    /\ memory = UserEntry
    /\ status = "running"

(* Mutant: the prompt is not replaced by the expert's output. *)
Step_KeepsPrompt ==
    /\ InLoop
    /\ Iteration(InvokeHere(Augmented(Prompt), NoCache), Output(Here), 1)
    /\ reads' = reads + (IF config.retrieve THEN 1 ELSE 0)
    /\ UNCHANGED text_mode

(* One iteration of the loop of run(). *)
Step ==
    /\ InLoop
    /\ Iteration(InvokeHere(Augmented(current_text), NoCache), Output(Here), 1)
    /\ reads' = reads + (IF config.retrieve THEN 1 ELSE 0)
    /\ UNCHANGED text_mode

Progress == Step \/ Return
=============================================================================
