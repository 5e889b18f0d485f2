--------------------------- MODULE KVPassPipeline ---------------------------
(***************************************************************************)
(* Phase 2, src/src/chen/phases/phase2_kv_pass.py: the first expert        *)
(* encodes the prompt, each later one receives its predecessor's KV-cache, *)
(* and any failure along the way drops to text hand-off.                   *)
(***************************************************************************)
EXTENDS Handoff

Init ==
    /\ StartOfRun
    /\ sequence \in Chains
    /\ config.phase = 2
    /\ config.handoff = "kv_cache"
    /\ text_mode = FALSE
    /\ memory = UserEntry
    /\ status = "running"

-----------------------------------------------------------------------------
(* First expert, no KV support or encode(prompt) raised: text mode for the  *)
(* rest of the run, and the prompt goes in without memory.                  *)
FirstText ==
    /\ InLoop /\ Here = 1
    /\ Iteration(InvokeHere(Prompt, NoCache), Prompt, 1)
    /\ text_mode' = TRUE
    /\ UNCHANGED reads

(* First expert, prompt encoded.  Retrieved memory is counted as read, then *)
(* encoded in front of the prompt unless that second encode raises.         *)
FirstKV ==
    /\ InLoop /\ Here = 1
    /\ Supports(sequence[1])
    /\ \E cache \in {Prompt, Augmented(Prompt)} :
           Iteration(InvokeHere(Prompt, cache), cache, 1)
    /\ reads' = reads + (IF Retrieved THEN 1 ELSE 0)
    /\ UNCHANGED text_mode

(* Every later expert. *)
LaterExpert == LaterText \/ LaterKV \/ FallBack \/ RaiseOnTransfer

Progress == FirstText \/ FirstKV \/ LaterExpert \/ Return
=============================================================================
