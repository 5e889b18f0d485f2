--------------------------- MODULE RoutingPipeline ---------------------------
(***************************************************************************)
(* Phase 3, src/src/chen/phases/phase3_routing.py: a router picks the      *)
(* chain for each prompt, which then runs with text or KV-cache hand-off.  *)
(* What a router may return is the business of module Router: a list of    *)
(* different names of the pool, possibly empty.                            *)
(***************************************************************************)
EXTENDS Handoff

Init ==
    /\ StartOfRun
    /\ config.phase = 3
    /\ sequence = <<>>
    /\ text_mode = FALSE
    /\ memory = <<>>
    /\ status = "routing"

Routes == {r \in Chains : \A i, j \in DOMAIN r : r[i] = r[j] => i = j}

(* An empty answer is replaced by the first synthesizer of the pool, else  *)
(* its first expert: any expert of the pool may be that one.               *)
Selected(answer) ==
    IF answer = <<>> THEN {<<e>> : e \in Experts} ELSE {answer}

(* Mutant: an empty route is used as it is. *)
Route_NoFallback ==
    /\ status = "routing"
    /\ sequence' \in Routes \cup {<<>>}
    /\ text_mode' = (config.handoff = "text")
    /\ memory' = UserEntry
    /\ status' = "running"
    /\ UNCHANGED <<config, current_cache, current_text, kwargs, per_expert,
                   reads, invocations>>

(* router.route, the fallback for an empty answer, and the start of run. *)
Route ==
    /\ status = "routing"
    /\ \E answer \in Routes \cup {<<>>} : sequence' \in Selected(answer)
    /\ text_mode' = (config.handoff = "text")
    /\ memory' = UserEntry
    /\ status' = "running"
    /\ UNCHANGED <<config, current_cache, current_text, kwargs, per_expert,
                   reads, invocations>>

(* First expert, by text: text hand-off, or no KV support. *)
FirstText ==
    /\ InLoop /\ Here = 1
    /\ text_mode \/ ~Supports(sequence[1])
    /\ Iteration(InvokeHere(Augmented(Prompt), NoCache), Prompt, 1)
    /\ text_mode' = TRUE
    /\ UNCHANGED reads

(* First expert, with memory and prompt encoded in one cache. *)
FirstKV ==
    /\ InLoop /\ Here = 1
    /\ ~text_mode /\ Supports(sequence[1])
    /\ Iteration(InvokeHere(Prompt, Augmented(Prompt)), Augmented(Prompt), 1)
    /\ reads' = reads + (IF Retrieved THEN 1 ELSE 0)
    /\ UNCHANGED text_mode

(* Mutant: the failed first expert is retried on the bare prompt. *)
FirstFails_ForgetsMemory ==
    /\ InLoop /\ Here = 1
    /\ ~text_mode /\ Supports(sequence[1])
    /\ Iteration(InvokeHere(Prompt, NoCache), Prompt, 1)
    /\ reads' = reads + (IF Retrieved THEN 1 ELSE 0)
    /\ text_mode' = TRUE

(* First expert, encode or invoke raised: the handler retries by text. *)
FirstFails ==
    /\ InLoop /\ Here = 1
    /\ ~text_mode /\ Supports(sequence[1])
    /\ Iteration(InvokeHere(Augmented(Prompt), NoCache), Prompt, 1)
    /\ reads' = reads + (IF Retrieved THEN 1 ELSE 0)
    /\ text_mode' = TRUE

(* Every later expert. *)
LaterExpert == LaterText \/ LaterKV \/ FallBack \/ RaiseOnTransfer

Progress ==
    Route \/ FirstText \/ FirstKV \/ FirstFails \/ LaterExpert \/ Return
=============================================================================
