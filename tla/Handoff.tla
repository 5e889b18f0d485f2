------------------------------- MODULE Handoff -------------------------------
(***************************************************************************)
(* The hand-off from one expert to the next in the KV-cache pipelines.     *)
(* phases/phase2_kv_pass.py and phases/phase3_routing.py hold the same     *)
(* loop body for every expert after the first; it is written once here.    *)
(***************************************************************************)
EXTENDS Pipeline

(* The text an iteration writes to shared memory. *)
Source == IF current_cache # NoCache THEN current_cache ELSE current_text

(* Mutant: text mode only lasts as long as there is no cache. *)
TextHandoff_CacheWins == current_cache = NoCache

TextHandoff == text_mode \/ current_cache = NoCache

(* Later expert, by text. *)
LaterText ==
    /\ InLoop /\ Here > 1
    /\ TextHandoff
    /\ Iteration(InvokeHere(current_text, NoCache), Source, 1)
    /\ UNCHANGED <<text_mode, reads>>

(* Later expert, by cache: the result counts unless the transfer failed.    *)
(* A backend without KV support reports no failure: invoke used the text of *)
(* the cache.                                                               *)
LaterKV ==
    /\ InLoop /\ Here > 1
    /\ ~TextHandoff
    /\ Iteration({m \in InvokeHere(current_text, current_cache) : m.transfer_ok},
                 current_cache, 1)
    /\ UNCHANGED <<text_mode, reads>>

TransferFails ==
    /\ InLoop /\ Here > 1
    /\ ~TextHandoff
    /\ \E m \in InvokeHere(current_text, current_cache) : ~m.transfer_ok

(* Mutant: the run goes on in KV mode after a failed transfer. *)
FallBack_Forgets ==
    /\ TransferFails
    /\ config.fallback_to_text
    /\ Iteration(InvokeHere(current_text, NoCache), current_cache, 2)
    /\ UNCHANGED <<text_mode, reads>>

(* Mutant: the dropped result stays in the metrics. *)
FallBack_RecordsBoth ==
    /\ TransferFails
    /\ config.fallback_to_text
    /\ \E m \in InvokeHere(current_text, NoCache) :
           /\ per_expert' = per_expert \o <<m, m>>
           /\ current_cache' = m.out_cache
    /\ memory' = Append(memory, [step |-> Here, text |-> current_cache])
    /\ current_text' = Output(Here)
    /\ kwargs' = {}
    /\ invocations' = invocations + 2
    /\ text_mode' = TRUE
    /\ UNCHANGED <<config, sequence, status, reads>>

(* Later expert, the transfer failed: its result is dropped and the expert *)
(* invoked again on the previous expert's output.                          *)
FallBack ==
    /\ TransferFails
    /\ config.fallback_to_text
    /\ Iteration(InvokeHere(current_text, NoCache), current_cache, 2)
    /\ text_mode' = TRUE
    /\ UNCHANGED reads

(* The same without fallback_to_text: a bare `raise` outside any handler,  *)
(* which Python answers with a RuntimeError.                               *)
RaiseOnTransfer ==
    /\ TransferFails
    /\ ~config.fallback_to_text
    /\ status' = "raised"
    /\ invocations' = invocations + 1
    /\ UNCHANGED <<config, sequence, current_cache, current_text, text_mode,
                   kwargs, per_expert, memory, reads>>
=============================================================================
