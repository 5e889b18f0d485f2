------------------------------- MODULE Expert -------------------------------
(***************************************************************************)
(* One invocation of an expert (src/src/chen/core/expert.py) and the       *)
(* aggregation of its metrics (AggregateMetrics of core/pipeline.py).      *)
(*                                                                         *)
(* A text is abstracted to where its pieces come from: a sequence of       *)
(* integers, where 0 is the user's prompt, -1 the context prepended from   *)
(* shared memory, and i > 0 the output of the i-th expert of the chain.  A *)
(* KV-cache is identified with its source_text, which is never empty, so   *)
(* the empty sequence stands for None.                                     *)
(***************************************************************************)
EXTENDS Integers, Sequences, FiniteSets

User == 0
Recalled == -1
NoCache == <<>>
Prompt == <<User>>
Output(i) == <<i>>

(* The text of an output cache: the input and the output behind it. *)
Continued(text, i) == Append(text, i)

(* The Boolean outcomes a backend call may have: it returns or it raises. *)
Returns == BOOLEAN

(* Mutant: the output cache covers only the expert's own output. *)
Invoke_OutputOnly(supports_kv, name, i, prompt, cache, max_tokens) ==
    LET effective_prompt == IF cache # NoCache THEN cache ELSE prompt
        usable == cache # NoCache /\ supports_kv
    IN  {[expert |-> name, input |-> effective_prompt,
          max_tokens |-> max_tokens, used_kv |-> usable /\ transferred,
          transfer_ok |-> usable => transferred,
          out_cache |-> IF supports_kv /\ encoded THEN Output(i) ELSE NoCache] :
             transferred, encoded \in Returns}

(***************************************************************************)
(* Expert.invoke, as the set of its possible results.  A backend without   *)
(* KV support gets the text of the cache; a failed transfer_cache falls    *)
(* back to that text too, and is reported as used_kv FALSE, transfer_ok    *)
(* FALSE; a failed encode of the output leaves no cache for the next       *)
(* expert.  generate and decode may also raise, which the pipelines        *)
(* propagate (their Raise action).                                         *)
(***************************************************************************)
Invoke(supports_kv, name, i, prompt, cache, max_tokens) ==
    LET effective_prompt == IF cache # NoCache THEN cache ELSE prompt
        usable == cache # NoCache /\ supports_kv
    IN  {[expert |-> name, input |-> effective_prompt,
          max_tokens |-> max_tokens, used_kv |-> usable /\ transferred,
          transfer_ok |-> usable => transferred,
          out_cache |-> IF supports_kv /\ encoded
                        THEN Continued(effective_prompt, i)
                        ELSE NoCache] :
             transferred, encoded \in Returns}

-----------------------------------------------------------------------------
(* AggregateMetrics.add and finalize, from the list of the metrics added;   *)
(* every expert counts as one unit of parameters.                           *)
total_params_invoked(ms) == Len(ms)
=============================================================================
