------------------------------ MODULE Pipeline ------------------------------
(***************************************************************************)
(* The state of one run() of a pipeline (src/src/chen/core/pipeline.py and *)
(* the local variables the three phases share), and the steps they have in *)
(* common.  A run is one thread; what makes it interesting is that every   *)
(* backend call (encode, transfer_cache, generate, decode) may raise, at   *)
(* every expert of the chain.                                              *)
(***************************************************************************)
EXTENDS Expert

CONSTANTS
    Experts,    \* the names in experts_by_name
    MaxChain    \* bound: the longest chain of experts considered

ASSUME PipelineAssumption == MaxChain \in Nat \ {0}

VARIABLES
    config,         \* the pipeline's fields, see Configs
    sequence,       \* the experts to invoke, in order
    current_cache,  \* the previous expert's cache, or NoCache
    current_text,   \* the previous expert's output
    text_mode,      \* the run has switched to text hand-off
    kwargs,         \* what is left of run()'s keyword arguments
    per_expert,     \* the metrics list: one record of Invoke per entry
    memory,         \* the entries this run wrote to the shared memory
    reads,          \* memory_entries_read, in units of memory_retrieve_k
    invocations,    \* history: completed calls of Expert.invoke
    status          \* "routing", "running", "done" or "raised"

vars == <<config, sequence, current_cache, current_text, text_mode, kwargs,
          per_expert, memory, reads, invocations, status>>

Chains == UNION {[1..n -> Experts] : n \in 1..MaxChain}

(* The dataclass fields a run depends on, and two facts about its objects: *)
(* which backends support KV-caches, and whether the shared memory already *)
(* holds entries of earlier runs.  A phase that lacks a field fixes it in  *)
(* its Init.                                                               *)
Configs ==
    [phase            : 1..3,
     kv               : [Experts -> BOOLEAN],
     write            : BOOLEAN,   \* write_intermediate_to_memory
     retrieve         : BOOLEAN,   \* memory_retrieve_k > 0
     fallback_to_text : BOOLEAN,
     handoff          : {"text", "kv_cache"},
     prior            : BOOLEAN]

(* The user's prompt as the first entry of the shared memory. *)
UserEntry == IF config.write THEN <<[step |-> 0, text |-> Prompt]>> ELSE <<>>

(* The beginning of run(): fresh metrics, the prompt as current text. *)
StartOfRun ==
    /\ config \in Configs
    /\ current_cache = NoCache
    /\ current_text = Prompt
    /\ kwargs \in SUBSET {"max_tokens"}
    /\ per_expert = <<>>
    /\ reads = 0
    /\ invocations = 0

-----------------------------------------------------------------------------
Here == Len(per_expert) + 1

InLoop == status = "running" /\ Here <= Len(sequence)

Supports(e) == config.kv[e]

(* kwargs.pop("max_tokens", self.max_tokens_per_expert) *)
max_tokens == IF "max_tokens" \in kwargs THEN "caller" ELSE "default"

(* memory.retrieve finds something in any memory that is not empty. *)
Retrieved == config.retrieve /\ (config.prior \/ memory # <<>>)

(* The memory augmentation of _invoke_expert and of the first KV expert. *)
Augmented(prompt) == IF Retrieved THEN <<Recalled>> \o prompt ELSE prompt

(* Invoking the expert at hand on a text or on a cache. *)
InvokeHere(prompt, cache) ==
    Invoke(Supports(sequence[Here]), sequence[Here], Here, prompt, cache,
           max_tokens)

(* Mutant: a step that produces no cache leaves the previous one in place. *)
Record_KeepsCache(m, src) ==
    /\ per_expert' = Append(per_expert, m)
    /\ memory' = IF config.write
                 THEN Append(memory, [step |-> Here, text |-> src])
                 ELSE memory
    /\ current_cache' = IF m.out_cache # NoCache
                        THEN m.out_cache
                        ELSE current_cache
    /\ current_text' = Output(Here)
    /\ kwargs' = {}
    /\ UNCHANGED <<config, sequence, status>>

(* The end of an iteration: metrics.add, the memory write of src, and the  *)
(* hand-over of output and cache to the next expert.                       *)
Record(m, src) ==
    /\ per_expert' = Append(per_expert, m)
    /\ memory' = IF config.write
                 THEN Append(memory, [step |-> Here, text |-> src])
                 ELSE memory
    /\ current_cache' = m.out_cache
    /\ current_text' = Output(Here)
    /\ kwargs' = {}
    /\ UNCHANGED <<config, sequence, status>>

(* An iteration whose result m is one of outs, after n invocations. *)
Iteration(outs, src, n) ==
    /\ \E m \in outs : Record(m, src)
    /\ invocations' = invocations + n

(* generate or decode raises, and nothing in run() catches it. *)
Raise ==
    /\ InLoop
    /\ status' = "raised"
    /\ UNCHANGED <<config, sequence, current_cache, current_text, text_mode,
                   kwargs, per_expert, memory, reads, invocations>>

(* Mutant: the loop ends one expert early. *)
Return_Early ==
    /\ status = "running"
    /\ Here >= Len(sequence)
    /\ status' = "done"
    /\ UNCHANGED <<config, sequence, current_cache, current_text, text_mode,
                   kwargs, per_expert, memory, reads, invocations>>

(* The loop is over: finalize and return the PipelineResult. *)
Return ==
    /\ status = "running"
    /\ Here > Len(sequence)
    /\ status' = "done"
    /\ UNCHANGED <<config, sequence, current_cache, current_text, text_mode,
                   kwargs, per_expert, memory, reads, invocations>>

-----------------------------------------------------------------------------
Metrics ==
    [expert : Experts, input : Seq(Int), max_tokens : {"caller", "default"},
     used_kv : BOOLEAN, transfer_ok : BOOLEAN, out_cache : Seq(Int)]

TypeOK ==
    /\ config \in Configs
    /\ sequence \in Chains \cup {<<>>}
    /\ current_cache \in Seq(Int)
    /\ current_text \in Seq(Int)
    /\ text_mode \in BOOLEAN
    /\ kwargs \in SUBSET {"max_tokens"}
    /\ per_expert \in Seq(Metrics)
    /\ Len(per_expert) <= Len(sequence)
    /\ memory \in Seq([step : Nat, text : Seq(Int)])
    /\ reads \in Nat
    /\ invocations \in Nat
    /\ status \in {"routing", "running", "done", "raised"}

(* The names of the experts whose results were used, for the refinement. *)
Contributed == [j \in DOMAIN per_expert |-> per_expert[j].expert]

(* A text that is the outputs from..to of the chain in order (0 being the  *)
(* prompt), possibly with recalled memory in front.                        *)
Run(from, to) == [k \in 1..(to - from + 1) |-> from + k - 1]

IsRun(text, from, to) ==
    text \in {Run(from, to), <<Recalled>> \o Run(from, to)}
=============================================================================
