------------------------------- MODULE Phases -------------------------------
(***************************************************************************)
(* One run() of any of the three pipelines, and what they promise:         *)
(* Phase 1 is the static cascade, Phase 2 the KV-cache pass, Phase 3       *)
(* dynamic routing.                                                        *)
(***************************************************************************)
EXTENDS Handoff

Cascade == INSTANCE CascadePipeline
KVPass == INSTANCE KVPassPipeline
Routing == INSTANCE RoutingPipeline

Init == Cascade!Init \/ KVPass!Init \/ Routing!Init

Progress ==
    \/ config.phase = 1 /\ Cascade!Progress
    \/ config.phase = 2 /\ KVPass!Progress
    \/ config.phase = 3 /\ Routing!Progress

(* A finished run stays as it is. *)
Finished ==
    /\ status \in {"done", "raised"}
    /\ UNCHANGED vars

Next == Progress \/ Raise \/ Finished

(* run() is one thread: it takes its next step as long as it has one. *)
Spec == Init /\ [][Next]_vars /\ WF_vars(Progress)

-----------------------------------------------------------------------------
C == INSTANCE Chain WITH chain <- sequence, contributed <- Contributed

(***************************************************************************)
(* Every pipeline implements the abstract chain, fallbacks, second         *)
(* invocations and empty routes included: at least one expert is selected, *)
(* the selected ones contribute once each, in order, and the run ends.     *)
(***************************************************************************)
ImplementsChain == C!Spec

(***************************************************************************)
(* Whatever failed along the way, what an expert reads is an unbroken and  *)
(* unduplicated stretch of the conversation that ends with its             *)
(* predecessor's output: no hand-off skips, repeats or reorders a          *)
(* contribution (invoke's effective_prompt and out_cache, and the choice   *)
(* between current_cache and current_text in the phases' loops).           *)
(***************************************************************************)
ContextIsUnbroken ==
    \A i \in DOMAIN per_expert :
        \E from \in 0..(i - 1) : IsRun(per_expert[i].input, from, i - 1)

(***************************************************************************)
(* An unbroken KV chain loses nothing: if every expert up to the i-th used *)
(* a transferred cache, the i-th one read the user's prompt and every      *)
(* output before its own.                                                  *)
(***************************************************************************)
KVChainIsLossless ==
    \A i \in DOMAIN per_expert :
        (\A j \in 1..i : per_expert[j].used_kv)
        => IsRun(per_expert[i].input, 0, i - 1)

(***************************************************************************)
(* Text mode is final: after a fallback, or with handoff = "text", the run *)
(* never goes (back) to caches, although every KV backend still hands one  *)
(* over, and a later expert of a KV pipeline reads its predecessor's       *)
(* output alone.                                                           *)
(***************************************************************************)
TextModeIsFinal ==
    [][status = "running" /\ text_mode /\ per_expert' # per_expert
       => /\ text_mode'
          /\ ~per_expert'[Here].used_kv
          /\ config.phase > 1 /\ Here > 1
             => per_expert'[Here].input = current_text]_vars

(***************************************************************************)
(* Which fallbacks the result does not report: when an expert of a run     *)
(* with text_mode_fallback False worked without a cache, its backend has   *)
(* no KV support, or it is the first expert and its transfer failed, or    *)
(* its predecessor could not encode an output cache.  Any other fallback   *)
(* sets the flag.                                                          *)
(***************************************************************************)
UnreportedFallbacks ==
    \A i \in DOMAIN per_expert :
        ~per_expert[i].used_kv /\ ~text_mode
        => \/ ~Supports(sequence[i])
           \/ i = 1 /\ ~per_expert[1].transfer_ok
           \/ i > 1 /\ per_expert[i - 1].out_cache = NoCache

(***************************************************************************)
(* The metrics miss at most one invocation per run: the re-invocation      *)
(* after a failed transfer drops the first result, but it also switches to *)
(* text for good, so it happens once.                                      *)
(***************************************************************************)
AtMostOneLostInvocation ==
    status = "done"
    => invocations - total_params_invoked(per_expert) \in 0..1

(***************************************************************************)
(* Phase 3 never loses the shared memory on the way to the first expert:   *)
(* with memory_retrieve_k > 0 and entries to retrieve, the first expert    *)
(* reads them whether it got a cache, text, or text after its encode or    *)
(* its decode failed.                                                      *)
(***************************************************************************)
MemoryReachesFirstExpert ==
    /\ config.phase = 3
    /\ config.retrieve /\ memory # <<>> /\ per_expert # <<>>
    => Head(per_expert[1].input) = Recalled

-----------------------------------------------------------------------------
(***************************************************************************)
(* "max_tokens: Per-expert token budget" (BenchmarkRunner.run_task, which  *)
(* passes it to run()): what the caller asks for applies to every expert.  *)
(***************************************************************************)
BudgetForEveryExpert ==
    \A i, j \in DOMAIN per_expert :
        per_expert[i].max_tokens = per_expert[j].max_tokens
=============================================================================
