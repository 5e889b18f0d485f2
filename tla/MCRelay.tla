------------------------------- MODULE MCRelay -------------------------------
(* Model-checking instance of Relay: llama.cpp models that differ in their  *)
(* layers only, one of them encrypted and not, and two of them in files of  *)
(* one name; backends of the same and of another shape, and two sessions.   *)
EXTENDS Relay

Backend(kind, model, model_id, layers, heads, session) ==
    [kind |-> kind, model |-> model, model_id |-> model_id, layers |-> layers,
     heads |-> heads, hidden |-> 2 * heads, session |-> session]

MCFleet ==
    {Backend("mock", "mock-3B", "mock-3B", 1, 1, "trusted"),
     Backend("llama_cpp", "small", "small.gguf", 1, 1, "trusted"),
     Backend("llama_cpp", "large-v1", "large.gguf", 2, 1, "trusted"),
     Backend("llama_cpp", "large-v1", "large.gguf", 2, 1, "s1"),
     Backend("llama_cpp", "large-v2", "large.gguf", 1, 1, "trusted"),
     Backend("hf", "smol", "smol", 2, 2, "trusted"),
     Backend("hf", "qwen", "qwen", 2, 1, "s1"),
     Backend("vllm", "llama-3", "llama-3", 2, 1, "s2")}
=============================================================================
