-------------------------------- MODULE Relay --------------------------------
(***************************************************************************)
(* Expert.invoke (src/src/chen/core/expert.py) with real backends: a chain *)
(* of experts whose backends differ in kind, model and shape of the cache, *)
(* encrypted or not, hands a KV-cache on.  Module Expert leaves open which *)
(* backend calls return; here each call is an action and does what the     *)
(* backend's code does.                                                    *)
(***************************************************************************)
EXTENDS EncryptedBackend

CONSTANTS
    Fleet,      \* the backends an expert may have
    MaxChain    \* bound: the longest chain considered

(* Nothing is assumed of model_id: that of llama.cpp is the base name of a  *)
(* file, and different models may go by one name.                           *)
ASSUME RelayAssumption ==
    /\ MaxChain \in Nat \ {0}
    /\ \A b \in Fleet :
           /\ b.kind \in {"mock", "hf", "vllm", "llama_cpp"}
           /\ b.layers \in Nat \ {0}

VARIABLES
    chain,        \* the backends of the experts, in order
    loaded,       \* of each: "no", "yes" or "no tokenizer"
    at,           \* the expert being invoked
    pc,           \* the backend call that comes next
    prompt,       \* invoke's prompt
    cache,        \* invoke's cache, or NoKV
    moved,        \* transferred_cache
    effective,    \* effective_prompt
    used_kv,
    transfer_ok,
    seen,         \* history: what the model was given: a result of decode
    results       \* history: invoke's input, cache and result, per expert

vars == <<chain, loaded, at, pc, prompt, cache, moved, effective, used_kv,
          transfer_ok, seen, results>>

Here == chain[at]
Chains == UNION {[1..n -> Fleet] : n \in 1..MaxChain}

Init ==
    /\ chain \in Chains
    /\ loaded = [i \in DOMAIN chain |-> "no"]
    /\ at = 1
    /\ pc = "start"
    /\ prompt = Word(0)
    /\ cache = NoKV
    /\ moved = NoKV
    /\ effective = NoText
    /\ used_kv = FALSE
    /\ transfer_ok = TRUE
    /\ seen = FromText(NoText)
    /\ results = <<>>

(* invoke begins, on a cache if there is one. *)
Invoked(p, c) ==
    /\ prompt' = p
    /\ cache' = c
    /\ effective' = IF c # NoKV THEN c.source_text ELSE p
    /\ used_kv' = (c # NoKV)
    /\ transfer_ok' = TRUE
    /\ moved' = NoKV
    /\ pc' = IF c # NoKV THEN "transfer" ELSE "generate"

(* A call of the backend at hand, which loads its model if need be. *)
Call(where) ==
    /\ pc = where
    /\ UNCHANGED chain

LoadOutcome == ensure_loaded(Here, loaded[at])
Loaded(o) == loaded' = [loaded EXCEPT ![at] = o.now]

(* The first expert encodes the prompt, for a chain that passes caches. *)
Start ==
    /\ Call("start")
    /\ \E o \in LoadOutcome :
           /\ Loaded(o)
           /\ \E c \in IF o.ok THEN encode(Here, o.now, prompt) ELSE {NoKV} :
                  Invoked(prompt, c)
    /\ UNCHANGED <<at, seen, results>>

(* Mutant: a failed transfer is not taken back in used_kv. *)
Transfer_StillKV ==
    /\ Call("transfer")
    /\ \E o \in LoadOutcome :
           LET c == IF o.ok THEN transfer_cache(Here, cache) ELSE NoKV
           IN  /\ Loaded(o)
               /\ moved' = c
               /\ transfer_ok' = (c # NoKV)
               /\ pc' = IF c # NoKV THEN "decode" ELSE "generate"
    /\ UNCHANGED <<at, prompt, cache, effective, used_kv, seen, results>>

(* transfer_cache; when it raises, the text of the cache is used. *)
Transfer ==
    /\ Call("transfer")
    /\ \E o \in LoadOutcome :
           LET c == IF o.ok THEN transfer_cache(Here, cache) ELSE NoKV
           IN  /\ Loaded(o)
               /\ moved' = c
               /\ used_kv' = (c # NoKV)
               /\ transfer_ok' = (c # NoKV)
               /\ pc' = IF c # NoKV THEN "decode" ELSE "generate"
    /\ UNCHANGED <<at, prompt, cache, effective, seen, results>>

Decode ==
    /\ Call("decode")
    /\ seen' = decode(Here, moved)
    /\ pc' = IF seen'.raises THEN "raised" ELSE "encode"
    /\ UNCHANGED <<loaded, at, prompt, cache, moved, effective, used_kv,
                   transfer_ok, results>>

Generate ==
    /\ Call("generate")
    /\ \E o \in LoadOutcome :
           /\ Loaded(o)
           /\ seen' \in IF o.ok THEN generate(Here, effective) ELSE {Raised}
           /\ pc' = IF seen'.raises THEN "raised" ELSE "encode"
    /\ UNCHANGED <<at, prompt, cache, moved, effective, used_kv, transfer_ok,
                   results>>

(* A model that is not a mock may fail in decode; neither invoke nor the    *)
(* pipelines catch that, or what generate raises.                           *)
Raise ==
    /\ pc = "decode"
    /\ Here.kind # "mock"
    /\ pc' = "raised"
    /\ UNCHANGED <<chain, loaded, at, prompt, cache, moved, effective, used_kv,
                   transfer_ok, seen, results>>

(* The output cache, and invoke returns; the next expert is invoked. *)
Encode ==
    /\ Call("encode")
    /\ \E c \in encode(Here, loaded[at], Then(effective, at)) :
           /\ results' = Append(results,
                  [prompt |-> prompt, cache |-> cache,
                   input |-> effective, used_kv |-> used_kv,
                   transfer_ok |-> transfer_ok, out_cache |-> c])
           /\ IF at < Len(chain)
              THEN at' = at + 1 /\ Invoked(Word(at), c)
              ELSE /\ pc' = "over"
                   /\ UNCHANGED <<at, prompt, cache, moved, effective, used_kv,
                                  transfer_ok>>
    /\ UNCHANGED <<loaded, seen>>

Next == Start \/ Transfer \/ Decode \/ Generate \/ Raise \/ Encode

Spec == Init /\ [][Next]_vars

-----------------------------------------------------------------------------
Invocation == INSTANCE Expert

(* The metrics of an invocation as module Expert has them: texts by whose   *)
(* words they contain.                                                      *)
Abstract(i, r) ==
    [expert |-> i, input |-> r.input.says, max_tokens |-> "default",
     used_kv |-> r.used_kv, transfer_ok |-> r.transfer_ok,
     out_cache |-> r.out_cache.source_text.says]

(***************************************************************************)
(* Every invocation is one that module Expert allows: the pipelines'       *)
(* properties, which rest on that module, hold for the real backends,      *)
(* whatever their shapes, whichever of their calls fail, and with          *)
(* ciphertexts handed from one expert to the next.                         *)
(***************************************************************************)
InvokeConforms ==
    \A i \in DOMAIN results :
        LET r == results[i]
        IN  Abstract(i, r) \in Invocation!Invoke(TRUE, i, i, r.prompt.says,
                                                 r.cache.source_text.says, "default")

(***************************************************************************)
(* A cache that transfer_cache let through is never rejected by decode:    *)
(* invoke catches an IncompatibleCacheError of the first and not of the    *)
(* second, which would end the whole run.                                  *)
(***************************************************************************)
NoLateIncompatibility == pc = "decode" => ~decode(Here, moved).raises

(***************************************************************************)
(* llama.cpp puts as many layers into its model as it has, and they were   *)
(* computed, from the text the cache stands for, by one expert whose model *)
(* goes by the same name; where that model has fewer layers, zeros fill    *)
(* them up.  So they are the model's own if no other model of the chain    *)
(* has its name, and need not be otherwise: model_id is the base name of   *)
(* the file (transfer_cache, decode).                                      *)
(***************************************************************************)
InjectedFromNamesake ==
    pc = "encode" /\ seen.layers # <<>> =>
    /\ DOMAIN seen.layers = 1..Here.layers
    /\ \E i \in 1..at :
           /\ chain[i].model_id = Here.model_id
           /\ \A n \in 1..Here.layers :
                  seen.layers[n] = IF n <= chain[i].layers
                                   THEN Layer(chain[i].model, cache.source_text)
                                   ELSE Zeros

(* An unencrypted backend between two encrypted ones of one session. *)
TrustedInBetween ==
    \E i, j, k \in DOMAIN chain :
        /\ i < j /\ j < k
        /\ IsTrusted(chain[j])
        /\ ~IsTrusted(chain[i]) /\ chain[i].session = chain[k].session

(***************************************************************************)
(* What a model goes on from is a part of the conversation that ends with  *)
(* the latest output and has no gaps, even if the model gets it as a       *)
(* ciphertext it cannot read: what _decrypt_text cannot decrypt it keeps.  *)
(* (Not so with a trusted backend in between: its output is appended to a  *)
(* ciphertext, and lost when a later backend decrypts that.)               *)
(***************************************************************************)
NothingIsLost ==
    pc = "encode" /\ ~TrustedInBetween
    => LET words == seen.text.says
       IN  words # <<>> /\ words = [k \in 1..Len(words) |-> at - 1 - Len(words) + k]
=============================================================================
