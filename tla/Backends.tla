------------------------------ MODULE Backends ------------------------------
(***************************************************************************)
(* The inference backends of src/src/chen/backends: what encode,           *)
(* transfer_cache and decode do with a KV-cache, and when they raise.      *)
(*                                                                         *)
(* A backend is a record of its kind, its model, the model_id by which the *)
(* code knows the model, and the shape of the model's cache.  A text is a  *)
(* record: `says` tells whose words are in it, as in module Expert, 0 for  *)
(* the user, i for the i-th expert; `block` is the ciphertext it begins    *)
(* with, if any, and `base64` whether decoding the text yields that block: *)
(* "padded" if so, whatever comes behind it, "exact" if so as long as      *)
(* nothing does, and "no".  A layer of a cache is known by the model that  *)
(* computed it and the text it was computed from.                          *)
(***************************************************************************)
EXTENDS Integers, Sequences

Plain(words) == [says |-> words, block |-> <<>>, base64 |-> "no"]
Word(i) == Plain(<<i>>)
NoText == Plain(<<>>)

(* A text with the output of the i-th expert behind it. *)
Then(text, i) ==
    [says |-> Append(text.says, i), block |-> text.block,
     base64 |-> IF text.base64 = "padded" THEN "padded" ELSE "no"]

NoKV == [layers |-> <<>>, heads |-> 0, hidden |-> 0, source_model |-> "none",
         source_text |-> NoText]

Layer(model, text) == [model |-> model, text |-> text]
Zeros == Layer("zeros", NoText)

(* KVCache, as every backend's encode fills it in. *)
KVCache(b, text) ==
    [layers |-> [n \in 1..b.layers |-> Layer(b.model, text)],
     heads |-> b.heads, hidden |-> b.hidden,
     source_model |-> b.model_id, source_text |-> text]

-----------------------------------------------------------------------------
(* _ensure_loaded, from "no": what may come of it, and whether the call it  *)
(* is part of goes on.  A model that is there is never loaded again.        *)
Done == [ok |-> TRUE, now |-> "yes"]
Failed == [ok |-> FALSE, now |-> "no"]

(* Moving the model to its device may fail after _model was set: the next   *)
(* call takes it for loaded.                                                *)
hf_ensure_loaded == {Done, Failed, [ok |-> FALSE, now |-> "yes"]}

(* Likewise get_tokenizer after _llm was set, and there is no tokenizer.    *)
vllm_ensure_loaded == {Done, Failed, [ok |-> FALSE, now |-> "no tokenizer"]}

llama_ensure_loaded == {Done, Failed}

ensure_loaded(b, loaded) ==
    IF loaded # "no" THEN {[ok |-> TRUE, now |-> loaded]}
    ELSE CASE b.kind = "mock" -> {Done}
           [] b.kind = "hf" -> hf_ensure_loaded
           [] b.kind = "vllm" -> vllm_ensure_loaded
           [] b.kind = "llama_cpp" -> llama_ensure_loaded

-----------------------------------------------------------------------------
(* encode: the caches it may return, NoKV if it raises. *)
mock_encode(b, text) == {KVCache(b, text)}

hf_encode(b, text) == {KVCache(b, text), NoKV}

(* The tokenizer is used; generate and decode do without. *)
vllm_encode(b, loaded, text) ==
    {NoKV} \cup (IF loaded = "yes" THEN {KVCache(b, text)} ELSE {})

llama_encode(b, text) == {KVCache(b, text), NoKV}

inner_encode(b, loaded, text) ==
    CASE b.kind = "mock" -> mock_encode(b, text)
      [] b.kind = "hf" -> hf_encode(b, text)
      [] b.kind = "vllm" -> vllm_encode(b, loaded, text)
      [] b.kind = "llama_cpp" -> llama_encode(b, text)

-----------------------------------------------------------------------------
(* transfer_cache: the cache it returns, NoKV if it raises. *)
SameHeads(b, cache) == cache.heads = b.heads /\ cache.hidden = b.hidden

(* The layer count is adjusted: cut off or filled up with zeros. *)
AdjustLayers(b, cache) ==
    [cache EXCEPT !.layers =
        [n \in 1..b.layers |-> IF n \in DOMAIN @ THEN @[n] ELSE Zeros]]

(* Another shape is encoded anew from the text. *)
mock_transfer_cache(b, cache) ==
    IF SameHeads(b, cache) /\ Len(cache.layers) = b.layers THEN cache
    ELSE KVCache(b, cache.source_text)

hf_transfer_cache(b, cache) ==
    IF SameHeads(b, cache) THEN AdjustLayers(b, cache) ELSE NoKV

vllm_transfer_cache(b, cache) ==
    IF SameHeads(b, cache) THEN AdjustLayers(b, cache) ELSE NoKV

(* Mutant: only the layer count is looked at. *)
llama_transfer_cache_AnyHeads(b, cache) == AdjustLayers(b, cache)

llama_transfer_cache(b, cache) ==
    IF SameHeads(b, cache) THEN AdjustLayers(b, cache) ELSE NoKV

transfer_cache(b, cache) ==
    CASE b.kind = "mock" -> mock_transfer_cache(b, cache)
      [] b.kind = "hf" -> hf_transfer_cache(b, cache)
      [] b.kind = "vllm" -> vllm_transfer_cache(b, cache)
      [] b.kind = "llama_cpp" -> llama_transfer_cache(b, cache)

-----------------------------------------------------------------------------
(* decode and generate: whether the call raises, the text the model goes on *)
(* from, and the layers that are put into the model, if any.                *)
FromText(text) == [raises |-> FALSE, text |-> text, layers |-> <<>>]
Raised == [raises |-> TRUE, text |-> NoText, layers |-> <<>>]

(* The mock and HuggingFace go on from the text, whatever the tensors are. *)
mock_decode(b, cache) == FromText(cache.source_text)

hf_decode(b, cache) == FromText(cache.source_text)

vllm_decode(b, cache) ==
    IF SameHeads(b, cache) THEN FromText(cache.source_text) ELSE Raised

(* Mutant: the model that made the cache is not looked at. *)
llama_decode_AnyModel(b, cache) ==
    IF SameHeads(b, cache)
    THEN [raises |-> FALSE, text |-> cache.layers[1].text, layers |-> cache.layers]
    ELSE Raised

(* llama.cpp goes on from the tensors, if they come from a model of its     *)
(* name, which is that of the file without its directory.                   *)
llama_decode(b, cache) ==
    IF ~SameHeads(b, cache) THEN Raised
    ELSE IF cache.source_model # b.model_id THEN FromText(cache.source_text)
    ELSE LET own == AdjustLayers(b, cache).layers
         IN  [raises |-> FALSE, text |-> own[1].text, layers |-> own]

inner_decode(b, cache) ==
    CASE b.kind = "mock" -> mock_decode(b, cache)
      [] b.kind = "hf" -> hf_decode(b, cache)
      [] b.kind = "vllm" -> vllm_decode(b, cache)
      [] b.kind = "llama_cpp" -> llama_decode(b, cache)

(* generate: what may come of it.  The mock fills in a template; a model    *)
(* may fail.                                                                *)
mock_generate(text) == {FromText(text)}

model_generate(text) == {FromText(text), Raised}

inner_generate(b, text) ==
    IF b.kind = "mock" THEN mock_generate(text) ELSE model_generate(text)
=============================================================================
