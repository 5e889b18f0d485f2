----------------------------- MODULE RelayProofs -----------------------------
(***************************************************************************)
(* Expert.invoke on real backends, for any fleet of backends of the four   *)
(* kinds, of any shapes and sessions, and chains of any length.            *)
(***************************************************************************)
EXTENDS Relay, SequenceTheorems, TLAPS

(* A sequence, whatever it holds. *)
IsSeq(s) == s \in Seq({s[i] : i \in DOMAIN s})

(***************************************************************************)
(* The inductive invariant.  Where an invocation can be, and that it has a *)
(* result for every expert before it, ...                                  *)
(***************************************************************************)
Positions ==
    {"start", "transfer", "decode", "generate", "encode", "raised", "over"}

Placed ==
    /\ chain \in Seq(Fleet)
    /\ at \in 1..Len(chain)
    /\ pc \in Positions
    /\ IsSeq(results)
    /\ Len(results) = IF pc = "over" THEN at ELSE at - 1

(* ... that a cache is as the encode of an expert so far made it, ... *)
Made(ch, c, n) == c = NoKV \/ \E i \in 1..n : c = KVCache(ch[i], c.source_text)

(* ... words without a gap, up to those of the n-th expert, ... *)
Unbroken(words, n) ==
    /\ words \in Seq(Int)
    /\ words # <<>>
    /\ words = [k \in 1..Len(words) |-> n - Len(words) + k]

(***************************************************************************)
(* ... and where the block of a text comes from: it holds all words up to  *)
(* those of the encrypted expert that made it, behind which only trusted   *)
(* ones appended theirs.  The block of the user's words, if there is one,  *)
(* was made by the first expert, too.                                      *)
(***************************************************************************)
Maker(w) == IF w = 0 THEN 1 ELSE w

SealedBy(ch, text, w, n) ==
    /\ ~IsTrusted(ch[Maker(w)])
    /\ text.block[1].sealed
           = derive_session_key(Config.master, ch[Maker(w)].session)
    /\ Unbroken(text.block[1].plaintext.says, w)
    /\ \A m \in (w + 1)..n : IsTrusted(ch[m])

Told(ch, text, n) ==
    /\ Unbroken(text.says, n)
    /\ deserializes(text) => \E w \in 0..n : SealedBy(ch, text, w, n)

(* What invoke has at hand, from its beginning to its return, ... *)
InHand ==
    /\ Made(chain, cache, at)
    /\ cache # NoKV => Told(chain, cache.source_text, at - 1)
    /\ Told(chain, prompt, at - 1)
    /\ pc = "start" => cache = NoKV /\ at = 1 /\ prompt = Word(0)
    /\ pc # "start"
       => effective = IF cache # NoKV THEN cache.source_text ELSE prompt
    /\ pc \in {"transfer", "decode"} => cache # NoKV

(* ... and what it has found out about the cache. *)
Reported ==
    /\ pc = "decode" => moved = transfer_cache(Here, cache) /\ moved # NoKV
    /\ pc = "decode" => used_kv /\ transfer_ok
    /\ pc = "generate" => ~used_kv /\ (transfer_ok <=> cache = NoKV)
    /\ pc = "encode" => \/ cache = NoKV /\ ~used_kv /\ transfer_ok
                        \/ cache # NoKV /\ (used_kv <=> transfer_ok)
    /\ used_kv \in BOOLEAN /\ transfer_ok \in BOOLEAN

IInv ==
    /\ Placed
    /\ InHand
    /\ Reported
    /\ InvokeConforms
    /\ InjectedFromNamesake
    /\ NothingIsLost

-----------------------------------------------------------------------------
(* Texts: words, and what encryption makes of them. *)

(* One expert's words alone. *)
LEMMA OneWord ==
    ASSUME NEW n \in Int
    PROVE  Unbroken(<<n>>, n)
<1>0. <<n>> \in Seq(Int) /\ Len(<<n>>) = 1 /\ <<n>>[1] = n
  OBVIOUS
<1>1. PICK s \in Seq(Int) : s = <<n>> /\ Len(s) = 1 /\ s[1] = n
  BY <1>0
<1>2. PICK t : t = [k \in 1..Len(s) |-> n - Len(s) + k]
  OBVIOUS
<1>3. t \in Seq(Int) /\ Len(t) = 1 /\ t[1] = n
  BY <1>1, <1>2
<1>4. s = t
  BY <1>1, <1>3, SeqEqual
<1>5. s # <<>>
  BY <1>1
<1> QED
  BY <1>1, <1>2, <1>4, <1>5 DEF Unbroken

(* The next expert's words behind it. *)
LEMMA NextWord ==
    ASSUME NEW n \in Int, NEW s, Unbroken(s, n - 1)
    PROVE  Unbroken(Append(s, n), n)
<1>0. s \in Seq(Int)
  BY DEF Unbroken
<1>1. s = [k \in 1..Len(s) |-> (n - 1) - Len(s) + k]
  BY DEF Unbroken
<1>2. PICK l \in Nat : l = Len(s)
  BY <1>0, LenProperties
<1>3. PICK t \in Seq(Int) : t = Append(s, n)
  <2>1. Append(s, n) \in Seq(Int)
    BY <1>0
  <2> QED
    BY <2>1
<1>4. Len(t) = l + 1 /\ t[l + 1] = n /\ \A k \in 1..l : t[k] = s[k]
  BY <1>0, <1>2, <1>3
<1>5. \A k \in 1..l : s[k] = (n - 1) - l + k
  <2>1. PICK v : v = [k \in 1..l |-> (n - 1) - l + k]
    OBVIOUS
  <2>2. \A k \in 1..l : v[k] = (n - 1) - l + k
    BY <2>1
  <2>3. s = v
    BY <1>1, <1>2, <2>1, Zenon
  <2> QED
    BY <2>2, <2>3
<1>6. PICK u : u = [k \in 1..Len(t) |-> n - Len(t) + k]
  OBVIOUS
<1>7. /\ u \in Seq(Int) /\ Len(u) = l + 1
      /\ \A k \in 1..(l + 1) : u[k] = n - (l + 1) + k
  BY <1>2, <1>4, <1>6
<1>8. \A k \in 1..(l + 1) : t[k] = u[k]
  <2> TAKE k \in 1..(l + 1)
  <2>1. CASE k \in 1..l
    <3>1. t[k] = (n - 1) - l + k
      BY <1>4, <1>5, <2>1
    <3>2. u[k] = n - (l + 1) + k
      BY <1>7
    <3> QED
      BY <2>1, <3>1, <3>2
  <2>2. CASE k = l + 1
    <3>1. t[k] = n
      BY <1>4, <2>2
    <3>2. u[k] = n - (l + 1) + k
      BY <1>7
    <3> QED
      BY <2>2, <3>1, <3>2
  <2> QED
    BY <2>1, <2>2
<1>9. t = u
  BY <1>4, <1>7, <1>8, SeqEqual
<1>10. t # <<>>
  BY <1>2, <1>4
<1> QED
  BY <1>3, <1>6, <1>9, <1>10 DEF Unbroken

(* A text of plain words has no block. *)
LEMMA WordTold ==
    ASSUME NEW ch, NEW n \in Int
    PROVE  Told(ch, Word(n), n)
  BY OneWord DEF Told, Word, Plain, deserializes

(* What encrypt_text returns: the text, or a block with the text in it. *)
LEMMA Encrypted ==
    ASSUME NEW b, NEW text, NEW t \in encrypt_text(b, text)
    PROVE  /\ t.says = text.says
           /\ IsTrusted(b) => t = text
           /\ ~IsTrusted(b) =>
                  /\ t.block[1].sealed = derive_session_key(Config.master, b.session)
                  /\ t.block[1].plaintext = text
  BY DEF encrypt_text, Ciphertext, encrypt

(* The user's words, as the first expert encodes them. *)
LEMMA PromptTold ==
    ASSUME NEW ch, NEW t \in encrypt_text(ch[1], Word(0))
    PROVE  Told(ch, t, 0)
<1>1. Unbroken(Word(0).says, 0) /\ ~deserializes(Word(0))
  BY OneWord DEF Word, Plain, deserializes
<1>2. t.says = Word(0).says
  BY Encrypted
<1>3. CASE IsTrusted(ch[1])
  BY <1>1, <1>3, Encrypted DEF Told
<1>4. CASE ~IsTrusted(ch[1])
  <2>1. SealedBy(ch, t, 0, 0)
    BY <1>1, <1>4, Encrypted DEF SealedBy, Maker
  <2> QED
    BY <1>1, <1>2, <2>1 DEF Told
<1> QED
  BY <1>3, <1>4

(* A text and the output behind it, as the n-th expert encodes them. *)
LEMMA OutputTold ==
    ASSUME NEW ch, NEW n \in Nat \ {0}, NEW text, Told(ch, text, n - 1),
           NEW t \in encrypt_text(ch[n], Then(text, n))
    PROVE  Told(ch, t, n) /\ t.says = Append(text.says, n)
<1>1. t.says = Append(text.says, n) /\ Then(text, n).says = Append(text.says, n)
  BY Encrypted DEF Then
<1>2. Unbroken(Append(text.says, n), n)
  BY NextWord DEF Told
<1>3. CASE IsTrusted(ch[n]) /\ deserializes(t)
  <2>1. t = Then(text, n)
    BY <1>3, Encrypted
  <2>2. deserializes(text) /\ t.block = text.block
    BY <1>3, <2>1 DEF deserializes, Then
  <2>3. PICK w \in 0..(n - 1) : SealedBy(ch, text, w, n - 1)
    BY <2>2 DEF Told
  <2>4. \A m \in (w + 1)..n : IsTrusted(ch[m])
    <3> TAKE m \in (w + 1)..n
    <3>1. m = n \/ m \in (w + 1)..(n - 1)
      OBVIOUS
    <3> QED
      BY <1>3, <2>3, <3>1 DEF SealedBy
  <2>5. w \in 0..n
    OBVIOUS
  <2>6. SealedBy(ch, t, w, n)
    BY <2>2, <2>3, <2>4, Zenon DEF SealedBy
  <2> QED
    BY <1>1, <1>2, <2>5, <2>6 DEF Told
<1>4. CASE ~IsTrusted(ch[n])
  <2>1. Maker(n) = n /\ n \in 0..n
    BY DEF Maker
  <2>2. SealedBy(ch, t, n, n)
    <3>1. /\ t.block[1].sealed = derive_session_key(Config.master, ch[n].session)
          /\ t.block[1].plaintext = Then(text, n)
      BY <1>4, Encrypted
    <3>2. Unbroken(t.block[1].plaintext.says, n)
      BY <1>1, <1>2, <3>1
    <3>3. \A m \in (n + 1)..n : IsTrusted(ch[m])
      OBVIOUS
    <3> QED
      BY <1>4, <2>1, <3>1, <3>2, <3>3, Zenon DEF SealedBy
  <2> QED
    BY <1>1, <1>2, <2>1, <2>2 DEF Told
<1>5. CASE ~deserializes(t)
  BY <1>1, <1>2, <1>5 DEF Told
<1> QED
  BY <1>1, <1>3, <1>4, <1>5

(* Decrypting for the n-th expert loses nothing, unless a trusted one is in *)
(* between.                                                                 *)
LEMMA Decrypted ==
    ASSUME NEW ch \in Seq(Fleet), NEW n \in 1..Len(ch), NEW text,
           Told(ch, text, n - 1),
           ~ \E i, j, k \in DOMAIN ch :
                 /\ i < j /\ j < k
                 /\ IsTrusted(ch[j])
                 /\ ~IsTrusted(ch[i]) /\ ch[i].session = ch[k].session
    PROVE  Unbroken(decrypt_text(ch[n], text).says, n - 1)
<1>1. CASE decrypt_text(ch[n], text) = text
  BY <1>1 DEF Told
<1>2. CASE decrypt_text(ch[n], text) # text
  <2>1. /\ decrypt_text(ch[n], text) = text.block[1].plaintext
        /\ deserializes(text)
        /\ Decrypts(Keys, <<>>, ch[n].session, text.block[1])
    BY <1>2 DEF decrypt_text
  <2>2. text.block[1].sealed = derive_session_key(Config.master, ch[n].session)
    <3>1. text.block[1].key_id = "key"
      BY <2>1 DEF Decrypts, Keys, Config
    <3>2. Keys["key"].master = Config.master
      BY DEF Keys, Config
    <3> QED
      BY <2>1, <3>1, <3>2 DEF Decrypts, get_session_key
  <2>3. PICK w \in 0..(n - 1) : SealedBy(ch, text, w, n - 1)
    BY <2>1 DEF Told
  <2>4. ch[Maker(w)].session = ch[n].session
    BY <2>2, <2>3 DEF SealedBy, derive_session_key
  <2>5. CASE w = n - 1
    BY <2>1, <2>3, <2>5 DEF SealedBy
  <2>6. CASE w # n - 1
    <3>1. n - 1 \in (w + 1)..(n - 1) /\ n - 1 >= 1
      BY <2>6
    <3>2. IsTrusted(ch[n - 1]) /\ ~IsTrusted(ch[Maker(w)])
      BY <2>3, <3>1 DEF SealedBy
    <3>3. Maker(w) # n - 1
      BY <3>2
    <3>4. /\ Maker(w) \in DOMAIN ch /\ n - 1 \in DOMAIN ch /\ n \in DOMAIN ch
          /\ Maker(w) < n - 1 /\ n - 1 < n
      BY <3>1, <3>3, <2>6 DEF Maker
    <3> QED
      BY <2>4, <3>2, <3>4
  <2> QED
    BY <2>5, <2>6
<1> QED
  BY <1>1, <1>2

-----------------------------------------------------------------------------
(* Caches: what a backend's calls make of them. *)

(* A cache that was made is there. *)
LEMMA MadeIsThere ==
    ASSUME NEW b \in Fleet, NEW t
    PROVE  KVCache(b, t) # NoKV /\ KVCache(b, t).source_text = t
<1>1. KVCache(b, t).source_text = t
  BY DEF KVCache
<1>2. 1 \in DOMAIN KVCache(b, t).layers
  BY RelayAssumption DEF KVCache
<1>3. 1 \notin DOMAIN NoKV.layers
  BY DEF NoKV
<1> QED
  BY <1>1, <1>2, <1>3

(* encode returns a cache of the text, as it was encrypted, or raises. *)
LEMMA Encoded ==
    ASSUME NEW b \in Fleet, NEW l, NEW text, NEW c \in encode(b, l, text)
    PROVE  c = NoKV \/ \E t \in encrypt_text(b, text) : c = KVCache(b, t)
<1>1. PICK t \in encrypt_text(b, text) : c \in inner_encode(b, l, t)
  BY DEF encode
<1>2. c = NoKV \/ c = KVCache(b, t)
  BY <1>1, RelayAssumption
  DEF inner_encode, mock_encode, hf_encode, vllm_encode, llama_encode
<1> QED
  BY <1>1, <1>2

(* transfer_cache raises, or keeps the text and hands on a cache of the     *)
(* right shape.                                                             *)
LEMMA Transferred ==
    ASSUME NEW b \in Fleet, NEW c, NEW m, m = transfer_cache(b, c), m # NoKV,
           NEW a \in Fleet, NEW t, c = KVCache(a, t)
    PROVE  /\ m.source_text = t
           /\ b.kind \in {"vllm", "llama_cpp"} =>
                  SameHeads(b, c) /\ m = AdjustLayers(b, c)
<1>1. CASE b.kind = "mock"
  BY <1>1 DEF transfer_cache, mock_transfer_cache, KVCache
<1>2. CASE b.kind \in {"hf", "vllm", "llama_cpp"}
  <2>1. SameHeads(b, c) /\ m = AdjustLayers(b, c)
    BY <1>2 DEF transfer_cache, hf_transfer_cache, vllm_transfer_cache,
                llama_transfer_cache
  <2>2. m.source_text = t
    BY <2>1 DEF AdjustLayers, KVCache
  <2> QED
    BY <2>1, <2>2
<1> QED
  BY <1>1, <1>2, RelayAssumption

(* Adjusting the layers leaves the rest, and a cache of the model's own. *)
LEMMA Adjusted ==
    ASSUME NEW b \in Fleet, NEW a \in Fleet, NEW t, NEW m,
           m = AdjustLayers(b, KVCache(a, t))
    PROVE  /\ m.heads = a.heads /\ m.hidden = a.hidden
           /\ m.source_model = a.model_id /\ m.source_text = t
           /\ m.layers = [n \in 1..b.layers |->
                              IF n \in 1..a.layers THEN Layer(a.model, t) ELSE Zeros]
<1>1. KVCache(a, t).layers = [n \in 1..a.layers |-> Layer(a.model, t)]
  BY DEF KVCache
<1>2. m.layers = [n \in 1..b.layers |->
                      IF n \in 1..a.layers THEN Layer(a.model, t) ELSE Zeros]
  BY <1>1 DEF AdjustLayers, KVCache
<1> QED
  BY <1>2 DEF AdjustLayers, KVCache

(* The layers of a that b injects, cut off or filled up with zeros. *)
Injects(b, a, t, layers) ==
    /\ a.model_id = b.model_id
    /\ DOMAIN layers = 1..b.layers
    /\ \A n \in 1..b.layers :
           layers[n] = IF n <= a.layers THEN Layer(a.model, t) ELSE Zeros

(* A good result of decode for a text: it does not raise, goes on from the  *)
(* text, decrypted or not, and what is injected, if anything, a computed.   *)
GoodResult(b, a, t, d) ==
    /\ d.raises = FALSE
    /\ d.text = t \/ d.text = decrypt_text(b, t)
    /\ d.layers = <<>> \/ Injects(b, a, t, d.layers)

(* What transfer_cache handed on has one. *)
LEMMA Decoded ==
    ASSUME NEW b \in Fleet, NEW a \in Fleet, NEW t, NEW m, NEW d,
           m = transfer_cache(b, KVCache(a, t)), m # NoKV, d = decode(b, m)
    PROVE  GoodResult(b, a, t, d)
<1> USE DEF GoodResult
<1>1. /\ m.source_text = t
      /\ b.kind \in {"vllm", "llama_cpp"} =>
             SameHeads(b, KVCache(a, t)) /\ m = AdjustLayers(b, KVCache(a, t))
  BY Transferred
<1>2. PICK u : u = decrypt_text(b, t)
  OBVIOUS
<1>3. PICK k : k = [m EXCEPT !.source_text = decrypt_text(b, @)]
  OBVIOUS
<1>4. d = inner_decode(b, k)
  BY <1>3 DEF decode
<1>5. "source_text" \in DOMAIN m
  BY RelayAssumption
  DEF transfer_cache, mock_transfer_cache, hf_transfer_cache,
      vllm_transfer_cache, llama_transfer_cache, AdjustLayers, KVCache
<1>6. k.source_text = u
  BY <1>1, <1>2, <1>3, <1>5
<1>7. CASE b.kind \in {"mock", "hf"}
  <2>1. d = FromText(u)
    BY <1>4, <1>6, <1>7 DEF inner_decode, mock_decode, hf_decode
  <2> QED
    BY <1>2, <2>1 DEF FromText
<1>8. CASE b.kind \in {"vllm", "llama_cpp"}
  <2>1. SameHeads(b, KVCache(a, t)) /\ m = AdjustLayers(b, KVCache(a, t))
    BY <1>1, <1>8
  <2>2. /\ m.heads = a.heads /\ m.hidden = a.hidden
        /\ m.source_model = a.model_id
        /\ m.layers = [n \in 1..b.layers |->
                           IF n \in 1..a.layers THEN Layer(a.model, t) ELSE Zeros]
    BY <2>1, Adjusted
  <2>3. /\ k.heads = m.heads /\ k.hidden = m.hidden
        /\ k.source_model = m.source_model /\ k.layers = m.layers
    BY <1>3, <2>1 DEF AdjustLayers, KVCache
  <2>4. SameHeads(b, k)
    BY <2>1, <2>2, <2>3 DEF SameHeads, KVCache
  <2>5. CASE b.kind = "vllm"
    <3>1. d = FromText(u)
      BY <1>4, <1>6, <2>4, <2>5 DEF inner_decode, vllm_decode
    <3> QED
      BY <1>2, <3>1 DEF FromText
  <2>6. CASE b.kind = "llama_cpp" /\ k.source_model # b.model_id
    <3>1. d = FromText(u)
      BY <1>4, <1>6, <2>4, <2>6 DEF inner_decode, llama_decode
    <3> QED
      BY <1>2, <3>1 DEF FromText
  <2>7. CASE b.kind = "llama_cpp" /\ k.source_model = b.model_id
    <3>1. PICK own : own = AdjustLayers(b, k).layers
      OBVIOUS
    <3>2. a.layers \in Nat \ {0} /\ b.layers \in Nat \ {0}
      BY RelayAssumption
    <3>3. own = [n \in 1..b.layers |->
                     IF n \in 1..a.layers THEN Layer(a.model, t) ELSE Zeros]
      <4>1. "layers" \in DOMAIN k
        BY <1>3, <2>1 DEF AdjustLayers, KVCache
      <4>2. k.layers = [n \in 1..b.layers |->
                            IF n \in 1..a.layers THEN Layer(a.model, t) ELSE Zeros]
        BY <2>2, <2>3
      <4> QED
        BY <3>1, <4>1, <4>2 DEF AdjustLayers
    <3>4. d = [raises |-> FALSE, text |-> own[1].text, layers |-> own]
      BY <1>4, <2>4, <2>7, <3>1 DEF inner_decode, llama_decode
    <3>5. own[1] = Layer(a.model, t)
      BY <3>2, <3>3
    <3>6. Injects(b, a, t, own)
      BY <2>2, <2>3, <2>7, <3>2, <3>3 DEF Injects
    <3> QED
      BY <3>4, <3>5, <3>6 DEF Layer
  <2> QED
    BY <1>8, <2>5, <2>6, <2>7
<1> QED
  BY <1>7, <1>8, RelayAssumption

(* generate returns an answer to the words it was given, or raises. *)
LEMMA Generated ==
    ASSUME NEW b \in Fleet, NEW text, NEW d \in generate(b, text)
    PROVE  /\ d.raises \in BOOLEAN
           /\ d.raises = FALSE => d.text.says = text.says
           /\ d.layers = <<>>
<1>1. PICK t \in encrypt_text(b, text) : d \in inner_generate(b, t)
  BY DEF generate
<1>2. d = FromText(t) \/ d = Raised
  BY <1>1 DEF inner_generate, mock_generate, model_generate
<1>3. t.says = text.says
  BY <1>1, Encrypted
<1>4. CASE d = FromText(t)
  <2>1. d.raises = FALSE /\ d.text = t /\ d.layers = <<>>
    BY <1>4 DEF FromText
  <2> QED
    BY <1>3, <2>1
<1>5. CASE d = Raised
  <2>1. d.raises = TRUE /\ d.layers = <<>>
    BY <1>5 DEF Raised
  <2> QED
    BY <2>1
<1> QED
  BY <1>2, <1>4, <1>5

(* An invocation as module Expert has it. *)
LEMMA Conforms ==
    ASSUME NEW s \in BOOLEAN, s, NEW m, NEW i, NEW p, NEW c,
           NEW u \in BOOLEAN, NEW ok \in BOOLEAN, NEW o,
           NEW e, e = (IF c # <<>> THEN c ELSE p),
           c = <<>> => ~u /\ ok,
           c # <<>> => (u <=> ok),
           o = <<>> \/ o = Append(e, i),
           m = [expert |-> i, input |-> e, max_tokens |-> "default",
                used_kv |-> u, transfer_ok |-> ok, out_cache |-> o]
    PROVE  m \in Invocation!Invoke(s, i, i, p, c, "default")
<1> DEFINE effective_prompt == IF c # Invocation!NoCache THEN c ELSE p
           usable == c # Invocation!NoCache /\ s
<1>0. Invocation!NoCache = <<>>
  BY DEF Invocation!NoCache
<1>1. PICK en \in BOOLEAN :
          o = IF s /\ en THEN Invocation!Continued(effective_prompt, i)
                         ELSE Invocation!NoCache
  <2>1. CASE o = <<>>
    BY <1>0, <2>1
  <2>2. CASE o = Append(e, i)
    BY <1>0, <2>2 DEF Invocation!Continued
  <2> QED
    BY <2>1, <2>2
<1>2. u = (usable /\ u)
  BY <1>0
<1>3. ok = (usable => u)
  BY <1>0
<1>4. e = effective_prompt
  BY <1>0
<1> HIDE DEF effective_prompt, usable
<1>5. m = [expert |-> i, input |-> effective_prompt, max_tokens |-> "default",
           used_kv |-> usable /\ u, transfer_ok |-> usable => u,
           out_cache |-> IF s /\ en THEN Invocation!Continued(effective_prompt, i)
                                    ELSE Invocation!NoCache]
  BY <1>1, <1>2, <1>3, <1>4, Zenon
<1> QED
  BY <1>5, SMT DEF Invocation!Invoke, Invocation!Returns, effective_prompt, usable

-----------------------------------------------------------------------------
(* One result conforms to module Expert. *)
Conforming(i, r) ==
    Abstract(i, r) \in Invocation!Invoke(TRUE, i, i, r.prompt.says,
                                         r.cache.source_text.says, "default")

(* A chain is a sequence of backends, and has a first one. *)
LEMMA ChainIsSeq ==
    ASSUME NEW ch \in Chains
    PROVE  ch \in Seq(Fleet) /\ 1 \in 1..Len(ch)
<1>1. PICK n \in 1..MaxChain : ch \in [1..n -> Fleet]
  BY DEF Chains
<1>2. n \in Nat /\ n >= 1
  BY <1>1, RelayAssumption
<1> QED
  BY <1>1, <1>2

(* A sequence of anything grows by one element. *)
LEMMA Grown ==
    ASSUME NEW s, IsSeq(s), NEW x
    PROVE  /\ IsSeq(Append(s, x)) /\ Len(Append(s, x)) = Len(s) + 1
           /\ DOMAIN Append(s, x) = 1..(Len(s) + 1)
           /\ \A i \in 1..Len(s) : Append(s, x)[i] = s[i]
           /\ Append(s, x)[Len(s) + 1] = x
           /\ DOMAIN s = 1..Len(s) /\ Len(s) \in Nat
<1>1. PICK S : s \in Seq(S) /\ x \in S
  <2>1. s \in Seq({s[i] : i \in DOMAIN s} \cup {x})
    BY DEF IsSeq
  <2> QED
    BY <2>1
<1>2. PICK t \in Seq(S) : t = Append(s, x)
  <2>1. Append(s, x) \in Seq(S)
    BY <1>1
  <2> QED
    BY <2>1
<1>3. t \in Seq({t[i] : i \in DOMAIN t})
  BY <1>2
<1>4. IsSeq(t)
  BY <1>3 DEF IsSeq
<1>5. /\ Len(t) = Len(s) + 1 /\ DOMAIN t = 1..(Len(s) + 1)
      /\ \A i \in 1..Len(s) : t[i] = s[i]
      /\ t[Len(s) + 1] = x
      /\ DOMAIN s = 1..Len(s) /\ Len(s) \in Nat
  BY <1>1, <1>2
<1> QED
  BY <1>2, <1>4, <1>5

(* Words there are. *)
LEMMA ToldSays ==
    ASSUME NEW ch, NEW text, NEW n, Told(ch, text, n)
    PROVE  text.says # <<>> /\ text.says \in Seq(Int)
  BY DEF Told, Unbroken

(* A new invocation, on a cache that some encode made or on none. *)
LEMMA Begins ==
    ASSUME NEW c, NEW p, Invoked(p, c), Placed, chain' = chain,
           at' \in 1..Len(chain), Made(chain, c, at'),
           c # NoKV => Told(chain, c.source_text, at' - 1),
           Told(chain, p, at' - 1),
           IsSeq(results'), Len(results') = at' - 1, InvokeConforms'
    PROVE  IInv'
<1>1. pc' \in {"transfer", "generate"} /\ (pc' = "transfer" <=> c # NoKV)
  BY DEF Invoked
<1>2. /\ cache' = c /\ prompt' = p
      /\ effective' = IF c # NoKV THEN c.source_text ELSE p
  BY DEF Invoked
<1>3. Placed'
  BY <1>1 DEF Placed, Positions
<1>4. InHand'
  BY <1>1, <1>2 DEF InHand
<1>5. (used_kv' <=> c # NoKV) /\ transfer_ok'
  BY DEF Invoked
<1>6. used_kv' \in BOOLEAN /\ transfer_ok' \in BOOLEAN
  BY DEF Invoked
<1>7. Reported'
  BY <1>1, <1>2, <1>5, <1>6 DEF Reported
<1>8. InjectedFromNamesake' /\ NothingIsLost'
  BY <1>1 DEF InjectedFromNamesake, NothingIsLost
<1> QED
  BY <1>3, <1>4, <1>7, <1>8 DEF IInv

(* The first expert encodes the prompt. *)
LEMMA StartKeeps == ASSUME IInv, Start PROVE IInv'
<1>1. /\ at = 1 /\ prompt = Word(0) /\ pc = "start" /\ Told(chain, prompt, 0)
      /\ chain \in Seq(Fleet) /\ 1 \in 1..Len(chain) /\ Here \in Fleet
  BY DEF IInv, InHand, Placed, Start, Call, Here
<1>2. PICK c : /\ c = NoKV \/ \E l : c \in encode(Here, l, prompt)
              /\ Invoked(prompt, c)
  BY DEF Start
<1>3. c = NoKV \/ \E t \in encrypt_text(Here, Word(0)) : c = KVCache(Here, t)
  BY <1>1, <1>2, Encoded
<1>4. Made(chain, c, 1)
  BY <1>1, <1>3, MadeIsThere DEF Made, Here
<1>5. c # NoKV => Told(chain, c.source_text, 0)
  BY <1>1, <1>3, MadeIsThere, PromptTold DEF Here
<1>6. chain' = chain /\ at' = 1 /\ results' = results
  BY <1>1 DEF Start, Call
<1>7. InvokeConforms'
  BY <1>6 DEF IInv, InvokeConforms
<1>8. IsSeq(results') /\ Len(results') = at' - 1
  BY <1>1, <1>6 DEF IInv, Placed
<1> QED
  BY <1>1, <1>2, <1>4, <1>5, <1>6, <1>7, <1>8, Begins DEF IInv

(* An invocation stays where it is in the chain. *)
Stays == UNCHANGED <<chain, at, prompt, cache, effective, results>>

LEMMA StaysPlaced ==
    ASSUME IInv, Stays, pc' \in {"decode", "generate", "encode", "raised"},
           pc \in {"transfer", "decode", "generate"},
           pc' = "decode" => pc = "transfer"
    PROVE  Placed' /\ InHand' /\ InvokeConforms'
<1>1. Placed'
  BY DEF IInv, Placed, Stays, Positions
<1>2. InHand'
  BY DEF IInv, InHand, Stays
<1>3. InvokeConforms'
  BY DEF IInv, InvokeConforms, Stays
<1> QED
  BY <1>1, <1>2, <1>3

LEMMA TransferKeeps == ASSUME IInv, Transfer PROVE IInv'
<1>1. Stays /\ pc = "transfer"
  BY DEF Transfer, Call, Stays
<1>2. PICK c : /\ c = NoKV \/ c = transfer_cache(Here, cache)
              /\ moved' = c
              /\ used_kv' = (c # NoKV)
              /\ transfer_ok' = (c # NoKV)
              /\ pc' = IF c # NoKV THEN "decode" ELSE "generate"
  BY DEF Transfer
<1>3. Placed' /\ InHand' /\ InvokeConforms'
  BY <1>1, <1>2, StaysPlaced
<1>4. cache # NoKV /\ cache' = cache /\ Here' = Here
  BY <1>1 DEF IInv, InHand, Stays, Here
<1>5. Reported'
  <2>1. CASE c # NoKV
    BY <1>2, <1>4, <2>1 DEF Reported
  <2>2. CASE c = NoKV
    BY <1>2, <1>4, <2>2 DEF Reported
  <2> QED
    BY <2>1, <2>2
<1>6. InjectedFromNamesake' /\ NothingIsLost'
  BY <1>2 DEF InjectedFromNamesake, NothingIsLost
<1> QED
  BY <1>3, <1>5, <1>6 DEF IInv

(* What decode has, when it is called. *)
LEMMA AtDecode ==
    ASSUME IInv, pc = "decode", NEW d, d = decode(Here, moved)
    PROVE  \E i \in 1..at : GoodResult(Here, chain[i], cache.source_text, d)
<1>1. Here \in Fleet
  BY DEF IInv, Placed, Here
<1>2. cache # NoKV /\ moved = transfer_cache(Here, cache) /\ moved # NoKV
  BY DEF IInv, InHand, Reported
<1>3. PICK i \in 1..at : cache = KVCache(chain[i], cache.source_text)
  BY <1>2 DEF IInv, InHand, Made
<1>4. chain[i] \in Fleet
  BY DEF IInv, Placed
<1>5. PICK a \in Fleet : a = chain[i]
  BY <1>4
<1>6. moved = transfer_cache(Here, KVCache(a, cache.source_text))
  BY <1>2, <1>3, <1>5, Zenon
<1> QED
  BY <1>1, <1>2, <1>5, <1>6, Decoded

(* Without a trusted backend in between, the model gets the words unbroken. *)
LEMMA AtModel ==
    ASSUME IInv, NEW text, Told(chain, text, at - 1), ~TrustedInBetween
    PROVE  /\ Unbroken(text.says, at - 1)
           /\ Unbroken(decrypt_text(Here, text).says, at - 1)
<1>1. chain \in Seq(Fleet) /\ at \in 1..Len(chain)
  BY DEF IInv, Placed
<1>2. Unbroken(text.says, at - 1)
  BY DEF Told
<1>3. Unbroken(decrypt_text(chain[at], text).says, at - 1)
  <2>1. ~ \E i, j, k \in DOMAIN chain :
              /\ i < j /\ j < k
              /\ IsTrusted(chain[j])
              /\ ~IsTrusted(chain[i]) /\ chain[i].session = chain[k].session
    BY DEF TrustedInBetween
  <2>2. PICK ch \in Seq(Fleet) : ch = chain
    BY <1>1
  <2>3. PICK n \in 1..Len(ch) : n = at
    BY <1>1, <2>2
  <2> QED
    BY <2>1, <2>2, <2>3, Decrypted
<1> QED
  BY <1>2, <1>3 DEF Here

LEMMA DecodeKeeps == ASSUME IInv, Decode PROVE IInv'
<1>1. /\ Stays /\ pc = "decode" /\ used_kv' = used_kv
      /\ transfer_ok' = transfer_ok /\ chain' = chain /\ at' = at
      /\ cache' = cache /\ Here' = Here
  BY DEF Decode, Call, Stays, Here
<1>2. PICK d : d = decode(Here, moved) /\ seen' = d
  BY DEF Decode
<1>3. /\ d.raises = FALSE
      /\ d.text = cache.source_text \/ d.text = decrypt_text(Here, cache.source_text)
      /\ d.layers = <<>> \/ \E i \in 1..at :
             Injects(Here, chain[i], cache.source_text, d.layers)
  BY <1>1, <1>2, AtDecode DEF GoodResult
<1>4. pc' = "encode"
  BY <1>2, <1>3 DEF Decode
<1>5. Placed' /\ InHand' /\ InvokeConforms'
  BY <1>1, <1>4, StaysPlaced
<1>6. Reported'
  BY <1>1, <1>4 DEF IInv, InHand, Reported
<1>7. InjectedFromNamesake'
  BY <1>1, <1>2, <1>3 DEF InjectedFromNamesake, Injects
<1>8. NothingIsLost'
  <2>1. CASE TrustedInBetween
    BY <1>1, <2>1 DEF NothingIsLost, TrustedInBetween
  <2>2. CASE ~TrustedInBetween
    <3>1. Told(chain, cache.source_text, at - 1)
      BY <1>1 DEF IInv, InHand
    <3>2. Unbroken(d.text.says, at - 1)
      BY <1>3, <2>2, <3>1, AtModel
    <3> QED
      BY <1>1, <1>2, <3>2 DEF NothingIsLost, Unbroken
  <2> QED
    BY <2>1, <2>2
<1> QED
  BY <1>5, <1>6, <1>7, <1>8 DEF IInv

LEMMA GenerateKeeps == ASSUME IInv, Generate PROVE IInv'
<1>1. /\ Stays /\ pc = "generate" /\ used_kv' = used_kv
      /\ transfer_ok' = transfer_ok /\ chain' = chain /\ at' = at
      /\ cache' = cache /\ Here' = Here
  BY DEF Generate, Call, Stays, Here
<1>2. PICK d : seen' = d /\ (d \in generate(Here, effective) \/ d = Raised)
  BY DEF Generate
<1>3. Here \in Fleet
  BY DEF IInv, Placed, Here
<1>4. /\ d.raises \in BOOLEAN
      /\ d.raises = FALSE => d.text.says = effective.says
      /\ d.layers = <<>>
  <2>1. CASE d \in generate(Here, effective)
    BY <1>3, <2>1, Generated
  <2>2. CASE d = Raised
    <3>1. d.raises = TRUE /\ d.layers = <<>>
      BY <2>2 DEF Raised
    <3> QED
      BY <3>1
  <2> QED
    BY <1>2, <2>1, <2>2
<1>5. pc' = IF d.raises THEN "raised" ELSE "encode"
  BY <1>2 DEF Generate
<1>6. Placed' /\ InHand' /\ InvokeConforms'
  BY <1>1, <1>4, <1>5, StaysPlaced
<1>7. Reported'
  <2>1. pc' \in {"raised", "encode"}
    BY <1>4, <1>5
  <2> QED
    BY <1>1, <2>1 DEF IInv, Reported
<1>8. InjectedFromNamesake'
  <2>1. seen'.layers = <<>>
    BY <1>2, <1>4
  <2> QED
    BY <2>1 DEF InjectedFromNamesake
<1>9. NothingIsLost'
  <2> SUFFICES ASSUME pc' = "encode"
               PROVE  Unbroken(seen'.text.says, at - 1)
    BY <1>1 DEF NothingIsLost, Unbroken
  <2>1. d.text.says = effective.says
    BY <1>4, <1>5
  <2>2. Unbroken(effective.says, at - 1)
    BY <1>1 DEF IInv, InHand, Told
  <2> QED
    BY <1>2, <2>1, <2>2
<1> QED
  BY <1>6, <1>7, <1>8, <1>9 DEF IInv

LEMMA RaiseKeeps == ASSUME IInv, Raise PROVE IInv'
<1>1. Stays /\ pc = "decode" /\ pc' = "raised"
  BY DEF Raise, Stays
<1>2. Placed' /\ InHand' /\ InvokeConforms'
  BY <1>1, StaysPlaced
<1>3. Reported' /\ InjectedFromNamesake' /\ NothingIsLost'
  BY <1>1 DEF Raise, IInv, Reported, InjectedFromNamesake, NothingIsLost
<1> QED
  BY <1>2, <1>3 DEF IInv

(* The result of the invocation that returns conforms. *)
LEMMA ResultConforms ==
    ASSUME IInv, pc = "encode", NEW c,
           c = NoKV \/ c.source_text.says = Append(effective.says, at),
           NEW r, r = [prompt |-> prompt, cache |-> cache,
                       input |-> effective, used_kv |-> used_kv,
                       transfer_ok |-> transfer_ok, out_cache |-> c]
    PROVE  Conforming(at, r)
<1>1. /\ r.prompt = prompt /\ r.cache = cache /\ r.input = effective
      /\ r.used_kv = used_kv /\ r.transfer_ok = transfer_ok /\ r.out_cache = c
  OBVIOUS
<1>2. NoKV.source_text.says = <<>>
  BY DEF NoKV, NoText, Plain
<1>3. PICK p : p = prompt.says
  OBVIOUS
<1>4. PICK k : k = cache.source_text.says
  OBVIOUS
<1>5. PICK e : e = effective.says
  OBVIOUS
<1>6. PICK o : o = c.source_text.says
  OBVIOUS
<1>7. (cache = NoKV <=> k = <<>>)
  BY <1>2, <1>4, ToldSays DEF IInv, InHand
<1>8. e = IF k # <<>> THEN k ELSE p
  <2>1. effective = IF cache # NoKV THEN cache.source_text ELSE prompt
    BY DEF IInv, InHand
  <2>2. CASE cache = NoKV
    BY <1>3, <1>5, <1>7, <2>1, <2>2
  <2>3. CASE cache # NoKV
    BY <1>4, <1>5, <1>7, <2>1, <2>3
  <2> QED
    BY <2>2, <2>3
<1>9. o = <<>> \/ o = Append(e, at)
  BY <1>2, <1>5, <1>6
<1>10. PICK u \in BOOLEAN : u = used_kv
  BY DEF IInv, Reported
<1>11. PICK ok \in BOOLEAN : ok = transfer_ok
  BY DEF IInv, Reported
<1>12. /\ k = <<>> => ~u /\ ok
       /\ k # <<>> => (u <=> ok)
  BY <1>7, <1>10, <1>11 DEF IInv, Reported
<1>13. PICK m : m = [expert |-> at, input |-> e, max_tokens |-> "default",
                     used_kv |-> u, transfer_ok |-> ok, out_cache |-> o]
  OBVIOUS
<1>14. PICK s \in BOOLEAN : s = TRUE
  OBVIOUS
<1>15. m \in Invocation!Invoke(s, at, at, p, k, "default")
  BY <1>8, <1>9, <1>12, <1>13, <1>14, Conforms
<1>16. Abstract(at, r) = m
  BY <1>1, <1>5, <1>6, <1>10, <1>11, <1>13 DEF Abstract
<1> QED
  BY <1>1, <1>3, <1>4, <1>14, <1>15, <1>16 DEF Conforming

LEMMA EncodeKeeps == ASSUME IInv, Encode PROVE IInv'
<1>1. /\ pc = "encode" /\ chain' = chain /\ seen' = seen
      /\ chain \in Seq(Fleet) /\ at \in 1..Len(chain) /\ Here \in Fleet
      /\ at \in Nat \ {0} /\ Len(chain) \in Nat
  BY DEF IInv, Placed, Encode, Call, Here
<1>2. Told(chain, effective, at - 1)
  BY <1>1 DEF IInv, InHand
<1>3. PICK c, r :
          /\ c \in encode(Here, loaded[at], Then(effective, at))
          /\ r = [prompt |-> prompt, cache |-> cache,
                  input |-> effective, used_kv |-> used_kv,
                  transfer_ok |-> transfer_ok, out_cache |-> c]
          /\ results' = Append(results, r)
          /\ \/ at < Len(chain) /\ at' = at + 1 /\ Invoked(Word(at), c)
             \/ /\ pc' = "over"
                /\ UNCHANGED <<at, prompt, cache, moved, effective, used_kv,
                               transfer_ok>>
  BY DEF Encode
<1>4. c = NoKV \/ \E t \in encrypt_text(Here, Then(effective, at)) : c = KVCache(Here, t)
  BY <1>1, <1>3, Encoded
<1>5. /\ Made(chain, c, at) /\ Made(chain, c, at + 1)
      /\ c # NoKV => /\ Told(chain, c.source_text, at)
                     /\ c.source_text.says = Append(effective.says, at)
  <2>1. CASE c = NoKV
    BY <2>1 DEF Made
  <2>2. CASE c # NoKV
    <3>1. PICK t \in encrypt_text(chain[at], Then(effective, at)) : c = KVCache(Here, t)
      BY <1>4, <2>2 DEF Here
    <3>2. c.source_text = t
      BY <1>1, <3>1, MadeIsThere
    <3>3. Told(chain, t, at) /\ t.says = Append(effective.says, at)
      BY <1>1, <1>2, OutputTold
    <3>4. Made(chain, c, at) /\ Made(chain, c, at + 1)
      BY <1>1, <3>1, <3>2 DEF Made, Here
    <3> QED
      BY <3>2, <3>3, <3>4
  <2> QED
    BY <2>1, <2>2
<1>6. Conforming(at, r)
  BY <1>1, <1>3, <1>5, ResultConforms
<1>7. /\ IsSeq(results) /\ Len(results) = at - 1
  BY <1>1 DEF IInv, Placed
<1>8. /\ IsSeq(results') /\ Len(results') = Len(results) + 1
      /\ DOMAIN results' = 1..(Len(results) + 1)
      /\ \A i \in 1..Len(results) : results'[i] = results[i]
      /\ results'[Len(results) + 1] = r
      /\ DOMAIN results = 1..Len(results)
  BY <1>3, <1>7, Grown
<1>9. Len(results) + 1 = at /\ Len(results') = at /\ DOMAIN results' = 1..at
  BY <1>1, <1>7, <1>8
<1>10. InvokeConforms'
  <2>1. \A i \in DOMAIN results : Conforming(i, results[i])
    BY DEF IInv, InvokeConforms, Conforming
  <2>2. ASSUME NEW i \in 1..at PROVE Conforming(i, results'[i])
    <3>1. CASE i = at
      BY <1>6, <1>8, <1>9, <3>1
    <3>2. CASE i # at
      <4>1. i \in 1..Len(results)
        BY <1>1, <1>7, <3>2
      <4> QED
        BY <1>8, <2>1, <4>1
    <3> QED
      BY <3>1, <3>2
  <2> QED
    BY <1>9, <2>2 DEF InvokeConforms, Conforming
<1>11. CASE at < Len(chain) /\ at' = at + 1 /\ Invoked(Word(at), c)
  <2>1. at' \in 1..Len(chain) /\ at' - 1 = at
    BY <1>1, <1>11
  <2>2. Told(chain, Word(at), at)
    BY <1>1, WordTold
  <2> QED
    BY <1>1, <1>5, <1>8, <1>9, <1>10, <1>11, <2>1, <2>2, Begins DEF IInv
<1>12. CASE /\ pc' = "over"
            /\ UNCHANGED <<at, prompt, cache, moved, effective, used_kv,
                           transfer_ok>>
  <2>1. Placed'
    BY <1>1, <1>8, <1>9, <1>12 DEF Placed, Positions
  <2>2. InHand'
    BY <1>1, <1>12 DEF IInv, InHand
  <2>3. Reported' /\ InjectedFromNamesake' /\ NothingIsLost'
    BY <1>12 DEF IInv, Reported, InjectedFromNamesake, NothingIsLost
  <2> QED
    BY <1>10, <2>1, <2>2, <2>3 DEF IInv
<1> QED
  BY <1>3, <1>11, <1>12

-----------------------------------------------------------------------------
(* It holds before the first call. *)
LEMMA Initially == Init => IInv
<1> SUFFICES ASSUME Init PROVE IInv
  OBVIOUS
<1>1. /\ chain \in Seq(Fleet) /\ 1 \in 1..Len(chain) /\ at = 1 /\ pc = "start"
      /\ prompt = Word(0) /\ cache = NoKV /\ results = <<>>
  BY ChainIsSeq DEF Init
<1>2. <<>> \in Seq({<<>>[i] : i \in DOMAIN <<>>}) /\ Len(<<>>) = 0
  OBVIOUS
<1>3. Placed
  BY <1>1, <1>2 DEF Placed, Positions, IsSeq
<1>4. Told(chain, Word(0), 0)
  BY WordTold
<1>5. InHand
  BY <1>1, <1>4 DEF InHand, Made
<1>6. used_kv = FALSE /\ transfer_ok = TRUE
  BY DEF Init
<1>7. Reported
  BY <1>1, <1>6 DEF Reported
<1>8. InvokeConforms
  <2>1. DOMAIN results = {}
    BY <1>1
  <2> QED
    BY <2>1 DEF InvokeConforms
<1>9. InjectedFromNamesake /\ NothingIsLost
  BY <1>1 DEF InjectedFromNamesake, NothingIsLost
<1> QED
  BY <1>3, <1>5, <1>7, <1>8, <1>9 DEF IInv

(* Every call of a backend keeps it. *)
LEMMA Step == IInv /\ [Next]_vars => IInv'
<1> SUFFICES ASSUME IInv, [Next]_vars PROVE IInv'
  OBVIOUS
<1>1. CASE UNCHANGED vars
  <2>1. Placed' /\ InHand' /\ Reported'
    BY <1>1 DEF vars, IInv, Placed, InHand, Reported, Here
  <2>2. InvokeConforms' /\ InjectedFromNamesake' /\ NothingIsLost'
    BY <1>1 DEF vars, IInv, InvokeConforms, InjectedFromNamesake, NothingIsLost,
                TrustedInBetween, Here
  <2> QED
    BY <2>1, <2>2 DEF IInv
<1> QED
  BY <1>1, StartKeeps, TransferKeeps, DecodeKeeps, GenerateKeeps, RaiseKeeps,
     EncodeKeeps DEF Next

LEMMA Invariance == Spec => []IInv
  BY Initially, Step, PTL DEF Spec

(***************************************************************************)
(* For any fleet and chains of any length: every invocation is one that    *)
(* module Expert allows, so the abstraction under the properties of the    *)
(* pipelines is sound for backends of every shape, encrypted or not        *)
(* (Expert.invoke).                                                        *)
(***************************************************************************)
THEOREM InvokeCorrect == Spec => []InvokeConforms
<1>1. IInv => InvokeConforms
  BY DEF IInv
<1> QED
  BY <1>1, Invariance, PTL

(***************************************************************************)
(* Whatever the shapes of the models, a cache that transfer_cache let      *)
(* through is not rejected by decode, whose exception nobody catches       *)
(* (transfer_cache and decode of the four backends).                       *)
(***************************************************************************)
THEOREM CompatibilityCorrect == Spec => []NoLateIncompatibility
<1>1. IInv => NoLateIncompatibility
  <2> SUFFICES ASSUME IInv, pc = "decode" PROVE ~decode(Here, moved).raises
    BY DEF NoLateIncompatibility
  <2>1. PICK d : d = decode(Here, moved)
    OBVIOUS
  <2>2. d.raises = FALSE
    BY <2>1, AtDecode DEF GoodResult
  <2> QED
    BY <2>1, <2>2
<1> QED
  BY <1>1, Invariance, PTL

(***************************************************************************)
(* Whichever caches are handed around, llama.cpp puts only layers into its *)
(* model that one expert of the chain, of the same model name, computed    *)
(* from the cache's text, filled up with zeros (LlamaCppBackend).          *)
(***************************************************************************)
THEOREM InjectionCorrect == Spec => []InjectedFromNamesake
<1>1. IInv => InjectedFromNamesake
  BY DEF IInv
<1> QED
  BY <1>1, Invariance, PTL

(***************************************************************************)
(* Hence where a name stands for one model, which nothing in the code sees *)
(* to, the layers are those of the model itself and none is zeros          *)
(* (LlamaCppBackend.model_id).                                             *)
(***************************************************************************)
NameIsModel ==
    \A i, j \in DOMAIN chain :
        chain[i].model_id = chain[j].model_id
        => chain[i].model = chain[j].model /\ chain[i].layers = chain[j].layers

InjectedIsOwn ==
    pc = "encode" =>
    \A n \in DOMAIN seen.layers :
        seen.layers[n] = Layer(Here.model, cache.source_text)

THEOREM OwnLayersCorrect == Spec => [](NameIsModel => InjectedIsOwn)
<1>1. ASSUME IInv, NameIsModel, pc = "encode", NEW n \in DOMAIN seen.layers
      PROVE  seen.layers[n] = Layer(Here.model, cache.source_text)
  <2>1. chain \in Seq(Fleet) /\ at \in 1..Len(chain) /\ InjectedFromNamesake
    BY <1>1 DEF IInv, Placed
  <2>2. seen.layers # <<>>
    BY <1>1
  <2>3. PICK i \in 1..at :
            /\ n \in 1..Here.layers
            /\ chain[i].model_id = Here.model_id
            /\ seen.layers[n] = IF n <= chain[i].layers
                                THEN Layer(chain[i].model, cache.source_text)
                                ELSE Zeros
    BY <1>1, <2>1, <2>2 DEF InjectedFromNamesake
  <2>4. chain[i].model = Here.model /\ chain[i].layers = Here.layers
    BY <1>1, <2>1, <2>3 DEF NameIsModel, Here
  <2>5. Here.layers \in Nat
    BY <2>1, RelayAssumption DEF Here
  <2> QED
    BY <2>3, <2>4, <2>5
<1>2. IInv => (NameIsModel => InjectedIsOwn)
  BY <1>1 DEF InjectedIsOwn
<1> QED
  BY <1>2, Invariance, PTL

(***************************************************************************)
(* However ciphertexts nest along a chain of any length, a model goes on   *)
(* from an unbroken part of the conversation that ends with the latest     *)
(* output, unless a trusted backend is in between (EncryptedBackend).      *)
(***************************************************************************)
THEOREM WordsCorrect == Spec => []NothingIsLost
<1>1. IInv => NothingIsLost
  BY DEF IInv
<1> QED
  BY <1>1, Invariance, PTL
=============================================================================
