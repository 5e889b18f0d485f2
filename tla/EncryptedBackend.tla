-------------------------- MODULE EncryptedBackend --------------------------
(***************************************************************************)
(* src/src/chen/security/backends.py: a wrapper that encrypts what goes    *)
(* into a backend and decrypts what comes out.  A backend's `session` is   *)
(* that of its wrapper, or "trusted" for one that wrap_with_encryption     *)
(* leaves alone.  All wrappers use one config.                             *)
(*                                                                         *)
(* A ciphertext is a text in base64.  b64decode stops at padding: a padded *)
(* one is decoded as if the text ended after it, while an unpadded one     *)
(* with more text behind it decodes to something that does not decrypt.    *)
(***************************************************************************)
EXTENDS Backends, Crypto

Config == [key_id |-> "key", master |-> 1]

(* The keys of every wrapper's decryptor, to which none are added: what its *)
(* cache holds is what it would derive.                                     *)
Keys == [key_id \in {Config.key_id} |-> Config]

IsTrusted(b) == b.session = "trusted"

Ciphertext(text, session, base64) ==
    [says |-> text.says, block |-> <<encrypt(Config, session, text)>>,
     base64 |-> base64]

(* _encrypt_text: the texts it may return. *)
encrypt_text(b, text) ==
    IF IsTrusted(b) THEN {text}
    ELSE {Ciphertext(text, b.session, base64) : base64 \in {"padded", "exact"}}

(* b64decode and EncryptedBlock.deserialize find a block. *)
deserializes(text) == text.base64 # "no"

(* Mutant: what does not decrypt is dropped. *)
decrypt_text_Drops(b, text) ==
    IF IsTrusted(b) THEN text
    ELSE IF /\ deserializes(text)
            /\ Decrypts(Keys, <<>>, b.session, text.block[1])
    THEN text.block[1].plaintext
    ELSE NoText

(* _decrypt_text: what does not decrypt is returned as it is. *)
decrypt_text(b, text) ==
    IF /\ ~IsTrusted(b)
       /\ deserializes(text)
       /\ Decrypts(Keys, <<>>, b.session, text.block[1])
    THEN text.block[1].plaintext
    ELSE text

encode(b, loaded, text) ==
    UNION {inner_encode(b, loaded, t) : t \in encrypt_text(b, text)}

decode(b, cache) ==
    inner_decode(b, [cache EXCEPT !.source_text = decrypt_text(b, @)])

(* The answer is no ciphertext and comes back as it is. *)
generate(b, text) ==
    UNION {inner_generate(b, t) : t \in encrypt_text(b, text)}
=============================================================================
