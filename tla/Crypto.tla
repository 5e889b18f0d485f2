------------------------------- MODULE Crypto -------------------------------
(***************************************************************************)
(* Encryption of blocks: src/src/chen/security/crypto.py and the key       *)
(* derivation of security/config.py.  HKDF and AES-GCM are ideal: a        *)
(* session key is the pair it is derived from, a block keeps its plaintext *)
(* and gives it away to whoever has the session key it was sealed with;    *)
(* without it, decrypting raises.  Nonces are fresh and leave no trace.    *)
(***************************************************************************)
derive_session_key(master, session) == <<master, session>>

(* Encryptor.encrypt; a config is a key id and a master key. *)
encrypt(config, session, plaintext) ==
    [key_id |-> config.key_id,
     sealed |-> derive_session_key(config.master, session),
     plaintext |-> plaintext]

(* Mutant: session keys are cached by session alone. *)
get_session_key_AnyKey(keys, session_keys, key_id, session) ==
    IF \E k \in DOMAIN session_keys : k[2] = session
    THEN session_keys[CHOOSE k \in DOMAIN session_keys : k[2] = session]
    ELSE derive_session_key(keys[key_id].master, session)

(* Decryptor._get_session_key.  `keys` maps key ids to configs; the session *)
(* keys are cached by key id and session, whatever `keys` says since.       *)
get_session_key(keys, session_keys, key_id, session) ==
    IF <<key_id, session>> \in DOMAIN session_keys
    THEN session_keys[<<key_id, session>>]
    ELSE derive_session_key(keys[key_id].master, session)

(* Decryptor.decrypt returns rather than raises: the decryptor has a key of *)
(* that id, and its session key opens the block.                            *)
Decrypts(keys, session_keys, session, block) ==
    /\ block.key_id \in DOMAIN keys
    /\ get_session_key(keys, session_keys, block.key_id, session) = block.sealed
=============================================================================
