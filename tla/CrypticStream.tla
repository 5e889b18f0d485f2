--------------------------- MODULE CrypticStream ---------------------------
(***************************************************************************)
(* src/src/chen/security/stream.py: data cut into blocks, each encrypted   *)
(* on its own, sent as block objects or as bytes, and put together again.  *)
(* The blocks are independent so that whatever carries them may reorder    *)
(* them; it may also lose or repeat some, and bytes may be cut off.        *)
(*                                                                         *)
(* The receiver keeps its decryptor for the streams that follow, with keys *)
(* added to it or replaced in between.                                     *)
(*                                                                         *)
(* The data is <<1, 2, ..., n>>, so that a byte is its position.           *)
(***************************************************************************)
EXTENDS Integers, Sequences, FiniteSets, SequencesExt, TLC, Crypto

CONSTANTS
    MaxData,       \* bound: the longest data considered
    BlockSizes,    \* the block sizes considered
    Configs,       \* the encryption configs: key_id and master key
    Sessions,
    BlockHeader,   \* the bytes of a block besides its ciphertext
    MaxReceived,   \* bound: the most block objects that arrive
    MaxStreams     \* bound: the streams sent to one receiver

ASSUME StreamAssumption ==
    /\ MaxData \in Nat /\ BlockHeader \in Nat /\ MaxReceived \in Nat
    /\ MaxStreams \in Nat
    /\ BlockSizes \subseteq Nat \ {0}
    /\ \A c \in Configs : c = [key_id |-> c.key_id, master |-> c.master]

VARIABLES
    data,       \* what is sent
    bs,         \* block_size
    blocks,     \* the StreamBlocks made so far
    sender,     \* the sender's config and session
    pc,         \* "encrypting", "sent", "reading", "received", "over"
    bytes,      \* the length of the serialized stream that arrived
    offset,     \* deserialize_stream: where it reads
    arrived,    \* the StreamBlocks at the receiver
    session,    \* the session they are decrypted with
    keys,           \* the receiver's Decryptor: its configs by key id ...
    session_keys,   \* ... and its cache
    result,     \* what decrypt_stream returned or raised
    streams,    \* the number of the stream
    given,      \* history: the configs the Decryptor was given ...
    opened      \* ... and what it has decrypted: pairs of config and session

input == <<data, bs, sender, session, streams>>
decryptor == <<keys, session_keys, given, opened>>
vars == <<input, blocks, pc, bytes, offset, arrived, decryptor, result>>

StreamBlock(index, chunk, is_last) ==
    [index |-> index, is_last |-> is_last,
     block |-> encrypt(sender.config, sender.session, chunk)]

Chunk(i) == SubSeq(data, i + 1, IF i + bs < Len(data) THEN i + bs ELSE Len(data))

Nothing == [raised |-> FALSE, data |-> <<>>]

Init ==
    /\ data \in {[i \in 1..n |-> i] : n \in 0..MaxData}
    /\ bs \in BlockSizes
    /\ sender \in [config : Configs, session : Sessions]
    /\ session \in Sessions
    /\ streams = 1
    /\ \E c \in Configs : keys = [id \in {c.key_id} |-> c] /\ given = {c}
    /\ session_keys = <<>>
    /\ opened = {}
    /\ blocks = <<>>
    /\ pc = "encrypting"
    /\ bytes = 0
    /\ offset = 0
    /\ arrived = <<>>
    /\ result = Nothing

-----------------------------------------------------------------------------
(* encrypt_to_stream: the whole list at once. *)
encrypt_to_stream ==
    IF data = <<>> THEN <<StreamBlock(0, <<>>, TRUE)>>
    ELSE [j \in 1..((Len(data) + bs - 1) \div bs) |->
              StreamBlock(j - 1, Chunk((j - 1) * bs), j * bs >= Len(data))]

(* Encryptor.encrypt_stream: bare blocks. *)
encrypt_stream ==
    [j \in 1..((Len(data) + bs - 1) \div bs) |->
         encrypt(sender.config, sender.session, Chunk((j - 1) * bs))]

(* Mutant: the last block is the one that begins in the last block's size. *)
Yield_LastShort ==
    /\ pc = "encrypting"
    /\ LET i == Len(blocks) * bs
           is_last == i + bs > Len(data)
       IN  /\ blocks' = Append(blocks, StreamBlock(Len(blocks), Chunk(i), is_last))
           /\ pc' = IF is_last THEN "sent" ELSE pc
    /\ UNCHANGED <<input, bytes, offset, arrived, decryptor, result>>

(* stream_iter: the consumer asks for one block after the other. *)
Yield ==
    /\ pc = "encrypting"
    /\ LET i == Len(blocks) * bs
           is_last == i + bs >= Len(data)
       IN  /\ blocks' = Append(blocks, StreamBlock(Len(blocks), Chunk(i), is_last))
           /\ pc' = IF is_last THEN "sent" ELSE pc
    /\ UNCHANGED <<input, bytes, offset, arrived, decryptor, result>>

-----------------------------------------------------------------------------
(* serialize_stream: the length, the block, and is_last. *)
BlockBytes(b) == BlockHeader + Len(b.block.plaintext)
OnWire(b) == 4 + BlockBytes(b) + 1

(* Where each of the blocks ends, counting from 0. *)
WireEnds(bb) ==
    LET end[k \in 0..Len(bb)] == IF k = 0 THEN 0 ELSE end[k - 1] + OnWire(bb[k])
    IN  end

serialize_stream(bb) == WireEnds(bb)[Len(bb)]

(* The serialized stream arrives, possibly cut off; what follows the cut    *)
(* never arrives.                                                           *)
ArriveBytes ==
    /\ pc = "sent"
    /\ bytes' \in 0..serialize_stream(blocks)
    /\ pc' = "reading"
    /\ UNCHANGED <<input, blocks, offset, arrived, decryptor, result>>

(* The block objects arrive: some of them, in any order, maybe twice. *)
ArriveBlocks ==
    /\ pc = "sent"
    /\ \E n \in 0..MaxReceived :
           \E which \in [1..n -> DOMAIN blocks] :
               arrived' = [j \in 1..n |-> blocks[which[j]]]
    /\ pc' = "received"
    /\ UNCHANGED <<input, blocks, bytes, offset, decryptor, result>>

Following == blocks[Len(arrived) + 1]

(* deserialize_stream finds the length and, as far as that says, the block  *)
(* and its flag.                                                            *)
BlockIsComplete ==
    /\ offset + 4 <= bytes
    /\ offset + 4 + BlockBytes(Following) + 1 <= bytes

(* One iteration of its loop; the index is counted anew. *)
ReadBlock ==
    /\ pc = "reading"
    /\ offset < bytes
    /\ BlockIsComplete
    /\ arrived' = Append(arrived, [Following EXCEPT !.index = Len(arrived)])
    /\ offset' = offset + OnWire(Following)
    /\ UNCHANGED <<input, blocks, pc, bytes, decryptor, result>>

(* It ends at the end, and without a word at an incomplete block. *)
StopReading ==
    /\ pc = "reading"
    /\ offset < bytes => ~BlockIsComplete
    /\ pc' = "received"
    /\ UNCHANGED <<input, blocks, bytes, offset, arrived, decryptor, result>>

-----------------------------------------------------------------------------
(* A dictionary with a key set to a value. *)
Put(dict, key, value) ==
    [k \in DOMAIN dict \cup {key} |-> IF k = key THEN value ELSE dict[k]]

(* Decryptor.add_key: a key more, or another one for an id it has.  The     *)
(* cache stays.  Only decrypt_stream looks at the keys, so that it makes no *)
(* difference how long before it they are added.                            *)
add_key ==
    /\ pc = "received"
    /\ \E c \in Configs \ Range(keys) :
           /\ keys' = Put(keys, c.key_id, c)
           /\ given' = given \cup {c}
    /\ UNCHANGED <<input, blocks, pc, bytes, offset, arrived, session_keys, opened,
                   result>>

(* Mutant: the blocks are taken as they come. *)
InOrder_AsReceived(bb) == bb

(* The place of a block when they are sorted by index: how many there are   *)
(* up to it.  sorted() is stable.                                           *)
Place(bb, j) ==
    Cardinality({i \in DOMAIN bb : \/ bb[i].index < bb[j].index
                                   \/ bb[i].index = bb[j].index /\ i <= j})

InOrder(bb) ==
    [k \in DOMAIN bb |-> bb[CHOOSE j \in DOMAIN bb : Place(bb, j) = k]]

(* The plaintexts of the first k blocks, one after the other. *)
Joins(bb) ==
    LET upto[k \in 0..Len(bb)] ==
            IF k = 0 THEN <<>> ELSE upto[k - 1] \o bb[k].block.plaintext
    IN  upto

Join(bb) == Joins(bb)[Len(bb)]

(* What the Decryptor's cache holds after the blocks: the key is derived    *)
(* before it turns out to open a block or not.                              *)
Cached ==
    LET id == sender.config.key_id
    IN  IF arrived = <<>> \/ id \notin DOMAIN keys THEN session_keys
        ELSE Put(session_keys, <<id, session>>,
                 get_session_key(keys, session_keys, id, session))

(* decrypt_stream: sorted by index, decrypted, joined. *)
decrypt_stream ==
    /\ pc = "received"
    /\ pc' = "over"
    /\ session_keys' = Cached
    /\ LET fails == \E j \in DOMAIN arrived :
                        ~Decrypts(keys, session_keys, session, arrived[j].block)
           joined == Join(InOrder(arrived))
       IN  /\ result' = [raised |-> fails,
                         data |-> IF fails THEN <<>> ELSE joined]
           /\ opened' = IF fails \/ arrived = <<>> THEN opened
                        ELSE opened \cup {<<sender.config, session>>}
    /\ UNCHANGED <<input, blocks, bytes, offset, arrived, keys, given>>

(* Another stream, from a sender with another key or session perhaps. *)
NextStream ==
    /\ pc = "over" /\ streams < MaxStreams
    /\ streams' = streams + 1
    /\ sender' \in [config : Configs, session : Sessions]
    /\ session' \in Sessions
    /\ blocks' = <<>> /\ arrived' = <<>>
    /\ bytes' = 0 /\ offset' = 0
    /\ result' = Nothing
    /\ pc' = "encrypting"
    /\ UNCHANGED <<data, bs, decryptor>>

Next ==
    \/ Yield \/ ArriveBytes \/ ArriveBlocks \/ ReadBlock \/ StopReading
    \/ add_key \/ decrypt_stream \/ NextStream

Spec == Init /\ [][Next]_vars

-----------------------------------------------------------------------------
(***************************************************************************)
(* stream_iter yields exactly the blocks of encrypt_to_stream, index and   *)
(* is_last included, for every length and block size: no data, a last      *)
(* block that is full, one that is not.  Encryptor.encrypt_stream cuts the *)
(* data in the same places, but gives no block at all without data.        *)
(***************************************************************************)
IteratorAgrees ==
    pc # "encrypting" =>
        /\ blocks = encrypt_to_stream
        /\ data # <<>> => [j \in DOMAIN blocks |-> blocks[j].block] = encrypt_stream

Repeats(s) == \E i, j \in DOMAIN s : i # j /\ s[i] = s[j]

(* The Decryptor was given the sender's config and never another under its  *)
(* key id.                                                                  *)
GivenOnly ==
    {c \in given : c.key_id = sender.config.key_id} = {sender.config}

(* With another session, or without the key, decrypt_stream raises.  With   *)
(* both it does not, whatever other keys were added and used: neither if no *)
(* other config was given under that key id, nor if a stream of that key    *)
(* and session was decrypted before, even though the config was replaced    *)
(* since, as the cache keeps its session key (Decryptor._get_session_key).  *)
RaisesRightly ==
    pc = "over" /\ arrived # <<>> =>
        /\ sender.config \notin given \/ sender.session # session => result.raised
        /\ sender.session = session /\ GivenOnly => ~result.raised
        /\ sender.session = session /\ <<sender.config, session>> \in opened
           => ~result.raised

(* What deserialize_stream makes of the bytes that arrived, cut off or not, *)
(* are the first blocks that were sent, with their indices.                 *)
ReadsAPrefix == bytes > 0 => IsPrefix(arrived, blocks)

(***************************************************************************)
(* What decrypt_stream returns never contradicts what was sent.  It raises *)
(* where it should (RaisesRightly).  Unless a block arrived twice, the     *)
(* bytes are in the order in which they were sent; if every block arrived, *)
(* in whatever order, all are there; and bytes that were cut off are read  *)
(* as the first blocks (ReadsAPrefix) and only shorten the result, by      *)
(* whole blocks.                                                           *)
(***************************************************************************)
ReceivedIsFaithful ==
    /\ RaisesRightly
    /\ ReadsAPrefix
    /\ pc = "over" /\ arrived # <<>> /\ ~result.raised =>
           /\ ~Repeats(arrived) =>
                  /\ \A i, j \in DOMAIN result.data :
                         i < j => result.data[i] < result.data[j]
                  /\ Len(arrived) = Len(blocks) => result.data = data
           /\ bytes > 0 =>
                  /\ IsPrefix(result.data, data)
                  /\ result.data = data \/ Len(result.data) % bs = 0
=============================================================================
