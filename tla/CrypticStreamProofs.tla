------------------------ MODULE CrypticStreamProofs ------------------------
(***************************************************************************)
(* Proofs about CrypticStream, for data and blocks of any length, any      *)
(* configs and sessions, and any number of streams: the iterator cuts the  *)
(* data like the loop that makes the whole list; a decryptor that lives    *)
(* across streams and changes of its keys raises exactly where it should;  *)
(* and what it returns never contradicts what was sent, whatever was lost, *)
(* repeated, reordered or cut off on the way.                              *)
(***************************************************************************)
EXTENDS CrypticStream, SequenceTheorems, FiniteSetTheorems,
        NaturalsInduction, WellFoundedInduction, TLAPS

-----------------------------------------------------------------------------
(* The inductive invariant. *)

TypeInv ==
    /\ data \in Seq(Nat) /\ \A i \in 1..Len(data) : data[i] = i
    /\ bs \in Nat \ {0}
    /\ sender \in [config : Configs, session : Sessions]
    /\ session \in Sessions
    /\ pc \in {"encrypting", "sent", "reading", "received", "over"}

(* The block that stands at position j, whoever makes it. *)
BlockAt(j) == StreamBlock(j - 1, Chunk((j - 1) * bs), j * bs >= Len(data))

(* The blocks yielded so far are the first ones, and they end with the data *)
(* or with the one block that stands for none.                              *)
CutSoFar(n) ==
    /\ blocks = [j \in 1..n |-> BlockAt(j)]
    /\ n = 0 => pc = "encrypting"
    /\ n > 0 /\ pc = "encrypting" => n * bs < Len(data)
    /\ n > 0 /\ pc # "encrypting" => n * bs >= Len(data)
    /\ n > 1 => (n - 1) * bs < Len(data)

Cut == \E n \in Nat : CutSoFar(n)

(* What is at the receiver was sealed by the sender. *)
SealedBySender(b) ==
    /\ b.block.key_id = sender.config.key_id
    /\ b.block.sealed = derive_session_key(sender.config.master, sender.session)

(* A sequence, whatever of. *)
IsSeq(s) == s \in Seq({s[i] : i \in DOMAIN s})

Sealed ==
    /\ IsSeq(arrived)
    /\ \A j \in DOMAIN arrived : SealedBySender(arrived[j])

(* Reading stands at the end of a block, before the end of the bytes, and   *)
(* has the blocks up to there.                                              *)
ReadSoFar(m) ==
    /\ m <= Len(blocks)
    /\ arrived = [j \in 1..m |-> blocks[j]]
    /\ pc = "reading" => /\ offset = WireEnds(blocks)[m]
                         /\ bytes <= WireEnds(blocks)[Len(blocks)]

Read ==
    /\ bytes \in Nat
    /\ pc \in {"encrypting", "sent"} =>
           bytes = 0 /\ offset = 0 /\ arrived = <<>>
    /\ pc = "reading" \/ bytes > 0 => \E m \in Nat : ReadSoFar(m)

(* The decryptor's dictionaries hold what it was given, under its id ...    *)
KeysFit ==
    /\ given \subseteq Configs
    /\ \A id \in DOMAIN keys : keys[id] \in given /\ keys[id].key_id = id
    /\ \A c \in given : c.key_id \in DOMAIN keys

(* ... and the session keys of what it was given, perhaps no longer there.  *)
CacheFits ==
    \A p \in DOMAIN session_keys :
        \E c \in given, s \in Sessions :
            p = <<c.key_id, s>> /\ session_keys[p] = derive_session_key(c.master, s)

(* The session key of what was decrypted is cached. *)
OpenedIsCached ==
    \A c \in Configs, s \in Sessions : <<c, s>> \in opened =>
        /\ c.key_id \in DOMAIN keys
        /\ <<c.key_id, s>> \in DOMAIN session_keys
        /\ session_keys[<<c.key_id, s>>] = derive_session_key(c.master, s)

IInv ==
    /\ TypeInv
    /\ Cut
    /\ Sealed
    /\ Read
    /\ KeysFit
    /\ CacheFits
    /\ OpenedIsCached
    /\ RaisesRightly

-----------------------------------------------------------------------------
(* Cutting: n \div b rounded up is the k with (k - 1) * b < n <= k * b. *)
LEMMA RoundedUp ==
    ASSUME NEW n \in Nat, NEW b \in Nat \ {0}, NEW k \in Nat \ {0},
           k * b >= n, (k - 1) * b < n
    PROVE  (n + b - 1) \div b = k
<1> DEFINE q == (n + b - 1) \div b
<1>1. q \in Int /\ b * q <= n + b - 1 /\ n + b - 1 < b * q + b
  OBVIOUS
<1>2. ASSUME q < k PROVE FALSE
  <2>1. q + 1 <= k
    BY <1>1, <1>2
  <2>2. b * (q + 1) <= b * k
    BY <1>1, <2>1
  <2>. QED
    BY <1>1, <2>2
<1>3. ASSUME q > k PROVE FALSE
  <2>1. q >= k + 1
    BY <1>1, <1>3
  <2>2. b * q >= b * (k + 1)
    BY <1>1, <2>1
  <2>. QED
    BY <1>1, <2>2
<1>. QED
  BY <1>1, <1>2, <1>3

LEMMA Multiple ==
    ASSUME NEW k \in Nat, NEW b \in Nat \ {0}
    PROVE  (k * b) % b = 0
<1> DEFINE n == k * b
           q == n \div b
           r == n % b
<1>1. n \in Nat
  OBVIOUS
<1>. HIDE DEF n
<1>2. q \in Int /\ r \in Int /\ n = b * q + r /\ 0 <= r /\ r < b
  BY <1>1
<1>. HIDE DEF q, r
<1>3. r = b * (k - q)
  BY <1>2 DEF n
<1>4. ASSUME k - q >= 1 PROVE FALSE
  <2>1. b * (k - q) >= b
    BY <1>2, <1>4
  <2>. QED
    BY <1>2, <1>3, <2>1
<1>5. ASSUME k - q <= -1 PROVE FALSE
  <2>1. b * (k - q) < 0
    BY <1>2, <1>5
  <2>. QED
    BY <1>2, <1>3, <2>1
<1>6. k - q = 0
  BY <1>2, <1>4, <1>5
<1>7. r = 0
  BY <1>2, <1>3, <1>6
<1>. QED
  BY <1>7 DEF r, n

(* The whole list, block by block. *)
LEMMA WholeList ==
    ASSUME TypeInv, NEW n \in Nat, CutSoFar(n), pc # "encrypting"
    PROVE  blocks = encrypt_to_stream
<1>1. /\ n > 0 /\ n * bs >= Len(data)
      /\ blocks = [j \in 1..n |-> BlockAt(j)]
      /\ n > 1 => (n - 1) * bs < Len(data)
  BY DEF CutSoFar
<1>2. /\ Len(data) \in Nat /\ bs \in Nat \ {0}
      /\ data \in Seq(Nat)
  BY DEF TypeInv
<1>3. CASE data = <<>>
  <2>1. n = 1
    <3>1. ASSUME n > 1 PROVE FALSE
      <4>1. (n - 1) * bs < 0
        BY <1>1, <1>3, <3>1
      <4>2. (n - 1) * bs >= 0
        BY <1>2, <3>1
      <4>. QED
        BY <1>2, <4>1, <4>2
    <3>. QED
      BY <1>1, <3>1
  <2>2. BlockAt(1) = StreamBlock(0, <<>>, TRUE)
    <3>1. 1 - 1 = 0 /\ (1 - 1) * bs = 0 /\ 1 * bs = bs /\ bs >= Len(data) /\ Len(data) = 0
      BY <1>2, <1>3
    <3>2. Chunk(0) = <<>>
      BY <1>2, <1>3, <3>1 DEF Chunk
    <3>. QED
      BY <3>1, <3>2 DEF BlockAt
  <2>3. blocks = <<BlockAt(1)>>
    BY <1>1, <2>1
  <2>. QED
    BY <1>3, <2>2, <2>3 DEF encrypt_to_stream
<1>4. CASE data # <<>>
  <2>1. Len(data) > 0
    BY <1>2, <1>4
  <2>2. (n - 1) * bs < Len(data)
    BY <1>1, <1>2, <2>1
  <2>3. n \in Nat \ {0}
    BY <1>1
  <2>4. (Len(data) + bs - 1) \div bs = n
    BY <1>1, <1>2, <2>2, <2>3, RoundedUp, Zenon
  <2>. QED
    BY <1>1, <1>4, <2>4 DEF encrypt_to_stream, BlockAt
<1>. QED
  BY <1>3, <1>4

LEMMA BareBlocks ==
    ASSUME TypeInv, blocks = encrypt_to_stream, data # <<>>
    PROVE  [j \in DOMAIN blocks |-> blocks[j].block] = encrypt_stream
<1> DEFINE n == (Len(data) + bs - 1) \div bs
<1>1. blocks = [j \in 1..n |-> BlockAt(j)]
  BY DEF encrypt_to_stream, BlockAt
<1>2. DOMAIN blocks = 1..n
  BY <1>1
<1>3. \A j \in 1..n : blocks[j].block
          = encrypt(sender.config, sender.session, Chunk((j - 1) * bs))
  BY <1>1 DEF BlockAt, StreamBlock
<1>. QED
  BY <1>2, <1>3 DEF encrypt_stream

(* Cut is what IteratorAgrees needs. *)
LEMMA CutAgrees == TypeInv /\ Cut => IteratorAgrees
<1>1. SUFFICES ASSUME TypeInv, Cut, pc # "encrypting"
               PROVE  /\ blocks = encrypt_to_stream
                      /\ data # <<>> =>
                             [j \in DOMAIN blocks |-> blocks[j].block] = encrypt_stream
  BY DEF IteratorAgrees
<1>2. PICK n \in Nat : CutSoFar(n)
  BY <1>1 DEF Cut
<1>. QED
  BY <1>1, <1>2, WholeList, BareBlocks

-----------------------------------------------------------------------------
LEMMA InitHolds == Init => IInv
<1>. SUFFICES ASSUME Init PROVE IInv
  OBVIOUS
<1>. USE StreamAssumption
<1>1. TypeInv
  BY DEF Init, TypeInv
<1>2. Cut
  <2>1. CutSoFar(0)
    BY DEF Init, CutSoFar
  <2>. QED
    BY <2>1 DEF Cut
<1>3. KeysFit
  <2>1. PICK c \in Configs : keys = [id \in {c.key_id} |-> c] /\ given = {c}
    BY DEF Init
  <2>. QED
    BY <2>1 DEF KeysFit
<1>4. Sealed /\ Read
  BY DEF Init, Sealed, Read, IsSeq
<1>5. CacheFits /\ OpenedIsCached /\ RaisesRightly
  BY DEF Init, CacheFits, OpenedIsCached, RaisesRightly
<1>. QED
  BY <1>1, <1>2, <1>3, <1>4, <1>5 DEF IInv

LEMMA TypeStep == TypeInv /\ [Next]_vars => TypeInv'
<1>. SUFFICES ASSUME TypeInv, [Next]_vars PROVE TypeInv'
  OBVIOUS
<1>. USE DEF TypeInv, input, decryptor
<1>1. CASE Yield
  BY <1>1 DEF Yield
<1>2. CASE ArriveBytes
  BY <1>2 DEF ArriveBytes
<1>3. CASE ArriveBlocks
  BY <1>3 DEF ArriveBlocks
<1>4. CASE ReadBlock
  BY <1>4 DEF ReadBlock
<1>5. CASE StopReading
  BY <1>5 DEF StopReading
<1>6. CASE add_key
  BY <1>6 DEF add_key
<1>7. CASE decrypt_stream
  BY <1>7 DEF decrypt_stream
<1>8. CASE NextStream
  BY <1>8 DEF NextStream
<1>9. CASE UNCHANGED vars
  BY <1>9 DEF vars
<1>. QED
  BY <1>1, <1>2, <1>3, <1>4, <1>5, <1>6, <1>7, <1>8, <1>9 DEF Next

(* stream_iter yields the block that stands next. *)
LEMMA CutGrows ==
    ASSUME TypeInv, NEW n \in Nat, CutSoFar(n), Yield
    PROVE  CutSoFar(n + 1)'
<1> DEFINE i == Len(blocks) * bs
           is_last == i + bs >= Len(data)
<1>1. /\ pc = "encrypting"
      /\ blocks' = Append(blocks, StreamBlock(Len(blocks), Chunk(i), is_last))
      /\ pc' = IF is_last THEN "sent" ELSE pc
      /\ UNCHANGED <<data, bs, sender>>
  BY DEF Yield, input
<1>2. /\ blocks = [j \in 1..n |-> BlockAt(j)]
      /\ n > 0 => n * bs < Len(data)
  BY <1>1 DEF CutSoFar
<1>3. bs \in Nat \ {0} /\ Len(data) \in Nat
  BY DEF TypeInv
<1>4. Len(blocks) = n
  BY <1>2
<1>5. /\ n = (n + 1) - 1
      /\ i = ((n + 1) - 1) * bs
      /\ i + bs = (n + 1) * bs
  BY <1>3, <1>4
<1>6. StreamBlock(Len(blocks), Chunk(i), is_last) = BlockAt(n + 1)
  <2>1. is_last = ((n + 1) * bs >= Len(data))
    BY <1>5
  <2>. QED
    BY <1>4, <1>5, <2>1 DEF BlockAt
<1>7. blocks' = [j \in 1..(n + 1) |-> BlockAt(j)]
  <2>1. blocks' = Append(blocks, BlockAt(n + 1))
    BY <1>1, <1>6
  <2>. QED
    BY <1>2, <1>4, <2>1
<1>8. \A j : BlockAt(j)' = BlockAt(j)
  BY <1>1 DEF BlockAt, StreamBlock, Chunk
<1>9. blocks' = [j \in 1..(n + 1) |-> BlockAt(j)']
  BY <1>7, <1>8
<1>10. is_last <=> (n + 1) * bs >= Len(data)
  BY <1>5
<1>11. n + 1 > 1 => ((n + 1) - 1) * bs < Len(data)
  BY <1>2, <1>5
<1>12. pc' = "encrypting" => (n + 1) * bs < Len(data)
  BY <1>1, <1>3, <1>10
<1>13. pc' # "encrypting" => (n + 1) * bs >= Len(data)
  BY <1>1, <1>3, <1>10
<1>. QED
  BY <1>1, <1>3, <1>9, <1>11, <1>12, <1>13 DEF CutSoFar

(* The blocks stay while they travel. *)
LEMMA CutStays ==
    ASSUME Cut, UNCHANGED <<data, bs, sender, blocks>>,
           pc = "encrypting" <=> pc' = "encrypting"
    PROVE  Cut'
<1>1. PICK n \in Nat : CutSoFar(n)
  BY DEF Cut
<1>2. \A j : BlockAt(j)' = BlockAt(j)
  BY DEF BlockAt, StreamBlock, Chunk
<1>3. CutSoFar(n)'
  BY <1>1, <1>2 DEF CutSoFar
<1>. QED
  BY <1>3 DEF Cut

LEMMA CutStep == TypeInv /\ Cut /\ [Next]_vars => Cut'
<1>. SUFFICES ASSUME TypeInv, Cut, [Next]_vars PROVE Cut'
  OBVIOUS
<1>1. CASE Yield
  <2>1. PICK n \in Nat : CutSoFar(n)
    BY DEF Cut
  <2>2. CutSoFar(n + 1)'
    BY <1>1, <2>1, CutGrows
  <2>. QED
    BY <2>2 DEF Cut
<1>2. CASE ArriveBytes
  BY <1>2, CutStays DEF ArriveBytes, input
<1>3. CASE ArriveBlocks
  BY <1>3, CutStays DEF ArriveBlocks, input
<1>4. CASE ReadBlock
  BY <1>4, CutStays DEF ReadBlock, input
<1>5. CASE StopReading
  BY <1>5, CutStays DEF StopReading, input
<1>6. CASE add_key
  BY <1>6, CutStays DEF add_key, input
<1>7. CASE decrypt_stream
  BY <1>7, CutStays DEF decrypt_stream, input
<1>8. CASE NextStream
  <2>1. blocks' = <<>> /\ pc' = "encrypting"
    BY <1>8 DEF NextStream
  <2>2. CutSoFar(0)'
    BY <2>1 DEF CutSoFar
  <2>. QED
    BY <2>2 DEF Cut
<1>9. CASE UNCHANGED vars
  BY <1>9, CutStays DEF vars, input
<1>. QED
  BY <1>1, <1>2, <1>3, <1>4, <1>5, <1>6, <1>7, <1>8, <1>9 DEF Next

-----------------------------------------------------------------------------
(* Induction and recursion, which the library's theorems cannot be used for. *)
LEMMA LeastIn ==
    ASSUME NEW S \in SUBSET Nat, S # {}
    PROVE  \E x \in S : \A y \in S : x <= y
<1>1. OpToRel(<, Nat) = {ss \in Nat \X Nat : ss[1] < ss[2]}
  BY DEF OpToRel
<1>2. PICK x \in S : \A y \in S : ~(<<y, x>> \in OpToRel(<, Nat))
  BY WFMin, NatLessThanWellFounded
<1>3. ASSUME NEW y \in S PROVE x <= y
  <2>1. ~(<<y, x>> \in {ss \in Nat \X Nat : ss[1] < ss[2]})
    BY <1>1, <1>2
  <2>. QED
    BY <2>1
<1>. QED
  BY <1>3

(* Induction up to n, over a set of numbers in place of a predicate.        *)
LEMMA UpwardsTo ==
    ASSUME NEW n \in Nat, NEW G, 0 \in G, \A k \in 1..n : k - 1 \in G => k \in G
    PROVE  \A k \in 0..n : k \in G
<1> DEFINE Bad == {k \in 0..n : k \notin G}
<1>1. SUFFICES ASSUME Bad # {} PROVE FALSE
  OBVIOUS
<1>2. PICK m \in Bad : \A x \in Bad : m <= x
  <2>1. Bad \in SUBSET Nat
    OBVIOUS
  <2>. HIDE DEF Bad
  <2>. QED
    BY <1>1, <2>1, LeastIn
<1>3. m \in 1..n /\ m - 1 \in 0..n /\ m - 1 < m /\ m \notin G
  BY <1>2
<1>. QED
  BY <1>2, <1>3

(* What is defined by recursion over positions: there is such a function.   *)
Follows(f, first, step, n) ==
    f[0] = first /\ \A k \in 1..n : f[k] = step[<<k, f[k - 1]>>]

LEMMA Recursion ==
    ASSUME NEW n \in Nat, NEW T, NEW first \in T, NEW step \in [(1..n) \X T -> T]
    PROVE  \E f \in [0..n -> T] : Follows(f, first, step, n)
<1> DEFINE G == {m \in 0..n : \E f \in [0..m -> T] : Follows(f, first, step, m)}
<1>1. 0 \in G
  <2>1. [k \in 0..0 |-> first] \in [0..0 -> T] /\ Follows([k \in 0..0 |-> first], first, step, 0)
    BY DEF Follows
  <2>. QED
    BY <2>1
<1>2. ASSUME NEW m \in 1..n, m - 1 \in G PROVE m \in G
  <2>1. PICK f \in [0..(m - 1) -> T] : Follows(f, first, step, m - 1)
    BY <1>2
  <2> DEFINE h == [k \in 0..m |-> IF k = m THEN step[<<m, f[m - 1]>>] ELSE f[k]]
  <2>2. f[m - 1] \in T /\ <<m, f[m - 1]>> \in (1..n) \X T
    BY <2>1
  <2>3. step[<<m, f[m - 1]>>] \in T
    BY <2>2
  <2>4. h \in [0..m -> T]
    BY <2>1, <2>3
  <2>5. Follows(h, first, step, m)
    <3>1. h[0] = first
      BY <2>1 DEF Follows
    <3>2. ASSUME NEW k \in 1..m PROVE h[k] = step[<<k, h[k - 1]>>]
      <4>0. k - 1 \in 0..(m - 1) /\ k - 1 \in 0..m /\ k - 1 # m
        OBVIOUS
      <4>1. h[k - 1] = f[k - 1]
        BY <4>0
      <4>2. CASE k = m
        <5>1. m \in 0..m
          OBVIOUS
        <5>2. h[m] = step[<<m, f[m - 1]>>]
          BY <5>1
        <5>. QED
          BY <4>1, <4>2, <5>2, Zenon
      <4>3. CASE k # m
        <5>1. k \in 1..(m - 1) /\ h[k] = f[k]
          BY <4>3
        <5>2. f[k] = step[<<k, f[k - 1]>>]
          BY <2>1, <5>1 DEF Follows
        <5>. QED
          BY <4>1, <5>1, <5>2
      <4>. QED
        BY <4>2, <4>3
    <3>. HIDE DEF h
    <3>. QED
      BY <3>1, <3>2 DEF Follows
  <2>. HIDE DEF h
  <2>. QED
    BY <2>4, <2>5
<1>3. \A k \in 0..n : k \in G
  <2>. HIDE DEF G
  <2>. QED
    BY <1>1, <1>2, UpwardsTo
<1>. QED
  BY <1>3

(* So it is for where the blocks end, and for what they add up to.          *)
LEMMA WireEndsAdd ==
    ASSUME NEW bb, Len(bb) \in Nat, \A k \in 1..Len(bb) : OnWire(bb[k]) \in Nat
    PROVE  /\ WireEnds(bb) \in [0..Len(bb) -> Nat]
           /\ WireEnds(bb)[0] = 0
           /\ \A k \in 1..Len(bb) :
                  WireEnds(bb)[k] = WireEnds(bb)[k - 1] + OnWire(bb[k])
<1> DEFINE n == Len(bb)
           step == [p \in (1..n) \X Nat |-> p[2] + OnWire(bb[p[1]])]
           Unfolds(e) == e = [k \in 0..n |-> IF k = 0 THEN 0
                                            ELSE e[k - 1] + OnWire(bb[k])]
<1>1. PICK f \in [0..n -> Nat] : Follows(f, 0, step, n)
  <2>1. step \in [(1..n) \X Nat -> Nat]
    OBVIOUS
  <2>. HIDE DEF step
  <2>. QED
    BY <2>1, Recursion
<1>2. f[0] = 0 /\ \A k \in 1..n : f[k] = f[k - 1] + OnWire(bb[k])
  <2>1. ASSUME NEW k \in 1..n PROVE f[k] = f[k - 1] + OnWire(bb[k])
    <3>0. k - 1 \in 0..n
      OBVIOUS
    <3>1. f[k - 1] \in Nat
      BY <3>0
    <3>2. <<k, f[k - 1]>> \in (1..n) \X Nat
      BY <3>1
    <3>3. step[<<k, f[k - 1]>>] = f[k - 1] + OnWire(bb[k])
      BY <3>2
    <3>4. f[k] = step[<<k, f[k - 1]>>]
      BY <1>1 DEF Follows
    <3>. QED
      BY <3>3, <3>4
  <2>. QED
    BY <1>1, <2>1 DEF Follows
<1>3. Unfolds(f)
  BY <1>2
<1>4. WireEnds(bb) = CHOOSE e : Unfolds(e)
  BY DEF WireEnds
<1>5. Unfolds(WireEnds(bb))
  BY <1>3, <1>4
<1> DEFINE w == WireEnds(bb)
           G == {k \in 0..n : w[k] = f[k]}
<1>6. 0 \in G /\ \A k \in 1..n : k - 1 \in G => k \in G
  BY <1>2, <1>5
<1>7. \A k \in 0..n : k \in G
  <2>. HIDE DEF G
  <2>. QED
    BY <1>6, UpwardsTo
<1>8. w = f
  BY <1>5, <1>7
<1>. QED
  BY <1>2, <1>8

LEMMA JoinsAdd ==
    ASSUME NEW bb, Len(bb) \in Nat,
           \A k \in 1..Len(bb) : bb[k].block.plaintext \in Seq(Nat)
    PROVE  /\ Joins(bb) \in [0..Len(bb) -> Seq(Nat)]
           /\ Joins(bb)[0] = <<>>
           /\ \A k \in 1..Len(bb) :
                  Joins(bb)[k] = Joins(bb)[k - 1] \o bb[k].block.plaintext
<1> DEFINE n == Len(bb)
           step == [p \in (1..n) \X Seq(Nat) |-> p[2] \o bb[p[1]].block.plaintext]
           Unfolds(e) == e = [k \in 0..n |-> IF k = 0 THEN <<>>
                                            ELSE e[k - 1] \o bb[k].block.plaintext]
<1>1. PICK f \in [0..n -> Seq(Nat)] : Follows(f, <<>>, step, n)
  <2>1. step \in [(1..n) \X Seq(Nat) -> Seq(Nat)]
    <3>1. ASSUME NEW p \in (1..n) \X Seq(Nat)
          PROVE  p[2] \o bb[p[1]].block.plaintext \in Seq(Nat)
      <4>1. p[1] \in 1..n /\ p[2] \in Seq(Nat)
        OBVIOUS
      <4>. QED
        BY <4>1, ConcatProperties
    <3>. QED
      BY <3>1
  <2>2. <<>> \in Seq(Nat)
    OBVIOUS
  <2>. HIDE DEF step
  <2>. QED
    BY <2>1, <2>2, Recursion
<1>2. f[0] = <<>> /\ \A k \in 1..n : f[k] = f[k - 1] \o bb[k].block.plaintext
  <2>1. ASSUME NEW k \in 1..n PROVE f[k] = f[k - 1] \o bb[k].block.plaintext
    <3>1. k - 1 \in 0..n
      OBVIOUS
    <3>2. f[k - 1] \in Seq(Nat)
      BY <1>1, <3>1
    <3>3. <<k, f[k - 1]>> \in (1..n) \X Seq(Nat)
      BY <3>2
    <3>4. step[<<k, f[k - 1]>>] = f[k - 1] \o bb[k].block.plaintext
      BY <3>3, Zenon
    <3>5. f[k] = step[<<k, f[k - 1]>>]
      BY <1>1 DEF Follows
    <3>. QED
      BY <3>4, <3>5
  <2>. QED
    BY <1>1, <2>1 DEF Follows
<1>3. Unfolds(f)
  <2>1. f = [k \in 0..n |-> f[k]]
    BY <1>1
  <2>2. ASSUME NEW k \in 0..n
        PROVE  f[k] = IF k = 0 THEN <<>> ELSE f[k - 1] \o bb[k].block.plaintext
    <3>1. k # 0 => k \in 1..n
      OBVIOUS
    <3>. QED
      BY <1>2, <3>1, Zenon
  <2>. QED
    BY <2>1, <2>2, Zenon
<1>4. Joins(bb) = CHOOSE e : Unfolds(e)
  BY DEF Joins
<1>5. Unfolds(Joins(bb))
  BY <1>3, <1>4
<1> DEFINE w == Joins(bb)
           G == {k \in 0..n : w[k] = f[k]}
<1>6. 0 \in G
  BY <1>2, <1>5
<1>7. ASSUME NEW k \in 1..n, k - 1 \in G PROVE k \in G
  <2>1. k # 0 /\ k \in 0..n /\ w[k - 1] = f[k - 1]
    BY <1>7
  <2>2. w[k] = w[k - 1] \o bb[k].block.plaintext
    BY <1>5, <2>1, Zenon
  <2>. QED
    BY <1>2, <2>1, <2>2
<1>8. \A k \in 0..n : k \in G
  <2>. HIDE DEF G
  <2>. QED
    BY <1>6, <1>7, UpwardsTo
<1>9. w = f
  BY <1>5, <1>8
<1>. QED
  BY <1>2, <1>9

-----------------------------------------------------------------------------
(* Sorting: every place is taken by exactly one block, and a block in front *)
(* of another has no greater index.                                         *)
LEMMA Sorting ==
    ASSUME NEW n \in Nat, NEW bb, DOMAIN bb = 1..n,
           \A j \in 1..n : bb[j].index \in Nat
    PROVE  \E p \in [1..n -> 1..n] :
               /\ InOrder(bb) = [k \in 1..n |-> bb[p[k]]]
               /\ \A k, l \in 1..n : k < l =>
                      p[k] # p[l] /\ bb[p[k]].index <= bb[p[l]].index
<1> DEFINE UpTo(j) == {i \in 1..n : \/ bb[i].index < bb[j].index
                                    \/ bb[i].index = bb[j].index /\ i <= j}
           place == [j \in 1..n |-> Cardinality(UpTo(j))]
<1>1. \A j \in 1..n : Place(bb, j) = place[j]
  BY DEF Place
<1>2. IsFiniteSet(1..n) /\ Cardinality(1..n) = n
  BY FS_Interval
<1>3. ASSUME NEW j \in 1..n
      PROVE  /\ IsFiniteSet(UpTo(j)) /\ Cardinality(UpTo(j)) \in Nat
             /\ Cardinality(UpTo(j)) \in 1..n
  <2>1. UpTo(j) \in SUBSET (1..n) /\ j \in UpTo(j)
    OBVIOUS
  <2>. HIDE DEF UpTo
  <2>2. IsFiniteSet(UpTo(j)) /\ Cardinality(UpTo(j)) <= n
    BY <1>2, <2>1, FS_Subset
  <2>3. Cardinality(UpTo(j)) \in Nat /\ Cardinality(UpTo(j)) # 0
    BY <2>1, <2>2, FS_CardinalityType, FS_EmptySet
  <2>. QED
    BY <2>2, <2>3
<1>4. place \in [1..n -> 1..n]
  <2>. HIDE DEF UpTo
  <2>. QED
    BY <1>3
<1>5. ASSUME NEW i \in 1..n, NEW j \in 1..n, place[j] <= place[i], i # j
      PROVE  bb[j].index <= bb[i].index /\ place[i] # place[j]
  <2>1. ASSUME \/ bb[i].index < bb[j].index
               \/ bb[i].index = bb[j].index /\ i <= j
        PROVE  FALSE
    <3>1. UpTo(i) \cup {j} \in SUBSET UpTo(j) /\ j \notin UpTo(i)
      BY <1>5, <2>1
    <3>. HIDE DEF UpTo
    <3>2. Cardinality(UpTo(i) \cup {j}) = Cardinality(UpTo(i)) + 1
      BY <1>3, <3>1, FS_AddElement
    <3>3. Cardinality(UpTo(i) \cup {j}) <= Cardinality(UpTo(j))
      BY <1>3, <3>1, FS_Subset
    <3>. QED
      BY <1>3, <1>5, <3>2, <3>3
  <2>2. ASSUME place[i] = place[j] PROVE FALSE
    <3>1. \/ bb[j].index < bb[i].index
          \/ bb[j].index = bb[i].index /\ j <= i
      <4>1. bb[i].index \in Nat /\ bb[j].index \in Nat
        OBVIOUS
      <4>. QED
        BY <2>1, <4>1
    <3>2. UpTo(j) \cup {i} \in SUBSET UpTo(i) /\ i \notin UpTo(j)
      BY <1>5, <3>1
    <3>. HIDE DEF UpTo
    <3>3. Cardinality(UpTo(j) \cup {i}) = Cardinality(UpTo(j)) + 1
      BY <1>3, <3>2, FS_AddElement
    <3>4. Cardinality(UpTo(j) \cup {i}) <= Cardinality(UpTo(i))
      BY <1>3, <3>2, FS_Subset
    <3>. QED
      BY <1>3, <2>2, <3>3, <3>4
  <2>3. bb[i].index \in Nat /\ bb[j].index \in Nat
    OBVIOUS
  <2>4. ~(bb[i].index < bb[j].index)
    BY <2>1
  <2>5. bb[j].index <= bb[i].index
    BY <2>3, <2>4
  <2>. QED
    BY <2>2, <2>5
<1>. HIDE DEF place
<1>6. place \in Surjection(1..n, 1..n)
  <2>1. \A i, j \in 1..n : place[i] = place[j] => i = j
    <3>1. \A i \in 1..n : place[i] \in Nat
      BY <1>4
    <3>. QED
      BY <1>5, <3>1
  <2>2. place \in Injection(1..n, 1..n)
    BY <1>4, <2>1 DEF Injection, IsInjective
  <2>. QED
    BY <1>2, <2>2, FS_Injection
<1> DEFINE p == [k \in 1..n |-> CHOOSE j \in DOMAIN bb : Place(bb, j) = k]
<1>7. p \in [1..n -> 1..n] /\ \A k \in 1..n : place[p[k]] = k
  <2>1. ASSUME NEW k \in 1..n PROVE p[k] \in 1..n /\ Place(bb, p[k]) = k
    <3>1. \E j \in 1..n : Place(bb, j) = k
      BY <1>1, <1>6 DEF Surjection
    <3>. QED
      BY <3>1
  <2>. QED
    BY <1>1, <2>1
<1>8. InOrder(bb) = [k \in 1..n |-> bb[p[k]]]
  BY DEF InOrder
<1>. HIDE DEF p
<1>9. ASSUME NEW k \in 1..n, NEW l \in 1..n, k < l
      PROVE  p[k] # p[l] /\ bb[p[k]].index <= bb[p[l]].index
  <2>1. place[p[k]] = k /\ place[p[l]] = l /\ p[k] \in 1..n /\ p[l] \in 1..n
    BY <1>7
  <2>2. p[k] # p[l] /\ place[p[k]] <= place[p[l]]
    BY <1>9, <2>1
  <2>. QED
    BY <1>5, <2>1, <2>2
<1>. QED
  BY <1>7, <1>8, <1>9

(* As many different indices in a row as there are fit in only one way.     *)
LEMMA Squeezed ==
    ASSUME NEW n \in Nat, NEW h \in [1..n -> Nat],
           \A k \in 1..n : h[k] < n,
           \A k, l \in 1..n : k < l => h[k] < h[l]
    PROVE  \A k \in 1..n : h[k] = k - 1
<1>1. ASSUME NEW k \in 1..n, NEW m \in 1..n, k <= m
      PROVE  h[m] - h[k] >= m - k
  <2> DEFINE G == {d \in Nat : k + d <= n => h[k + d] - h[k] >= d}
  <2>1. 0 \in G
    OBVIOUS
  <2>2. ASSUME NEW d \in 1..n, d - 1 \in G PROVE d \in G
    <3>1. SUFFICES ASSUME k + d <= n PROVE h[k + d] - h[k] >= d
      OBVIOUS
    <3>2. /\ k + d \in 1..n /\ k + (d - 1) \in 1..n
          /\ k + (d - 1) < k + d
      BY <3>1
    <3>3. h[k + (d - 1)] - h[k] >= d - 1
      BY <2>2, <3>2
    <3>4. h[k + (d - 1)] < h[k + d]
      BY <3>2
    <3>. QED
      BY <3>2, <3>3, <3>4
  <2>3. m - k \in 0..n
    BY <1>1
  <2>4. m - k \in G
    <3>. HIDE DEF G
    <3>. QED
      BY <2>1, <2>2, <2>3, UpwardsTo
  <2>. QED
    BY <2>4
<1>2. ASSUME NEW k \in 1..n PROVE h[k] = k - 1
  <2>1. h[k] - h[1] >= k - 1 /\ h[n] - h[k] >= n - k
    BY <1>1
  <2>2. h[1] \in Nat /\ h[k] \in Nat /\ h[n] \in Nat /\ h[n] < n
    OBVIOUS
  <2>. QED
    BY <2>1, <2>2
<1>. QED
  BY <1>2

-----------------------------------------------------------------------------
(* The blocks are a sequence, of a positive length on the wire, and sealed  *)
(* by the sender.                                                           *)
LEMMA BlocksMade ==
    ASSUME TypeInv, Cut
    PROVE  /\ IsSeq(blocks) /\ Len(blocks) \in Nat /\ DOMAIN blocks = 1..Len(blocks)
           /\ \A j \in 1..Len(blocks) :
                  /\ OnWire(blocks[j]) \in Nat \ {0}
                  /\ SealedBySender(blocks[j])
                  /\ [blocks[j] EXCEPT !.index = j - 1] = blocks[j]
<1>1. PICK n \in Nat : blocks = [k \in 1..n |-> BlockAt(k)]
  BY DEF Cut, CutSoFar
<1>2. /\ IsSeq(blocks) /\ Len(blocks) = n /\ DOMAIN blocks = 1..n
  BY <1>1 DEF IsSeq
<1>3. ASSUME NEW j \in 1..n
      PROVE  /\ OnWire(blocks[j]) \in Nat \ {0}
             /\ SealedBySender(blocks[j])
             /\ [blocks[j] EXCEPT !.index = j - 1] = blocks[j]
  <2>1. blocks[j] = BlockAt(j)
    BY <1>1
  <2>2. /\ (j - 1) * bs \in Nat /\ bs \in Nat \ {0}
        /\ data \in Seq(Nat) /\ Len(data) \in Nat
    BY DEF TypeInv
  <2>3. Chunk((j - 1) * bs) \in Seq(Nat)
    <3> DEFINE i == (j - 1) * bs
               m == IF i + bs < Len(data) THEN i + bs ELSE Len(data)
    <3>1. i \in Nat /\ m \in Nat /\ m <= Len(data)
      BY <2>2
    <3>2. SubSeq(data, i + 1, m) \in Seq(Nat)
      <4>. HIDE DEF i, m
      <4>. QED
        BY <2>2, <3>1
    <3>. QED
      BY <3>2 DEF Chunk
  <2>4. Len(Chunk((j - 1) * bs)) \in Nat
    BY <2>3
  <2>5. OnWire(blocks[j]) = 4 + (BlockHeader + Len(Chunk((j - 1) * bs))) + 1
    BY <2>1 DEF OnWire, BlockBytes, BlockAt, StreamBlock, encrypt
  <2>6. OnWire(blocks[j]) \in Nat \ {0}
    BY <2>4, <2>5, StreamAssumption
  <2>7. SealedBySender(blocks[j])
    BY <2>1 DEF BlockAt, StreamBlock, encrypt, SealedBySender
  <2>8. [blocks[j] EXCEPT !.index = j - 1] = blocks[j]
    BY <2>1 DEF BlockAt, StreamBlock
  <2>. QED
    BY <2>6, <2>7, <2>8
<1>. QED
  BY <1>2, <1>3

LEMMA EndsOfBlocks ==
    ASSUME TypeInv, Cut
    PROVE  /\ WireEnds(blocks) \in [0..Len(blocks) -> Nat]
           /\ WireEnds(blocks)[0] = 0
           /\ \A k \in 1..Len(blocks) :
                  WireEnds(blocks)[k] = WireEnds(blocks)[k - 1] + OnWire(blocks[k])
<1>1. Len(blocks) \in Nat /\ \A k \in 1..Len(blocks) : OnWire(blocks[k]) \in Nat
  BY BlocksMade
<1>. QED
  BY <1>1, WireEndsAdd

LEMMA SealedStays ==
    ASSUME Sealed, UNCHANGED <<sender, arrived>>
    PROVE  Sealed'
BY DEF Sealed, SealedBySender, IsSeq

(* deserialize_stream finds a block only where there is one. *)
LEMMA ReadingOn ==
    ASSUME TypeInv, Cut, NEW m \in Nat, ReadSoFar(m), ReadBlock, bytes \in Nat
    PROVE  /\ m + 1 <= Len(blocks)
           /\ arrived' = [j \in 1..(m + 1) |-> blocks[j]]
           /\ offset' = WireEnds(blocks)[m + 1]
<1>1. /\ pc = "reading" /\ offset < bytes
      /\ m <= Len(blocks) /\ arrived = [j \in 1..m |-> blocks[j]]
      /\ offset = WireEnds(blocks)[m] /\ bytes <= WireEnds(blocks)[Len(blocks)]
      /\ arrived' = Append(arrived, [Following EXCEPT !.index = Len(arrived)])
      /\ offset' = offset + OnWire(Following)
  BY DEF ReadSoFar, ReadBlock
<1>2. Len(blocks) \in Nat /\ m \in 0..Len(blocks)
  BY <1>1, BlocksMade
<1>3. m # Len(blocks)
  BY <1>1, <1>2, EndsOfBlocks
<1>4. m + 1 \in 1..Len(blocks) /\ (m + 1) - 1 = m
  BY <1>2, <1>3
<1>5. Len(arrived) = m /\ Following = blocks[m + 1]
  BY <1>1 DEF Following
<1>6. [blocks[m + 1] EXCEPT !.index = m] = blocks[m + 1]
  <2>1. [blocks[m + 1] EXCEPT !.index = (m + 1) - 1] = blocks[m + 1]
    BY <1>4, BlocksMade
  <2>. QED
    BY <1>4, <2>1
<1>7. arrived' = Append(arrived, blocks[m + 1])
  BY <1>1, <1>5, <1>6
<1>8. arrived' = [j \in 1..(m + 1) |-> blocks[j]]
  BY <1>1, <1>5, <1>7
<1>9. offset' = WireEnds(blocks)[m + 1]
  BY <1>1, <1>4, <1>5, EndsOfBlocks
<1>. QED
  BY <1>2, <1>4, <1>8, <1>9

(* What arrived stays. *)
LEMMA ReadStays ==
    ASSUME Read, UNCHANGED <<blocks, arrived, bytes, offset>>,
           pc' \in {"encrypting", "sent"} => pc \in {"encrypting", "sent"},
           pc' = "reading" => pc = "reading"
    PROVE  Read'
<1>1. WireEnds(blocks)' = WireEnds(blocks)
  BY DEF WireEnds, OnWire, BlockBytes
<1>2. ASSUME NEW m \in Nat, ReadSoFar(m) PROVE ReadSoFar(m)'
  BY <1>1, <1>2 DEF ReadSoFar
<1>. QED
  BY <1>2 DEF Read

-----------------------------------------------------------------------------
(* What the blocks add up to.                                               *)

(* How many bytes the first k blocks have.                                  *)
Span(k) == IF k * bs < Len(data) THEN k * bs ELSE Len(data)

LEMMA ChunkIs ==
    ASSUME TypeInv, NEW i \in Nat, i <= Len(data)
    PROVE  /\ Chunk(i) \in Seq(Nat)
           /\ Len(Chunk(i)) = (IF i + bs < Len(data) THEN bs ELSE Len(data) - i)
           /\ \A k \in 1..Len(Chunk(i)) : Chunk(i)[k] = i + k
<1> DEFINE m == IF i + bs < Len(data) THEN i + bs ELSE Len(data)
<1>1. /\ data \in Seq(Nat) /\ Len(data) \in Nat /\ bs \in Nat \ {0}
      /\ \A k \in 1..Len(data) : data[k] = k
  BY DEF TypeInv
<1>2. m \in Nat /\ i <= m /\ m <= Len(data)
  BY <1>1
<1>3. Chunk(i) = SubSeq(data, i + 1, m)
  BY DEF Chunk
<1>4. m - i = (IF i + bs < Len(data) THEN bs ELSE Len(data) - i)
  BY <1>1
<1>. HIDE DEF m
<1>5. SubSeq(data, i + 1, m) \in Seq(Nat)
  BY <1>1, <1>2
<1>6. /\ Len(SubSeq(data, i + 1, m)) = m - i
      /\ \A k \in 1..(m - i) : SubSeq(data, i + 1, m)[k] = data[i + k]
  BY <1>1, <1>2
<1>7. \A k \in 1..(m - i) : i + k \in 1..Len(data)
  BY <1>1, <1>2
<1>. QED
  BY <1>1, <1>3, <1>4, <1>5, <1>6, <1>7

(* The blocks carry the chunks, and their numbers from 0.                   *)
LEMMA BlocksCut ==
    ASSUME TypeInv, Cut, NEW j \in 1..Len(blocks)
    PROVE  /\ blocks[j].index = j - 1
           /\ (j - 1) * bs \in Nat /\ (j - 1) * bs <= Len(data)
           /\ blocks[j].block.plaintext = Chunk((j - 1) * bs)
<1>1. PICK n \in Nat : CutSoFar(n)
  BY DEF Cut
<1>2. /\ blocks = [k \in 1..n |-> BlockAt(k)] /\ Len(blocks) = n
      /\ n > 1 => (n - 1) * bs < Len(data)
  BY <1>1 DEF CutSoFar
<1>3. bs \in Nat \ {0} /\ Len(data) \in Nat /\ j \in 1..n
  BY <1>2 DEF TypeInv
<1>4. (j - 1) * bs \in Nat /\ (j - 1) * bs <= (n - 1) * bs
  BY <1>3
<1>5. n = 1 => (j - 1) * bs = 0
  BY <1>3
<1>6. (j - 1) * bs <= Len(data)
  BY <1>2, <1>3, <1>4, <1>5
<1>. QED
  BY <1>2, <1>3, <1>4, <1>6 DEF BlockAt, StreamBlock, encrypt

LEMMA SpanStep ==
    ASSUME TypeInv, NEW k \in Nat \ {0}, (k - 1) * bs <= Len(data)
    PROVE  /\ Span(k - 1) = (k - 1) * bs /\ Span(k) \in Nat
           /\ Span(k) - Span(k - 1)
                  = (IF (k - 1) * bs + bs < Len(data) THEN bs
                                                     ELSE Len(data) - (k - 1) * bs)
<1>1. bs \in Nat \ {0} /\ Len(data) \in Nat
  BY DEF TypeInv
<1>2. k * bs = (k - 1) * bs + bs /\ k * bs \in Nat /\ (k - 1) * bs \in Nat
  BY <1>1
<1>3. Span(k - 1) = (k - 1) * bs
  BY <1>1, <1>2 DEF Span
<1> DEFINE x == (k - 1) * bs
<1>4. /\ x \in Nat /\ x <= Len(data)
      /\ Span(k) = IF x + bs < Len(data) THEN x + bs ELSE Len(data)
  BY <1>2 DEF Span
<1>. HIDE DEF x
<1>5. /\ Span(k) \in Nat
      /\ Span(k) - x = IF x + bs < Len(data) THEN bs ELSE Len(data) - x
  BY <1>1, <1>4
<1>. QED
  BY <1>3, <1>5 DEF x

LEMMA Counting ==
    ASSUME NEW p \in Nat, NEW q \in Nat, NEW c \in Seq(Nat), Len(c) = q - p,
           \A i \in 1..Len(c) : c[i] = p + i
    PROVE  [i \in 1..p |-> i] \o c = [i \in 1..q |-> i]
<1> DEFINE a == [i \in 1..p |-> i]
           d == a \o c
<1>1. a \in Seq(Nat) /\ Len(a) = p /\ \A i \in 1..p : a[i] = i
  OBVIOUS
<1>2. Len(c) \in Nat
  OBVIOUS
<1>. HIDE DEF a
<1>3. /\ d \in Seq(Nat) /\ Len(d) = q
      /\ \A i \in 1..q : d[i] = IF i <= p THEN a[i] ELSE c[i - p]
  <2>1. /\ d \in Seq(Nat) /\ Len(d) = Len(a) + Len(c)
        /\ \A i \in 1..(Len(a) + Len(c)) : d[i] = IF i <= Len(a) THEN a[i] ELSE c[i - Len(a)]
    BY <1>1, ConcatProperties
  <2>2. Len(a) + Len(c) = q /\ Len(a) = p
    BY <1>1, <1>2
  <2>. HIDE DEF d
  <2>. QED
    BY <2>1, <2>2
<1>. HIDE DEF d
<1>4. ASSUME NEW i \in 1..q PROVE d[i] = i
  <2>1. CASE i <= p
    BY <1>1, <1>3, <2>1
  <2>2. CASE ~(i <= p)
    <3>1. i - p \in 1..Len(c)
      BY <2>2
    <3>2. c[i - p] = p + (i - p)
      BY <3>1
    <3>. QED
      BY <1>3, <2>2, <3>2
  <2>. QED
    BY <2>1, <2>2
<1>5. d = [i \in 1..q |-> i]
  BY <1>3, <1>4
<1>. QED
  BY <1>5 DEF a, d

Rises(d) == \A i, j \in 1..Len(d) : i < j => d[i] < d[j]

LEMMA RisesOn ==
    ASSUME NEW a \in Seq(Nat), NEW c \in Seq(Nat), NEW x \in Nat, NEW b \in Nat,
           Rises(a), \A i \in 1..Len(a) : a[i] <= x,
           Len(c) <= b, \A i \in 1..Len(c) : c[i] = x + i
    PROVE  /\ Rises(a \o c)
           /\ \A i \in 1..Len(a \o c) : (a \o c)[i] <= x + b
<1> DEFINE d == a \o c
           p == Len(a)
<1>1. p \in Nat /\ Len(c) \in Nat /\ \A i \in 1..p : a[i] \in Nat
  OBVIOUS
<1>2. /\ d \in Seq(Nat) /\ Len(d) = p + Len(c)
      /\ \A i \in 1..Len(d) : d[i] = IF i <= p THEN a[i] ELSE c[i - p]
  BY ConcatProperties
<1>. HIDE DEF d
<1>3. ASSUME NEW i \in 1..Len(d)
      PROVE  /\ i <= p => d[i] = a[i] /\ d[i] <= x /\ i \in 1..p
             /\ i > p => d[i] = x + (i - p) /\ i - p <= b /\ i - p \in Nat \ {0}
  <2>1. CASE i <= p
    <3>1. i \in 1..p
      BY <1>1, <2>1
    <3>2. d[i] = a[i]
      BY <1>2, <2>1
    <3>. QED
      BY <1>1, <2>1, <3>1, <3>2
  <2>2. CASE i > p
    <3>1. i - p \in 1..Len(c)
      BY <1>1, <1>2, <2>2
    <3>2. d[i] = c[i - p]
      BY <1>1, <1>2, <2>2
    <3>. QED
      BY <1>1, <2>2, <3>1, <3>2
  <2>. QED
    BY <1>1, <1>2, <2>1, <2>2
<1>4. \A i \in 1..Len(d) : d[i] <= x + b
  <2>1. ASSUME NEW i \in 1..Len(d) PROVE d[i] <= x + b
    <3>1. i \in Nat /\ d[i] \in Nat
      BY <1>2
    <3>. QED
      BY <1>1, <1>3, <3>1
  <2>. QED
    BY <2>1
<1>5. ASSUME NEW i \in 1..Len(d), NEW j \in 1..Len(d), i < j PROVE d[i] < d[j]
  <2>1. CASE j <= p
    <3>1. i \in 1..p /\ j \in 1..p /\ d[i] = a[i] /\ d[j] = a[j]
      BY <1>1, <1>2, <1>3, <1>5, <2>1
    <3>. QED
      BY <1>5, <3>1 DEF Rises
  <2>2. CASE j > p
    <3>1. d[j] = x + (j - p) /\ j - p \in Nat \ {0}
      BY <1>3, <2>2
    <3>2. i <= p \/ i > p
      BY <1>1, <1>2
    <3>3. i <= p => d[i] <= x
      BY <1>3
    <3>4. i > p => d[i] = x + (i - p)
      BY <1>3
    <3>5. d[i] \in Nat /\ d[j] \in Nat /\ i \in Nat /\ j \in Nat
      BY <1>2
    <3>. QED
      BY <1>1, <1>5, <3>1, <3>2, <3>3, <3>4, <3>5
  <2>. QED
    BY <1>1, <1>2, <2>1, <2>2
<1>6. Rises(d)
  BY <1>5 DEF Rises
<1>. QED
  BY <1>4, <1>6 DEF d

(* The first blocks carry the first bytes.                                  *)
LEMMA FirstBlocks ==
    ASSUME TypeInv, Cut, NEW s, NEW m \in 0..Len(blocks), Len(s) = m,
           \A k \in 1..m : s[k] = blocks[k]
    PROVE  Join(s) = [i \in 1..Span(m) |-> i]
<1>1. /\ Len(blocks) \in Nat /\ m \in Nat
      /\ bs \in Nat \ {0} /\ Len(data) \in Nat
  BY BlocksMade DEF TypeInv
<1>2. ASSUME NEW k \in 1..m
      PROVE  /\ (k - 1) * bs \in Nat /\ (k - 1) * bs <= Len(data)
             /\ s[k].block.plaintext = Chunk((k - 1) * bs)
             /\ Chunk((k - 1) * bs) \in Seq(Nat)
  <2>1. k \in 1..Len(blocks)
    BY <1>1
  <2>. QED
    BY <2>1, BlocksCut, ChunkIs
<1>3. /\ Joins(s) \in [0..m -> Seq(Nat)]
      /\ Joins(s)[0] = <<>>
      /\ \A k \in 1..m : Joins(s)[k] = Joins(s)[k - 1] \o s[k].block.plaintext
  <2>1. Len(s) \in Nat /\ \A k \in 1..Len(s) : s[k].block.plaintext \in Seq(Nat)
    BY <1>1, <1>2
  <2>. QED
    BY <2>1, JoinsAdd
<1> DEFINE G == {k \in 0..m : Joins(s)[k] = [i \in 1..Span(k) |-> i]}
<1>4. 0 \in G
  <2>1. Span(0) = 0
    BY <1>1 DEF Span
  <2>. QED
    BY <1>1, <1>3, <2>1
<1>5. ASSUME NEW k \in 1..m, k - 1 \in G PROVE k \in G
  <2> DEFINE x == (k - 1) * bs
             c == Chunk(x)
  <2>1. Joins(s)[k - 1] = [i \in 1..Span(k - 1) |-> i]
    BY <1>5
  <2>2. /\ x \in Nat /\ x <= Len(data)
        /\ Joins(s)[k] = Joins(s)[k - 1] \o c
    BY <1>2, <1>3
  <2>3. /\ Span(k - 1) = x /\ Span(k) \in Nat
        /\ Span(k) - x = (IF x + bs < Len(data) THEN bs ELSE Len(data) - x)
    <3>1. k \in Nat \ {0}
      OBVIOUS
    <3>2. /\ Span(k - 1) = (k - 1) * bs /\ Span(k) \in Nat
          /\ Span(k) - Span(k - 1)
                 = (IF (k - 1) * bs + bs < Len(data) THEN bs
                                                     ELSE Len(data) - (k - 1) * bs)
      BY <2>2, <3>1, SpanStep
    <3>. QED
      BY <3>2
  <2>. HIDE DEF x
  <2>4. /\ c \in Seq(Nat)
        /\ Len(c) = (IF x + bs < Len(data) THEN bs ELSE Len(data) - x)
        /\ \A i \in 1..Len(c) : c[i] = x + i
    BY <2>2, ChunkIs
  <2>. HIDE DEF c
  <2>5. Len(c) = Span(k) - x
    BY <2>3, <2>4
  <2>6. [i \in 1..x |-> i] \o c = [i \in 1..Span(k) |-> i]
    <3>1. x \in Nat /\ Span(k) \in Nat
      BY <2>2, <2>3
    <3>. QED
      BY <3>1, <2>4, <2>5, Counting, Zenon
  <2>7. Joins(s)[k] = [i \in 1..Span(k) |-> i]
    BY <2>1, <2>2, <2>3, <2>6, Zenon
  <2>. QED
    BY <2>7
<1>6. m \in G
  <2>1. m \in 0..m
    BY <1>1
  <2>. HIDE DEF G
  <2>2. \A k \in 0..m : k \in G
    BY <1>1, <1>4, <1>5, UpwardsTo
  <2>. QED
    BY <2>1, <2>2
<1>. QED
  BY <1>6 DEF Join

(* Blocks that come in the order of their numbers carry their bytes in      *)
(* order, whichever are missing.                                            *)
LEMMA Ascending ==
    ASSUME TypeInv, Cut, NEW s, NEW m \in Nat, Len(s) = m,
           \A k \in 1..m : \E j \in 1..Len(blocks) : s[k] = blocks[j],
           \A k, l \in 1..m : k < l => s[k].index < s[l].index
    PROVE  \A i, j \in DOMAIN Join(s) : i < j => Join(s)[i] < Join(s)[j]
<1>1. bs \in Nat \ {0} /\ Len(data) \in Nat /\ Len(blocks) \in Nat
  BY BlocksMade DEF TypeInv
<1>2. ASSUME NEW k \in 1..m
      PROVE  /\ s[k].index \in Nat /\ s[k].index * bs \in Nat
             /\ s[k].block.plaintext \in Seq(Nat)
             /\ Len(s[k].block.plaintext) <= bs
             /\ \A i \in 1..Len(s[k].block.plaintext) :
                    s[k].block.plaintext[i] = s[k].index * bs + i
  <2>1. PICK j \in 1..Len(blocks) : s[k] = blocks[j]
    OBVIOUS
  <2>2. /\ s[k].index = j - 1 /\ j - 1 \in Nat
        /\ (j - 1) * bs \in Nat /\ (j - 1) * bs <= Len(data)
        /\ s[k].block.plaintext = Chunk((j - 1) * bs)
    <3>1. j - 1 \in Nat
      BY <1>1
    <3>2. /\ blocks[j].index = j - 1
          /\ (j - 1) * bs \in Nat /\ (j - 1) * bs <= Len(data)
          /\ blocks[j].block.plaintext = Chunk((j - 1) * bs)
      BY BlocksCut, Zenon
    <3>. QED
      BY <2>1, <3>1, <3>2, Zenon
  <2> DEFINE x == (j - 1) * bs
  <2>3. x \in Nat /\ x <= Len(data)
    BY <2>2
  <2>4. s[k].index * bs = x /\ s[k].block.plaintext = Chunk(x)
    BY <2>2
  <2>. HIDE DEF x
  <2>5. /\ Chunk(x) \in Seq(Nat)
        /\ Len(Chunk(x)) = (IF x + bs < Len(data) THEN bs ELSE Len(data) - x)
        /\ \A i \in 1..Len(Chunk(x)) : Chunk(x)[i] = x + i
    BY <2>3, ChunkIs
  <2>6. Len(Chunk(x)) <= bs
    BY <1>1, <2>3, <2>5
  <2>. QED
    BY <2>2, <2>3, <2>4, <2>5, <2>6
<1>3. /\ Joins(s) \in [0..m -> Seq(Nat)]
      /\ Joins(s)[0] = <<>>
      /\ \A k \in 1..m : Joins(s)[k] = Joins(s)[k - 1] \o s[k].block.plaintext
  <2>1. Len(s) \in Nat /\ \A k \in 1..Len(s) : s[k].block.plaintext \in Seq(Nat)
    BY <1>2
  <2>. QED
    BY <2>1, JoinsAdd
<1> DEFINE Ends(k) == k > 0 => \A i \in 1..Len(Joins(s)[k]) :
                       Joins(s)[k][i] <= s[k].index * bs + bs
           G == {k \in 0..m : Rises(Joins(s)[k]) /\ Ends(k)}
<1>4. 0 \in G
  BY <1>3 DEF Rises
<1>5. ASSUME NEW k \in 1..m, k - 1 \in G PROVE k \in G
  <2> DEFINE a == Joins(s)[k - 1]
             c == s[k].block.plaintext
             x == s[k].index * bs
  <2>1. /\ a \in Seq(Nat) /\ Len(a) \in Nat /\ Rises(a)
        /\ Joins(s)[k] = a \o c
    <3>1. k - 1 \in 0..m
      OBVIOUS
    <3>2. a \in Seq(Nat)
      BY <1>3, <3>1
    <3>3. Rises(a)
      BY <1>5
    <3>4. Joins(s)[k] = a \o c
      BY <1>3
    <3>. HIDE DEF a, c
    <3>. QED
      BY <3>2, <3>3, <3>4
  <2>2. /\ c \in Seq(Nat) /\ Len(c) \in Nat /\ Len(c) <= bs /\ x \in Nat
        /\ \A i \in 1..Len(c) : c[i] = x + i
    BY <1>2
  <2>3. \A i \in 1..Len(a) : a[i] <= x
    <3>1. CASE k = 1
      BY <1>3, <3>1
    <3>2. CASE k # 1
      <4>1. k - 1 \in 1..m /\ k - 1 > 0 /\ k - 1 < k
        BY <3>2
      <4>2. \A i \in 1..Len(a) : a[i] <= s[k - 1].index * bs + bs
        BY <1>5, <4>1
      <4>3. /\ s[k - 1].index < s[k].index
            /\ s[k - 1].index \in Nat /\ s[k].index \in Nat
        BY <1>2, <4>1
      <4>4. s[k - 1].index * bs + bs <= x
        <5>1. \A u, v \in Nat : u < v => u * bs + bs <= v * bs
          <6>1. SUFFICES ASSUME NEW u \in Nat, NEW v \in Nat, u < v
                         PROVE  u * bs + bs <= v * bs
            OBVIOUS
          <6>2. v - u - 1 \in Nat /\ v * bs = u * bs + bs + (v - u - 1) * bs
            BY <1>1, <6>1
          <6>3. (v - u - 1) * bs \in Nat
            BY <1>1, <6>2
          <6>. QED
            BY <1>1, <6>2, <6>3
        <5>. QED
          BY <4>3, <5>1
      <4>5. \A i \in 1..Len(a) : a[i] \in Nat
        BY <2>1
      <4>6. s[k - 1].index * bs + bs \in Nat
        BY <1>1, <4>3
      <4>. HIDE DEF a, x
      <4>. QED
        BY <2>2, <4>2, <4>4, <4>5, <4>6
    <3>. QED
      BY <3>1, <3>2
  <2>. HIDE DEF a, c, x
  <2>4. /\ Rises(a \o c)
        /\ \A i \in 1..Len(a \o c) : (a \o c)[i] <= x + bs
    BY <1>1, <2>1, <2>2, <2>3, RisesOn
  <2>5. Rises(Joins(s)[k]) /\ Ends(k)
    BY <2>1, <2>4 DEF x
  <2>6. k \in 0..m
    OBVIOUS
  <2>. HIDE DEF Ends
  <2>. QED
    BY <2>5, <2>6
<1>6. m \in G
  <2>1. m \in 0..m
    OBVIOUS
  <2>. HIDE DEF G
  <2>2. \A k \in 0..m : k \in G
    BY <1>4, <1>5, UpwardsTo
  <2>. QED
    BY <2>1, <2>2
<1>7. Joins(s)[m] \in Seq(Nat) /\ Rises(Joins(s)[m])
  <2>1. m \in 0..m
    OBVIOUS
  <2>. HIDE DEF Ends
  <2>. QED
    BY <1>3, <1>6, <2>1
<1>8. Join(s) \in Seq(Nat) /\ Rises(Join(s))
  BY <1>7 DEF Join
<1>. QED
  BY <1>8 DEF Rises

-----------------------------------------------------------------------------
(* The session key that is cached or derived is one of a config that was    *)
(* given under that id, and of that session.                                *)
LEMMA SessionKey ==
    ASSUME KeysFit, CacheFits, NEW id \in DOMAIN keys, NEW s \in Sessions
    PROVE  \E c \in given :
               /\ c.key_id = id
               /\ get_session_key(keys, session_keys, id, s)
                      = derive_session_key(c.master, s)
<1>1. CASE <<id, s>> \in DOMAIN session_keys
  <2>1. PICK c \in given, t \in Sessions :
            /\ <<id, s>> = <<c.key_id, t>>
            /\ session_keys[<<id, s>>] = derive_session_key(c.master, t)
    BY <1>1 DEF CacheFits
  <2>. QED
    BY <1>1, <2>1 DEF get_session_key
<1>2. CASE <<id, s>> \notin DOMAIN session_keys
  BY <1>2 DEF KeysFit, get_session_key
<1>. QED
  BY <1>1, <1>2

(* The Decryptor's part of the invariant stays. *)
LEMMA DecryptorStays ==
    ASSUME KeysFit, CacheFits, OpenedIsCached, UNCHANGED decryptor
    PROVE  KeysFit' /\ CacheFits' /\ OpenedIsCached'
BY DEF KeysFit, CacheFits, OpenedIsCached, decryptor

LEMMA AddKey ==
    ASSUME IInv, add_key
    PROVE  IInv'
<1>1. PICK c \in Configs : /\ keys' = Put(keys, c.key_id, c)
                           /\ given' = given \cup {c}
  BY DEF add_key
<1>2. /\ pc = "received" /\ pc' = "received"
      /\ UNCHANGED <<blocks, sender, session, bytes, offset, arrived>>
      /\ UNCHANGED <<session_keys, opened>>
      /\ [Next]_vars
  BY DEF add_key, Next, input
<1>3. TypeInv' /\ Cut'
  BY <1>2, TypeStep, CutStep DEF IInv
<1>4. Sealed' /\ Read'
  BY <1>2, SealedStays, ReadStays DEF IInv
<1>5. /\ DOMAIN keys' = DOMAIN keys \cup {c.key_id}
      /\ keys'[c.key_id] = c
      /\ \A x \in DOMAIN keys : x # c.key_id => keys'[x] = keys[x]
  BY <1>1 DEF Put
<1>6. KeysFit'
  BY <1>1, <1>5 DEF IInv, KeysFit
<1>7. CacheFits'
  BY <1>1, <1>2 DEF IInv, CacheFits
<1>8. OpenedIsCached'
  BY <1>2, <1>5 DEF IInv, OpenedIsCached
<1>9. RaisesRightly'
  BY <1>2 DEF RaisesRightly
<1>. QED
  BY <1>3, <1>4, <1>6, <1>7, <1>8, <1>9 DEF IInv

(* Nothing is decrypted yet and the keys are left alone. *)
LEMMA Travelling ==
    ASSUME IInv, [Next]_vars, UNCHANGED decryptor, pc' # "over", Sealed', Read'
    PROVE  IInv'
<1>1. TypeInv' /\ Cut'
  BY TypeStep, CutStep DEF IInv
<1>2. KeysFit' /\ CacheFits' /\ OpenedIsCached'
  BY DecryptorStays DEF IInv
<1>3. RaisesRightly'
  BY DEF RaisesRightly
<1>. QED
  BY <1>1, <1>2, <1>3 DEF IInv

LEMMA DoYield ==
    ASSUME IInv, Yield
    PROVE  IInv'
<1>1. /\ pc = "encrypting" /\ pc' \in {"encrypting", "sent"}
      /\ UNCHANGED <<sender, bytes, offset, arrived, decryptor>>
      /\ [Next]_vars
  BY DEF Yield, Next, input
<1>2. Sealed'
  BY <1>1, SealedStays DEF IInv
<1>3. Read'
  BY <1>1 DEF IInv, Read
<1>. QED
  BY <1>1, <1>2, <1>3, Travelling

LEMMA DoArriveBytes ==
    ASSUME IInv, ArriveBytes
    PROVE  IInv'
<1>1. /\ pc = "sent" /\ pc' = "reading"
      /\ bytes' \in 0..serialize_stream(blocks)
      /\ UNCHANGED <<sender, blocks, offset, arrived, decryptor>>
      /\ [Next]_vars
  BY DEF ArriveBytes, Next, input
<1>2. Sealed'
  BY <1>1, SealedStays DEF IInv
<1>3. /\ WireEnds(blocks) \in [0..Len(blocks) -> Nat] /\ WireEnds(blocks)[0] = 0
      /\ Len(blocks) \in Nat
  BY EndsOfBlocks, BlocksMade DEF IInv
<1>4. bytes' \in Nat /\ bytes' <= WireEnds(blocks)[Len(blocks)]
  BY <1>1, <1>3 DEF serialize_stream
<1>5. WireEnds(blocks)' = WireEnds(blocks)
  BY <1>1 DEF WireEnds, OnWire, BlockBytes
<1>6. arrived = <<>> /\ offset = 0
  BY <1>1 DEF IInv, Read
<1>7. ReadSoFar(0)'
  BY <1>1, <1>3, <1>4, <1>5, <1>6 DEF ReadSoFar
<1>8. Read'
  BY <1>1, <1>4, <1>7 DEF Read
<1>. QED
  BY <1>1, <1>2, <1>8, Travelling

LEMMA DoArriveBlocks ==
    ASSUME IInv, ArriveBlocks
    PROVE  IInv'
<1>1. /\ pc = "sent" /\ pc' = "received"
      /\ UNCHANGED <<sender, blocks, bytes, offset, decryptor>>
      /\ [Next]_vars
  BY DEF ArriveBlocks, Next, input
<1>2. PICK n \in 0..MaxReceived :
          \E which \in [1..n -> DOMAIN blocks] :
              arrived' = [j \in 1..n |-> blocks[which[j]]]
  BY DEF ArriveBlocks
<1>3. PICK which \in [1..n -> DOMAIN blocks] :
          arrived' = [j \in 1..n |-> blocks[which[j]]]
  BY <1>2
<1>4. n \in Nat
  BY <1>2, StreamAssumption
<1>5. IsSeq(arrived)'
  BY <1>3, <1>4 DEF IsSeq
<1>6. \A j \in 1..n : SealedBySender(blocks[which[j]])
  BY <1>3, BlocksMade DEF IInv
<1>7. Sealed'
  BY <1>1, <1>3, <1>5, <1>6 DEF Sealed, SealedBySender
<1>8. Read'
  BY <1>1 DEF IInv, Read
<1>. QED
  BY <1>1, <1>7, <1>8, Travelling

LEMMA DoReadBlock ==
    ASSUME IInv, ReadBlock
    PROVE  IInv'
<1>1. /\ pc = "reading" /\ pc' = "reading"
      /\ UNCHANGED <<sender, blocks, bytes, decryptor>>
      /\ [Next]_vars
  BY DEF ReadBlock, Next, input
<1>2. bytes \in Nat /\ TypeInv /\ Cut
  BY DEF IInv, Read
<1>3. PICK m \in Nat : ReadSoFar(m)
  BY <1>1 DEF IInv, Read
<1>4. /\ m + 1 <= Len(blocks)
      /\ arrived' = [j \in 1..(m + 1) |-> blocks[j]]
      /\ offset' = WireEnds(blocks)[m + 1]
  BY <1>2, <1>3, ReadingOn
<1>5. WireEnds(blocks)' = WireEnds(blocks)
  BY <1>1 DEF WireEnds, OnWire, BlockBytes
<1>6. bytes <= WireEnds(blocks)[Len(blocks)]
  BY <1>1, <1>3 DEF ReadSoFar
<1>7. ReadSoFar(m + 1)'
  BY <1>1, <1>4, <1>5, <1>6 DEF ReadSoFar
<1>8. Read'
  BY <1>1, <1>2, <1>7 DEF Read
<1>9. Sealed'
  <2>1. IsSeq(arrived)' /\ DOMAIN arrived' = 1..(m + 1)
    BY <1>4 DEF IsSeq
  <2>2. ASSUME NEW j \in 1..(m + 1) PROVE SealedBySender(arrived[j])'
    <3>1. j \in 1..Len(blocks) /\ arrived'[j] = blocks[j]
      BY <1>2, <1>4, BlocksMade
    <3>2. SealedBySender(blocks[j])
      BY <1>2, <3>1, BlocksMade
    <3>. QED
      BY <1>1, <3>1, <3>2 DEF SealedBySender
  <2>. QED
    BY <2>1, <2>2 DEF Sealed
<1>. QED
  BY <1>1, <1>8, <1>9, Travelling

LEMMA DoStopReading ==
    ASSUME IInv, StopReading
    PROVE  IInv'
<1>1. /\ pc = "reading" /\ pc' = "received"
      /\ UNCHANGED <<sender, blocks, bytes, offset, arrived, decryptor>>
      /\ [Next]_vars
  BY DEF StopReading, Next, input
<1>2. Sealed' /\ Read'
  BY <1>1, SealedStays, ReadStays DEF IInv
<1>. QED
  BY <1>1, <1>2, Travelling

LEMMA DoNextStream ==
    ASSUME IInv, NextStream
    PROVE  IInv'
<1>1. /\ pc' = "encrypting" /\ arrived' = <<>> /\ bytes' = 0 /\ offset' = 0
      /\ UNCHANGED decryptor
      /\ [Next]_vars
  BY DEF NextStream, Next, input
<1>2. Sealed' /\ Read'
  BY <1>1 DEF Sealed, Read, IsSeq
<1>. QED
  BY <1>1, <1>2, Travelling

-----------------------------------------------------------------------------
(* Every block that arrived is opened by the one session key of the sender's *)
(* key id, or none is.                                                      *)
Opens ==
    /\ sender.config.key_id \in DOMAIN keys
    /\ get_session_key(keys, session_keys, sender.config.key_id, session)
           = derive_session_key(sender.config.master, sender.session)

Fails ==
    \E j \in DOMAIN arrived : ~Decrypts(keys, session_keys, session, arrived[j].block)

LEMMA OneKey ==
    ASSUME Sealed, arrived # <<>>
    PROVE  Fails <=> ~Opens
<1>1. 1 \in DOMAIN arrived
  BY DEF Sealed, IsSeq
<1>2. ASSUME NEW j \in DOMAIN arrived
      PROVE  Decrypts(keys, session_keys, session, arrived[j].block) <=> Opens
  BY DEF Sealed, SealedBySender, Decrypts, Opens
<1>. QED
  BY <1>1, <1>2 DEF Fails

(* Whoever opens a block was given the sender's config, and the session.    *)
LEMMA OpensOwn ==
    ASSUME TypeInv, KeysFit, CacheFits, Opens
    PROVE  sender.config \in given /\ sender.session = session
<1>1. /\ sender.config \in Configs /\ session \in Sessions
      /\ given \subseteq Configs
  BY DEF TypeInv, KeysFit
<1>2. PICK c \in given :
          /\ c.key_id = sender.config.key_id
          /\ get_session_key(keys, session_keys, sender.config.key_id, session)
                 = derive_session_key(c.master, session)
  BY <1>1, SessionKey DEF Opens
<1>3. c.master = sender.config.master /\ sender.session = session
  BY <1>2 DEF Opens, derive_session_key
<1>4. c = sender.config
  BY <1>1, <1>2, <1>3, StreamAssumption
<1>. QED
  BY <1>3, <1>4

(* The sender's config, if no other was given under its id, opens.          *)
LEMMA OpensGiven ==
    ASSUME TypeInv, KeysFit, CacheFits, GivenOnly, sender.session = session
    PROVE  Opens
<1>1. sender.config \in given /\ session \in Sessions
  BY DEF GivenOnly, TypeInv
<1>2. sender.config.key_id \in DOMAIN keys
  BY <1>1 DEF KeysFit
<1>3. PICK c \in given :
          /\ c.key_id = sender.config.key_id
          /\ get_session_key(keys, session_keys, sender.config.key_id, session)
                 = derive_session_key(c.master, session)
  BY <1>1, <1>2, SessionKey
<1>4. c = sender.config
  BY <1>3 DEF GivenOnly
<1>. QED
  BY <1>2, <1>3, <1>4 DEF Opens

(* What was opened once opens again.                                        *)
LEMMA OpensAgain ==
    ASSUME TypeInv, OpenedIsCached, sender.session = session,
           <<sender.config, session>> \in opened
    PROVE  Opens
<1>1. sender.config \in Configs /\ session \in Sessions
  BY DEF TypeInv
<1>2. /\ sender.config.key_id \in DOMAIN keys
      /\ <<sender.config.key_id, session>> \in DOMAIN session_keys
      /\ session_keys[<<sender.config.key_id, session>>]
             = derive_session_key(sender.config.master, session)
  BY <1>1 DEF OpenedIsCached
<1>. QED
  BY <1>2 DEF Opens, get_session_key

(* The cache after a stream.                                                *)
LEMMA Caching ==
    ASSUME TypeInv, KeysFit, CacheFits, OpenedIsCached, UNCHANGED <<keys, given>>,
           session_keys' = Cached
    PROVE  /\ CacheFits'
           /\ \A p \in DOMAIN session_keys :
                  p \in DOMAIN session_keys' /\ session_keys'[p] = session_keys[p]
           /\ arrived # <<>> /\ Opens =>
                  /\ <<sender.config.key_id, session>> \in DOMAIN session_keys'
                  /\ session_keys'[<<sender.config.key_id, session>>]
                         = derive_session_key(sender.config.master, session)
<1> DEFINE id == sender.config.key_id
           key == get_session_key(keys, session_keys, id, session)
<1>1. CASE arrived = <<>> \/ id \notin DOMAIN keys
  <2>1. session_keys' = session_keys
    BY <1>1 DEF Cached
  <2>. QED
    BY <1>1, <2>1 DEF CacheFits, Opens
<1>2. CASE arrived # <<>> /\ id \in DOMAIN keys
  <2>1. session_keys' = Put(session_keys, <<id, session>>, key)
    BY <1>2 DEF Cached
  <2>2. /\ DOMAIN session_keys' = DOMAIN session_keys \cup {<<id, session>>}
        /\ session_keys'[<<id, session>>] = key
        /\ \A p \in DOMAIN session_keys :
               p # <<id, session>> => session_keys'[p] = session_keys[p]
    BY <2>1 DEF Put
  <2>3. session \in Sessions
    BY DEF TypeInv
  <2>4. PICK c \in given : c.key_id = id /\ key = derive_session_key(c.master, session)
    BY <1>2, <2>3, SessionKey
  <2>5. CacheFits'
    BY <2>2, <2>3, <2>4 DEF CacheFits
  <2>6. <<id, session>> \in DOMAIN session_keys => key = session_keys[<<id, session>>]
    BY DEF get_session_key
  <2>7. Opens => key = derive_session_key(sender.config.master, session)
    BY OpensOwn DEF Opens
  <2>. QED
    BY <2>2, <2>5, <2>6, <2>7
<1>. QED
  BY <1>1, <1>2

LEMMA Decrypting ==
    ASSUME IInv, decrypt_stream
    PROVE  IInv'
<1>1. /\ pc = "received" /\ pc' = "over" /\ session_keys' = Cached
      /\ result'.raised = Fails
      /\ opened' = IF Fails \/ arrived = <<>> THEN opened
                   ELSE opened \cup {<<sender.config, session>>}
      /\ UNCHANGED <<sender, session, blocks, bytes, offset, arrived, keys, given>>
      /\ [Next]_vars
  BY DEF decrypt_stream, Fails, Next, input
<1>2. /\ TypeInv /\ Cut /\ Sealed /\ Read /\ KeysFit /\ CacheFits
      /\ OpenedIsCached
  BY DEF IInv
<1>3. TypeInv' /\ Cut'
  BY <1>1, <1>2, TypeStep, CutStep
<1>4. Sealed' /\ Read'
  BY <1>1, <1>2, SealedStays, ReadStays
<1>5. KeysFit'
  BY <1>1, <1>2 DEF KeysFit
<1>6. /\ CacheFits'
      /\ \A p \in DOMAIN session_keys :
             p \in DOMAIN session_keys' /\ session_keys'[p] = session_keys[p]
      /\ arrived # <<>> /\ Opens =>
             /\ <<sender.config.key_id, session>> \in DOMAIN session_keys'
             /\ session_keys'[<<sender.config.key_id, session>>]
                    = derive_session_key(sender.config.master, session)
  BY <1>1, <1>2, Caching
<1>7. OpenedIsCached'
  <2>1. SUFFICES ASSUME NEW c \in Configs, NEW s \in Sessions, <<c, s>> \in opened'
                 PROVE  /\ c.key_id \in DOMAIN keys
                        /\ <<c.key_id, s>> \in DOMAIN session_keys'
                        /\ session_keys'[<<c.key_id, s>>] = derive_session_key(c.master, s)
    BY <1>1 DEF OpenedIsCached
  <2>2. CASE <<c, s>> \in opened
    BY <1>2, <1>6, <2>2 DEF OpenedIsCached
  <2>3. CASE <<c, s>> \notin opened
    <3>1. ~Fails /\ arrived # <<>> /\ c = sender.config /\ s = session
      BY <1>1, <2>1, <2>3
    <3>2. Opens
      BY <1>2, <3>1, OneKey
    <3>. QED
      BY <1>6, <3>1, <3>2 DEF Opens
  <2>. QED
    BY <2>2, <2>3
<1>8. RaisesRightly'
  <2>1. SUFFICES ASSUME arrived # <<>>
                 PROVE  /\ sender.config \notin given \/ sender.session # session => Fails
                        /\ sender.session = session /\ GivenOnly => ~Fails
                        /\ sender.session = session /\ <<sender.config, session>> \in opened'
                           => ~Fails
    BY <1>1 DEF RaisesRightly, GivenOnly
  <2>2. Fails <=> ~Opens
    BY <1>2, <2>1, OneKey
  <2>3. sender.config \notin given \/ sender.session # session => Fails
    BY <1>2, <2>2, OpensOwn
  <2>4. sender.session = session /\ GivenOnly => ~Fails
    BY <1>2, <2>2, OpensGiven
  <2>5. sender.session = session /\ <<sender.config, session>> \in opened' => ~Fails
    <3>1. Fails => opened' = opened
      BY <1>1
    <3>. QED
      BY <1>2, <2>2, <3>1, OpensAgain
  <2>. QED
    BY <2>3, <2>4, <2>5
<1>. QED
  BY <1>3, <1>4, <1>5, <1>6, <1>7, <1>8 DEF IInv

-----------------------------------------------------------------------------
LEMMA Inductive == IInv /\ [Next]_vars => IInv'
<1>. SUFFICES ASSUME IInv, [Next]_vars PROVE IInv'
  OBVIOUS
<1>1. CASE UNCHANGED vars
  <2>1. UNCHANGED <<blocks, arrived, bytes, offset, sender, session, pc, result>>
        /\ UNCHANGED decryptor
    BY <1>1 DEF vars, input
  <2>2. TypeInv' /\ Cut'
    BY TypeStep, CutStep DEF IInv
  <2>3. Sealed' /\ Read'
    BY <2>1, SealedStays, ReadStays DEF IInv
  <2>4. KeysFit' /\ CacheFits' /\ OpenedIsCached'
    BY <2>1, DecryptorStays DEF IInv
  <2>5. RaisesRightly'
    BY <2>1 DEF IInv, RaisesRightly, GivenOnly, decryptor
  <2>. QED
    BY <2>2, <2>3, <2>4, <2>5 DEF IInv
<1>. QED
  BY <1>1, DoYield, DoArriveBytes, DoArriveBlocks, DoReadBlock, DoStopReading,
     AddKey, Decrypting, DoNextStream DEF Next

LEMMA Always == Spec => []IInv
<1>. QED
  BY InitHolds, Inductive, PTL DEF Spec

(***************************************************************************)
(* stream_iter yields the blocks of encrypt_to_stream, and where there is  *)
(* data the bare blocks of Encryptor.encrypt_stream, for data of any       *)
(* length and any block size.                                              *)
(***************************************************************************)
THEOREM IteratorCorrect == Spec => []IteratorAgrees
<1>1. IInv => IteratorAgrees
  BY CutAgrees DEF IInv
<1>. QED
  BY <1>1, Always, PTL

(***************************************************************************)
(* A Decryptor that lives across any number of streams, with keys added    *)
(* and configs replaced in between, raises whenever key or session are     *)
(* wrong, and never when they are right and unambiguous or were used       *)
(* before.                                                                 *)
(***************************************************************************)
THEOREM RaisesCorrect == Spec => []RaisesRightly
<1>1. IInv => RaisesRightly
  BY DEF IInv
<1>. QED
  BY <1>1, Always, PTL

(***************************************************************************)
(* deserialize_stream returns a prefix of the blocks that were serialized, *)
(* wherever the bytes were cut off.                                        *)
(***************************************************************************)
THEOREM PrefixCorrect == Spec => []ReadsAPrefix
<1>1. ASSUME IInv PROVE ReadsAPrefix
  <2>1. SUFFICES ASSUME bytes > 0 PROVE IsPrefix(arrived, blocks)
    BY DEF ReadsAPrefix
  <2>2. PICK m \in Nat : ReadSoFar(m)
    BY <1>1, <2>1 DEF IInv, Read
  <2>3. m <= Len(blocks) /\ arrived = [j \in 1..m |-> blocks[j]]
    BY <2>2 DEF ReadSoFar
  <2>4. Len(blocks) \in Nat /\ IsSeq(blocks)
    BY <1>1, BlocksMade DEF IInv
  <2>5. Len(arrived) = m
    BY <2>3
  <2>. QED
    BY <2>3, <2>4, <2>5 DEF IsPrefix, IsSeq
<1>. QED
  BY <1>1, Always, PTL

-----------------------------------------------------------------------------
(* What arrives is blocks that were sent, and what is returned is what they *)
(* carry, sorted.                                                           *)
FromBlocks ==
    \A j \in DOMAIN arrived : \E i \in 1..Len(blocks) : arrived[j] = blocks[i]

Joined == pc = "over" /\ ~result.raised => result.data = Join(InOrder(arrived))

LEMMA FromBlocksStep ==
    ASSUME IInv, FromBlocks, [Next]_vars
    PROVE  FromBlocks'
<1>. USE DEF input, decryptor
<1>1. CASE UNCHANGED <<arrived, blocks>>
  BY <1>1 DEF FromBlocks
<1>2. CASE Yield
  BY <1>2 DEF Yield, IInv, Read, FromBlocks
<1>3. CASE ArriveBlocks
  <2>1. PICK n \in 0..MaxReceived :
            \E which \in [1..n -> DOMAIN blocks] :
                arrived' = [j \in 1..n |-> blocks[which[j]]]
    BY <1>3 DEF ArriveBlocks
  <2>2. PICK which \in [1..n -> DOMAIN blocks] :
            arrived' = [j \in 1..n |-> blocks[which[j]]]
    BY <2>1
  <2>3. DOMAIN blocks = 1..Len(blocks) /\ blocks' = blocks
    BY <1>3, BlocksMade DEF IInv, ArriveBlocks
  <2>. QED
    BY <2>2, <2>3 DEF FromBlocks
<1>4. CASE ReadBlock
  <2>1. bytes \in Nat /\ TypeInv /\ Cut /\ pc = "reading" /\ blocks' = blocks
    BY <1>4 DEF IInv, Read, ReadBlock
  <2>2. PICK m \in Nat : ReadSoFar(m)
    BY <2>1 DEF IInv, Read
  <2>3. /\ m + 1 <= Len(blocks) /\ Len(blocks) \in Nat
        /\ arrived' = [j \in 1..(m + 1) |-> blocks[j]]
    BY <1>4, <2>1, <2>2, ReadingOn, BlocksMade
  <2>. QED
    BY <2>1, <2>3 DEF FromBlocks
<1>5. CASE NextStream
  BY <1>5 DEF NextStream, FromBlocks
<1>. QED
  BY <1>1, <1>2, <1>3, <1>4, <1>5
     DEF Next, vars, ArriveBytes, StopReading, add_key, decrypt_stream

LEMMA JoinedStep ==
    ASSUME Joined, [Next]_vars
    PROVE  Joined'
<1>1. CASE decrypt_stream
  BY <1>1 DEF decrypt_stream, Joined
<1>2. CASE UNCHANGED vars
  <2>1. UNCHANGED <<pc, result, arrived>>
    BY <1>2 DEF vars
  <2>2. InOrder(arrived)' = InOrder(arrived)
    BY <2>1 DEF InOrder, Place
  <2>3. Join(InOrder(arrived))' = Join(InOrder(arrived))
    BY <2>2 DEF Join, Joins
  <2>. QED
    BY <2>1, <2>3 DEF Joined
<1>3. CASE pc' # "over"
  BY <1>3 DEF Joined
<1>. QED
  BY <1>1, <1>2, <1>3
     DEF Next, Yield, ArriveBytes, ArriveBlocks, ReadBlock, StopReading, add_key,
         NextStream

(* The blocks that arrived, sorted.  Unless one arrived twice, their numbers *)
(* ascend, and if these are the first numbers there are, so are the blocks.  *)
LEMMA Sorted ==
    ASSUME IInv, FromBlocks
    PROVE  LET s == InOrder(arrived)
               m == Len(arrived)
           IN  /\ m \in Nat /\ DOMAIN arrived = 1..m /\ Len(s) = m
               /\ \A k \in 1..m : \E j \in 1..Len(blocks) : s[k] = blocks[j]
               /\ ~Repeats(arrived) =>
                      \A k, l \in 1..m : k < l => s[k].index < s[l].index
               /\ ~Repeats(arrived) /\ (\A j \in 1..m : arrived[j].index < m) =>
                      \A k \in 1..m : s[k] = blocks[k]
<1> DEFINE s == InOrder(arrived)
           m == Len(arrived)
<1>1. /\ m \in Nat /\ DOMAIN arrived = 1..m
      /\ Len(blocks) \in Nat /\ TypeInv /\ Cut
  BY BlocksMade DEF IInv, Sealed, IsSeq
<1>2. ASSUME NEW j \in 1..m
      PROVE  /\ arrived[j].index \in Nat
             /\ arrived[j].index + 1 \in 1..Len(blocks)
             /\ arrived[j] = blocks[arrived[j].index + 1]
  <2>1. PICK i \in 1..Len(blocks) : arrived[j] = blocks[i]
    BY <1>1 DEF FromBlocks
  <2>2. arrived[j].index = i - 1
    BY <1>1, <2>1, BlocksCut
  <2>. QED
    BY <1>1, <2>1, <2>2
<1>3. PICK p \in [1..m -> 1..m] :
          /\ s = [k \in 1..m |-> arrived[p[k]]]
          /\ \A k, l \in 1..m : k < l =>
                 p[k] # p[l] /\ arrived[p[k]].index <= arrived[p[l]].index
  BY <1>1, <1>2, Sorting
<1>. HIDE DEF s
<1>4. Len(s) = m /\ \A k \in 1..m : p[k] \in 1..m /\ s[k] = arrived[p[k]]
  BY <1>1, <1>3
<1>5. ASSUME NEW k \in 1..m PROVE \E j \in 1..Len(blocks) : s[k] = blocks[j]
  <2>1. p[k] \in 1..m /\ s[k] = arrived[p[k]]
    BY <1>4
  <2>. QED
    BY <1>1, <2>1 DEF FromBlocks
<1>6. ASSUME ~Repeats(arrived), NEW k \in 1..m, NEW l \in 1..m, k < l
      PROVE  s[k].index < s[l].index
  <2>1. p[k] # p[l] /\ arrived[p[k]].index <= arrived[p[l]].index
    BY <1>3, <1>6
  <2>2. arrived[p[k]] # arrived[p[l]]
    BY <1>1, <1>4, <1>6, <2>1 DEF Repeats
  <2>3. arrived[p[k]].index # arrived[p[l]].index
    <3>1. /\ arrived[p[k]] = blocks[arrived[p[k]].index + 1]
          /\ arrived[p[l]] = blocks[arrived[p[l]].index + 1]
      BY <1>2, <1>4
    <3>. QED
      BY <2>2, <3>1
  <2>4. arrived[p[k]].index \in Nat /\ arrived[p[l]].index \in Nat
    BY <1>2, <1>4
  <2>. QED
    BY <1>4, <2>1, <2>3, <2>4
<1>7. ASSUME ~Repeats(arrived), \A j \in 1..m : arrived[j].index < m,
             NEW k \in 1..m
      PROVE  s[k] = blocks[k]
  <2> DEFINE h == [i \in 1..m |-> s[i].index]
  <2>1. h \in [1..m -> Nat] /\ \A i \in 1..m : h[i] < m
    BY <1>2, <1>4, <1>7
  <2>2. \A i, l \in 1..m : i < l => h[i] < h[l]
    BY <1>6, <1>7
  <2>3. h[k] = k - 1
    <3>. HIDE DEF h, m
    <3>. QED
      BY <1>1, <2>1, <2>2, Squeezed
  <2>4. s[k].index = k - 1
    BY <2>3
  <2>5. s[k] = blocks[s[k].index + 1]
    BY <1>2, <1>4
  <2>. QED
    BY <2>4, <2>5
<1>. QED
  BY <1>1, <1>4, <1>5, <1>6, <1>7 DEF s

(* What is returned says what was sent.                                     *)
LEMMA Faithful ==
    ASSUME IInv, FromBlocks, Joined, pc = "over", arrived # <<>>, ~result.raised
    PROVE  /\ ~Repeats(arrived) =>
                  /\ \A i, j \in DOMAIN result.data :
                         i < j => result.data[i] < result.data[j]
                  /\ Len(arrived) = Len(blocks) => result.data = data
           /\ bytes > 0 =>
                  /\ IsPrefix(result.data, data)
                  /\ result.data = data \/ Len(result.data) % bs = 0
<1> DEFINE s == InOrder(arrived)
           m == Len(arrived)
<1>1. /\ m \in Nat /\ DOMAIN arrived = 1..m /\ Len(s) = m
      /\ \A k \in 1..m : \E j \in 1..Len(blocks) : s[k] = blocks[j]
      /\ ~Repeats(arrived) =>
             \A k, l \in 1..m : k < l => s[k].index < s[l].index
      /\ ~Repeats(arrived) /\ (\A j \in 1..m : arrived[j].index < m) =>
             \A k \in 1..m : s[k] = blocks[k]
  BY Sorted
<1>2. /\ TypeInv /\ Cut /\ Len(blocks) \in Nat
      /\ data \in Seq(Nat) /\ Len(data) \in Nat /\ bs \in Nat \ {0}
      /\ \A i \in 1..Len(data) : data[i] = i
  BY BlocksMade DEF IInv, TypeInv
<1>3. result.data = Join(s)
  BY DEF Joined
<1>. HIDE DEF s, m
<1>4. ~Repeats(arrived) => \A i, j \in DOMAIN result.data :
                               i < j => result.data[i] < result.data[j]
  BY <1>1, <1>2, <1>3, Ascending
<1>5. ASSUME ~Repeats(arrived), \A j \in 1..m : arrived[j].index < m,
             m <= Len(blocks)
      PROVE  result.data = [i \in 1..Span(m) |-> i]
  <2>1. m \in 0..Len(blocks) /\ \A k \in 1..m : s[k] = blocks[k]
    BY <1>1, <1>2, <1>5
  <2>. QED
    BY <1>1, <1>2, <1>3, <2>1, FirstBlocks
<1>6. [i \in 1..Len(data) |-> i] = data
  BY <1>2
<1>7. m * bs \in Nat /\ Span(m) \in Nat /\ Span(m) <= Len(data)
  BY <1>1, <1>2 DEF Span
<1>8. ASSUME ~Repeats(arrived), m = Len(blocks) PROVE result.data = data
  <2>1. ASSUME NEW j \in 1..m PROVE arrived[j].index < m
    <3>1. PICK i \in 1..Len(blocks) : arrived[j] = blocks[i]
      BY <1>1 DEF FromBlocks
    <3>2. arrived[j].index = i - 1
      BY <1>2, <3>1, BlocksCut
    <3>. QED
      BY <1>2, <1>8, <3>2
  <2>2. result.data = [i \in 1..Span(m) |-> i]
    BY <1>2, <1>5, <1>8, <2>1
  <2>3. m * bs >= Len(data)
    <3>1. PICK n \in Nat : CutSoFar(n)
      BY <1>2 DEF Cut
    <3>2. Len(blocks) = n /\ n > 0
      BY <3>1 DEF CutSoFar
    <3>. QED
      BY <1>8, <3>1, <3>2 DEF CutSoFar
  <2>4. Span(m) = Len(data)
    BY <1>2, <1>7, <2>3 DEF Span
  <2>. QED
    BY <1>6, <2>2, <2>4
<1>9. ASSUME bytes > 0
      PROVE  /\ IsPrefix(result.data, data)
             /\ result.data = data \/ Len(result.data) % bs = 0
  <2>1. PICK n \in Nat : ReadSoFar(n)
    BY <1>9 DEF IInv, Read
  <2>2. n <= Len(blocks) /\ arrived = [j \in 1..n |-> blocks[j]] /\ n = m
    BY <2>1 DEF ReadSoFar, m
  <2>3. ASSUME NEW j \in 1..m
        PROVE  arrived[j].index = j - 1
    <3>1. j \in 1..Len(blocks) /\ arrived[j] = blocks[j]
      BY <1>1, <1>2, <2>2
    <3>. QED
      BY <1>2, <3>1, BlocksCut
  <2>4. ~Repeats(arrived)
    <3>1. ASSUME NEW i \in 1..m, NEW j \in 1..m, arrived[i] = arrived[j] PROVE i = j
      <4>1. i - 1 = j - 1
        BY <2>3, <3>1
      <4>. QED
        BY <1>1, <4>1
    <3>. QED
      BY <1>1, <3>1 DEF Repeats
  <2>5. \A j \in 1..m : arrived[j].index < m
    BY <1>1, <2>3
  <2>6. result.data = [i \in 1..Span(m) |-> i]
    BY <1>5, <2>2, <2>4, <2>5
  <2>7. Len(result.data) = Span(m) /\ \A i \in 1..Span(m) : result.data[i] = data[i]
    BY <1>2, <1>7, <2>6
  <2>8. IsPrefix(result.data, data)
    BY <1>2, <1>7, <2>6, <2>7 DEF IsPrefix
  <2>9. CASE m * bs < Len(data)
    <3>1. Len(result.data) = m * bs
      BY <2>7, <2>9 DEF Span
    <3>2. (m * bs) % bs = 0
      BY <1>1, <1>2, Multiple
    <3>. QED
      BY <2>8, <3>1, <3>2
  <2>10. CASE ~(m * bs < Len(data))
    <3>1. Span(m) = Len(data)
      BY <2>10 DEF Span
    <3>. QED
      BY <1>6, <2>6, <2>8, <3>1
  <2>. QED
    BY <2>9, <2>10
<1>. QED
  BY <1>4, <1>8, <1>9 DEF m

(***************************************************************************)
(* decrypt_stream, fed by block objects in any order and number or by a    *)
(* serialized stream cut off anywhere, returns nothing that contradicts    *)
(* what was sent: the bytes in their order unless a block is repeated, all *)
(* of them if every block arrived, and whole first blocks of bytes that    *)
(* were cut off.                                                           *)
(***************************************************************************)
THEOREM ReceivedCorrect == Spec => []ReceivedIsFaithful
<1>1. Init => FromBlocks /\ Joined
  BY DEF Init, FromBlocks, Joined
<1>2. IInv /\ FromBlocks /\ Joined /\ [Next]_vars => FromBlocks' /\ Joined'
  BY FromBlocksStep, JoinedStep
<1>3. IInv /\ FromBlocks /\ Joined /\ ReadsAPrefix => ReceivedIsFaithful
  BY Faithful DEF IInv, ReceivedIsFaithful
<1>4. Spec => [](FromBlocks /\ Joined)
  BY <1>1, <1>2, Always, PTL DEF Spec
<1>. QED
  BY <1>3, <1>4, Always, PrefixCorrect, PTL
=============================================================================
