--------------------------- MODULE AuditLogProofs ---------------------------
(***************************************************************************)
(* Proofs about the audit log, for every number of writers, record()       *)
(* calls, crashes and edits.  Hashes nest without bound, so there is no    *)
(* set of all lines: a log is typed as a sequence of its own elements,     *)
(* each a record of the fields of AuditEntry.                              *)
(***************************************************************************)
EXTENDS AuditLog, FiniteSetTheorems, SequenceTheorems, WellFoundedInduction,
        TLAPS

IsSeq(s) == s \in Seq({s[i] : i \in DOMAIN s})

IsLine(e) ==
    /\ e = [seq |-> e.seq, run |-> e.run, prev_hash |-> e.prev_hash,
            entry_hash |-> e.entry_hash]
    /\ e.seq \in Int /\ e.run \in Nat

IsLog(s) == IsSeq(s) /\ \A i \in DOMAIN s : IsLine(s[i])

(* The entry record() builds on the lines s. *)
EndsWell(s) == s # <<>> /\ s[Len(s)] # Garbage
EntryAfter(s, run) ==
    LET seq == IF EndsWell(s) THEN s[Len(s)].seq + 1 ELSE 0
        prev == IF EndsWell(s) THEN s[Len(s)].entry_hash ELSE <<>>
    IN  [seq |-> seq, run |-> run, prev_hash |-> prev,
         entry_hash |-> compute_hash(seq, run, prev)]

IsAttempt(a, r) ==
    /\ a = [entry |-> a.entry, after |-> a.after, returned |-> a.returned]
    /\ a.returned \in BOOLEAN
    /\ IsLog(a.after)
    /\ a.entry = EntryAfter(a.after, r)

TypeOK ==
    /\ IsLog(log)
    /\ torn \in BOOLEAN
    /\ writing \in [Writers -> Nat]
    /\ IsSeq(attempts)
    /\ \A r \in DOMAIN attempts : IsAttempt(attempts[r], r)
    /\ crashes \in Nat
    /\ tampers \in Nat
    /\ raced \in BOOLEAN
    /\ forged \in BOOLEAN

(* Every writer in a record() call has an attempt of its own. *)
OwnAttempts ==
    \A w \in Writers : writing[w] # 0 =>
        /\ writing[w] \in DOMAIN attempts
        /\ ~attempts[writing[w]].returned
        /\ \A v \in Writers : writing[v] = writing[w] => v = w

(* Where a line comes from: record(), a cut or glued append, an edit; any   *)
(* line may be there once a hash was computed anew.                         *)
Changed(e) == [e EXCEPT !.run = 0]
KnownLine(e) ==
    \/ forged
    \/ e = Garbage
    \/ \E r \in DOMAIN attempts : e \in {attempts[r].entry, Changed(attempts[r].entry)}
KnownLines == \A i \in DOMAIN log : KnownLine(log[i])

(* A torn line was written by a record() call that never returns. *)
Abandoned(e) ==
    \E r \in DOMAIN attempts : /\ e = attempts[r].entry
                               /\ ~attempts[r].returned
                               /\ \A w \in Writers : writing[w] # r
TornLine ==
    torn => /\ Len(log) > 0 /\ crashes > 0
            /\ log[Len(log)] = Garbage \/ Abandoned(log[Len(log)])

Returned == {r \in DOMAIN attempts : attempts[r].returned}
InLog(e) == \E i \in DOMAIN log : log[i] = e
Missing == {r \in Returned : ~InLog(attempts[r].entry)}
FewMissing ==
    tampers = 0 => Cardinality(Missing) + (IF torn THEN 1 ELSE 0) <= crashes

Orderly ==
    ~raced /\ crashes = 0 /\ tampers = 0 =>
        /\ verify(log)
        /\ Len(log) = Cardinality(Returned)
        /\ \A w \in Writers : writing[w] # 0 =>
               /\ attempts[writing[w]].after = log
               /\ \A v \in Writers : writing[v] # 0 => v = w

-----------------------------------------------------------------------------
(* Sequences of their own elements. *)

LEMMA SeqIsSeq ==
  ASSUME NEW S, NEW s \in Seq(S)
  PROVE  IsSeq(s) /\ Len(s) \in Nat /\ DOMAIN s = 1..Len(s)
<1>1. Len(s) \in Nat /\ DOMAIN s = 1..Len(s)
  OBVIOUS
<1>2. \A i \in 1..Len(s) : s[i] \in {s[j] : j \in DOMAIN s}
  BY <1>1
<1>3. s = [i \in 1..Len(s) |-> s[i]]
  OBVIOUS
<1> DEFINE R == {s[j] : j \in DOMAIN s}
<1> HIDE DEF R
<1>4. s \in [1..Len(s) -> R]
  BY <1>2, <1>3 DEF R
<1>5. s \in Seq(R)
  BY <1>1, <1>4
<1> QED
  BY <1>1, <1>5 DEF IsSeq, R

LEMMA SeqFacts ==
  ASSUME NEW s, IsSeq(s)
  PROVE  /\ Len(s) \in Nat /\ DOMAIN s = 1..Len(s)
         /\ (s = <<>>) = (Len(s) = 0)
BY DEF IsSeq

LEMMA AppendFacts ==
  ASSUME NEW s, IsSeq(s), NEW e
  PROVE  /\ IsSeq(Append(s, e))
         /\ Len(Append(s, e)) = Len(s) + 1
         /\ DOMAIN Append(s, e) = 1..(Len(s) + 1)
         /\ Append(s, e)[Len(s) + 1] = e
         /\ \A i \in DOMAIN s : Append(s, e)[i] = s[i]
<1> DEFINE S == {s[i] : i \in DOMAIN s} \cup {e}
<1>1. \A i \in DOMAIN s : s[i] \in S
  OBVIOUS
<1>2. e \in S
  OBVIOUS
<1>3. \A T : s \in Seq(T) => Len(s) \in Nat /\ s = [i \in 1..Len(s) |-> s[i]]
                           /\ DOMAIN s = 1..Len(s)
  OBVIOUS
<1>4. Len(s) \in Nat /\ s = [i \in 1..Len(s) |-> s[i]] /\ DOMAIN s = 1..Len(s)
  BY <1>3 DEF IsSeq
<1> HIDE DEF S
<1>5. s \in Seq(S)
  BY <1>1, <1>4
<1>6. Append(s, e) \in Seq(S)
  BY <1>2, <1>5
<1>7. IsSeq(Append(s, e))
  BY <1>6, SeqIsSeq
<1>8. Len(Append(s, e)) = Len(s) + 1 /\ DOMAIN Append(s, e) = 1..(Len(s) + 1)
  BY <1>2, <1>5
<1>9. Append(s, e)[Len(s) + 1] = e /\ \A i \in DOMAIN s : Append(s, e)[i] = s[i]
  BY <1>2, <1>5
<1> QED
  BY <1>7, <1>8, <1>9

LEMMA ExceptFacts ==
  ASSUME NEW s, IsSeq(s), NEW t, t = [i \in DOMAIN s |-> t[i]]
  PROVE  IsSeq(t) /\ Len(t) = Len(s)
<1> DEFINE S == {t[i] : i \in DOMAIN t}
<1>1. Len(s) \in Nat /\ DOMAIN s = 1..Len(s)
  BY SeqFacts
<1>2. \A i \in 1..Len(s) : t[i] \in S
  BY <1>1
<1> HIDE DEF S
<1>3. t \in [1..Len(s) -> S]
  BY <1>1, <1>2
<1>4. t \in Seq(S) /\ Len(t) = Len(s)
  BY <1>1, <1>3
<1> QED
  BY <1>4 DEF IsSeq, S

(* Taking a line out: what remains was there before. *)
LEMMA WithoutFacts ==
  ASSUME NEW s, IsSeq(s), NEW n \in DOMAIN s
  PROVE  /\ IsSeq(Without(s, n))
         /\ \A i \in DOMAIN Without(s, n) :
                \E j \in DOMAIN s : Without(s, n)[i] = s[j]
<1> DEFINE S == {s[i] : i \in DOMAIN s}
           t == Without(s, n)
<1>1. s \in Seq(S)
  BY DEF IsSeq
<1>2. t \in Seq(S)
  <2> HIDE DEF S
  <2>1. Len(s) \in Nat /\ n \in 1..Len(s)
    BY <1>1
  <2>2. SubSeq(s, 1, n - 1) \in Seq(S) /\ SubSeq(s, n + 1, Len(s)) \in Seq(S)
    BY <1>1, <2>1
  <2> QED
    BY <2>2 DEF Without
<1>3. \A i \in DOMAIN t : t[i] \in S
  <2> HIDE DEF S, t
  <2> QED
    BY <1>2
<1> QED
  BY <1>2, <1>3, SeqIsSeq

-----------------------------------------------------------------------------
(* Entries. *)

LEMMA GarbageIsLine == IsLine(Garbage) /\ Garbage.run = 0
BY DEF IsLine, Garbage

LEMMA NewIsAfter ==
  ASSUME NEW run
  PROVE  NewEntry(run) = EntryAfter(log, run)
BY DEF NewEntry, EntryAfter, HasLast, EndsWell

LEMMA EntryFields ==
  ASSUME NEW s, NEW run
  PROVE  LET e == EntryAfter(s, run) IN
         /\ e.run = run
         /\ e.seq = IF EndsWell(s) THEN s[Len(s)].seq + 1 ELSE 0
         /\ e.prev_hash = IF EndsWell(s) THEN s[Len(s)].entry_hash ELSE <<>>
         /\ e.entry_hash = compute_hash(e.seq, run, e.prev_hash)
         /\ e = [seq |-> e.seq, run |-> e.run, prev_hash |-> e.prev_hash,
                 entry_hash |-> e.entry_hash]
BY DEF EntryAfter

LEMMA EntryIsLine ==
  ASSUME NEW s, IsLog(s), NEW run \in Nat
  PROVE  IsLine(EntryAfter(s, run))
<1>1. EndsWell(s) => Len(s) \in DOMAIN s
  BY SeqFacts DEF IsLog, EndsWell
<1>2. EndsWell(s) => s[Len(s)].seq \in Int
  BY <1>1 DEF IsLog, IsLine
<1> QED
  BY <1>2, EntryFields DEF IsLine

LEMMA AttemptEntry ==
  ASSUME TypeOK, NEW r \in DOMAIN attempts
  PROVE  /\ IsLine(attempts[r].entry) /\ attempts[r].entry.run = r
         /\ r \in Nat \ {0} /\ attempts[r].entry # Garbage
<1>1. IsAttempt(attempts[r], r) /\ r \in Nat \ {0}
  BY SeqFacts DEF TypeOK
<1>2. IsLine(attempts[r].entry) /\ attempts[r].entry.run = r
  BY <1>1, EntryIsLine, EntryFields DEF IsAttempt
<1> QED
  BY <1>1, <1>2, GarbageIsLine

LEMMA ChangedFields ==
  ASSUME NEW e, IsLine(e)
  PROVE  /\ IsLine(Changed(e)) /\ Changed(e).run = 0
         /\ Changed(e).seq = e.seq /\ Changed(e).prev_hash = e.prev_hash
         /\ Changed(e).entry_hash = e.entry_hash
         /\ Changed(Changed(e)) = Changed(e)
<1>1. \A a, b, c, d :
          Changed([seq |-> a, run |-> b, prev_hash |-> c, entry_hash |-> d])
          = [seq |-> a, run |-> 0, prev_hash |-> c, entry_hash |-> d]
  BY DEF Changed
<1>2. Changed(e) = [seq |-> e.seq, run |-> 0, prev_hash |-> e.prev_hash,
                    entry_hash |-> e.entry_hash]
  <2>1. e = [seq |-> e.seq, run |-> e.run, prev_hash |-> e.prev_hash,
             entry_hash |-> e.entry_hash]
    BY DEF IsLine
  <2>2. Changed([seq |-> e.seq, run |-> e.run, prev_hash |-> e.prev_hash,
                 entry_hash |-> e.entry_hash])
        = [seq |-> e.seq, run |-> 0, prev_hash |-> e.prev_hash,
           entry_hash |-> e.entry_hash]
    BY DEF Changed
  <2> QED
    BY <2>1, <2>2, Zenon
<1>3. Changed(Changed(e)) = Changed(e)
  BY <1>1, <1>2
<1> HIDE DEF Changed
<1> QED
  BY <1>2, <1>3 DEF IsLine

-----------------------------------------------------------------------------
(* What the actions do to the log and to the attempts. *)

LEMMA AppendedFacts ==
  ASSUME TypeOK, TornLine, NEW line, IsLine(line)
  PROVE  /\ IsLog(Appended(line))
         /\ torn => /\ Len(log) \in DOMAIN log
                    /\ DOMAIN Appended(line) = DOMAIN log
                    /\ Len(Appended(line)) = Len(log)
                    /\ Appended(line)[Len(log)] = Garbage
                    /\ \A i \in DOMAIN log \ {Len(log)} : Appended(line)[i] = log[i]
         /\ ~torn => Appended(line) = Append(log, line)
<1>1. IsSeq(log) /\ Len(log) \in Nat /\ DOMAIN log = 1..Len(log)
      /\ \A i \in DOMAIN log : IsLine(log[i])
  BY SeqFacts DEF TypeOK, IsLog
<1>2. CASE torn
  <2>1. Len(log) \in DOMAIN log
    BY <1>1, <1>2 DEF TornLine
  <2>2. Appended(line) = [log EXCEPT ![Len(log)] = Garbage]
    BY <1>2 DEF Appended
  <2> HIDE DEF Appended
  <2>3. /\ IsSeq(Appended(line)) /\ Len(Appended(line)) = Len(log)
        /\ DOMAIN Appended(line) = 1..Len(log) /\ Appended(line)[Len(log)] = Garbage
        /\ \A i \in DOMAIN log \ {Len(log)} : Appended(line)[i] = log[i]
    <3>1. Appended(line) = [i \in DOMAIN log |-> Appended(line)[i]]
      BY <2>2
    <3>2. IsSeq(Appended(line)) /\ Len(Appended(line)) = Len(log)
      BY <1>1, <3>1, ExceptFacts, Zenon
    <3> QED
      BY <1>1, <2>1, <2>2, <3>2
  <2>4. IsLog(Appended(line))
    BY <1>1, <2>3, GarbageIsLine DEF IsLog
  <2> QED
    BY <1>1, <1>2, <2>1, <2>3, <2>4
<1>3. CASE ~torn
  <2>1. Appended(line) = Append(log, line)
    BY <1>3 DEF Appended
  <2>2. IsLog(Append(log, line))
    <3>1. /\ IsSeq(Append(log, line)) /\ DOMAIN Append(log, line) = 1..(Len(log) + 1)
          /\ Append(log, line)[Len(log) + 1] = line
          /\ \A i \in DOMAIN log : Append(log, line)[i] = log[i]
      BY <1>1, AppendFacts
    <3>2. \A i \in 1..(Len(log) + 1) : i \in DOMAIN log \/ i = Len(log) + 1
      BY <1>1
    <3> QED
      BY <1>1, <3>1, <3>2 DEF IsLog
  <2> QED
    BY <1>3, <2>1, <2>2
<1> QED
  BY <1>2, <1>3 DEF TypeOK

AttemptsKept ==
    \A r \in DOMAIN attempts :
        /\ r \in DOMAIN attempts'
        /\ attempts'[r].entry = attempts[r].entry
        /\ attempts'[r].after = attempts[r].after

ForgedKept == forged => forged'

LEMMA UpdateReturned ==
  ASSUME NEW a, a = [entry |-> a.entry, after |-> a.after, returned |-> a.returned],
         NEW y, NEW b, b = [a EXCEPT !.returned = y]
  PROVE  /\ b.entry = a.entry /\ b.after = a.after /\ b.returned = y
         /\ b = [entry |-> b.entry, after |-> b.after, returned |-> b.returned]
OBVIOUS

LEMMA ReturnFacts ==
  ASSUME TypeOK, NEW r \in DOMAIN attempts,
         attempts' = [attempts EXCEPT ![r].returned = TRUE]
  PROVE  /\ IsSeq(attempts') /\ DOMAIN attempts' = DOMAIN attempts
         /\ AttemptsKept
         /\ \A q \in DOMAIN attempts : IsAttempt(attempts'[q], q)
         /\ attempts'[r].returned = TRUE
         /\ \A q \in DOMAIN attempts \ {r} : attempts'[q].returned = attempts[q].returned
<1> DEFINE a == attempts[r]
<1>1. IsSeq(attempts) /\ DOMAIN attempts = 1..Len(attempts)
      /\ \A q \in DOMAIN attempts : IsAttempt(attempts[q], q)
  BY SeqFacts DEF TypeOK
<1>2. a = [entry |-> a.entry, after |-> a.after, returned |-> a.returned]
  BY <1>1 DEF IsAttempt
<1>3. PICK y : y = TRUE
  OBVIOUS
<1>4. PICK b : b = [a EXCEPT !.returned = y]
  OBVIOUS
<1>5. b.entry = a.entry /\ b.after = a.after /\ b.returned = TRUE
      /\ b = [entry |-> b.entry, after |-> b.after, returned |-> b.returned]
  <2>1. b.entry = a.entry /\ b.after = a.after /\ b.returned = y
        /\ b = [entry |-> b.entry, after |-> b.after, returned |-> b.returned]
    BY <1>2, <1>4, UpdateReturned
  <2> QED
    BY <1>3, <2>1, Zenon
<1>6. attempts' = [attempts EXCEPT ![r] = b]
  BY <1>3, <1>4, Zenon
<1> HIDE DEF a
<1>7. /\ IsSeq(attempts') /\ DOMAIN attempts' = 1..Len(attempts)
      /\ attempts'[r] = b
      /\ \A q \in DOMAIN attempts \ {r} : attempts'[q] = attempts[q]
  <2>1. attempts' = [q \in DOMAIN attempts |-> attempts'[q]]
    BY <1>6
  <2>2. IsSeq(attempts')
    BY <1>1, <2>1, ExceptFacts, Zenon
  <2> QED
    BY <1>1, <1>6, <2>2
<1>8. IsAttempt(b, r)
  <2>1. IsLog(a.after) /\ a.entry = EntryAfter(a.after, r)
    BY <1>1 DEF IsAttempt, a
  <2>2. b.returned \in BOOLEAN
    BY <1>5, Zenon
  <2>3. b.entry = EntryAfter(b.after, r) /\ IsLog(b.after)
    BY <1>5, <2>1, Zenon
  <2> QED
    BY <1>5, <2>2, <2>3, Zenon DEF IsAttempt
<1>9. AttemptsKept
  BY <1>1, <1>5, <1>7 DEF AttemptsKept, a
<1> QED
  BY <1>1, <1>5, <1>7, <1>8, <1>9

LEMMA PrepareFacts ==
  ASSUME TypeOK, NEW w \in Writers, Prepare(w)
  PROVE  LET n == Len(attempts) + 1 IN
         /\ Len(attempts) \in Nat /\ DOMAIN attempts = 1..Len(attempts)
         /\ IsSeq(attempts') /\ DOMAIN attempts' = DOMAIN attempts \cup {n}
         /\ AttemptsKept
         /\ \A q \in DOMAIN attempts : attempts'[q] = attempts[q]
         /\ IsAttempt(attempts'[n], n)
         /\ attempts'[n].returned = FALSE /\ attempts'[n].after = log
         /\ n \in Nat \ {0} /\ n \notin DOMAIN attempts
<1> DEFINE n == Len(attempts) + 1
           a == [entry |-> NewEntry(n), after |-> log, returned |-> FALSE]
<1>1. IsSeq(attempts) /\ Len(attempts) \in Nat /\ DOMAIN attempts = 1..Len(attempts)
  BY SeqFacts DEF TypeOK
<1>2. attempts' = Append(attempts, a)
  BY DEF Prepare
<1>3. a.entry = NewEntry(n) /\ a.after = log /\ a.returned = FALSE
      /\ a = [entry |-> a.entry, after |-> a.after, returned |-> a.returned]
  OBVIOUS
<1> HIDE DEF a
<1>4. IsAttempt(a, n)
  BY <1>3, NewIsAfter DEF IsAttempt, TypeOK
<1>5. /\ IsSeq(attempts') /\ DOMAIN attempts' = 1..n /\ attempts'[n] = a
      /\ \A q \in DOMAIN attempts : attempts'[q] = attempts[q]
  BY <1>1, <1>2, AppendFacts
<1>6. DOMAIN attempts' = DOMAIN attempts \cup {n} /\ n \in Nat \ {0}
      /\ n \notin DOMAIN attempts
  BY <1>1, <1>5
<1>7. AttemptsKept
  BY <1>5, <1>6 DEF AttemptsKept
<1> HIDE DEF n
<1> QED
  BY <1>1, <1>3, <1>4, <1>5, <1>6, <1>7 DEF n

LEMMA TamperFacts ==
  ASSUME TypeOK, Tamper
  PROVE  /\ IsLog(log')
         /\ ForgedKept /\ forged' \in BOOLEAN
         /\ ~forged' => \A j \in DOMAIN log' : \E i \in DOMAIN log :
                            log'[j] = log[i] \/ log'[j] = Changed(log[i])
<1>1. IsSeq(log) /\ Len(log) \in Nat /\ DOMAIN log = 1..Len(log)
      /\ \A i \in DOMAIN log : IsLine(log[i])
  BY SeqFacts DEF TypeOK, IsLog
<1>2. PICK i \in DOMAIN log :
          \/ /\ \/ log' = [log EXCEPT ![i].run = 0]
                \/ log' = Without(log, i)
                \/ i < Len(log) /\ log' = [log EXCEPT ![i] = log[i + 1], ![i + 1] = log[i]]
             /\ UNCHANGED forged
          \/ /\ \E run \in {0, log[i].run} : log' = [log EXCEPT ![i] = Forged(i, run)]
             /\ forged' = TRUE
  BY DEF Tamper
<1>6. ForgedKept /\ forged' \in BOOLEAN
  BY <1>2 DEF ForgedKept, TypeOK
<1>7. CASE forged' = TRUE /\ \E run \in {0, log[i].run} : log' = [log EXCEPT ![i] = Forged(i, run)]
  <2>1. PICK run \in {0, log[i].run} : log' = [log EXCEPT ![i] = Forged(i, run)]
    BY <1>7
  <2>2. IsLine(Forged(i, run))
    <3>1. run \in Nat /\ i - 1 \in Int
      BY <1>1, <2>1 DEF IsLine
    <3> QED
      BY <3>1 DEF IsLine, Forged
  <2>3. /\ IsSeq(log') /\ DOMAIN log' = DOMAIN log /\ log'[i] = Forged(i, run)
        /\ \A j \in DOMAIN log \ {i} : log'[j] = log[j]
    <3>1. log' = [j \in DOMAIN log |-> log'[j]]
      BY <2>1
    <3>2. IsSeq(log')
      BY <1>1, <3>1, ExceptFacts, Zenon
    <3> QED
      BY <1>1, <2>1, <3>2
  <2> QED
    BY <1>1, <1>6, <1>7, <2>2, <2>3 DEF IsLog
<1>3. CASE log' = [log EXCEPT ![i].run = 0]
  <2>1. log' = [log EXCEPT ![i] = Changed(log[i])]
    BY <1>3 DEF Changed
  <2>2. /\ IsSeq(log') /\ DOMAIN log' = DOMAIN log /\ log'[i] = Changed(log[i])
        /\ \A j \in DOMAIN log \ {i} : log'[j] = log[j]
    <3>1. log' = [j \in DOMAIN log |-> log'[j]]
      BY <2>1
    <3>2. IsSeq(log')
      BY <1>1, <3>1, ExceptFacts, Zenon
    <3> QED
      BY <1>1, <2>1, <3>2
  <2>3. IsLine(log'[i])
    BY <1>1, <2>2, ChangedFields
  <2> QED
    BY <1>1, <1>6, <2>2, <2>3 DEF IsLog
<1>4. CASE log' = Without(log, i)
  BY <1>1, <1>4, <1>6, WithoutFacts DEF IsLog
<1>5. CASE i < Len(log) /\ log' = [log EXCEPT ![i] = log[i + 1], ![i + 1] = log[i]]
  <2>1. i + 1 \in DOMAIN log /\ i + 1 # i
    BY <1>1, <1>5
  <2>2. log' = [j \in DOMAIN log |-> log'[j]]
    BY <1>5
  <2>3. /\ IsSeq(log') /\ DOMAIN log' = DOMAIN log
        /\ log'[i] = log[i + 1] /\ log'[i + 1] = log[i]
        /\ \A j \in DOMAIN log \ {i, i + 1} : log'[j] = log[j]
    <3>1. IsSeq(log')
      BY <1>1, <2>2, ExceptFacts, Zenon
    <3> QED
      BY <1>5, <2>1, <3>1
  <2>4. \A j \in DOMAIN log' : \E k \in DOMAIN log : log'[j] = log[k]
    <3> TAKE j \in DOMAIN log'
    <3>1. CASE j = i + 1
      BY <2>3, <3>1
    <3>2. CASE j = i
      BY <2>1, <2>3, <3>2
    <3>3. CASE j # i + 1 /\ j # i
      BY <2>3, <3>3
    <3> QED
      BY <3>1, <3>2, <3>3
  <2> QED
    BY <1>1, <1>6, <2>3, <2>4 DEF IsLog
<1> QED
  BY <1>2, <1>3, <1>4, <1>5, <1>7

-----------------------------------------------------------------------------
(* The invariant, action by action. *)

(* An attempt once made keeps the lines known. *)
LEMMA StillKnown ==
  ASSUME NEW e, KnownLine(e), AttemptsKept, ForgedKept
  PROVE  KnownLine(e)'
BY DEF KnownLine, AttemptsKept, ForgedKept

Basic == TypeOK /\ OwnAttempts /\ KnownLines /\ TornLine

LEMMA PrepareBasic ==
  ASSUME Basic, NEW w \in Writers, Prepare(w)
  PROVE  Basic'
<1> DEFINE n == Len(attempts) + 1
<1>1. TypeOK /\ OwnAttempts /\ KnownLines /\ TornLine
  BY DEF Basic
<1>2. /\ DOMAIN attempts' = DOMAIN attempts \cup {n} /\ IsSeq(attempts')
      /\ AttemptsKept
      /\ \A q \in DOMAIN attempts : attempts'[q] = attempts[q]
      /\ IsAttempt(attempts'[n], n)
      /\ attempts'[n].returned = FALSE
      /\ n \in Nat \ {0} /\ n \notin DOMAIN attempts
  BY <1>1, PrepareFacts
<1>3. UNCHANGED <<log, torn, crashes, tampers, forged>> /\ raced' \in BOOLEAN
      /\ writing' = [writing EXCEPT ![w] = n] /\ writing[w] = 0
  BY DEF Prepare
<1> HIDE DEF n
<1>4. TypeOK'
  <2>1. \A q \in DOMAIN attempts' : IsAttempt(attempts'[q], q)
    BY <1>1, <1>2 DEF TypeOK
  <2>2. writing' \in [Writers -> Nat]
    BY <1>1, <1>2, <1>3 DEF TypeOK
  <2> QED
    BY <1>1, <1>2, <1>3, <2>1, <2>2 DEF TypeOK
<1>5. OwnAttempts'
  <2> SUFFICES ASSUME NEW v \in Writers, writing'[v] # 0
               PROVE  /\ writing'[v] \in DOMAIN attempts'
                      /\ ~attempts'[writing'[v]].returned
                      /\ \A u \in Writers : writing'[u] = writing'[v] => u = v
    BY DEF OwnAttempts
  <2>1. writing'[w] = n /\ \A u \in Writers \ {w} : writing'[u] = writing[u]
    BY <1>1, <1>3 DEF TypeOK
  <2>2. \A u \in Writers \ {w} : writing[u] # n
    BY <1>1, <1>2 DEF OwnAttempts
  <2>3. CASE v = w
    BY <1>2, <2>1, <2>2, <2>3
  <2>4. CASE v # w
    BY <1>1, <1>2, <2>1, <2>2, <2>4 DEF OwnAttempts
  <2> QED
    BY <2>3, <2>4
<1>6. KnownLines'
  BY <1>1, <1>2, <1>3, StillKnown DEF KnownLines, ForgedKept
<1>7. TornLine'
  <2> SUFFICES ASSUME torn
               PROVE  log[Len(log)] = Garbage \/ Abandoned(log[Len(log)])'
    BY <1>1, <1>3 DEF TornLine
  <2>1. CASE log[Len(log)] = Garbage
    BY <2>1
  <2>2. CASE Abandoned(log[Len(log)])
    <3>1. PICK r \in DOMAIN attempts : /\ log[Len(log)] = attempts[r].entry
                                       /\ ~attempts[r].returned
                                       /\ \A u \in Writers : writing[u] # r
      BY <2>2 DEF Abandoned
    <3>2. r # n /\ attempts'[r] = attempts[r] /\ r \in DOMAIN attempts'
      BY <1>2
    <3>3. \A u \in Writers : writing'[u] # r
      BY <1>1, <1>3, <3>1, <3>2 DEF TypeOK
    <3> QED
      BY <1>3, <3>1, <3>2, <3>3 DEF Abandoned
  <2> QED
    BY <1>1, <2>1, <2>2 DEF TornLine
<1> QED
  BY <1>4, <1>5, <1>6, <1>7 DEF Basic

(* Whatever is appended to the log, its lines stay known. *)
LEMMA AppendedKnown ==
  ASSUME TypeOK, KnownLines, TornLine, AttemptsKept, ForgedKept, NEW line, IsLine(line),
         KnownLine(line), log' = Appended(line)
  PROVE  KnownLines'
<1>1. IsSeq(log) /\ Len(log) \in Nat /\ DOMAIN log = 1..Len(log)
  BY SeqFacts DEF TypeOK, IsLog
<1>2. \A i \in DOMAIN log : KnownLine(log[i])'
  <2> TAKE i \in DOMAIN log
  <2>1. KnownLine(log[i])
    BY DEF KnownLines
  <2>2. CASE log'[i] = log[i]
    BY <2>1, <2>2, StillKnown
  <2>3. CASE log'[i] = Garbage
    BY <2>3 DEF KnownLine
  <2>4. log'[i] = log[i] \/ log'[i] = Garbage
    <3>1. CASE torn
      BY <3>1, AppendedFacts
    <3>2. CASE ~torn
      <4>1. log' = Append(log, line)
        BY <3>2, AppendedFacts
      <4> QED
        BY <1>1, <4>1, AppendFacts
    <3> QED
      BY <3>1, <3>2
  <2> QED
    BY <2>2, <2>3, <2>4
<1>3. CASE torn
  BY <1>2, <1>3, AppendedFacts DEF KnownLines
<1>4. CASE ~torn
  <2>1. log' = Append(log, line)
    BY <1>4, AppendedFacts
  <2>2. DOMAIN log' = 1..(Len(log) + 1) /\ log'[Len(log) + 1] = line
    BY <1>1, <2>1, AppendFacts
  <2>3. KnownLine(line)'
    BY StillKnown
  <2>4. \A i \in 1..(Len(log) + 1) : i \in DOMAIN log \/ i = Len(log) + 1
    BY <1>1
  <2>5. \A i \in DOMAIN log' : KnownLine(log[i])'
    BY <1>2, <2>2, <2>3, <2>4
  <2> QED
    BY <2>5 DEF KnownLines
<1> QED
  BY <1>3, <1>4

LEMMA AppendBasic ==
  ASSUME Basic, NEW w \in Writers, AppendEntry(w)
  PROVE  Basic'
<1> DEFINE r == writing[w]
<1>1. TypeOK /\ OwnAttempts /\ KnownLines /\ TornLine
  BY DEF Basic
<1>2. /\ r # 0 /\ log' = Appended(Entry(w)) /\ torn' = FALSE
      /\ attempts' = [attempts EXCEPT ![r].returned = TRUE]
      /\ writing' = [writing EXCEPT ![w] = 0]
      /\ UNCHANGED <<crashes, tampers, raced, forged>>
  BY DEF AppendEntry
<1>3. r \in DOMAIN attempts /\ Entry(w) = attempts[r].entry
      /\ \A v \in Writers : writing[v] = r => v = w
  BY <1>1, <1>2 DEF OwnAttempts, Entry
<1>4. /\ IsSeq(attempts') /\ DOMAIN attempts' = DOMAIN attempts
      /\ AttemptsKept
      /\ \A q \in DOMAIN attempts : IsAttempt(attempts'[q], q)
      /\ \A q \in DOMAIN attempts \ {r} : attempts'[q].returned = attempts[q].returned
  BY <1>1, <1>2, <1>3, ReturnFacts
<1>5. IsLine(Entry(w)) /\ KnownLine(Entry(w))
  BY <1>1, <1>3, AttemptEntry DEF KnownLine
<1>6. IsLog(log')
  BY <1>1, <1>2, <1>5, AppendedFacts
<1>7. TypeOK'
  <2>1. writing' \in [Writers -> Nat]
    BY <1>1, <1>2 DEF TypeOK
  <2> QED
    BY <1>1, <1>2, <1>4, <1>6, <2>1 DEF TypeOK
<1>8. OwnAttempts'
  <2> SUFFICES ASSUME NEW v \in Writers, writing'[v] # 0
               PROVE  /\ writing'[v] \in DOMAIN attempts'
                      /\ ~attempts'[writing'[v]].returned
                      /\ \A u \in Writers : writing'[u] = writing'[v] => u = v
    BY DEF OwnAttempts
  <2>1. writing'[w] = 0 /\ \A u \in Writers \ {w} : writing'[u] = writing[u]
    BY <1>1, <1>2 DEF TypeOK
  <2>2. v # w /\ writing'[v] = writing[v] /\ writing[v] # r
    BY <1>3, <2>1
  <2>3. writing[v] \in DOMAIN attempts /\ ~attempts[writing[v]].returned
    BY <1>1, <2>2 DEF OwnAttempts
  <2>4. ~attempts'[writing[v]].returned
    BY <1>4, <2>2, <2>3
  <2>5. \A u \in Writers : writing'[u] = writing'[v] => u = v
    BY <1>1, <2>1, <2>2 DEF OwnAttempts
  <2> QED
    BY <1>4, <2>2, <2>3, <2>4, <2>5
<1>9. KnownLines'
  BY <1>1, <1>2, <1>4, <1>5, AppendedKnown DEF ForgedKept
<1>10. TornLine'
  BY <1>2 DEF TornLine
<1> QED
  BY <1>7, <1>8, <1>9, <1>10 DEF Basic

LEMMA CrashBasic ==
  ASSUME Basic, NEW w \in Writers, CrashInAppend(w)
  PROVE  Basic'
<1> DEFINE r == writing[w]
<1>1. TypeOK /\ OwnAttempts /\ KnownLines /\ TornLine
  BY DEF Basic
<1>2. /\ r # 0 /\ writing' = [writing EXCEPT ![w] = 0] /\ crashes' = crashes + 1
      /\ UNCHANGED <<attempts, tampers, raced, forged>>
  BY DEF CrashInAppend
<1>3. r \in DOMAIN attempts /\ Entry(w) = attempts[r].entry
      /\ ~attempts[r].returned /\ \A v \in Writers : writing[v] = r => v = w
  BY <1>1, <1>2 DEF OwnAttempts, Entry
<1>4. writing'[w] = 0 /\ \A u \in Writers \ {w} : writing'[u] = writing[u]
  BY <1>1, <1>2 DEF TypeOK
<1>5. AttemptsKept
  BY <1>2 DEF AttemptsKept
<1>6. OwnAttempts'
  BY <1>1, <1>2, <1>4 DEF OwnAttempts
<1>7. \A e : Abandoned(e) => Abandoned(e)'
  <2> SUFFICES ASSUME NEW e, NEW q \in DOMAIN attempts, e = attempts[q].entry,
                      ~attempts[q].returned, \A u \in Writers : writing[u] # q
               PROVE  Abandoned(e)'
    BY DEF Abandoned
  <2>1. \A u \in Writers : writing'[u] # q
    BY <1>4, SeqFacts, <1>1 DEF TypeOK
  <2> QED
    BY <1>2, <2>1 DEF Abandoned
<1>8. CASE UNCHANGED <<log, torn>>
  <2>1. TypeOK'
    BY <1>1, <1>2, <1>8 DEF TypeOK
  <2>2. KnownLines'
    BY <1>1, <1>2, <1>5, <1>8, StillKnown DEF KnownLines, ForgedKept
  <2>3. TornLine'
    BY <1>1, <1>2, <1>7, <1>8 DEF TornLine, TypeOK
  <2> QED
    BY <1>6, <2>1, <2>2, <2>3 DEF Basic
<1>9. ASSUME NEW line \in {Garbage, Entry(w)}, log' = Appended(line), torn' = TRUE
      PROVE  Basic'
  <2>1. IsLine(line) /\ KnownLine(line)
    BY <1>1, <1>3, <1>9, AttemptEntry, GarbageIsLine DEF KnownLine
  <2>2. IsLog(log') /\ KnownLines'
    BY <1>1, <1>2, <1>5, <1>9, <2>1, AppendedFacts, AppendedKnown DEF ForgedKept
  <2>3. TypeOK'
    BY <1>1, <1>2, <1>9, <2>2 DEF TypeOK
  <2>4. Len(log') > 0 /\ (log'[Len(log')] = Garbage \/ log'[Len(log')] = line)
    <3>1. CASE torn
      BY <1>1, <1>9, <2>1, <3>1, AppendedFacts DEF TornLine
    <3>2. CASE ~torn
      <4>1. log' = Append(log, line)
        BY <1>1, <1>9, <2>1, <3>2, AppendedFacts
      <4>2. IsSeq(log) /\ Len(log) \in Nat
        BY <1>1, SeqFacts DEF TypeOK, IsLog
      <4>3. Len(log') = Len(log) + 1 /\ log'[Len(log) + 1] = line
        BY <4>1, <4>2, AppendFacts
      <4> QED
        BY <4>2, <4>3
    <3> QED
      BY <3>1, <3>2
  <2>5. line = Garbage \/ Abandoned(line)'
    <3>1. \A u \in Writers : writing'[u] # r
      BY <1>2, <1>3, <1>4
    <3>2. line = Entry(w) => Abandoned(line)'
      BY <1>2, <1>3, <3>1 DEF Abandoned
    <3> QED
      BY <3>2
  <2>6. TornLine'
    BY <1>1, <1>2, <1>9, <2>4, <2>5 DEF TornLine, TypeOK
  <2> QED
    BY <1>6, <2>2, <2>3, <2>6 DEF Basic
<1> QED
  BY <1>8, <1>9 DEF CrashInAppend

LEMMA TamperBasic ==
  ASSUME Basic, Tamper
  PROVE  Basic'
<1>1. TypeOK /\ OwnAttempts /\ KnownLines /\ TornLine
  BY DEF Basic
<1>2. UNCHANGED <<torn, writing, attempts, crashes, raced>> /\ tampers' = tampers + 1
      /\ ~torn
  BY DEF Tamper
<1>3. /\ IsLog(log') /\ ForgedKept /\ forged' \in BOOLEAN
      /\ ~forged' => \A j \in DOMAIN log' : \E i \in DOMAIN log :
                         log'[j] = log[i] \/ log'[j] = Changed(log[i])
  BY <1>1, TamperFacts
<1>4. TypeOK'
  BY <1>1, <1>2, <1>3 DEF TypeOK
<1>5. OwnAttempts' /\ TornLine'
  BY <1>1, <1>2 DEF OwnAttempts, TornLine
<1>6. ASSUME NEW e, KnownLine(e) PROVE KnownLine(Changed(e))
  <2>0. CASE forged
    BY <2>0 DEF KnownLine
  <2>1. CASE e = Garbage
    BY <2>1 DEF Garbage, Changed, KnownLine
  <2>2. CASE \E r \in DOMAIN attempts :
                 e \in {attempts[r].entry, Changed(attempts[r].entry)}
    <3>1. PICK r \in DOMAIN attempts :
                 e \in {attempts[r].entry, Changed(attempts[r].entry)}
      BY <2>2
    <3>2. IsLine(attempts[r].entry)
      BY <1>1, AttemptEntry
    <3>3. Changed(e) = Changed(attempts[r].entry)
      BY <3>1, <3>2, ChangedFields
    <3> QED
      BY <3>3 DEF KnownLine
  <2> QED
    BY <1>6, <2>0, <2>1, <2>2 DEF KnownLine
<1>7. KnownLines'
  <2> SUFFICES ASSUME ~forged', NEW j \in DOMAIN log' PROVE KnownLine(log'[j])
    BY <1>2, <1>3 DEF KnownLines, KnownLine, ForgedKept
  <2>1. PICK i \in DOMAIN log : log'[j] = log[i] \/ log'[j] = Changed(log[i])
    BY <1>3
  <2>2. KnownLine(log[i]) /\ KnownLine(Changed(log[i]))
    BY <1>1, <1>6 DEF KnownLines
  <2> QED
    BY <2>1, <2>2
<1> QED
  BY <1>4, <1>5, <1>7 DEF Basic

-----------------------------------------------------------------------------
(* The chain. *)

(* What verify() demands of one line. *)
Linked(s, i) ==
    /\ s[i] # Garbage
    /\ s[i].seq = i - 1
    /\ s[i].prev_hash = IF i = 1 THEN <<>> ELSE s[i - 1].entry_hash
    /\ s[i].entry_hash = compute_hash(s[i].seq, s[i].run, s[i].prev_hash)

LEMMA VerifyLinked ==
  ASSUME NEW s
  PROVE  verify(s) <=> \A i \in DOMAIN s : Linked(s, i)
BY DEF verify, Linked

(* A sound chain stays sound with the entry record() builds on it. *)
LEMMA VerifyGrows ==
  ASSUME NEW s, IsLog(s), verify(s), NEW run \in Nat \ {0}
  PROVE  verify(Append(s, EntryAfter(s, run)))
<1> DEFINE e == EntryAfter(s, run)
           t == Append(s, e)
           n == Len(s)
<1>1. IsSeq(s) /\ n \in Nat /\ DOMAIN s = 1..n /\ (s = <<>>) = (n = 0)
  BY SeqFacts DEF IsLog
<1>2. DOMAIN t = 1..(n + 1) /\ t[n + 1] = e /\ \A i \in 1..n : t[i] = s[i]
  BY <1>1, AppendFacts
<1>3. \A i \in 1..n : Linked(s, i)
  BY <1>1, VerifyLinked
<1>4. /\ e.run = run
      /\ e.seq = IF EndsWell(s) THEN s[n].seq + 1 ELSE 0
      /\ e.prev_hash = IF EndsWell(s) THEN s[n].entry_hash ELSE <<>>
      /\ e.entry_hash = compute_hash(e.seq, e.run, e.prev_hash)
  BY EntryFields
<1> HIDE DEF e, t, n
<1>5. EndsWell(s) <=> n # 0
  BY <1>1, <1>3 DEF EndsWell, Linked, n
<1>6. ASSUME NEW i \in 1..n PROVE Linked(t, i)
  <2>1. t[i] = s[i] /\ (i # 1 => t[i - 1] = s[i - 1])
    BY <1>1, <1>2
  <2> QED
    BY <1>3, <2>1 DEF Linked
<1>7. Linked(t, n + 1)
  <2>1. e # Garbage
    BY <1>4, GarbageIsLine
  <2>2. CASE n = 0
    BY <1>2, <1>4, <1>5, <2>1, <2>2 DEF Linked
  <2>3. CASE n # 0
    <3>1. n \in 1..n /\ t[n] = s[n] /\ s[n].seq = n - 1
      BY <1>1, <1>2, <1>3, <2>3 DEF Linked
    <3> QED
      BY <1>1, <1>2, <1>4, <1>5, <2>1, <2>3, <3>1 DEF Linked
  <2> QED
    BY <2>2, <2>3
<1>8. \A i \in 1..(n + 1) : i \in 1..n \/ i = n + 1
  BY <1>1
<1>9. \A i \in DOMAIN t : Linked(t, i)
  BY <1>2, <1>6, <1>7, <1>8
<1> QED
  BY <1>9, VerifyLinked DEF t, e

(* A broken chain stays broken, whatever is appended to it. *)
LEMMA VerifyStaysFalse ==
  ASSUME TypeOK, TornLine, NEW line, IsLine(line), ~verify(log)
  PROVE  ~verify(Appended(line))
<1>1. IsSeq(log) /\ Len(log) \in Nat /\ DOMAIN log = 1..Len(log)
  BY SeqFacts DEF TypeOK, IsLog
<1>2. CASE torn
  <2>1. Len(log) \in DOMAIN Appended(line) /\ Appended(line)[Len(log)] = Garbage
    BY <1>2, AppendedFacts
  <2> QED
    BY <2>1, VerifyLinked DEF Linked
<1>3. CASE ~torn
  <2> DEFINE t == Append(log, line)
  <2>1. Appended(line) = t
    BY <1>3, AppendedFacts
  <2>2. DOMAIN t = 1..(Len(log) + 1) /\ \A i \in DOMAIN log : t[i] = log[i]
    BY <1>1, AppendFacts
  <2> HIDE DEF t
  <2>3. PICK i \in DOMAIN log : ~Linked(log, i)
    BY VerifyLinked
  <2>4. i \in DOMAIN t /\ t[i] = log[i] /\ (i # 1 => t[i - 1] = log[i - 1])
    BY <1>1, <2>2
  <2>5. ~Linked(t, i)
    BY <2>3, <2>4 DEF Linked
  <2> QED
    BY <2>1, <2>4, <2>5, VerifyLinked
<1> QED
  BY <1>2, <1>3

LEMMA Least ==
  ASSUME NEW S, S \subseteq Nat, S # {}
  PROVE  \E x \in S : \A y \in S : x <= y
<1>1. OpToRel(<, Nat) = {ss \in Nat \X Nat : ss[1] < ss[2]}
  BY DEF OpToRel
<1>2. PICK x \in S : \A y \in S : ~(<<y, x>> \in OpToRel(<, Nat))
  BY WFMin, NatLessThanWellFounded
<1>3. \A y \in S : x <= y
  <2> TAKE y \in S
  <2>1. y \in Nat /\ x \in Nat
    OBVIOUS
  <2>2. ~(<<y, x>> \in {ss \in Nat \X Nat : ss[1] < ss[2]})
    BY <1>1, <1>2
  <2> QED
    BY <2>1, <2>2
<1> QED
  BY <1>3

(* The hash of an entry determines the entry, *)
LEMMA HashDetermines ==
  ASSUME NEW d, NEW e, IsLine(d), IsLine(e),
         d.entry_hash = compute_hash(d.seq, d.run, d.prev_hash),
         e.entry_hash = compute_hash(e.seq, e.run, e.prev_hash),
         d.entry_hash = e.entry_hash
  PROVE  d = e
<1>1. d.seq = e.seq /\ d.run = e.run /\ d.prev_hash = e.prev_hash
  BY DEF compute_hash
<1> QED
  BY <1>1 DEF IsLine

(* and through the links all entries before it: were there a difference,    *)
(* the last one could not be.                                               *)
LEMMA SameChain ==
  ASSUME NEW s, NEW t, IsLog(s), IsLog(t), verify(s), verify(t),
         NEW n \in Nat, n <= Len(s), n <= Len(t),
         n # 0 => s[n].entry_hash = t[n].entry_hash
  PROVE  \A j \in 1..n : s[j] = t[j]
<1> DEFINE D == {k \in Nat : k < n /\ s[n - k] # t[n - k]}
<1>1. /\ Len(s) \in Nat /\ DOMAIN s = 1..Len(s) /\ Len(t) \in Nat
      /\ DOMAIN t = 1..Len(t)
  BY SeqFacts DEF IsLog
<1>2. \A j \in 1..n : /\ j \in DOMAIN s /\ j \in DOMAIN t
                      /\ Linked(s, j) /\ Linked(t, j) /\ IsLine(s[j]) /\ IsLine(t[j])
  BY <1>1, VerifyLinked DEF IsLog
<1>3. \A j \in 1..n : s[j].entry_hash = t[j].entry_hash => s[j] = t[j]
  BY <1>2, HashDetermines DEF Linked
<1>4. ASSUME D # {} PROVE FALSE
  <2>1. PICK k \in D : \A y \in D : k <= y
    BY <1>4, Least
  <2>2. k \in Nat /\ k < n /\ s[n - k] # t[n - k] /\ n - k \in 1..n
    BY <2>1
  <2>3. CASE k = 0
    BY <1>3, <2>2, <2>3
  <2>4. CASE k # 0
    <3>1. k - 1 \in Nat /\ k - 1 < n /\ ~(k <= k - 1)
      BY <2>2, <2>4
    <3>2. k - 1 \notin D
      BY <2>1, <3>1
    <3>3. s[n - (k - 1)] = t[n - (k - 1)] /\ n - (k - 1) = (n - k) + 1
      BY <2>2, <3>1, <3>2
    <3> DEFINE j == n - k
    <3>4. j \in 1..n /\ j + 1 \in 1..n /\ j + 1 # 1 /\ (j + 1) - 1 = j
      BY <2>2, <2>4
    <3>5. s[j + 1].prev_hash = s[j].entry_hash /\ t[j + 1].prev_hash = t[j].entry_hash
      <4> HIDE DEF j
      <4>1. Linked(s, j + 1) /\ Linked(t, j + 1)
        BY <1>2, <3>4
      <4> QED
        BY <3>4, <4>1 DEF Linked
    <3> QED
      BY <1>3, <2>2, <3>3, <3>4, <3>5
  <2> QED
    BY <2>3, <2>4
<1> SUFFICES ASSUME NEW j \in 1..n PROVE s[j] = t[j]
  OBVIOUS
<1>5. n - j \in Nat /\ n - j < n /\ n - (n - j) = j
  OBVIOUS
<1>6. n - j \notin D
  BY <1>4
<1> QED
  BY <1>5, <1>6

-----------------------------------------------------------------------------
(* Entries that are in the log, and entries that are missing. *)

LEMMA FiniteAttempts ==
  ASSUME TypeOK, NEW S, S \subseteq DOMAIN attempts
  PROVE  IsFiniteSet(S) /\ Cardinality(S) \in Nat
<1>1. IsFiniteSet(DOMAIN attempts)
  BY SeqFacts, FS_Interval DEF TypeOK
<1> QED
  BY <1>1, FS_Subset, FS_CardinalityType

(* No append removes an entry whose record() returned. *)
LEMMA StaysInLog ==
  ASSUME Basic, NEW line, IsLine(line), log' = Appended(line),
         NEW r \in Returned, InLog(attempts[r].entry)
  PROVE  \E i \in DOMAIN log' : log'[i] = attempts[r].entry
<1>1. TypeOK /\ TornLine /\ r \in DOMAIN attempts /\ attempts[r].returned
  BY DEF Basic, Returned
<1>2. PICK i \in DOMAIN log : log[i] = attempts[r].entry
  BY DEF InLog
<1>3. CASE torn
  <2>1. i # Len(log)
    <3> SUFFICES ASSUME i = Len(log) PROVE FALSE
      OBVIOUS
    <3>1. log[i] # Garbage
      BY <1>1, <1>2, AttemptEntry
    <3>2. PICK q \in DOMAIN attempts : log[i] = attempts[q].entry /\ ~attempts[q].returned
      BY <1>1, <1>3, <3>1 DEF TornLine, Abandoned
    <3>3. attempts[r].entry.run = r /\ attempts[q].entry.run = q
      BY <1>1, AttemptEntry
    <3>4. q = r
      BY <1>2, <3>2, <3>3
    <3> QED
      BY <1>1, <3>2, <3>4
  <2>2. i \in DOMAIN log' /\ log'[i] = log[i]
    BY <1>1, <1>3, <2>1, AppendedFacts
  <2> QED
    BY <1>2, <2>2
<1>4. CASE ~torn
  <2>1. log' = Append(log, line)
    BY <1>1, <1>4, AppendedFacts
  <2>2. IsSeq(log) /\ Len(log) \in Nat /\ DOMAIN log = 1..Len(log)
    BY <1>1, SeqFacts DEF TypeOK, IsLog
  <2>3. i \in DOMAIN log' /\ log'[i] = log[i]
    BY <2>1, <2>2, AppendFacts
  <2> QED
    BY <1>2, <2>3
<1> QED
  BY <1>3, <1>4

LEMMA PrepareMissing ==
  ASSUME Basic, FewMissing, NEW w \in Writers, Prepare(w)
  PROVE  FewMissing' /\ Returned' = Returned
<1> DEFINE n == Len(attempts) + 1
<1>1. /\ DOMAIN attempts' = DOMAIN attempts \cup {n}
      /\ \A q \in DOMAIN attempts : attempts'[q] = attempts[q]
      /\ attempts'[n].returned = FALSE
  BY PrepareFacts DEF Basic
<1> HIDE DEF n
<1>2. UNCHANGED <<log, torn, crashes, tampers>>
  BY DEF Prepare
<1>3. Returned' = Returned
  BY <1>1 DEF Returned
<1>4. Missing' = Missing
  <2>1. \A r \in Returned : attempts'[r] = attempts[r]
    BY <1>1 DEF Returned
  <2> QED
    BY <1>2, <1>3, <2>1 DEF Missing, InLog
<1> QED
  BY <1>2, <1>3, <1>4 DEF FewMissing

LEMMA AppendMissing ==
  ASSUME Basic, FewMissing, NEW w \in Writers, AppendEntry(w)
  PROVE  /\ FewMissing'
         /\ writing[w] \in DOMAIN attempts /\ writing[w] \notin Returned
         /\ Returned' = Returned \cup {writing[w]}
<1> DEFINE r == writing[w]
<1>1. TypeOK /\ OwnAttempts /\ TornLine
  BY DEF Basic
<1>2. /\ r # 0 /\ log' = Appended(Entry(w)) /\ torn' = FALSE
      /\ attempts' = [attempts EXCEPT ![r].returned = TRUE]
      /\ UNCHANGED <<crashes, tampers>>
  BY DEF AppendEntry
<1>3. r \in DOMAIN attempts /\ ~attempts[r].returned /\ Entry(w) = attempts[r].entry
  BY <1>1, <1>2 DEF OwnAttempts, Entry
<1>4. /\ DOMAIN attempts' = DOMAIN attempts /\ AttemptsKept
      /\ attempts'[r].returned = TRUE
      /\ \A q \in DOMAIN attempts \ {r} : attempts'[q].returned = attempts[q].returned
  BY <1>1, <1>2, <1>3, ReturnFacts
<1>5. IsLine(Entry(w))
  BY <1>1, <1>3, AttemptEntry
<1>6. Returned' = Returned \cup {r} /\ r \notin Returned
  BY <1>3, <1>4 DEF Returned
<1>7. Missing' \subseteq Missing \cup {r}
  <2> SUFFICES ASSUME NEW q \in Missing', q # r PROVE q \in Missing
    OBVIOUS
  <2>1. q \in Returned /\ q \in DOMAIN attempts
    BY <1>6 DEF Missing, Returned
  <2>2. attempts'[q].entry = attempts[q].entry
    BY <1>4, <2>1 DEF AttemptsKept
  <2>3. \A i \in DOMAIN log' : log'[i] # attempts[q].entry
    BY <2>2 DEF Missing, InLog
  <2>4. ~InLog(attempts[q].entry)
    BY <1>2, <1>5, <2>1, <2>3, StaysInLog
  <2> QED
    BY <2>1, <2>4 DEF Missing
<1>8. ~torn => r \notin Missing'
  <2> SUFFICES ASSUME ~torn PROVE \E i \in DOMAIN log' : log'[i] = attempts'[r].entry
    BY DEF Missing, InLog
  <2>1. log' = Append(log, attempts[r].entry)
    BY <1>1, <1>2, <1>3, <1>5, AppendedFacts
  <2>2. IsSeq(log) /\ Len(log) \in Nat
    BY <1>1, SeqFacts DEF TypeOK, IsLog
  <2>3. Len(log) + 1 \in DOMAIN log' /\ log'[Len(log) + 1] = attempts[r].entry
    BY <2>1, <2>2, AppendFacts
  <2>4. \E i \in DOMAIN log' : log'[i] = attempts[r].entry
    BY <2>3
  <2> QED
    BY <1>3, <1>4, <2>4 DEF AttemptsKept
<1>9. FewMissing'
  <2> SUFFICES ASSUME tampers = 0
               PROVE  Cardinality(Missing') \in Nat /\ Cardinality(Missing') <= crashes
    <3>1. (IF torn' THEN 1 ELSE 0) = 0
      BY <1>2
    <3> QED
      BY <1>2, <3>1 DEF FewMissing
  <2>1. Cardinality(Missing) + (IF torn THEN 1 ELSE 0) <= crashes
    BY DEF FewMissing
  <2>2. IsFiniteSet(Missing) /\ Cardinality(Missing) \in Nat /\ crashes \in Nat
    BY <1>1, FiniteAttempts DEF Missing, Returned, TypeOK
  <2>3. Missing' \subseteq DOMAIN attempts
    BY <1>4 DEF Missing, Returned
  <2>4. Cardinality(Missing') \in Nat
    BY <1>1, <2>3, FiniteAttempts
  <2>5. CASE torn
    <3>1. /\ IsFiniteSet(Missing \cup {r})
          /\ Cardinality(Missing \cup {r}) = IF r \in Missing THEN Cardinality(Missing)
                                             ELSE Cardinality(Missing) + 1
      BY <2>2, FS_AddElement
    <3>2. Cardinality(Missing') <= Cardinality(Missing \cup {r})
      BY <1>7, <3>1, FS_Subset
    <3> QED
      BY <2>1, <2>2, <2>4, <2>5, <3>1, <3>2
  <2>6. CASE ~torn
    <3>1. Missing' \subseteq Missing
      BY <1>7, <1>8, <2>6
    <3>2. Cardinality(Missing') <= Cardinality(Missing)
      BY <2>2, <3>1, FS_Subset
    <3> QED
      BY <2>1, <2>2, <2>4, <2>6, <3>2
  <2> QED
    BY <1>1, <2>5, <2>6 DEF TypeOK
<1> QED
  BY <1>3, <1>6, <1>9

LEMMA CrashMissing ==
  ASSUME Basic, FewMissing, NEW w \in Writers, CrashInAppend(w)
  PROVE  FewMissing'
<1>1. TypeOK /\ OwnAttempts /\ TornLine
  BY DEF Basic
<1>2. /\ writing[w] # 0 /\ crashes' = crashes + 1 /\ UNCHANGED <<attempts, tampers>>
  BY DEF CrashInAppend
<1>3. IsLine(Entry(w)) /\ IsLine(Garbage)
  BY <1>1, <1>2, AttemptEntry, GarbageIsLine DEF OwnAttempts, Entry
<1>4. Returned' = Returned
  BY <1>2 DEF Returned
<1>5. Missing' \subseteq Missing
  <2>1. CASE log' = log
    BY <1>2, <1>4, <2>1 DEF Missing, InLog
  <2>2. ASSUME NEW line \in {Garbage, Entry(w)}, log' = Appended(line)
        PROVE  Missing' \subseteq Missing
    <3>1. IsLine(line)
      BY <1>3, <2>2
    <3>2. \A q \in Returned : InLog(attempts[q].entry) =>
              \E i \in DOMAIN log' : log'[i] = attempts[q].entry
      BY <2>2, <3>1, StaysInLog
    <3> QED
      BY <1>2, <1>4, <3>2 DEF Missing, InLog
  <2> QED
    BY <2>1, <2>2 DEF CrashInAppend
<1>6. IsFiniteSet(Missing) /\ Cardinality(Missing) \in Nat /\ crashes \in Nat
  BY <1>1, FiniteAttempts DEF Missing, Returned, TypeOK
<1>7. Missing' \subseteq DOMAIN attempts
  BY <1>2 DEF Missing, Returned
<1>8. Cardinality(Missing') <= Cardinality(Missing) /\ Cardinality(Missing') \in Nat
  BY <1>1, <1>5, <1>6, <1>7, FS_Subset, FiniteAttempts
<1> QED
  BY <1>2, <1>6, <1>8 DEF FewMissing

-----------------------------------------------------------------------------
(* Calls that do not overlap, without crashes and edits. *)

LEMMA PrepareOrderly ==
  ASSUME Basic, FewMissing, Orderly, NEW w \in Writers, Prepare(w)
  PROVE  Orderly'
<1> DEFINE n == Len(attempts) + 1
<1> SUFFICES ASSUME ~raced', crashes' = 0, tampers' = 0
             PROVE  /\ verify(log)'
                    /\ Len(log') = Cardinality(Returned')
                    /\ \A v \in Writers : writing'[v] # 0 =>
                           /\ attempts'[writing'[v]].after = log'
                           /\ \A u \in Writers : writing'[u] # 0 => u = v
  BY DEF Orderly
<1>1. ~raced /\ crashes = 0 /\ tampers = 0 /\ log' = log
      /\ (\A v \in Writers : writing[v] = 0) /\ writing' = [writing EXCEPT ![w] = n]
  BY DEF Prepare
<1>2. verify(log) /\ Len(log) = Cardinality(Returned)
  BY <1>1 DEF Orderly
<1>3. Returned' = Returned
  BY PrepareMissing
<1>4. attempts'[n].after = log
  BY PrepareFacts DEF Basic
<1>5. writing'[w] = n /\ \A v \in Writers \ {w} : writing'[v] = 0
  BY <1>1 DEF Basic, TypeOK
<1>6. verify(log)'
  BY <1>1, <1>2 DEF verify
<1> HIDE DEF n
<1> QED
  BY <1>1, <1>2, <1>3, <1>4, <1>5, <1>6

LEMMA AppendOrderly ==
  ASSUME Basic, FewMissing, Orderly, NEW w \in Writers, AppendEntry(w)
  PROVE  Orderly'
<1> DEFINE r == writing[w]
<1> SUFFICES ASSUME ~raced, crashes = 0, tampers = 0
             PROVE  /\ verify(log)'
                    /\ Len(log') = Cardinality(Returned')
                    /\ \A v \in Writers : writing'[v] = 0
  BY DEF Orderly, AppendEntry
<1>1. TypeOK /\ OwnAttempts /\ TornLine
  BY DEF Basic
<1>2. /\ r # 0 /\ log' = Appended(Entry(w)) /\ writing' = [writing EXCEPT ![w] = 0]
  BY DEF AppendEntry
<1>3. /\ verify(log) /\ Len(log) = Cardinality(Returned) /\ attempts[r].after = log
      /\ \A v \in Writers : writing[v] # 0 => v = w
  BY <1>2 DEF Orderly
<1>4. r \in DOMAIN attempts /\ r \notin Returned /\ Returned' = Returned \cup {r}
  BY AppendMissing
<1>5. Entry(w) = EntryAfter(log, r) /\ IsLine(Entry(w)) /\ r \in Nat \ {0}
  BY <1>1, <1>3, <1>4, AttemptEntry DEF Entry, TypeOK, IsAttempt
<1>6. ~torn
  BY <1>1 DEF TornLine
<1>7. log' = Append(log, EntryAfter(log, r))
  BY <1>1, <1>2, <1>5, <1>6, AppendedFacts
<1>8. verify(log')
  BY <1>1, <1>3, <1>5, <1>7, VerifyGrows DEF TypeOK
<1>9. Len(log') = Len(log) + 1
  BY <1>1, <1>7, AppendFacts DEF TypeOK, IsLog
<1>10. Cardinality(Returned') = Cardinality(Returned) + 1
  <2>1. IsFiniteSet(Returned)
    BY <1>1, FiniteAttempts DEF Returned
  <2> QED
    BY <1>4, <2>1, FS_AddElement
<1>11. \A v \in Writers : writing'[v] = 0
  BY <1>1, <1>2, <1>3 DEF TypeOK
<1>12. verify(log)'
  BY <1>8 DEF verify
<1> QED
  BY <1>3, <1>9, <1>10, <1>11, <1>12

-----------------------------------------------------------------------------
IInv == Basic /\ FewMissing /\ Orderly

LEMMA Initially == Init => IInv
<1> SUFFICES ASSUME Init PROVE IInv
  OBVIOUS
<1> USE DEF Init
<1>1. IsSeq(<<>>) /\ DOMAIN <<>> = {} /\ Len(<<>>) = 0
  BY DEF IsSeq
<1>2. Basic
  BY <1>1 DEF Basic, TypeOK, IsLog, OwnAttempts, KnownLines, TornLine
<1>3. Returned = {} /\ Missing = {}
  BY <1>1 DEF Returned, Missing
<1>4. FewMissing /\ Orderly
  BY <1>1, <1>3, FS_EmptySet DEF FewMissing, Orderly, verify
<1> QED
  BY <1>2, <1>4 DEF IInv

LEMMA Preserved == IInv /\ [Next]_vars => IInv'
<1> SUFFICES ASSUME IInv, [Next]_vars PROVE IInv'
  OBVIOUS
<1>1. CASE UNCHANGED vars
  <2>1. Basic'
    BY <1>1 DEF IInv, vars, Basic, TypeOK, OwnAttempts, KnownLines, KnownLine, TornLine,
       Abandoned
  <2>2. FewMissing' /\ Orderly'
    BY <1>1 DEF IInv, vars, FewMissing, Orderly, Missing, Returned, InLog, verify
  <2> QED
    BY <2>1, <2>2 DEF IInv
<1>2. ASSUME NEW w \in Writers, Prepare(w) PROVE IInv'
  BY <1>2, PrepareBasic, PrepareMissing, PrepareOrderly DEF IInv
<1>3. ASSUME NEW w \in Writers, AppendEntry(w) PROVE IInv'
  BY <1>3, AppendBasic, AppendMissing, AppendOrderly DEF IInv
<1>4. ASSUME NEW w \in Writers, CrashInAppend(w) PROVE IInv'
  <2>1. crashes' # 0
    BY <1>4 DEF CrashInAppend, IInv, Basic, TypeOK
  <2> QED
    BY <1>4, <2>1, CrashBasic, CrashMissing DEF IInv, Orderly
<1>5. CASE Tamper
  <2>1. tampers' # 0
    BY <1>5 DEF Tamper, IInv, Basic, TypeOK
  <2> QED
    BY <1>5, <2>1, TamperBasic DEF IInv, Orderly, FewMissing
<1> QED
  BY <1>1, <1>2, <1>3, <1>4, <1>5 DEF Next

LEMMA Invariance == Spec => []IInv
BY Initially, Preserved, PTL DEF Spec

(* Racing writers lose nothing: an entry whose record() returned is in the  *)
(* file, except for at most one per append that was cut short.              *)
THEOREM NothingLost == Spec => []NoEntryLost
<1>1. IInv => NoEntryLost
  <2> SUFFICES ASSUME IInv, tampers = 0 PROVE Cardinality(Missing) <= crashes
    BY DEF NoEntryLost, Missing, Returned, InLog
  <2>1. Cardinality(Missing) + (IF torn THEN 1 ELSE 0) <= crashes
    BY DEF IInv, FewMissing
  <2>2. Cardinality(Missing) \in Nat /\ crashes \in Nat
    BY FiniteAttempts DEF IInv, Basic, TypeOK, Missing, Returned
  <2> QED
    BY <2>1, <2>2
<1> QED
  BY <1>1, Invariance, PTL

(* "assert log.verify() is True": record() calls that do not overlap keep   *)
(* the chain sound, with one line per call.                                 *)
THEOREM SequentialCorrect == Spec => []SequentialLogVerifies
<1>1. IInv => SequentialLogVerifies
  BY DEF IInv, Orderly, SequentialLogVerifies, Returned
<1> QED
  BY <1>1, Invariance, PTL

(* No later record(), cut short or not, makes a broken chain verify again.  *)
THEOREM BreakCorrect == Spec => BreakIsPermanent
<1> DEFINE A == ~verify(log) /\ tampers' = tampers => ~verify(log')
<1>1. IInv /\ [Next]_vars => [A]_vars
  <2> SUFFICES ASSUME IInv, Next, ~verify(log), tampers' = tampers PROVE ~verify(log')
    OBVIOUS
  <2>1. TypeOK /\ OwnAttempts /\ TornLine
    BY DEF IInv, Basic
  <2>2. CASE log' = log
    BY <2>2 DEF verify
  <2>3. ASSUME NEW w \in Writers, writing[w] # 0, NEW line \in {Garbage, Entry(w)},
               log' = Appended(line)
        PROVE  ~verify(log')
    <3>1. IsLine(line)
      BY <2>1, <2>3, AttemptEntry, GarbageIsLine DEF OwnAttempts, Entry
    <3> QED
      BY <2>1, <2>3, <3>1, VerifyStaysFalse
  <2>4. ~Tamper
    BY <2>1 DEF Tamper, TypeOK
  <2> QED
    BY <2>2, <2>3, <2>4 DEF Next, Prepare, AppendEntry, CrashInAppend
<1> QED
  BY <1>1, Invariance, PTL DEF Spec, BreakIsPermanent

(* A log that verifies and has the hash of an entry record() built has that *)
(* entry, after exactly the lines that its record() call had read, whatever *)
(* was edited and forged: equal hashes have equal pasts.  Unless hashes     *)
(* were computed anew it has no other entries (verify).                     *)
THEOREM VouchingCorrect == Spec => []HashVouchesForPast
<1>1. ASSUME IInv, verify(log), NEW i \in DOMAIN log, NEW r \in DOMAIN attempts,
             log[i].entry_hash = attempts[r].entry.entry_hash
      PROVE  /\ log[i] = attempts[r].entry
             /\ verify(attempts[r].after)
                => SubSeq(log, 1, i - 1) = attempts[r].after
  <2>1. TypeOK /\ IsLog(log) /\ IsSeq(log) /\ DOMAIN log = 1..Len(log)
        /\ Len(log) \in Nat
    BY <1>1, SeqFacts DEF IInv, Basic, TypeOK, IsLog
  <2>2. \A j \in DOMAIN log : Linked(log, j)
    BY <1>1, VerifyLinked
  <2>3. log[i] = attempts[r].entry
    <3>1. PICK d : d = log[i]
      OBVIOUS
    <3>2. PICK e : e = attempts[r].entry
      OBVIOUS
    <3>3. IsLine(d) /\ d.entry_hash = compute_hash(d.seq, d.run, d.prev_hash)
      BY <1>1, <2>1, <2>2, <3>1 DEF IsLog, Linked
    <3>4. IsLine(e) /\ e.entry_hash = compute_hash(e.seq, e.run, e.prev_hash)
      BY <1>1, <2>1, <3>2, AttemptEntry, EntryFields DEF TypeOK, IsAttempt
    <3>5. d.entry_hash = e.entry_hash
      BY <1>1, <3>1, <3>2
    <3>6. d = e
      BY <3>3, <3>4, <3>5, HashDetermines
    <3> QED
      BY <3>1, <3>2, <3>6
  <2>4. ASSUME verify(attempts[r].after)
        PROVE  SubSeq(log, 1, i - 1) = attempts[r].after
    <3> DEFINE t == attempts[r].after
               e == attempts[r].entry
               n == Len(t)
    <3>1. IsLog(t) /\ e = EntryAfter(t, r)
      BY <2>1 DEF TypeOK, IsAttempt
    <3>2. IsSeq(t) /\ n \in Nat /\ DOMAIN t = 1..n /\ (t = <<>>) = (n = 0)
      BY <3>1, SeqFacts DEF IsLog
    <3>3. \A j \in 1..n : Linked(t, j)
      BY <2>4, <3>2, VerifyLinked
    <3>4. EndsWell(t) <=> n # 0
      BY <3>2, <3>3 DEF EndsWell, Linked
    <3>5. /\ e.seq = IF EndsWell(t) THEN t[n].seq + 1 ELSE 0
          /\ e.prev_hash = IF EndsWell(t) THEN t[n].entry_hash ELSE <<>>
      BY <3>1, EntryFields
    <3>6. Linked(log, i) /\ log[i] = e
      BY <2>2, <2>3
    <3> HIDE DEF t, e, n
    <3>7. n = i - 1
      <4>1. CASE n = 0
        BY <2>1, <3>4, <3>5, <3>6, <4>1 DEF Linked
      <4>2. CASE n # 0
        <5>1. n \in 1..n /\ t[n].seq = n - 1
          BY <3>2, <3>3, <4>2 DEF Linked
        <5> QED
          BY <2>1, <3>2, <3>4, <3>5, <3>6, <4>2, <5>1 DEF Linked
      <4> QED
        BY <4>1, <4>2
    <3>8. n # 0 => log[n].entry_hash = t[n].entry_hash
      BY <2>1, <3>2, <3>4, <3>5, <3>6, <3>7 DEF Linked
    <3>9. n <= Len(log) /\ n <= Len(t)
      BY <2>1, <3>2, <3>7 DEF n
    <3>10. \A j \in 1..n : log[j] = t[j]
      BY <1>1, <2>1, <2>4, <3>1, <3>2, <3>8, <3>9, SameChain DEF t
    <3>11. SubSeq(log, 1, n) = t
      <4> DEFINE S == {log[j] : j \in DOMAIN log}
                 T == {t[j] : j \in DOMAIN t}
      <4>1. log \in Seq(S) /\ t \in Seq(T)
        BY <2>1, <3>2 DEF IsSeq
      <4> HIDE DEF S, T
      <4>2. SubSeq(log, 1, n) = [j \in 1..n |-> log[j]]
        BY <2>1, <3>2, <3>9, <4>1
      <4>3. t = [j \in 1..n |-> t[j]]
        BY <3>2, <4>1 DEF n
      <4> QED
        BY <3>10, <4>2, <4>3
    <3> QED
      BY <3>7, <3>11 DEF t
  <2> QED
    BY <2>3, <2>4
<1>2. ASSUME IInv, verify(log), ~forged, NEW i \in DOMAIN log
      PROVE  \E r \in DOMAIN attempts : log[i] = attempts[r].entry
  <2>1. TypeOK /\ KnownLines
    BY <1>2 DEF IInv, Basic
  <2>2. Linked(log, i)
    BY <1>2, VerifyLinked
  <2>3. log[i] # Garbage
    BY <2>2 DEF Linked
  <2>4. PICK r \in DOMAIN attempts :
            log[i] \in {attempts[r].entry, Changed(attempts[r].entry)}
    BY <1>2, <2>1, <2>3 DEF KnownLines, KnownLine
  <2> DEFINE e == attempts[r].entry
  <2>5. IsLine(e) /\ e.run = r /\ r # 0 /\ e.entry_hash = compute_hash(e.seq, r, e.prev_hash)
    BY <2>1, AttemptEntry, EntryFields DEF TypeOK, IsAttempt
  <2> HIDE DEF e
  <2>6. ASSUME log[i] = Changed(e) PROVE FALSE
    <3>1. log[i].run = 0 /\ log[i].entry_hash = e.entry_hash
      BY <2>5, <2>6, ChangedFields
    <3>2. log[i].entry_hash = compute_hash(log[i].seq, log[i].run, log[i].prev_hash)
      BY <2>2 DEF Linked
    <3> QED
      BY <2>5, <3>1, <3>2 DEF compute_hash
  <2> QED
    BY <2>4, <2>6 DEF e
<1>3. IInv => HashVouchesForPast
  BY <1>1, <1>2 DEF HashVouchesForPast
<1> QED
  BY <1>3, Invariance, PTL

(* "Any tampering with an entry breaks the chain at that point" is not so:  *)
(* the last entry of a log that verifies may be replaced by any other, with *)
(* its hash computed anew, and the log verifies as before (compute_hash,    *)
(* verify).                                                                 *)
THEOREM ForgeryPasses ==
  ASSUME TypeOK, verify(log), log # <<>>, NEW run \in Nat,
         log' = [log EXCEPT ![Len(log)] = Forged(Len(log), run)]
  PROVE  verify(log')
<1> DEFINE n == Len(log)
<1>1. n \in Nat \ {0} /\ DOMAIN log = 1..n /\ \A i \in DOMAIN log : Linked(log, i)
  BY SeqFacts, VerifyLinked DEF TypeOK, IsLog
<1>2. /\ DOMAIN log' = 1..n /\ log'[n] = Forged(n, run)
      /\ \A i \in 1..n : i # n => log'[i] = log[i]
  BY <1>1
<1>3. LET f == Forged(n, run) IN
      /\ f.seq = n - 1 /\ f.run = run
      /\ f.prev_hash = IF n = 1 THEN <<>> ELSE log[n - 1].entry_hash
      /\ f.entry_hash = compute_hash(f.seq, f.run, f.prev_hash)
      /\ f # Garbage
  <2>1. n - 1 # -1
    BY <1>1
  <2> HIDE DEF n
  <2> QED
    BY <2>1 DEF Forged, Garbage
<1> HIDE DEF n
<1>4. ASSUME NEW i \in 1..n PROVE Linked(log', i)
  <2>1. i # 1 => log'[i - 1] = log[i - 1]
    BY <1>1, <1>2
  <2>2. CASE i = n
    BY <1>2, <1>3, <2>1, <2>2 DEF Linked
  <2>3. CASE i # n
    <3>1. log'[i] = log[i] /\ Linked(log, i)
      BY <1>1, <1>2, <2>3
    <3> QED
      BY <2>1, <3>1 DEF Linked
  <2> QED
    BY <2>2, <2>3
<1> QED
  BY <1>2, <1>4, VerifyLinked
=============================================================================
