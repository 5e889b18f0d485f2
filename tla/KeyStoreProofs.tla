--------------------------- MODULE KeyStoreProofs ---------------------------
(***************************************************************************)
(* Proofs about the keystore, for every number of keys, processes and      *)
(* crashes.  The inductive invariant has four parts:                       *)
(*                                                                         *)
(*   Shape   what a process has still to save, at each of its steps;       *)
(*   Alone   what holds of the files while no two calls have overlapped;   *)
(*   Kept    the key active.json names is stored, and a stored key is      *)
(*           active, revoked or garbled, or about to be saved as one;      *)
(*   Lost    how many files cannot be read, while no calls overlapped.     *)
(***************************************************************************)
EXTENDS KeyStore, FiniteSetTheorems, SequenceTheorems, WellFoundedInduction,
        TLAPS

Contents == Status \cup {"absent", "empty", "garbled"}
Jobs == [key : 0..N, status : Status]
Calls == {"idle", "generate_key", "activate", "rotate", "revoke",
          "get_active_config"}
Steps == {"idle", "find", "load_active", "generate", "load", "glob", "read",
          "open", "write"}

TypeOK ==
    /\ file \in [Keys -> Contents]
    /\ pointer \in 0..N
    /\ call \in [Procs -> Calls]
    /\ pc \in [Procs -> Steps]
    /\ key \in [Procs -> 0..N]
    /\ unread \in [Procs -> SUBSET Keys]
    /\ saves \in [Procs -> Seq(Jobs)]
    /\ outcome \in [Procs -> {"none", "returned", "raised"}]
    /\ crashes \in Nat
    /\ overlap \in BOOLEAN
    /\ revoked \in SUBSET Keys

-----------------------------------------------------------------------------
(* The saves an activation of k makes: other keys are retired, k is made    *)
(* active, and active.json is written last.                                 *)
Retirements(s, k) ==
    \A i \in 1..Len(s) : s[i].status = "retired" /\ s[i].key \in Keys \ {k}

Activation(s, k) ==
    /\ Len(s) > 0
    /\ s[Len(s)] = Save(None, "active")
    /\ Len(s) > 1 => s[Len(s) - 1] = Save(k, "active")
    /\ \A i \in 1..(Len(s) - 2) : s[i].status = "retired" /\ s[i].key \in Keys \ {k}

Generating(p) == saves[p] = <<Save(key[p], "active")>>
Revoking(p) == call[p] = "revoke" /\ saves[p] = <<Save(key[p], "revoked")>>
Activating(p) == Activation(saves[p], key[p]) /\ file[key[p]] # "absent"

Shape(p) ==
    /\ pc[p] = "idle" <=> call[p] = "idle"
    /\ pc[p] # "idle" => outcome[p] = "none"
    /\ pc[p] \in {"load_active", "load", "glob", "read", "open", "write"}
       => key[p] \in Keys
    /\ pc[p] \in {"glob", "read"} => file[key[p]] # "absent"
    /\ pc[p] = "read" => unread[p] # {} /\ Retirements(saves[p], key[p])
    /\ pc[p] \in {"open", "write"} => Generating(p) \/ Revoking(p) \/ Activating(p)
    /\ pc[p] \notin {"read", "open", "write"} => saves[p] = <<>>

ToBeRetired(p, k) == \E i \in 1..Len(saves[p]) : saves[p][i] = Save(k, "retired")

(* The file being saved is empty. *)
Emptied(p) ==
    pc[p] = "write" /\ Saving(p).key # None => file[Saving(p).key] = "empty"

(* The key get_active_config has just generated is active. *)
Fresh(p) ==
    pc[p] = "load" /\ call[p] = "get_active_config" => file[key[p]] = "active"

(* When only active.json is left to save, the key itself is active. *)
OwnActive(p) ==
    pc[p] \in {"open", "write"} /\ Saving(p).key = None => file[key[p]] = "active"

(* Every other active key that was read, or that there is, will be retired. *)
Listed(p) ==
    pc[p] = "read" =>
        \A k \in Keys \ ({key[p]} \cup unread[p]) :
            file[k] = "active" => ToBeRetired(p, k)
Exclusive(p) ==
    pc[p] \in {"open", "write"} /\ Activation(saves[p], key[p]) =>
        \A k \in Keys \ {key[p]} : file[k] = "active" => ToBeRetired(p, k)

(* No revoked key will be retired. *)
RevokedSpared(p) == \A k \in revoked : ~ToBeRetired(p, k)

Alone(p) ==
    Emptied(p) /\ Fresh(p) /\ OwnActive(p) /\ Listed(p) /\ Exclusive(p)
    /\ RevokedSpared(p)

OneAtATime ==
    \A p, q \in Procs : pc[p] # "idle" /\ pc[q] # "idle" => p = q

AloneInv ==
    ~overlap => /\ OneAtATime
                /\ \A p \in Procs : Alone(p)
                /\ \A k \in revoked : file[k] \in {"revoked", "empty"}

Unreadable == {k \in Stored : ~Readable(k)}
Lost ==
    ~overlap => Cardinality(Unreadable) <= crashes +
        (IF \E p \in Procs : pc[p] = "write" /\ Saving(p).key # None
         THEN 1 ELSE 0)

(* A process that still has to save a key as active or revoked. *)
Keeps(p) ==
    /\ pc[p] \in {"open", "write"}
    /\ \E i \in 1..Len(saves[p]) : saves[p][i].key # None
                                /\ saves[p][i].status # "retired"

Kept ==
    /\ pointer \in Keys => file[pointer] # "absent"
    /\ crashes = 0 /\ Stored # {} =>
          \/ \E k \in Keys : file[k] \in {"active", "garbled", "revoked"}
          \/ \E p \in Procs : Keeps(p)

ShapeInv == \A p \in Procs : Shape(p)

-----------------------------------------------------------------------------
(* What the proofs use of numbers and sequences. *)

(* A non-empty set of naturals holds its minimum. *)
LEMMA Smallest ==
  ASSUME NEW S, S \subseteq Nat, S # {}
  PROVE  Min(S) \in S
<1>1. OpToRel(<, Nat) = {ss \in Nat \X Nat : ss[1] < ss[2]}
  BY DEF OpToRel
<1>2. PICK x \in S : \A y \in S : ~(<<y, x>> \in OpToRel(<, Nat))
  BY WFMin, NatLessThanWellFounded
<1>3. \A y \in S : x <= y
  <2> TAKE y \in S
  <2>1. y \in Nat /\ x \in Nat
    OBVIOUS
  <2>2. ~(<<y, x>> \in {ss \in Nat \X Nat : ss[1] < ss[2]})
    BY <1>1, <1>2
  <2> QED
    BY <2>1, <2>2
<1> QED
  BY <1>3 DEF Min

LEMMA SmallNumber ==
  ASSUME NEW n \in Nat
  PROVE  /\ n > 0 => n = 1 \/ n = 2 \/ n > 2
         /\ n > 1 => n # 1 /\ (n = 2 \/ n > 2)
         /\ n > 2 => n = 3 \/ n > 3
         /\ ~(n > 1) => n # 2 /\ ~(n > 2)
OBVIOUS

LEMMA SaveType ==
  ASSUME NEW k \in 0..N, NEW s \in Status
  PROVE  Save(k, s) \in Jobs /\ Save(k, s).key = k /\ Save(k, s).status = s
BY DEF Save, Jobs

(* What is left of an activation after a save is an activation. *)
LEMMA ActivationTail ==
  ASSUME NEW s \in Seq(Jobs), NEW k \in Keys, Activation(s, k), Len(s) > 1
  PROVE  Activation(Tail(s), k)
<1>1. Len(Tail(s)) = Len(s) - 1 /\ \A i \in 1..(Len(s) - 1) : Tail(s)[i] = s[i + 1]
  OBVIOUS
<1>2. Tail(s)[Len(Tail(s))] = Save(None, "active")
  BY <1>1 DEF Activation
<1>3. Len(Tail(s)) > 1 => Tail(s)[Len(Tail(s)) - 1] = Save(k, "active")
  BY <1>1 DEF Activation
<1> QED
  BY <1>1, <1>2, <1>3 DEF Activation

(* The retirements, then the key itself and active.json: an activation. *)
LEMMA ActivationMade ==
  ASSUME NEW s \in Seq(Jobs), NEW k \in Keys, Retirements(s, k)
  PROVE  Activation(s \o <<Save(k, "active"), Save(None, "active")>>, k)
<1> DEFINE own == <<Save(k, "active"), Save(None, "active")>>
<1>1. own \in Seq(Jobs) /\ Len(own) = 2
  <2>1. k \in 0..N /\ None \in 0..N /\ "active" \in Status
    BY KeyStoreAssumption DEF Keys, None, Status
  <2>2. Save(k, "active") \in Jobs /\ Save(None, "active") \in Jobs
    BY <2>1, SaveType
  <2> QED
    BY <2>2
<1>2. Len(s \o own) = Len(s) + 2 /\ \A i \in 1..Len(s) : (s \o own)[i] = s[i]
  BY <1>1
<1>3. (s \o own)[Len(s) + 1] = own[1] /\ (s \o own)[Len(s) + 2] = own[2]
  BY <1>1
<1> QED
  BY <1>2, <1>3 DEF Activation, Retirements

(* The next save of a process: a new key, a revocation, or the step an      *)
(* activation is at.                                                        *)
LEMMA NextSave ==
  ASSUME TypeOK, NEW p \in Procs, Shape(p), pc[p] \in {"open", "write"}
  PROVE  /\ saves[p] \in Seq(Jobs) /\ Len(saves[p]) > 0
         /\ Saving(p) = saves[p][1] /\ Saving(p) \in Jobs
         /\ key[p] \in Keys
         /\ \/ Generating(p) /\ Len(saves[p]) = 1 /\ Saving(p) = Save(key[p], "active")
            \/ Revoking(p) /\ Len(saves[p]) = 1 /\ Saving(p) = Save(key[p], "revoked")
            \/ /\ Activating(p) /\ Len(saves[p]) = 1
               /\ Saving(p) = Save(None, "active")
            \/ /\ Activating(p) /\ Len(saves[p]) = 2
               /\ Saving(p) = Save(key[p], "active")
            \/ /\ Activating(p) /\ Len(saves[p]) > 2
               /\ Saving(p).key \in Keys \ {key[p]}
               /\ Saving(p).status = "retired"
<1>1. saves[p] \in Seq(Jobs) /\ key[p] \in Keys
  BY DEF TypeOK, Shape
<1>2. Generating(p) \/ Revoking(p) \/ Activating(p)
  BY DEF Shape
<1>3. CASE Generating(p)
  BY <1>1, <1>3, SaveType DEF Generating, Saving, Keys, Status
<1>4. CASE Revoking(p)
  BY <1>1, <1>4, SaveType DEF Revoking, Saving, Keys, Status
<1>5. CASE Activating(p)
  <2>1. Len(saves[p]) > 0 /\ Saving(p) = saves[p][1] /\ Saving(p) \in Jobs
    BY <1>1, <1>5 DEF Activating, Activation, Saving
  <2>2. Len(saves[p]) = 1 => Saving(p) = Save(None, "active")
    BY <1>5, <2>1 DEF Activating, Activation
  <2>3. Len(saves[p]) = 2 => Saving(p) = Save(key[p], "active")
    BY <1>5, <2>1 DEF Activating, Activation
  <2>4. Len(saves[p]) > 2 => /\ Saving(p).key \in Keys \ {key[p]}
                            /\ Saving(p).status = "retired"
    BY <1>1, <1>5, <2>1 DEF Activating, Activation
  <2>5. Len(saves[p]) = 1 \/ Len(saves[p]) = 2 \/ Len(saves[p]) > 2
    <3>1. Len(saves[p]) \in Nat
      BY <1>1, LenProperties, Zenon
    <3> QED
      BY <2>1, <3>1, SmallNumber, Zenon
  <2>6. CASE Len(saves[p]) = 1
    BY <1>1, <1>5, <2>1, <2>2, <2>6
  <2>7. CASE Len(saves[p]) = 2
    BY <1>1, <1>5, <2>1, <2>3, <2>7
  <2>8. CASE Len(saves[p]) > 2
    BY <1>1, <1>5, <2>1, <2>4, <2>8
  <2> QED
    BY <2>5, <2>6, <2>7, <2>8
<1> QED
  BY <1>2, <1>3, <1>4, <1>5

-----------------------------------------------------------------------------
(* What one process does to its own state, and to what the others see. *)

ProcNext(p) ==
    \/ generate_key(p) \/ activate(p) \/ rotate(p) \/ revoke(p)
    \/ get_active_config(p)
    \/ Step(p)
    \/ Crash(p)

SameProcess(q) ==
    /\ pc'[q] = pc[q] /\ call'[q] = call[q] /\ key'[q] = key[q]
    /\ unread'[q] = unread[q] /\ saves'[q] = saves[q] /\ outcome'[q] = outcome[q]

FilesStay == \A k \in Keys : file[k] # "absent" => file'[k] # "absent"

LocalStep(p) ==
    /\ TypeOK'
    /\ Shape(p)'
    /\ \A q \in Procs \ {p} : SameProcess(q)
    /\ FilesStay

LEMMA BeginLocal ==
  ASSUME TypeOK, NEW p \in Procs, Shape(p),
         NEW c \in Calls \ {"idle"}, NEW k \in 0..N,
         NEW at \in {"find", "generate", "load"}, at = "load" => k \in Keys,
         Begin(p, c, k, at)
  PROVE  LocalStep(p)
<1>1. TypeOK'
  BY DEF TypeOK, Begin, Steps
<1>2. Shape(p)'
  BY DEF TypeOK, Begin, Shape
<1> QED
  BY <1>1, <1>2 DEF TypeOK, Begin, LocalStep, SameProcess, FilesStay

(* A call ends, or its process dies, and no file changes. *)
LEMMA EndLocal ==
  ASSUME TypeOK, NEW p \in Procs, Shape(p),
         NEW how \in {"none", "returned", "raised"}, End(p, how),
         file' \in [Keys -> Contents], FilesStay, pointer' \in 0..N,
         crashes' \in Nat, overlap' = overlap, revoked' \in SUBSET Keys
  PROVE  LocalStep(p)
<1>1. TypeOK'
  <2>1. <<>> \in Seq(Jobs) /\ None \in 0..N /\ {} \in SUBSET Keys
    BY KeyStoreAssumption DEF None
  <2> QED
    BY <2>1 DEF TypeOK, End, Steps, Calls
<1>2. Shape(p)'
  BY DEF TypeOK, End, Shape
<1> QED
  BY <1>1, <1>2 DEF TypeOK, End, LocalStep, SameProcess

LEMMA FindActiveLocal ==
  ASSUME TypeOK, NEW p \in Procs, Shape(p), FindActive(p)
  PROVE  LocalStep(p)
<1>1. TypeOK'
  BY DEF TypeOK, FindActive, GoTo, Steps
<1>2. Shape(p)'
  BY DEF TypeOK, FindActive, GoTo, Shape
<1> QED
  BY <1>1, <1>2 DEF TypeOK, FindActive, GoTo, LocalStep, SameProcess, FilesStay

LEMMA LoadActiveLocal ==
  ASSUME TypeOK, NEW p \in Procs, Shape(p), LoadActive(p)
  PROVE  LocalStep(p)
<1>1. CASE End(p, "returned")
  BY <1>1, EndLocal DEF LoadActive, TypeOK, FilesStay
<1>2. CASE GoTo(p, "generate") /\ UNCHANGED <<key, unread, saves>>
  <2>1. TypeOK'
    BY <1>2 DEF TypeOK, LoadActive, GoTo, Steps
  <2>2. Shape(p)'
    BY <1>2 DEF TypeOK, LoadActive, GoTo, Shape
  <2> QED
    BY <1>2, <2>1, <2>2
    DEF TypeOK, LoadActive, GoTo, LocalStep, SameProcess, FilesStay
<1> QED
  BY <1>1, <1>2 DEF LoadActive

LEMMA GenerateLocal ==
  ASSUME TypeOK, NEW p \in Procs, Shape(p), Generate(p)
  PROVE  LocalStep(p)
<1>1. PICK k \in Keys : /\ key' = [key EXCEPT ![p] = k]
                        /\ saves' = [saves EXCEPT ![p] = <<Save(k, "active")>>]
  BY DEF Generate
<1>2. k \in 0..N /\ <<Save(k, "active")>> \in Seq(Jobs)
  BY SaveType DEF Keys, Status
<1>3. TypeOK'
  BY <1>1, <1>2 DEF TypeOK, Generate, GoTo, Steps
<1>4. Generating(p)'
  BY <1>1 DEF TypeOK, Generating
<1>5. Shape(p)'
  BY <1>1, <1>4 DEF TypeOK, Generate, GoTo, Shape
<1> QED
  BY <1>1, <1>3, <1>5 DEF TypeOK, Generate, GoTo, LocalStep, SameProcess, FilesStay

LEMMA LoadLocal ==
  ASSUME TypeOK, NEW p \in Procs, Shape(p), Load(p)
  PROVE  LocalStep(p)
<1>1. CASE End(p, "raised")
  BY <1>1, EndLocal DEF Load, TypeOK, FilesStay
<1>2. CASE /\ call[p] = "revoke" /\ GoTo(p, "open")
           /\ saves' = [saves EXCEPT ![p] = <<Save(key[p], "revoked")>>]
           /\ UNCHANGED <<key, unread>>
  <2>1. key[p] \in Keys /\ <<Save(key[p], "revoked")>> \in Seq(Jobs)
    BY SaveType DEF TypeOK, Shape, Load, Keys, Status
  <2>2. TypeOK'
    BY <1>2, <2>1 DEF TypeOK, Load, GoTo, Steps
  <2>3. Revoking(p)'
    BY <1>2 DEF TypeOK, GoTo, Revoking
  <2>4. Shape(p)'
    BY <1>2, <2>1, <2>3 DEF TypeOK, Load, GoTo, Shape
  <2> QED
    BY <1>2, <2>2, <2>4 DEF TypeOK, Load, GoTo, LocalStep, SameProcess, FilesStay
<1>3. CASE /\ Readable(key[p]) /\ GoTo(p, "glob")
           /\ UNCHANGED <<key, unread, saves>>
  <2>1. TypeOK'
    BY <1>3 DEF TypeOK, Load, GoTo, Steps
  <2>2. file'[key'[p]] # "absent"
    BY <1>3 DEF Load, Readable, Status
  <2>3. Shape(p)'
    BY <1>3, <2>2 DEF TypeOK, Load, GoTo, Shape
  <2> QED
    BY <1>3, <2>1, <2>3 DEF TypeOK, Load, GoTo, LocalStep, SameProcess, FilesStay
<1> QED
  BY <1>1, <1>2, <1>3 DEF Load

LEMMA GlobLocal ==
  ASSUME TypeOK, NEW p \in Procs, Shape(p), Glob(p)
  PROVE  LocalStep(p)
<1>1. TypeOK'
  BY DEF TypeOK, Glob, GoTo, Steps, Stored
<1>2. unread'[p] # {} /\ saves'[p] = <<>>
  BY DEF TypeOK, Glob, Shape, Stored
<1>3. Shape(p)'
  BY <1>2 DEF TypeOK, Glob, GoTo, Shape, Retirements
<1> QED
  BY <1>1, <1>3 DEF TypeOK, Glob, GoTo, LocalStep, SameProcess, FilesStay

(* What one read of list_keys, of the file of k, makes of the saves: t,     *)
(* followed by the key itself and active.json when k was the last.          *)
ReadTo(p, k, t) ==
    /\ unread' = [unread EXCEPT ![p] = @ \ {k}]
    /\ Retirements(t, key[p])
    /\ Len(saves[p]) <= Len(t)
    /\ \A i \in 1..Len(saves[p]) : t[i] = saves[p][i]
    /\ \A i \in 1..Len(t) :
           i > Len(saves[p]) => t[i] = Save(k, "retired") /\ ToRetire(p, k)
    /\ ToRetire(p, k) => \E i \in 1..Len(t) : t[i] = Save(k, "retired")
    /\ \/ /\ unread[p] # {k} /\ GoTo(p, "read")
          /\ saves' = [saves EXCEPT ![p] = t]
       \/ /\ unread[p] = {k} /\ GoTo(p, "open")
          /\ saves' = [saves EXCEPT ![p] =
                 t \o <<Save(key[p], "active"), Save(None, "active")>>]

LEMMA ReadNextSaves ==
  ASSUME TypeOK, NEW p \in Procs, Shape(p), ReadNext(p)
  PROVE  \E k \in unread[p], t \in Seq(Jobs) : ReadTo(p, k, t)
<1> DEFINE k == Min(unread[p])
           found == IF ToRetire(p, k) THEN <<Save(k, "retired")>> ELSE <<>>
           own == <<Save(key[p], "active"), Save(None, "active")>>
           t == saves[p] \o found
<1>1. unread[p] # {} /\ unread[p] \subseteq Keys /\ key[p] \in Keys
      /\ saves[p] \in Seq(Jobs) /\ Retirements(saves[p], key[p])
  BY DEF TypeOK, Shape, ReadNext
<1>2. k \in unread[p] /\ k \in Keys
  BY <1>1, Smallest DEF Keys
<1>3. /\ unread' = [unread EXCEPT ![p] = @ \ {k}]
      /\ saves' = [saves EXCEPT ![p] =
                      @ \o found \o (IF unread[p] = {k} THEN own ELSE <<>>)]
      /\ GoTo(p, IF unread[p] = {k} THEN "open" ELSE "read")
  BY DEF ReadNext
<1>4. Save(k, "retired") \in Jobs /\ Save(k, "retired").key = k
      /\ Save(k, "retired").status = "retired"
  BY <1>2, SaveType DEF Keys, Status
<1> HIDE DEF k
<1>5. /\ t \in Seq(Jobs) /\ Len(saves[p]) <= Len(t)
      /\ \A i \in 1..Len(saves[p]) : t[i] = saves[p][i]
      /\ \A i \in 1..Len(t) : i > Len(saves[p]) =>
             t[i] = Save(k, "retired") /\ ToRetire(p, k)
      /\ ToRetire(p, k) => Len(t) = Len(saves[p]) + 1 /\ t[Len(t)] = Save(k, "retired")
  <2>1. CASE ToRetire(p, k)
    <3>1. t = Append(saves[p], Save(k, "retired"))
      BY <1>1, <1>4, <2>1
    <3> QED
      BY <1>1, <1>4, <2>1, <3>1
  <2>2. CASE ~ToRetire(p, k)
    <3>1. t = saves[p]
      BY <1>1, <2>2
    <3> QED
      BY <1>1, <2>2, <3>1
  <2> QED
    BY <2>1, <2>2
<1>6. Retirements(t, key[p])
  <2> HIDE DEF t, found
  <2> SUFFICES ASSUME NEW i \in 1..Len(t)
               PROVE  t[i].status = "retired" /\ t[i].key \in Keys \ {key[p]}
    BY DEF Retirements
  <2>1. CASE i > Len(saves[p])
    BY <1>2, <1>4, <1>5, <2>1 DEF ToRetire
  <2>2. CASE ~(i > Len(saves[p]))
    <3>1. i \in 1..Len(saves[p])
      BY <1>1, <1>5, <2>2
    <3> QED
      BY <1>1, <1>5, <3>1 DEF Retirements
  <2> QED
    BY <2>1, <2>2
<1>7. ToRetire(p, k) => \E i \in 1..Len(t) : t[i] = Save(k, "retired")
  BY <1>1, <1>5
<1>8. CASE unread[p] = {k}
  <2>1. saves' = [saves EXCEPT ![p] = t \o own] /\ GoTo(p, "open")
    BY <1>3, <1>8
  <2> HIDE DEF t
  <2>2. ReadTo(p, k, t)
    BY <1>3, <1>5, <1>6, <1>7, <1>8, <2>1, Zenon DEF ReadTo
  <2> QED
    BY <1>2, <1>5, <2>2
<1>9. CASE unread[p] # {k}
  <2>1. saves' = [saves EXCEPT ![p] = t \o <<>>] /\ GoTo(p, "read")
    BY <1>3, <1>9
  <2> HIDE DEF t
  <2>2. t \o <<>> = t
    BY <1>5
  <2>3. ReadTo(p, k, t)
    BY <1>3, <1>5, <1>6, <1>7, <1>9, <2>1, <2>2, Zenon DEF ReadTo
  <2> QED
    BY <1>2, <1>5, <2>3
<1> QED
  BY <1>8, <1>9

LEMMA ReadNextLocal ==
  ASSUME TypeOK, NEW p \in Procs, Shape(p), ReadNext(p)
  PROVE  LocalStep(p)
<1>1. pc[p] = "read" /\ key[p] \in Keys /\ file[key[p]] # "absent"
      /\ outcome[p] = "none" /\ call[p] # "idle"
  BY DEF ReadNext, Shape
<1>2. UNCHANGED <<file, pointer, key, crashes, overlap, revoked>>
  BY DEF ReadNext
<1>3. PICK k \in unread[p], t \in Seq(Jobs) : ReadTo(p, k, t)
  BY ReadNextSaves
<1>4. CASE /\ unread[p] # {k} /\ GoTo(p, "read")
           /\ saves' = [saves EXCEPT ![p] = t]
  <2>1. TypeOK'
    BY <1>1, <1>2, <1>3, <1>4 DEF ReadTo, TypeOK, GoTo, Steps
  <2>2. unread'[p] # {} /\ saves'[p] = t
    BY <1>3, <1>4 DEF ReadTo, TypeOK
  <2>3. Shape(p)'
    BY <1>1, <1>2, <1>3, <1>4, <2>2 DEF ReadTo, TypeOK, GoTo, Shape
  <2> QED
    BY <1>2, <1>3, <1>4, <2>1, <2>3
    DEF ReadTo, TypeOK, GoTo, LocalStep, SameProcess, FilesStay
<1>5. CASE /\ unread[p] = {k} /\ GoTo(p, "open")
           /\ saves' = [saves EXCEPT ![p] =
                  t \o <<Save(key[p], "active"), Save(None, "active")>>]
  <2> DEFINE u == t \o <<Save(key[p], "active"), Save(None, "active")>>
  <2>1. u \in Seq(Jobs) /\ Activation(u, key[p])
    <3>1. Save(key[p], "active") \in Jobs /\ Save(None, "active") \in Jobs
      BY <1>1, SaveType, KeyStoreAssumption DEF Keys, None, Status
    <3> QED
      BY <1>1, <1>3, <3>1, ActivationMade DEF ReadTo
  <2> HIDE DEF u
  <2>2. saves' = [saves EXCEPT ![p] = u]
    BY <1>5 DEF u
  <2>3. TypeOK'
    BY <1>1, <1>2, <1>3, <1>5, <2>1, <2>2 DEF ReadTo, TypeOK, GoTo, Steps
  <2>4. Activating(p)'
    BY <1>1, <1>2, <2>1, <2>2 DEF TypeOK, Activating
  <2>5. Shape(p)'
    BY <1>1, <1>2, <1>5, <2>4 DEF ReadTo, TypeOK, GoTo, Shape
  <2> QED
    BY <1>2, <1>3, <1>5, <2>2, <2>3, <2>5
    DEF ReadTo, TypeOK, GoTo, LocalStep, SameProcess, FilesStay
<1> QED
  BY <1>3, <1>4, <1>5 DEF ReadTo

LEMMA OpenLocal ==
  ASSUME TypeOK, NEW p \in Procs, Shape(p), Open(p)
  PROVE  LocalStep(p)
<1>1. pc[p] = "open"
  BY DEF Open
<1>2. Saving(p).key \in 0..N
  BY <1>1, NextSave DEF Jobs
<1>3. file' \in [Keys -> Contents] /\ FilesStay
  BY <1>2 DEF Open, TypeOK, Contents, FilesStay, Keys, None
<1>4. TypeOK'
  BY <1>3, KeyStoreAssumption DEF TypeOK, Open, GoTo, Steps, None
<1>5. Shape(p)'
  BY <1>1, <1>3
  DEF TypeOK, Open, GoTo, Shape, Generating, Revoking, Activating, FilesStay
<1> QED
  BY <1>3, <1>4, <1>5 DEF TypeOK, Open, GoTo, LocalStep, SameProcess

(* What a save writes. *)
LEMMA WriteFiles ==
  ASSUME TypeOK, NEW p \in Procs, Shape(p), Write(p)
  PROVE  /\ file' \in [Keys -> Contents] /\ FilesStay
         /\ pointer' \in 0..N /\ revoked' \in SUBSET Keys
<1>1. pc[p] = "write"
  BY DEF Write
<1>2. Saving(p).key \in 0..N /\ Saving(p).status \in Status /\ key[p] \in Keys
  BY <1>1, NextSave DEF Jobs
<1>3. \A c : Overwrite(c, Saving(p).status) \in Contents \ {"absent"}
  BY <1>2 DEF Overwrite, Contents, Status
<1>4. CASE Saving(p).key = None
  BY <1>2, <1>4 DEF Write, TypeOK, FilesStay, Keys
<1>5. CASE Saving(p).key # None
  <2>1. file' = [file EXCEPT ![Saving(p).key] =
                    Overwrite(file[Saving(p).key], Saving(p).status)]
        /\ pointer' = pointer
    BY <1>5 DEF Write
  <2>2. revoked' \in {revoked \cup {key[p]}, revoked \ {key[p]}, revoked}
    BY <1>5, <1>2 DEF Write, Status
  <2>3. file' \in [Keys -> Contents] /\ FilesStay
    BY <1>2, <1>3, <1>5, <2>1 DEF TypeOK, FilesStay, Keys, None
  <2> QED
    BY <1>2, <2>1, <2>2, <2>3 DEF TypeOK
<1> QED
  BY <1>4, <1>5

LEMMA WriteLocal ==
  ASSUME TypeOK, NEW p \in Procs, Shape(p), Write(p)
  PROVE  LocalStep(p)
<1>1. pc[p] = "write" /\ key[p] \in Keys /\ outcome[p] = "none" /\ call[p] # "idle"
  BY DEF Write, Shape
<1>2. file' \in [Keys -> Contents] /\ FilesStay
      /\ pointer' \in 0..N /\ revoked' \in SUBSET Keys
  BY WriteFiles
<1>3. UNCHANGED <<crashes, overlap>>
  BY DEF Write
<1>4. CASE End(p, "returned")
  BY <1>2, <1>3, <1>4, EndLocal DEF TypeOK
<1>5. CASE /\ Len(saves[p]) > 1 /\ GoTo(p, "open")
           /\ saves' = [saves EXCEPT ![p] = Tail(@)]
           /\ UNCHANGED <<key, unread>>
  <2>0. Len(saves[p]) # 1
    <3>1. Len(saves[p]) \in Nat
      BY LenProperties DEF TypeOK
    <3> QED
      BY <1>5, <3>1, SmallNumber, Zenon
  <2>1. Activating(p) /\ saves[p] \in Seq(Jobs)
    BY <1>1, <2>0, NextSave, Zenon
  <2>2. Tail(saves[p]) \in Seq(Jobs) /\ Activation(Tail(saves[p]), key[p])
    BY <1>1, <1>5, <2>1, ActivationTail DEF Activating
  <2>3. TypeOK'
    BY <1>2, <1>3, <1>5, <2>2 DEF TypeOK, GoTo, Steps
  <2>4. Activating(p)'
    BY <1>1, <1>2, <1>5, <2>1, <2>2 DEF TypeOK, Activating, FilesStay
  <2>5. Shape(p)'
    BY <1>1, <1>5, <2>4 DEF TypeOK, GoTo, Shape
  <2> QED
    BY <1>2, <1>5, <2>3, <2>5 DEF TypeOK, GoTo, LocalStep, SameProcess
<1>6. CASE /\ GoTo(p, "load") /\ saves' = [saves EXCEPT ![p] = <<>>]
           /\ UNCHANGED <<key, unread>>
  <2>1. TypeOK'
    BY <1>2, <1>3, <1>6 DEF TypeOK, GoTo, Steps
  <2>2. Shape(p)'
    BY <1>1, <1>6 DEF TypeOK, GoTo, Shape
  <2> QED
    BY <1>2, <1>6, <2>1, <2>2 DEF TypeOK, GoTo, LocalStep, SameProcess
<1> QED
  BY <1>4, <1>5, <1>6 DEF Write

LEMMA CrashLocal ==
  ASSUME TypeOK, NEW p \in Procs, Shape(p), Crash(p)
  PROVE  LocalStep(p)
BY EndLocal DEF Crash, TypeOK, FilesStay

(* Every step of a process keeps the types and its own shape, and leaves    *)
(* the state of the other processes alone.                                  *)
LEMMA EveryLocal ==
  ASSUME TypeOK, NEW p \in Procs, Shape(p), ProcNext(p)
  PROVE  LocalStep(p)
<1>1. None \in 0..N /\ Keys \subseteq 0..N
  BY KeyStoreAssumption DEF None, Keys
<1>2. CASE generate_key(p) \/ rotate(p) \/ get_active_config(p)
  BY <1>1, <1>2, BeginLocal DEF generate_key, rotate, get_active_config, Calls
<1>3. CASE activate(p) \/ revoke(p)
  BY <1>1, <1>3, BeginLocal DEF activate, revoke, Calls
<1>4. CASE Step(p)
  BY <1>4, FindActiveLocal, LoadActiveLocal, GenerateLocal, LoadLocal, GlobLocal,
     ReadNextLocal, OpenLocal, WriteLocal DEF Step
<1>5. CASE Crash(p)
  BY <1>5, CrashLocal
<1> QED
  BY <1>2, <1>3, <1>4, <1>5 DEF ProcNext

(* The shape of the others survives a step: no file disappears. *)
LEMMA OthersKeepShape ==
  ASSUME TypeOK, NEW q \in Procs, Shape(q), SameProcess(q), FilesStay
  PROVE  Shape(q)'
<1>1. pc[q] \in {"glob", "read"} => file'[key[q]] # "absent"
  BY DEF Shape, FilesStay
<1>2. pc[q] \in {"open", "write"} /\ Activating(q) => Activating(q)'
  BY DEF Shape, FilesStay, Activating, SameProcess
<1>3. pc[q] \in {"open", "write"} => (Generating(q) \/ Revoking(q) \/ Activating(q))'
  BY <1>2 DEF Shape, SameProcess, Generating, Revoking
<1> QED
  BY <1>1, <1>3 DEF Shape, SameProcess

-----------------------------------------------------------------------------
(* Calls that do not overlap. *)

RevokedStays == \A k \in revoked : file[k] \in {"revoked", "empty"}

(* A process that moves while no calls have overlapped is the only one. *)
LEMMA OthersIdle ==
  ASSUME TypeOK, AloneInv, NEW p \in Procs, ProcNext(p), ~overlap'
  PROVE  ~overlap /\ \A q \in Procs \ {p} : pc[q] = "idle"
<1>1. CASE \E c, k, at : Begin(p, c, k, at)
  BY <1>1 DEF Begin
<1>2. CASE Step(p) \/ Crash(p)
  <2>1. pc[p] # "idle" /\ overlap' = overlap
    BY <1>2 DEF Step, Crash, FindActive, LoadActive, Generate, Load, Glob, ReadNext,
                Open, Write
  <2> QED
    BY <2>1 DEF AloneInv, OneAtATime
<1> QED
  BY <1>1, <1>2 DEF ProcNext, generate_key, activate, rotate, revoke,
                    get_active_config

(* Nothing is said of a process that has nothing to save. *)
LEMMA NothingDue ==
  ASSUME NEW p \in Procs, Shape(p)', pc'[p] \notin {"load", "read", "open", "write"}
  PROVE  Alone(p)'
<1>1. saves'[p] = <<>>
  BY DEF Shape
<1>2. \A k : ~ToBeRetired(p, k)'
  BY <1>1 DEF ToBeRetired
<1> QED
  BY <1>2 DEF Alone, Emptied, Fresh, OwnActive, Listed, Exclusive, RevokedSpared

(* Nor of one that starts to save one key, new or revoked. *)
LEMMA OneDue ==
  ASSUME NEW p \in Procs, pc'[p] = "open", NEW k \in Keys,
         NEW s \in {"active", "revoked"}, saves'[p] = <<Save(k, s)>>
  PROVE  Alone(p)'
<1>1. Save(k, s).key = k /\ Save(k, s).status = s /\ k # None
  BY DEF Save, Keys, None
<1>2. Len(saves'[p]) = 1 /\ saves'[p][1] = Save(k, s) /\ Head(saves'[p]) = Save(k, s)
  OBVIOUS
<1>3. \A j : Save(j, "retired").status = "retired" /\ Save(None, "active").key = None
  BY DEF Save
<1>4. \A j : ~ToBeRetired(p, j)'
  BY <1>1, <1>2, <1>3 DEF ToBeRetired
<1>5. ~Activation(saves[p], key[p])'
  BY <1>1, <1>2, <1>3 DEF Activation
<1>6. Saving(p)'.key # None
  BY <1>1, <1>2 DEF Saving
<1> QED
  BY <1>4, <1>5, <1>6
  DEF Alone, Emptied, Fresh, OwnActive, Listed, Exclusive, RevokedSpared

LEMMA BeginAlone ==
  ASSUME TypeOK, NEW p \in Procs, Shape(p), Shape(p)', RevokedStays,
         NEW c, NEW k, NEW at \in {"find", "generate", "load"},
         at = "load" => c # "get_active_config", Begin(p, c, k, at)
  PROVE  Alone(p)' /\ RevokedStays'
<1>1. RevokedStays'
  BY DEF RevokedStays, Begin
<1>2. CASE at # "load"
  <2>1. pc'[p] = at
    BY DEF Begin, TypeOK
  <2> QED
    BY <1>1, <1>2, <2>1, NothingDue
<1>3. CASE at = "load"
  <2>1. pc'[p] = "load" /\ call'[p] # "get_active_config" /\ saves'[p] = <<>>
    BY <1>3 DEF Begin, TypeOK, Shape
  <2>2. \A j : ~ToBeRetired(p, j)'
    BY <2>1 DEF ToBeRetired
  <2>3. Alone(p)'
    BY <2>1, <2>2
    DEF Alone, Emptied, Fresh, OwnActive, Listed, Exclusive, RevokedSpared
  <2> QED
    BY <1>1, <2>3
<1> QED
  BY <1>2, <1>3

LEMMA GlobAlone ==
  ASSUME TypeOK, NEW p \in Procs, Shape(p), Glob(p)
  PROVE  Alone(p)'
<1>1. pc'[p] = "read" /\ saves'[p] = <<>> /\ unread'[p] = Stored /\ file' = file
  BY DEF TypeOK, Glob, GoTo, Shape
<1>2. \A j : ~ToBeRetired(p, j)'
  BY <1>1 DEF ToBeRetired
<1>3. Listed(p)'
  BY <1>1 DEF Listed, Stored
<1> QED
  BY <1>1, <1>2, <1>3
  DEF Alone, Emptied, Fresh, OwnActive, Exclusive, RevokedSpared

LEMMA ReadNextAlone ==
  ASSUME TypeOK, NEW p \in Procs, Shape(p), Alone(p), RevokedStays, ReadNext(p)
  PROVE  Alone(p)'
<1>1. pc[p] = "read" /\ key[p] \in Keys /\ key[p] # None
  BY DEF ReadNext, Shape, Keys, None
<1>2. UNCHANGED <<file, key, revoked>>
  BY DEF ReadNext
<1>3. PICK k \in unread[p], t \in Seq(Jobs) : ReadTo(p, k, t)
  BY ReadNextSaves
<1>4. k \in Keys /\ unread'[p] = unread[p] \ {k}
  BY <1>3 DEF ReadTo, TypeOK
<1>5. \A j \in Keys \ ({key[p]} \cup unread'[p]) :
          file[j] = "active" => \E i \in 1..Len(t) : t[i] = Save(j, "retired")
  <2> TAKE j \in Keys \ ({key[p]} \cup unread'[p])
  <2> HAVE file[j] = "active"
  <2>1. CASE j = k
    BY <1>3, <2>1 DEF ReadTo, ToRetire
  <2>2. CASE j # k
    <3>1. j \notin unread[p]
      BY <1>4, <2>2
    <3>2. PICK i \in 1..Len(saves[p]) : saves[p][i] = Save(j, "retired")
      BY <1>1, <3>1 DEF Alone, Listed, ToBeRetired
    <3>3. i \in 1..Len(t) /\ t[i] = saves[p][i]
      <4>1. Len(saves[p]) \in Nat /\ Len(t) \in Nat
        BY <1>3, LenProperties DEF TypeOK
      <4> QED
        BY <1>3, <4>1 DEF ReadTo
    <3> QED
      BY <3>2, <3>3
  <2> QED
    BY <2>1, <2>2
<1>6. \A j \in revoked : \A i \in 1..Len(t) : t[i] # Save(j, "retired")
  <2> TAKE j \in revoked
  <2> TAKE i \in 1..Len(t)
  <2>1. CASE i \in 1..Len(saves[p])
    BY <1>3, <2>1 DEF ReadTo, Alone, RevokedSpared, ToBeRetired
  <2>2. CASE i \notin 1..Len(saves[p])
    <3>1. Len(saves[p]) \in Nat /\ Len(t) \in Nat
      BY <1>3, LenProperties DEF TypeOK
    <3>2. t[i] = Save(k, "retired") /\ file[k] = "active"
      BY <1>3, <2>2, <3>1 DEF ReadTo, ToRetire
    <3>3. k # j
      BY <3>2 DEF RevokedStays
    <3> QED
      BY <3>2, <3>3 DEF Save
  <2> QED
    BY <2>1, <2>2
<1>7. CASE unread[p] # {k} /\ GoTo(p, "read") /\ saves' = [saves EXCEPT ![p] = t]
  <2>1. pc'[p] = "read" /\ saves'[p] = t
    BY <1>7 DEF GoTo, TypeOK
  <2>2. Listed(p)'
    BY <1>2, <1>5, <2>1 DEF Listed, ToBeRetired
  <2>3. RevokedSpared(p)'
    BY <1>2, <1>6, <2>1 DEF RevokedSpared, ToBeRetired
  <2> QED
    BY <2>1, <2>2, <2>3 DEF Alone, Emptied, Fresh, OwnActive, Exclusive
<1>8. CASE /\ unread[p] = {k} /\ GoTo(p, "open")
           /\ saves' = [saves EXCEPT ![p] =
                  t \o <<Save(key[p], "active"), Save(None, "active")>>]
  <2> DEFINE own == <<Save(key[p], "active"), Save(None, "active")>>
             u == t \o own
  <2>1. pc'[p] = "open" /\ saves'[p] = u
    BY <1>8 DEF GoTo, TypeOK
  <2>2. Save(key[p], "active") \in Jobs /\ Save(None, "active") \in Jobs
    BY <1>1, SaveType, KeyStoreAssumption DEF Keys, None, Status
  <2>3. own \in Seq(Jobs) /\ Len(own) = 2
    BY <2>2
  <2>4. /\ Len(t) \in Nat
        /\ Len(u) = Len(t) + 2 /\ \A i \in 1..Len(t) : u[i] = t[i]
        /\ u[Len(t) + 1] = Save(key[p], "active") /\ u[Len(t) + 2] = Save(None, "active")
        /\ Head(u) = u[1]
    BY <1>3, <2>3
  <2> HIDE DEF u, own
  <2>5. Saving(p)'.key # None
    <3>1. Saving(p)' = u[1]
      BY <2>1, <2>4 DEF Saving
    <3>2. CASE Len(t) = 0
      BY <1>1, <2>4, <3>1, <3>2 DEF Save
    <3>3. CASE Len(t) # 0
      <4>1. 1 \in 1..Len(t)
        BY <2>4, <3>3
      <4>2. t[1].key \in Keys
        BY <1>3, <4>1 DEF ReadTo, Retirements
      <4> QED
        BY <2>4, <3>1, <4>1, <4>2 DEF Keys, None
    <3> QED
      BY <3>2, <3>3
  <2>6. Exclusive(p)'
    <3> SUFFICES ASSUME NEW j \in Keys \ {key[p]}, file[j] = "active"
                 PROVE  ToBeRetired(p, j)'
      BY <1>2 DEF Exclusive
    <3>1. j \notin unread'[p]
      BY <1>4, <1>8
    <3>2. PICK i \in 1..Len(t) : t[i] = Save(j, "retired")
      BY <1>5, <3>1
    <3>3. i \in 1..Len(u) /\ u[i] = Save(j, "retired")
      BY <2>4, <3>2
    <3> QED
      BY <2>1, <3>3 DEF ToBeRetired
  <2>7. RevokedSpared(p)'
    <3> SUFFICES ASSUME NEW j \in revoked, NEW i \in 1..Len(u)
                 PROVE  u[i] # Save(j, "retired")
      BY <1>2, <2>1 DEF RevokedSpared, ToBeRetired
    <3>1. i \in 1..Len(t) \/ i = Len(t) + 1 \/ i = Len(t) + 2
      BY <2>4
    <3>2. /\ Save(key[p], "active") # Save(j, "retired")
          /\ Save(None, "active") # Save(j, "retired")
      BY DEF Save
    <3> QED
      BY <1>6, <2>4, <3>1, <3>2
  <2> QED
    BY <2>1, <2>5, <2>6, <2>7 DEF Alone, Emptied, Fresh, OwnActive, Listed
<1> QED
  BY <1>3, <1>7, <1>8 DEF ReadTo

LEMMA OpenAlone ==
  ASSUME TypeOK, NEW p \in Procs, Shape(p), Alone(p), RevokedStays, Open(p)
  PROVE  Alone(p)' /\ RevokedStays'
<1>1. pc[p] = "open" /\ pc'[p] = "write"
  BY DEF Open, GoTo, TypeOK
<1>2. UNCHANGED <<key, saves, revoked, call>>
  BY DEF Open, GoTo
<1>3. Saving(p).key \in 0..N
  BY <1>1, NextSave DEF Jobs
<1>4. \A k \in Keys : file'[k] = file[k] \/ file'[k] = "empty"
  BY <1>3 DEF Open, TypeOK
<1>5. IF Saving(p).key = None THEN file' = file ELSE file'[Saving(p).key] = "empty"
  <2>1. CASE Saving(p).key = None
    BY <2>1 DEF Open
  <2>2. CASE Saving(p).key # None
    <3>1. Saving(p).key \in Keys
      BY <1>3, <2>2 DEF Keys, None
    <3> QED
      BY <2>2, <3>1 DEF Open, TypeOK
  <2> QED
    BY <2>1, <2>2
<1>6. Emptied(p)' /\ OwnActive(p)'
  BY <1>1, <1>2, <1>5 DEF Emptied, OwnActive, Alone, Saving
<1>7. Exclusive(p)'
  <2> SUFFICES ASSUME Activation(saves[p], key[p]), NEW k \in Keys \ {key[p]},
                      file'[k] = "active"
               PROVE  ToBeRetired(p, k)'
    BY <1>2 DEF Exclusive
  <2>1. file[k] = "active"
    BY <1>4
  <2>2. ToBeRetired(p, k)
    BY <1>1, <2>1 DEF Exclusive, Alone
  <2> QED
    BY <1>2, <2>2 DEF ToBeRetired
<1>8. RevokedSpared(p)' /\ RevokedStays'
  BY <1>2, <1>4 DEF RevokedSpared, Alone, ToBeRetired, RevokedStays, TypeOK
<1> QED
  BY <1>1, <1>6, <1>7, <1>8 DEF Alone, Fresh, Listed

(* What the one process that writes does to the files and to revoked. *)
LEMMA WriteEffect ==
  ASSUME TypeOK, NEW p \in Procs, Shape(p), Alone(p), Write(p)
  PROVE  IF Saving(p).key = None
         THEN file' = file /\ revoked' = revoked
         ELSE /\ Saving(p).key \in Keys
              /\ file[Saving(p).key] = "empty"
              /\ file' = [file EXCEPT ![Saving(p).key] = Saving(p).status]
              /\ revoked' = CASE Saving(p).status = "revoked" -> revoked \cup {key[p]}
                              [] Saving(p).status = "active" -> revoked \ {key[p]}
                              [] OTHER -> revoked
<1>1. pc[p] = "write" /\ Saving(p).key \in 0..N
  BY NextSave DEF Write, Jobs
<1>2. CASE Saving(p).key = None
  BY <1>2 DEF Write
<1>3. CASE Saving(p).key # None
  <2>1. Saving(p).key \in Keys /\ file[Saving(p).key] = "empty"
    BY <1>1, <1>3 DEF Keys, None, Alone, Emptied
  <2>2. Overwrite(file[Saving(p).key], Saving(p).status) = Saving(p).status
    BY <2>1 DEF Overwrite
  <2> QED
    BY <1>3, <2>1, <2>2 DEF Write
<1> QED
  BY <1>2, <1>3

LEMMA WriteRevoked ==
  ASSUME TypeOK, NEW p \in Procs, Shape(p), Alone(p), RevokedStays, Write(p)
  PROVE  RevokedStays'
<1>1. pc[p] = "write"
  BY DEF Write
<1>2. CASE Saving(p).key = None
  BY <1>2, WriteEffect DEF RevokedStays
<1>3. CASE Saving(p) = Save(key[p], "active")
  <2>1. Saving(p).key = key[p] /\ Saving(p).status = "active" /\ key[p] # None
    BY <1>1, <1>3 DEF Save, Shape, Keys, None
  <2>2. file' = [file EXCEPT ![key[p]] = "active"] /\ revoked' = revoked \ {key[p]}
    BY <2>1, WriteEffect
  <2> QED
    BY <2>2 DEF RevokedStays, TypeOK
<1>4. CASE Saving(p) = Save(key[p], "revoked")
  <2>1. Saving(p).key = key[p] /\ Saving(p).status = "revoked" /\ key[p] # None
    BY <1>1, <1>4 DEF Save, Shape, Keys, None
  <2>2. file' = [file EXCEPT ![key[p]] = "revoked"] /\ revoked' = revoked \cup {key[p]}
        /\ key[p] \in Keys
    BY <2>1, WriteEffect
  <2> QED
    BY <2>2 DEF RevokedStays, TypeOK
<1>5. CASE Saving(p).key \in Keys \ {key[p]} /\ Saving(p).status = "retired"
  <2>1. Saving(p).key # None
    BY <1>5 DEF Keys, None
  <2>2. file' = [file EXCEPT ![Saving(p).key] = "retired"] /\ revoked' = revoked
    BY <1>5, <2>1, WriteEffect
  <2>3. Saving(p).key \notin revoked
    <3>1. saves[p] \in Seq(Jobs) /\ Len(saves[p]) > 0 /\ Saving(p) = saves[p][1]
          /\ Saving(p) \in Jobs
      BY <1>1, NextSave, Zenon
    <3>2. 1 \in 1..Len(saves[p])
      BY <3>1
    <3>3. Saving(p) = Save(Saving(p).key, "retired")
      BY <1>5, <3>1 DEF Save, Jobs
    <3>4. ToBeRetired(p, Saving(p).key)
      BY <3>1, <3>2, <3>3 DEF ToBeRetired
    <3> QED
      BY <3>4 DEF Alone, RevokedSpared
  <2> QED
    BY <2>2, <2>3 DEF RevokedStays, TypeOK
<1>6. Saving(p) = Save(None, "active") => Saving(p).key = None
  BY DEF Save
<1> QED
  BY <1>1, <1>2, <1>3, <1>4, <1>5, <1>6, NextSave, Zenon

LEMMA WriteAlone ==
  ASSUME TypeOK, NEW p \in Procs, Shape(p), Shape(p)', Alone(p), RevokedStays, Write(p)
  PROVE  Alone(p)'
<1>1. pc[p] = "write" /\ key[p] \in Keys /\ key[p] # None
  BY DEF Write, Shape, Keys, None
<1>2. saves[p] \in Seq(Jobs) /\ Len(saves[p]) \in Nat \ {0}
      /\ Saving(p) = saves[p][1] /\ Saving(p) \in Jobs
  <2>1. saves[p] \in Seq(Jobs) /\ Saving(p) = saves[p][1] /\ Saving(p) \in Jobs
        /\ Len(saves[p]) > 0
    BY <1>1, NextSave, Zenon
  <2>2. Len(saves[p]) \in Nat
    BY <2>1, LenProperties, Zenon
  <2> QED
    BY <2>1, <2>2
<1>3. CASE End(p, "returned")
  BY <1>3, NothingDue DEF End, TypeOK
<1>4. CASE /\ Len(saves[p]) > 1 /\ GoTo(p, "open")
           /\ saves' = [saves EXCEPT ![p] = Tail(@)]
           /\ UNCHANGED <<key, unread>>
  <2> DEFINE s == saves[p]
             n == Len(saves[p])
  <2>1. Activation(s, key[p])
    BY <1>1, <1>4, <1>2, SmallNumber, NextSave, Zenon DEF Activating
  <2>2. /\ pc'[p] = "open" /\ saves'[p] = Tail(s) /\ key'[p] = key[p]
        /\ Len(Tail(s)) = n - 1 /\ \A i \in 1..(n - 1) : Tail(s)[i] = s[i + 1]
        /\ Saving(p)' = s[2]
    BY <1>2, <1>4 DEF GoTo, TypeOK, Saving
  <2>3. revoked' \subseteq revoked
    <3>1. Saving(p).status # "revoked"
      BY <1>1, <1>2, <1>4, <2>1, SmallNumber DEF Activation, Save
    <3> QED
      BY <3>1, WriteEffect
  <2>4. RevokedSpared(p)'
    <3> SUFFICES ASSUME NEW k \in revoked, NEW i \in 1..(n - 1)
                 PROVE  Tail(s)[i] # Save(k, "retired")
      BY <2>2, <2>3 DEF RevokedSpared, ToBeRetired
    <3>1. i + 1 \in 1..n /\ Tail(s)[i] = s[i + 1]
      BY <1>2, <2>2
    <3> QED
      BY <3>1 DEF Alone, RevokedSpared, ToBeRetired
  <2>5. CASE n = 2
    <3>1. s[1] = Save(key[p], "active") /\ s[2] = Save(None, "active")
      BY <2>1, <2>5 DEF Activation
    <3>2. file' = [file EXCEPT ![key[p]] = "active"]
      BY <1>1, <1>2, <3>1, WriteEffect DEF Save
    <3>3. OwnActive(p)'
      BY <1>1, <2>2, <3>2 DEF OwnActive, TypeOK
    <3>4. Exclusive(p)'
      <4> SUFFICES ASSUME NEW k \in Keys \ {key[p]}, file[k] = "active"
                   PROVE  FALSE
        BY <1>1, <2>2, <3>2 DEF Exclusive, TypeOK
      <4>1. PICK i \in 1..n : s[i] = Save(k, "retired")
        BY <1>1, <2>1 DEF Alone, Exclusive, ToBeRetired
      <4>2. i = 1 \/ i = 2
        BY <2>5
      <4> QED
        BY <3>1, <4>1, <4>2 DEF Save
    <3> QED
      BY <2>2, <2>4, <3>3, <3>4 DEF Alone, Emptied, Fresh, Listed
  <2>6. CASE n > 2
    <3>1. s[1].status = "retired" /\ s[1].key \in Keys \ {key[p]}
      BY <1>2, <2>1, <2>6 DEF Activation
    <3>2. file' = [file EXCEPT ![s[1].key] = "retired"]
      BY <1>2, <3>1, WriteEffect DEF Keys, None
    <3>3. s[2].key # None
      <4>1. CASE n = 3
        BY <1>1, <2>1, <4>1 DEF Activation, Save
      <4>2. CASE n > 3
        BY <1>2, <2>1, <4>2 DEF Activation, Keys, None
      <4>3. n \in Nat
        BY <1>2
      <4> QED
        BY <2>6, <4>1, <4>2, <4>3, SmallNumber, Zenon
    <3>4. Exclusive(p)'
      <4> SUFFICES ASSUME NEW k \in Keys \ {key[p]}, file'[k] = "active"
                   PROVE  ToBeRetired(p, k)'
        BY <2>2 DEF Exclusive
      <4>1. k # s[1].key /\ file[k] = "active"
        <5>1. s[1].key \in Keys /\ file'[s[1].key] = "retired"
          BY <3>1, <3>2 DEF TypeOK
        <5>2. k # s[1].key
          BY <5>1
        <5> QED
          BY <3>2, <5>2 DEF TypeOK
      <4>2. PICK i \in 1..n : s[i] = Save(k, "retired")
        BY <1>1, <2>1, <4>1 DEF Alone, Exclusive, ToBeRetired
      <4>3. i # 1
        BY <4>1, <4>2 DEF Save
      <4>4. i - 1 \in 1..(n - 1) /\ Tail(s)[i - 1] = s[i]
        BY <1>2, <2>2, <4>3
      <4> QED
        BY <2>2, <4>2, <4>4 DEF ToBeRetired
    <3> QED
      BY <2>2, <2>4, <3>3, <3>4 DEF Alone, Emptied, Fresh, OwnActive, Listed
  <2>7. n = 2 \/ n > 2
    <3>1. n \in Nat
      BY <1>2
    <3> QED
      BY <1>4, <3>1, SmallNumber, Zenon
  <2> QED
    BY <2>5, <2>6, <2>7
<1>5. CASE /\ ~(Len(saves[p]) > 1)
           /\ ~(Saving(p).key = None \/ call[p] \in {"generate_key", "revoke"})
           /\ GoTo(p, "load") /\ saves' = [saves EXCEPT ![p] = <<>>]
           /\ UNCHANGED <<key, unread>>
  <2>1. pc'[p] = "load" /\ saves'[p] = <<>> /\ key'[p] = key[p]
    BY <1>5 DEF GoTo, TypeOK
  <2>2. Saving(p) = Save(key[p], "active")
    <3>1. Len(saves[p]) # 2 /\ ~(Len(saves[p]) > 2)
      BY <1>2, <1>5, SmallNumber
    <3>2. Saving(p) # Save(None, "active")
      BY <1>5 DEF Save
    <3> QED
      BY <1>1, <1>5, <3>1, <3>2, NextSave, Zenon DEF Revoking
  <2>3. file' = [file EXCEPT ![key[p]] = "active"]
    BY <1>1, <2>2, WriteEffect DEF Save
  <2>4. Fresh(p)'
    BY <1>1, <2>1, <2>3 DEF Fresh, TypeOK
  <2>5. \A j : ~ToBeRetired(p, j)'
    BY <2>1 DEF ToBeRetired
  <2> QED
    BY <2>1, <2>4, <2>5 DEF Alone, Emptied, OwnActive, Listed, Exclusive, RevokedSpared
<1> QED
  BY <1>3, <1>4, <1>5 DEF Write

LEMMA EveryAlone ==
  ASSUME TypeOK, NEW p \in Procs, Shape(p), Shape(p)', Alone(p), RevokedStays,
         ProcNext(p)
  PROVE  Alone(p)' /\ RevokedStays'
<1>1. CASE \/ generate_key(p) \/ rotate(p) \/ get_active_config(p)
           \/ activate(p) \/ revoke(p)
  BY <1>1, BeginAlone
  DEF generate_key, rotate, get_active_config, activate, revoke
<1>2. CASE FindActive(p)
  <2>1. pc'[p] \in {"load_active", "generate"}
    BY <1>2 DEF FindActive, GoTo, TypeOK
  <2> QED
    BY <1>2, <2>1, NothingDue DEF FindActive, RevokedStays
<1>3. CASE LoadActive(p)
  <2>1. pc'[p] \in {"idle", "generate"}
    BY <1>3 DEF LoadActive, End, GoTo, TypeOK
  <2> QED
    BY <1>3, <2>1, NothingDue DEF LoadActive, RevokedStays
<1>4. CASE Generate(p)
  <2>1. PICK k \in Keys : saves' = [saves EXCEPT ![p] = <<Save(k, "active")>>]
    BY <1>4 DEF Generate
  <2>2. pc'[p] = "open" /\ saves'[p] = <<Save(k, "active")>>
    BY <1>4, <2>1 DEF Generate, GoTo, TypeOK
  <2> QED
    BY <1>4, <2>2, OneDue DEF Generate, RevokedStays
<1>5. CASE Load(p)
  <2>1. RevokedStays'
    BY <1>5 DEF Load, RevokedStays
  <2>2. CASE pc'[p] \in {"idle", "glob"}
    BY <2>1, <2>2, NothingDue
  <2>3. CASE pc'[p] = "open" /\ saves'[p] = <<Save(key[p], "revoked")>>
    BY <1>5, <2>1, <2>3, OneDue DEF Load, Shape
  <2> QED
    BY <1>5, <2>2, <2>3 DEF Load, End, GoTo, TypeOK
<1>6. CASE Glob(p)
  BY <1>6, GlobAlone DEF Glob, RevokedStays
<1>7. CASE ReadNext(p)
  BY <1>7, ReadNextAlone DEF ReadNext, RevokedStays
<1>8. CASE Open(p)
  BY <1>8, OpenAlone
<1>9. CASE Write(p)
  BY <1>9, WriteAlone, WriteRevoked
<1>10. CASE Crash(p)
  <2>1. pc'[p] = "idle"
    BY <1>10 DEF Crash, End, TypeOK
  <2> QED
    BY <1>10, <2>1, NothingDue DEF Crash, RevokedStays
<1> QED
  BY <1>1, <1>2, <1>3, <1>4, <1>5, <1>6, <1>7, <1>8, <1>9, <1>10 DEF ProcNext, Step

(* AloneInv is preserved by every step. *)
LEMMA AloneStep ==
  ASSUME TypeOK, ShapeInv, AloneInv, NEW p \in Procs, ProcNext(p)
  PROVE  AloneInv'
<1> SUFFICES ASSUME ~overlap' PROVE OneAtATime' /\ (\A q \in Procs : Alone(q)') /\ RevokedStays'
  BY DEF AloneInv, RevokedStays
<1>1. ~overlap /\ \A q \in Procs \ {p} : pc[q] = "idle"
  BY OthersIdle
<1>2. LocalStep(p) /\ Shape(p)' /\ \A q \in Procs \ {p} : Shape(q)' /\ pc'[q] = "idle"
  BY <1>1, EveryLocal, OthersKeepShape DEF ShapeInv, LocalStep, SameProcess
<1>3. OneAtATime'
  BY <1>2 DEF OneAtATime
<1>4. Alone(p)' /\ RevokedStays'
  BY <1>1, <1>2, EveryAlone DEF ShapeInv, AloneInv, RevokedStays
<1>5. \A q \in Procs \ {p} : Alone(q)'
  BY <1>2, NothingDue
<1> QED
  BY <1>3, <1>4, <1>5

-----------------------------------------------------------------------------
(* The files that cannot be read. *)

AtWrite(p) == pc[p] = "write" /\ Saving(p).key # None

(* A step that is neither an open nor a write leaves files and pointer. *)
LEMMA QuietStep ==
  ASSUME TypeOK, NEW p \in Procs, ProcNext(p), ~Open(p), ~Write(p)
  PROVE  /\ file' = file /\ pointer' = pointer /\ revoked' = revoked
         /\ Crash(p) \/ (crashes' = crashes /\ pc[p] \notin {"open", "write"})
BY DEF ProcNext, Step, Crash, generate_key, activate, rotate, revoke, get_active_config,
       Begin, FindActive, LoadActive, Generate, Load, Glob, ReadNext

LEMMA FiniteKeys ==
  ASSUME NEW S, S \subseteq Keys
  PROVE  IsFiniteSet(S) /\ Cardinality(S) \in Nat
<1>1. IsFiniteSet(Keys)
  BY FS_Interval, KeyStoreAssumption DEF Keys
<1> QED
  BY <1>1, FS_Subset, FS_CardinalityType

LEMMA LostStep ==
  ASSUME TypeOK, ShapeInv, AloneInv, Lost, NEW p \in Procs, ProcNext(p)
  PROVE  Lost'
<1> DEFINE U == Unreadable
           W == \E q \in Procs : AtWrite(q)
<1> SUFFICES ASSUME ~overlap'
             PROVE  Cardinality(U') <= crashes' + (IF W' THEN 1 ELSE 0)
  BY DEF Lost, AtWrite
<1>1. ~overlap /\ \A q \in Procs \ {p} : pc[q] = "idle"
  BY OthersIdle
<1>2. Cardinality(U) <= crashes + (IF W THEN 1 ELSE 0)
  BY <1>1 DEF Lost, AtWrite
<1>3. LocalStep(p) /\ TypeOK'
  BY EveryLocal DEF ShapeInv, LocalStep
<1>4. W <=> AtWrite(p)
  BY <1>1 DEF AtWrite
<1>5. AtWrite(p)' => W'
  OBVIOUS
<1>6. /\ crashes \in Nat /\ crashes' \in Nat
      /\ U \subseteq Keys /\ U' \subseteq Keys
  BY <1>3 DEF TypeOK, Unreadable, Stored
<1>7. Cardinality(U) \in Nat /\ Cardinality(U') \in Nat /\ IsFiniteSet(U)
  BY <1>6, FiniteKeys
<1>8. CASE Crash(p)
  <2>1. crashes' = crashes + 1 /\ file' = file
    BY <1>8 DEF Crash
  <2>2. U' = U
    BY <2>1 DEF Unreadable, Stored, Readable
  <2> HIDE DEF U, W
  <2> QED
    BY <1>2, <1>6, <1>7, <2>1, <2>2
<1>9. CASE ~Open(p) /\ ~Write(p) /\ ~Crash(p)
  <2>1. file' = file /\ crashes' = crashes /\ ~AtWrite(p)
    BY <1>9, QuietStep DEF AtWrite
  <2>2. U' = U
    BY <2>1 DEF Unreadable, Stored, Readable
  <2>3. ~W
    BY <1>4, <2>1
  <2> HIDE DEF U, W
  <2> QED
    BY <1>2, <1>6, <1>7, <2>1, <2>2, <2>3
<1>10. CASE Open(p)
  <2>1. pc[p] = "open" /\ pc'[p] = "write" /\ saves' = saves /\ crashes' = crashes
    BY <1>10 DEF Open, GoTo, TypeOK
  <2>2. ~W
    BY <1>4, <2>1 DEF AtWrite
  <2>3. CASE Saving(p).key = None
    <3>1. U' = U
      BY <1>10, <2>3 DEF Open, Unreadable, Stored, Readable
    <3> HIDE DEF U, W
    <3> QED
      BY <1>2, <1>6, <1>7, <2>1, <2>2, <3>1
  <2>4. CASE Saving(p).key # None
    <3>1. W'
      BY <1>5, <2>1, <2>4 DEF AtWrite, Saving
    <3>2. file' = [file EXCEPT ![Saving(p).key] = "empty"]
      BY <1>10, <2>4 DEF Open
    <3>3. U' \subseteq U \cup {Saving(p).key}
      BY <3>2 DEF Unreadable, Stored, Readable, TypeOK
    <3>4. /\ IsFiniteSet(U \cup {Saving(p).key})
          /\ Cardinality(U \cup {Saving(p).key}) \in Nat
          /\ Cardinality(U \cup {Saving(p).key}) <= Cardinality(U) + 1
      <4> DEFINE j == Saving(p).key
      <4> HIDE DEF U, j
      <4>1. IsFiniteSet(U \cup {j})
            /\ Cardinality(U \cup {j}) = IF j \in U THEN Cardinality(U)
                                          ELSE Cardinality(U) + 1
        BY <1>7, FS_AddElement
      <4>2. Cardinality(U \cup {j}) \in Nat
        BY <4>1, FS_CardinalityType
      <4>3. Cardinality(U \cup {j}) <= Cardinality(U) + 1
        BY <1>7, <4>1
      <4> QED
        BY <4>1, <4>2, <4>3 DEF j
    <3>5. Cardinality(U') <= Cardinality(U \cup {Saving(p).key})
      BY <3>3, <3>4, FS_Subset
    <3> HIDE DEF U, W
    <3> QED
      BY <1>2, <1>6, <1>7, <2>1, <2>2, <3>1, <3>4, <3>5
  <2> QED
    BY <2>3, <2>4
<1>11. CASE Write(p)
  <2>1. pc[p] = "write" /\ crashes' = crashes /\ Shape(p) /\ Alone(p)
    BY <1>1, <1>11 DEF Write, ShapeInv, AloneInv
  <2>2. CASE Saving(p).key = None
    <3>1. U' = U
      BY <1>11, <2>2 DEF Write, Unreadable, Stored, Readable
    <3>2. ~W
      BY <1>4, <2>2 DEF AtWrite
    <3> HIDE DEF U, W
    <3> QED
      BY <1>2, <1>6, <1>7, <2>1, <3>1, <3>2
  <2>3. CASE Saving(p).key # None
    <3>1. /\ Saving(p).key \in Keys /\ file[Saving(p).key] = "empty"
          /\ file' = [file EXCEPT ![Saving(p).key] = Saving(p).status]
      BY <1>11, <2>1, <2>3, WriteEffect
    <3>2. Saving(p).status \in Status
      BY <2>1, NextSave DEF Jobs
    <3>3. Saving(p).key \in U
      BY <3>1 DEF Unreadable, Stored, Readable, Status
    <3>4. U' = U \ {Saving(p).key}
      BY <3>1, <3>2 DEF Unreadable, Stored, Readable, TypeOK, Status
    <3>5. Cardinality(U') = Cardinality(U) - 1
      BY <1>7, <3>3, <3>4, FS_RemoveElement
    <3> HIDE DEF U, W
    <3> QED
      BY <1>2, <1>6, <1>7, <2>1, <3>5
  <2> QED
    BY <2>2, <2>3
<1> QED
  BY <1>8, <1>9, <1>10, <1>11

-----------------------------------------------------------------------------
(* Some key stays active. *)

(* A process that saves a key will save one as active or revoked. *)
LEMMA SaverKeeps ==
  ASSUME TypeOK, NEW p \in Procs, Shape(p), pc[p] \in {"open", "write"},
         Saving(p).key # None
  PROVE  Keeps(p)
<1>1. /\ saves[p] \in Seq(Jobs) /\ Len(saves[p]) \in Nat \ {0}
      /\ Saving(p) = saves[p][1] /\ key[p] \in Keys /\ key[p] # None
  <2>1. saves[p] \in Seq(Jobs) /\ Saving(p) = saves[p][1] /\ Len(saves[p]) > 0
        /\ key[p] \in Keys
    BY NextSave, Zenon
  <2>2. Len(saves[p]) \in Nat
    BY <2>1, LenProperties, Zenon
  <2> QED
    BY <2>1, <2>2 DEF Keys, None
<1>2. CASE Saving(p) = Save(key[p], "active") \/ Saving(p) = Save(key[p], "revoked")
  <2>1. 1 \in 1..Len(saves[p])
    BY <1>1
  <2>2. saves[p][1].key # None /\ saves[p][1].status # "retired"
    BY <1>1, <1>2 DEF Save
  <2> QED
    BY <2>1, <2>2 DEF Keeps
<1>3. CASE Activating(p) /\ Len(saves[p]) > 2
  <2>1. Len(saves[p]) - 1 \in 1..Len(saves[p])
    BY <1>1, <1>3
  <2>2. saves[p][Len(saves[p]) - 1] = Save(key[p], "active")
    BY <1>1, <1>3 DEF Activating, Activation
  <2> QED
    BY <1>1, <2>1, <2>2 DEF Keeps, Save
<1>4. Saving(p) # Save(None, "active")
  BY DEF Save
<1> QED
  BY <1>2, <1>3, <1>4, NextSave, Zenon

LEMMA OthersKeep ==
  ASSUME NEW q \in Procs, SameProcess(q), Keeps(q)
  PROVE  Keeps(q)'
BY DEF Keeps, SameProcess

LEMMA KeptStep ==
  ASSUME TypeOK, ShapeInv, Kept, NEW p \in Procs, ProcNext(p)
  PROVE  Kept'
<1>1. LocalStep(p) /\ Shape(p)
  BY EveryLocal DEF ShapeInv
<1>2. TypeOK' /\ Shape(p)' /\ FilesStay /\ \A q \in Procs \ {p} : SameProcess(q)
  BY <1>1 DEF LocalStep
<1>3. pointer' \in Keys => file'[pointer'] # "absent"
  <2>1. CASE pointer' = pointer \/ pointer' \notin Keys
    BY <1>2, <2>1 DEF Kept, FilesStay
  <2>2. CASE Write(p) /\ Saving(p).key = None
    <3>1. pointer' = key[p] /\ pc[p] = "write"
      BY <2>2 DEF Write
    <3>2. key[p] \in Keys /\ key[p] # None
      BY <1>1, <3>1 DEF Shape, Keys, None
    <3>3. Saving(p) # Save(key[p], "active") /\ Saving(p) # Save(key[p], "revoked")
      BY <2>2, <3>2 DEF Save
    <3>4. Activating(p)
      BY <1>1, <3>1, <3>3, NextSave, Zenon
    <3> QED
      BY <1>2, <3>1, <3>2, <3>4 DEF Activating, FilesStay
  <2>3. CASE Write(p) /\ Saving(p).key # None
    BY <2>1, <2>3 DEF Write
  <2>4. CASE Open(p)
    BY <2>1, <2>4 DEF Open, Keys, None
  <2> QED
    BY <2>1, <2>2, <2>3, <2>4, QuietStep
<1> DEFINE Held == \E k \in Keys : file[k] \in {"active", "garbled", "revoked"}
           Pending == \E q \in Procs : Keeps(q)
<1>4. ASSUME crashes' = 0, Stored' # {} PROVE Held' \/ Pending'
  <2>1. ~Crash(p)
    BY <1>4 DEF Crash, TypeOK
  <2>2. crashes = 0
    BY <1>4, <2>1, QuietStep DEF Open, Write
  <2>3. CASE ~Open(p) /\ ~Write(p)
    <3>1. file' = file /\ pc[p] \notin {"open", "write"}
      BY <2>1, <2>3, QuietStep
    <3>2. Held \/ Pending
      BY <1>4, <2>2, <3>1 DEF Kept, Stored
    <3>3. Pending => Pending'
      BY <1>2, <3>1, OthersKeep DEF Keeps
    <3> QED
      BY <3>1, <3>2, <3>3
  <2>4. CASE Open(p)
    <3>1. pc[p] = "open" /\ pc'[p] = "write" /\ saves' = saves
      BY <2>4 DEF Open, GoTo, TypeOK
    <3>2. Keeps(p) => Keeps(p)'
      BY <3>1 DEF Keeps
    <3>3. CASE Saving(p).key # None
      BY <1>1, <3>1, <3>2, <3>3, SaverKeeps
    <3>4. CASE Saving(p).key = None
      <4>1. file' = file
        BY <2>4, <3>4 DEF Open
      <4>2. Held \/ Pending
        BY <1>4, <2>2, <4>1 DEF Kept, Stored
      <4>3. Pending => Pending'
        BY <1>2, <3>2, OthersKeep
      <4> QED
        BY <4>1, <4>2, <4>3
    <3> QED
      BY <3>3, <3>4
  <2>5. CASE Write(p)
    <3>1. pc[p] = "write" /\ key[p] \in Keys /\ key[p] # None
      BY <1>1, <2>5 DEF Write, Shape, Keys, None
    <3>2. CASE Saving(p) = Save(None, "active") /\ Len(saves[p]) = 1
      <4>1. file' = file
        BY <2>5, <3>2 DEF Write, Save
      <4>2. Held \/ Pending
        BY <1>4, <2>2, <4>1 DEF Kept, Stored
      <4>3. saves[p][1] = Save(None, "active")
        BY <1>1, <3>1, <3>2, NextSave, Zenon
      <4>4. ~Keeps(p)
        BY <3>2, <4>3 DEF Keeps, Save
      <4>5. Pending => Pending'
        BY <1>2, <4>4, OthersKeep
      <4> QED
        BY <4>1, <4>2, <4>5
    <3>3. CASE Saving(p) = Save(key[p], "active") \/ Saving(p) = Save(key[p], "revoked")
      <4>1. Saving(p).key = key[p] /\ Saving(p).status \in {"active", "revoked"}
        BY <3>3 DEF Save
      <4>2. file'[key[p]] = Overwrite(file[key[p]], Saving(p).status)
        BY <2>5, <3>1, <4>1 DEF Write, TypeOK
      <4>3. file'[key[p]] \in {"active", "garbled", "revoked"}
        BY <4>1, <4>2 DEF Overwrite
      <4> QED
        BY <3>1, <4>3
    <3>4. CASE Activating(p) /\ Len(saves[p]) > 2
      <4>1. saves[p] \in Seq(Jobs)
        BY DEF TypeOK
      <4> DEFINE s == saves[p]
                 m == Len(saves[p]) - 2
      <4>2. Len(s) > 1 /\ m \in Nat /\ m + 1 \in 1..(Len(s) - 1)
        BY <3>4, <4>1
      <4>3. pc'[p] = "open" /\ saves'[p] = Tail(s)
        BY <2>5, <4>2 DEF Write, GoTo, TypeOK
      <4>4. m \in 1..Len(Tail(s)) /\ Tail(s)[m] = s[m + 1]
        BY <3>4, <4>1, <4>2
      <4>5. s[m + 1] = Save(key[p], "active")
        BY <3>4, <4>1 DEF Activating, Activation
      <4>6. Keeps(p)'
        <5>1. saves'[p][m].key # None /\ saves'[p][m].status # "retired"
          BY <3>1, <4>3, <4>4, <4>5 DEF Save
        <5> HIDE DEF m
        <5> QED
          BY <4>3, <4>4, <5>1 DEF Keeps
      <4> QED
        BY <4>6
    <3> QED
      BY <1>1, <3>1, <3>2, <3>3, <3>4, NextSave, Zenon
  <2> QED
    BY <2>3, <2>4, <2>5
<1> QED
  BY <1>3, <1>4 DEF Kept

-----------------------------------------------------------------------------
IInv == TypeOK /\ ShapeInv /\ AloneInv /\ Lost /\ Kept

LEMMA Initially == Init => IInv
<1> SUFFICES ASSUME Init PROVE IInv
  OBVIOUS
<1> USE DEF Init
<1>1. TypeOK
  <2>1. <<>> \in Seq(Jobs) /\ None \in 0..N /\ {} \in SUBSET Keys
    BY KeyStoreAssumption DEF None
  <2>2. saves \in [Procs -> Seq(Jobs)] /\ unread \in [Procs -> SUBSET Keys]
        /\ key \in [Procs -> 0..N]
    BY <2>1
  <2> QED
    BY <2>1, <2>2 DEF TypeOK, Contents, Calls, Steps
<1>2. ShapeInv
  BY DEF ShapeInv, Shape
<1>3. \A p \in Procs : Alone(p)
  <2> TAKE p \in Procs
  <2>1. \A k : ~ToBeRetired(p, k)
    BY DEF ToBeRetired
  <2> QED
    BY <2>1 DEF Alone, Emptied, Fresh, OwnActive, Listed, Exclusive, RevokedSpared
<1>4. AloneInv
  BY <1>3 DEF AloneInv, OneAtATime
<1>5. Stored = {} /\ Unreadable = {}
  BY DEF Stored, Unreadable
<1>6. Lost
  BY <1>5, FS_EmptySet DEF Lost
<1>7. Kept
  BY <1>5 DEF Kept, Keys, None
<1> QED
  BY <1>1, <1>2, <1>4, <1>6, <1>7 DEF IInv

LEMMA Preserved == IInv /\ [Next]_vars => IInv'
<1> SUFFICES ASSUME IInv, [Next]_vars PROVE IInv'
  OBVIOUS
<1>1. CASE UNCHANGED vars
  BY <1>1 DEF vars, IInv, TypeOK, ShapeInv, Shape, Generating, Revoking, Activating,
     AloneInv, OneAtATime, Alone, Emptied, Fresh, OwnActive, Listed, Exclusive,
     RevokedSpared, ToBeRetired, Saving, Lost, Unreadable, Readable, Stored, Kept, Keeps
<1>2. CASE Next
  <2>1. PICK p \in Procs : ProcNext(p)
    BY <1>2 DEF Next, ProcNext
  <2>2. LocalStep(p)
    BY <2>1, EveryLocal DEF IInv, ShapeInv
  <2>3. TypeOK' /\ ShapeInv'
    BY <2>2, OthersKeepShape DEF IInv, ShapeInv, LocalStep
  <2>4. AloneInv' /\ Lost' /\ Kept'
    BY <2>1, AloneStep, LostStep, KeptStep DEF IInv
  <2> QED
    BY <2>3, <2>4 DEF IInv
<1> QED
  BY <1>1, <1>2

LEMMA Invariance == Spec => []IInv
BY Initially, Preserved, PTL DEF Spec

(* Types: every variable of the keystore keeps to its values, so that no    *)
(* call ever works on a key id, a status or a step the code does not know.  *)
THEOREM TypeCorrect == Spec => []TypeOK
<1>1. IInv => TypeOK
  BY DEF IInv
<1> QED
  BY <1>1, Invariance, PTL

(* Calls made one after the other lose at most one key file per crash, for  *)
(* every number of keys an activation rewrites (_save, activate).           *)
THEOREM CrashCorrect == Spec => []CrashLosesAtMostOneKey
<1>1. IInv => CrashLosesAtMostOneKey
  <2> SUFFICES ASSUME IInv, ~overlap
               PROVE  Cardinality(Unreadable)
                      <= crashes + (IF \E p \in Procs : pc[p] = "write" THEN 1 ELSE 0)
    BY DEF CrashLosesAtMostOneKey, Unreadable
  <2>1. Cardinality(Unreadable) <= crashes +
            (IF \E p \in Procs : pc[p] = "write" /\ Saving(p).key # None
             THEN 1 ELSE 0)
    BY DEF IInv, Lost
  <2>2. crashes \in Nat /\ Cardinality(Unreadable) \in Nat
    BY FiniteKeys DEF IInv, TypeOK, Unreadable, Stored
  <2> QED
    BY <2>1, <2>2
<1> QED
  BY <1>1, Invariance, PTL

(* A revoked key stays revoked, or its file is cut short, until it is       *)
(* activated by name, while calls do not overlap (activate).                *)
THEOREM RevocationCorrect == Spec => []RevocationSticks
<1>1. IInv => RevocationSticks
  BY DEF IInv, AloneInv, RevocationSticks
<1> QED
  BY <1>1, Invariance, PTL

(* However activations overlap, they never leave a keystore without an      *)
(* active key, unless a crash, a revocation or a garbled file removed it.   *)
THEOREM ActiveCorrect == Spec => []SomeKeyStaysActive
<1>1. IInv => SomeKeyStaysActive
  <2> SUFFICES ASSUME IInv, \A p \in Procs : pc[p] = "idle", pointer \in Keys,
                      \A k \in Stored : file[k] \in {"active", "retired"},
                      crashes = 0
               PROVE  \E k \in Keys : file[k] = "active"
    BY DEF SomeKeyStaysActive
  <2>1. Stored # {}
    BY DEF IInv, Kept, Stored
  <2>2. \A p \in Procs : ~Keeps(p)
    BY DEF Keeps
  <2>3. PICK k \in Keys : file[k] \in {"active", "garbled", "revoked"}
    BY <2>1, <2>2 DEF IInv, Kept
  <2>4. k \in Stored
    BY <2>3 DEF Stored
  <2> QED
    BY <2>3, <2>4
<1> QED
  BY <1>1, Invariance, PTL

(* When an activation has written active.json, the key it names is the only *)
(* active one, whatever interrupted calls had left behind (activate).       *)
THEOREM ActivationCorrect == Spec => ActivationIsExclusive
<1> DEFINE A == pointer' \in Keys /\ pointer' # pointer /\ ~overlap
                => {k \in Keys : file[k] = "active"} = {pointer'}
<1>1. IInv /\ [Next]_vars => [A]_vars
  <2> SUFFICES ASSUME IInv, NEW p \in Procs, ProcNext(p), pointer' \in Keys,
                      pointer' # pointer, ~overlap
               PROVE  {k \in Keys : file[k] = "active"} = {pointer'}
    BY DEF Next, ProcNext
  <2>1. Write(p) /\ Saving(p).key = None /\ pointer' = key[p] /\ pc[p] = "write"
    <3>1. TypeOK
      BY DEF IInv
    <3>2. ~Open(p)
      BY DEF Open, Keys, None
    <3> QED
      BY <3>1, <3>2, QuietStep DEF Write
  <2>2. TypeOK /\ Shape(p) /\ Alone(p)
    BY DEF IInv, ShapeInv, AloneInv
  <2>3. key[p] \in Keys /\ file[key[p]] = "active"
    BY <2>1, <2>2 DEF Shape, Alone, OwnActive
  <2>4. /\ saves[p][1] = Save(None, "active") /\ Len(saves[p]) = 1
        /\ Activation(saves[p], key[p])
    <3>1. /\ Saving(p) # Save(key[p], "active") /\ Saving(p) # Save(key[p], "revoked")
          /\ Saving(p).key \notin Keys \ {key[p]}
      BY <2>1, <2>3 DEF Save, Keys, None
    <3> QED
      BY <2>1, <2>2, <3>1, NextSave, Zenon DEF Activating
  <2>5. \A k \in Keys \ {key[p]} : file[k] # "active"
    <3> TAKE k \in Keys \ {key[p]}
    <3>1. ~ToBeRetired(p, k)
      BY <2>4 DEF ToBeRetired, Save
    <3> QED
      BY <2>1, <2>2, <2>4, <3>1 DEF Alone, Exclusive
  <2> QED
    BY <2>1, <2>3, <2>5
<1> QED
  BY <1>1, Invariance, PTL DEF Spec, ActivationIsExclusive

-----------------------------------------------------------------------------
(* A key file says "revoked" only if revoke wrote that and no activation of *)
(* the key came after, even if calls overlap.                               *)
RevokedByName == \A k \in Keys : file[k] = "revoked" => k \in revoked

LEMMA WriteByName ==
  ASSUME TypeOK, NEW p \in Procs, Shape(p), RevokedByName, Write(p)
  PROVE  RevokedByName'
<1>1. pc[p] = "write"
  BY DEF Write
<1>2. CASE Saving(p).key = None
  BY <1>2 DEF Write, RevokedByName
<1>3. CASE Saving(p).key # None
  <2>1. Saving(p) \in Jobs
    BY <1>1, NextSave
  <2>2. Saving(p).key \in Keys /\ Saving(p).status \in Status
    BY <1>3, <2>1 DEF Jobs, Keys, None
  <2>3. file' = [file EXCEPT ![Saving(p).key] =
                    Overwrite(file[Saving(p).key], Saving(p).status)]
    BY <1>3 DEF Write
  <2>4. \/ Saving(p) = Save(key[p], "active")
        \/ Saving(p) = Save(key[p], "revoked")
        \/ Saving(p).key # key[p] /\ Saving(p).status = "retired"
    <3>1. Saving(p) # Save(None, "active")
      BY <1>3 DEF Save
    <3> QED
      BY <1>1, <3>1, NextSave
  <2>5. CASE Saving(p) = Save(key[p], "active")
    <3>1. Saving(p).key = key[p] /\ Saving(p).status = "active"
      BY <2>5 DEF Save
    <3>2. revoked' = revoked \ {key[p]}
      BY <1>3, <3>1 DEF Write
    <3>3. Overwrite(file[key[p]], "active") # "revoked"
      BY DEF Overwrite
    <3> QED
      BY <2>2, <2>3, <3>1, <3>2, <3>3 DEF RevokedByName, TypeOK
  <2>6. CASE Saving(p) = Save(key[p], "revoked")
    <3>1. Saving(p).key = key[p] /\ Saving(p).status = "revoked"
      BY <2>6 DEF Save
    <3>2. revoked' = revoked \cup {key[p]}
      BY <1>3, <3>1 DEF Write
    <3> QED
      BY <2>2, <2>3, <3>1, <3>2 DEF RevokedByName, TypeOK
  <2>7. CASE Saving(p).key # key[p] /\ Saving(p).status = "retired"
    <3>1. revoked' = revoked
      BY <1>3, <2>7 DEF Write
    <3>2. Overwrite(file[Saving(p).key], "retired") # "revoked"
      BY DEF Overwrite
    <3> QED
      BY <2>2, <2>3, <2>7, <3>1, <3>2 DEF RevokedByName, TypeOK
  <2> QED
    BY <2>4, <2>5, <2>6, <2>7
<1> QED
  BY <1>2, <1>3

LEMMA ByName == Spec => []RevokedByName
<1>1. Init => RevokedByName
  BY DEF Init, RevokedByName
<1>2. IInv /\ RevokedByName /\ [Next]_vars => RevokedByName'
  <2> SUFFICES ASSUME IInv, RevokedByName, [Next]_vars PROVE RevokedByName'
    OBVIOUS
  <2>1. CASE UNCHANGED vars
    BY <2>1 DEF vars, RevokedByName
  <2>2. CASE Next
    <3>1. PICK p \in Procs : ProcNext(p)
      BY <2>2 DEF Next, ProcNext
    <3>2. TypeOK /\ Shape(p)
      BY DEF IInv, ShapeInv
    <3>3. CASE Write(p)
      BY <3>2, <3>3, WriteByName
    <3>4. CASE Open(p)
      <4>1. \A k \in Keys : file'[k] = file[k] \/ file'[k] = "empty"
        BY <3>2, <3>4 DEF Open, TypeOK
      <4>2. revoked' = revoked
        BY <3>4 DEF Open
      <4> QED
        BY <4>1, <4>2 DEF RevokedByName
    <3>5. CASE ~Write(p) /\ ~Open(p)
      <4>1. file' = file /\ revoked' = revoked
        BY <3>1, <3>5
        DEF ProcNext, Step, generate_key, activate, rotate, revoke,
            get_active_config, Begin, FindActive, LoadActive, Generate, Load, Glob,
            ReadNext, Crash
      <4> QED
        BY <4>1 DEF RevokedByName
    <3> QED
      BY <3>3, <3>4, <3>5
  <2> QED
    BY <2>1, <2>2
<1> QED
  BY <1>1, <1>2, Invariance, PTL DEF Spec

(* Alone, get_active_config never raises, and the key it returns is one     *)
(* that get_decryptor_keys lists, whatever crashes left behind, or one that *)
(* was revoked by name and not activated since (get_active, revoke).        *)
THEOREM ConfigCorrect == Spec => ConfigIsUsable
<1> DEFINE A == \A p \in Procs :
                    call[p] = "get_active_config" /\ outcome'[p] # outcome[p] /\ ~overlap
                    => /\ outcome'[p] = "returned"
                       /\ \/ key[p] \in get_decryptor_keys'
                          \/ key[p] \in revoked' /\ file'[key[p]] = "revoked"
<1>1. IInv /\ RevokedByName' /\ [Next]_vars => [A]_vars
  <2> SUFFICES ASSUME IInv, RevokedByName', NEW q \in Procs, ProcNext(q), NEW p \in Procs,
                      call[p] = "get_active_config", outcome'[p] # outcome[p], ~overlap
               PROVE  /\ outcome'[p] = "returned"
                      /\ \/ key[p] \in get_decryptor_keys'
                         \/ key[p] \in revoked' /\ file'[key[p]] = "revoked"
    BY DEF Next, ProcNext
  <2>0. SUFFICES outcome'[p] = "returned" /\ file'[key[p]] \in Status /\ key[p] \in Keys
    BY <2>0 DEF get_decryptor_keys, Readable, RevokedByName
  <2>1. TypeOK /\ Shape(p) /\ Alone(p) /\ Shape(q)
    BY DEF IInv, ShapeInv, AloneInv
  <2>2. p = q
    BY <2>1, EveryLocal DEF LocalStep, SameProcess
  <2>3. pc[p] # "idle" /\ outcome[p] = "none"
    BY <2>1 DEF Shape
  <2>4. CASE LoadActive(p)
    <3>1. Readable(key[p]) /\ End(p, "returned") /\ file' = file
      BY <2>4 DEF LoadActive, GoTo
    <3> QED
      BY <2>1, <2>4, <3>1 DEF End, Readable, TypeOK, LoadActive, Shape
  <2>5. CASE Load(p)
    <3>1. Readable(key[p])
      BY <2>1, <2>5 DEF Alone, Fresh, Load, Readable, Status
    <3> QED
      BY <2>5, <3>1 DEF Load, GoTo
  <2>6. CASE Write(p)
    <3>1. End(p, "returned") /\ (Saving(p).key = None \/ call[p] \in {"generate_key", "revoke"})
      BY <2>6 DEF Write, GoTo
    <3>2. Saving(p).key = None /\ pc[p] = "write" /\ file' = file
      BY <2>6, <3>1 DEF Write
    <3>3. file[key[p]] = "active"
      BY <2>1, <3>2 DEF Alone, OwnActive
    <3> QED
      BY <2>1, <3>1, <3>2, <3>3 DEF End, TypeOK, Status, Shape
  <2>7. CASE Crash(p)
    BY <2>1, <2>3, <2>7 DEF Crash, End, TypeOK
  <2>8. CASE FindActive(p) \/ Generate(p) \/ Glob(p) \/ ReadNext(p) \/ Open(p)
    BY <2>8 DEF FindActive, Generate, Glob, ReadNext, Open, GoTo
  <2> QED
    BY <2>2, <2>3, <2>4, <2>5, <2>6, <2>7, <2>8
    DEF ProcNext, Step, generate_key, activate, rotate, revoke, get_active_config, Begin
<1> QED
  BY <1>1, Invariance, ByName, PTL DEF Spec, ConfigIsUsable
=============================================================================
