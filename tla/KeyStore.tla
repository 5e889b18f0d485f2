------------------------------ MODULE KeyStore ------------------------------
(***************************************************************************)
(* The file-based keystore of src/src/chen/security/keys.py, used by the   *)
(* `chen keys` commands: several processes may work on one directory, and  *)
(* nothing locks it.                                                       *)
(*                                                                         *)
(* Every access to a file is an action of its own.  Path.write_text opens  *)
(* the file, which empties it, and then writes, so a save is two actions,  *)
(* and a crash between them leaves an empty file.  "active" is one byte    *)
(* shorter than "retired" and "revoked": written over one of them (by a    *)
(* process that opened the file before they were written) it leaves a      *)
(* trailing byte and the file no longer parses.                            *)
(*                                                                         *)
(* Key ids are random, so a new key takes any free place in the order in   *)
(* which list_keys reads the files.  rotation_of is left out: no code      *)
(* reads it.                                                               *)
(***************************************************************************)
EXTENDS Integers, Sequences, FiniteSets, FiniteSetsExt

CONSTANTS
    N,           \* the number of key ids
    Procs,       \* the processes that use the keystore
    MaxCrashes   \* bound: the number of crashes considered

ASSUME KeyStoreAssumption ==
    /\ N \in Nat \ {0}
    /\ MaxCrashes \in Nat

VARIABLES
    file,      \* what key_<id>.json holds
    pointer,   \* the key active.json names, or None: missing or empty
    call,      \* the call each process is in
    pc,        \* its next file access
    key,       \* the key it is about
    unread,    \* list_keys: the files still to be read
    saves,     \* the saves it still has to make: a key, or None for
               \* active.json, and a status
    outcome,   \* how its last call ended
    crashes,   \* the number of crashes so far
    overlap,   \* history: two calls were in progress at the same time
    revoked    \* history: keys revoked and not activated since

vars == <<file, pointer, call, pc, key, unread, saves, outcome, crashes,
          overlap, revoked>>

Keys == 1..N
None == 0
Status == {"active", "retired", "revoked"}
Readable(k) == file[k] \in Status
Save(k, s) == [key |-> k, status |-> s]
Stored == {k \in Keys : file[k] # "absent"}

Init ==
    /\ file = [k \in Keys |-> "absent"]
    /\ pointer = None
    /\ call = [p \in Procs |-> "idle"]
    /\ pc = [p \in Procs |-> "idle"]
    /\ key = [p \in Procs |-> None]
    /\ unread = [p \in Procs |-> {}]
    /\ saves = [p \in Procs |-> <<>>]
    /\ outcome = [p \in Procs |-> "none"]
    /\ crashes = 0
    /\ overlap = FALSE
    /\ revoked = {}

-----------------------------------------------------------------------------
(* Calls begin and end. *)
Begin(p, c, k, at) ==
    /\ pc[p] = "idle"
    /\ call' = [call EXCEPT ![p] = c]
    /\ pc' = [pc EXCEPT ![p] = at]
    /\ key' = [key EXCEPT ![p] = k]
    /\ outcome' = [outcome EXCEPT ![p] = "none"]
    /\ overlap' = (overlap \/ \E q \in Procs : pc[q] # "idle")
    /\ UNCHANGED <<file, pointer, unread, saves, crashes, revoked>>

generate_key(p) == Begin(p, "generate_key", None, "generate")
activate(p) == \E k \in Keys : Begin(p, "activate", k, "load")
rotate(p) == Begin(p, "rotate", None, "find")
revoke(p) == \E k \in Keys : Begin(p, "revoke", k, "load")
get_active_config(p) == Begin(p, "get_active_config", None, "find")

End(p, how) ==
    /\ call' = [call EXCEPT ![p] = "idle"]
    /\ pc' = [pc EXCEPT ![p] = "idle"]
    /\ key' = [key EXCEPT ![p] = None]
    /\ saves' = [saves EXCEPT ![p] = <<>>]
    /\ unread' = [unread EXCEPT ![p] = {}]
    /\ outcome' = [outcome EXCEPT ![p] = how]

GoTo(p, at) ==
    /\ pc' = [pc EXCEPT ![p] = at]
    /\ UNCHANGED <<call, outcome>>

-----------------------------------------------------------------------------
(* get_active reads active.json; one that is missing or empty names no key. *)
FindActive(p) ==
    /\ pc[p] = "find"
    /\ IF pointer \in Keys
       THEN GoTo(p, "load_active") /\ key' = [key EXCEPT ![p] = pointer]
       ELSE GoTo(p, "generate") /\ UNCHANGED key
    /\ UNCHANGED <<file, pointer, unread, saves, crashes, overlap, revoked>>

(* Mutant: get_active lets the JSONDecodeError of load through. *)
LoadActive_Strict(p) ==
    /\ pc[p] = "load_active"
    /\ IF Readable(key[p]) /\ call[p] = "rotate"
       THEN GoTo(p, "generate") /\ UNCHANGED <<key, unread, saves>>
       ELSE End(p, IF Readable(key[p]) THEN "returned" ELSE "raised")
    /\ UNCHANGED <<file, pointer, crashes, overlap, revoked>>

(* get_active loads the key; one that does not parse counts as none.  A     *)
(* get_active_config that finds a key returns it, whatever its status.      *)
LoadActive(p) ==
    /\ pc[p] = "load_active"
    /\ IF Readable(key[p]) /\ call[p] = "get_active_config"
       THEN End(p, "returned")
       ELSE GoTo(p, "generate") /\ UNCHANGED <<key, unread, saves>>
    /\ UNCHANGED <<file, pointer, crashes, overlap, revoked>>

(* generate_key makes a fresh id and saves it, with status "active". *)
Generate(p) ==
    /\ pc[p] = "generate"
    /\ \E k \in Keys \ (Stored \cup {key[q] : q \in Procs}) :
           /\ key' = [key EXCEPT ![p] = k]
           /\ saves' = [saves EXCEPT ![p] = <<Save(k, "active")>>]
    /\ GoTo(p, "open")
    /\ UNCHANGED <<file, pointer, unread, crashes, overlap, revoked>>

(* activate and revoke load their key: a missing file is a KeyError, one    *)
(* that does not parse a JSONDecodeError.                                   *)
Load(p) ==
    /\ pc[p] = "load"
    /\ IF ~Readable(key[p]) THEN End(p, "raised")
       ELSE IF call[p] = "revoke"
       THEN /\ GoTo(p, "open")
            /\ saves' = [saves EXCEPT ![p] = <<Save(key[p], "revoked")>>]
            /\ UNCHANGED <<key, unread>>
       ELSE GoTo(p, "glob") /\ UNCHANGED <<key, unread, saves>>
    /\ UNCHANGED <<file, pointer, crashes, overlap, revoked>>

(* list_keys, in activate: the directory, then the files in order. *)
Glob(p) ==
    /\ pc[p] = "glob"
    /\ unread' = [unread EXCEPT ![p] = Stored]
    /\ GoTo(p, "read")
    /\ UNCHANGED <<file, pointer, key, saves, crashes, overlap, revoked>>

(* Mutants: only the key active.json names is retired; every other key is. *)
ToRetire_Pointed(p, k) == k # key[p] /\ file[k] = "active" /\ k = pointer
ToRetire_All(p, k) == k # key[p] /\ Readable(k)

(* The keys activate retires: the others that are "active". *)
ToRetire(p, k) == k # key[p] /\ file[k] = "active"

(* Mutant: the key itself is saved before the others are retired. *)
ReadNext_OwnFirst(p) ==
    /\ pc[p] = "read"
    /\ LET k == Min(unread[p])
           found == IF ToRetire(p, k) THEN <<Save(k, "retired")>> ELSE <<>>
           last == unread[p] = {k}
       IN  /\ unread' = [unread EXCEPT ![p] = @ \ {k}]
           /\ saves' = [saves EXCEPT ![p] =
                  IF last
                  THEN <<Save(key[p], "active")>> \o @ \o found
                       \o <<Save(None, "active")>>
                  ELSE @ \o found]
           /\ GoTo(p, IF last THEN "open" ELSE "read")
    /\ UNCHANGED <<file, pointer, key, crashes, overlap, revoked>>

(* One file is read; after the last, the saves are known: the retired keys, *)
(* the key itself, and active.json.                                         *)
ReadNext(p) ==
    /\ pc[p] = "read"
    /\ LET k == Min(unread[p])
           found == IF ToRetire(p, k) THEN <<Save(k, "retired")>> ELSE <<>>
           own == <<Save(key[p], "active"), Save(None, "active")>>
           last == unread[p] = {k}
       IN  /\ unread' = [unread EXCEPT ![p] = @ \ {k}]
           /\ saves' = [saves EXCEPT ![p] =
                            @ \o found \o (IF last THEN own ELSE <<>>)]
           /\ GoTo(p, IF last THEN "open" ELSE "read")
    /\ UNCHANGED <<file, pointer, key, crashes, overlap, revoked>>

(* get_decryptor_keys: those that parse and are not revoked. *)
get_decryptor_keys == {k \in Keys : Readable(k) /\ file[k] # "revoked"}

-----------------------------------------------------------------------------
Saving(p) == Head(saves[p])

(* Mutant: all key files to be saved are emptied first. *)
Open_All(p) ==
    /\ pc[p] = "open"
    /\ GoTo(p, "write")
    /\ file' = [k \in Keys |->
                    IF \E i \in DOMAIN saves[p] : saves[p][i].key = k
                    THEN "empty" ELSE file[k]]
    /\ pointer' = IF Saving(p).key = None THEN None ELSE pointer
    /\ UNCHANGED <<key, unread, saves, crashes, overlap, revoked>>

(* write_text opens the file, which empties it. *)
Open(p) ==
    /\ pc[p] = "open"
    /\ GoTo(p, "write")
    /\ IF Saving(p).key = None
       THEN pointer' = None /\ UNCHANGED file
       ELSE file' = [file EXCEPT ![Saving(p).key] = "empty"] /\ UNCHANGED pointer
    /\ UNCHANGED <<key, unread, saves, crashes, overlap, revoked>>

(* What a file holds after `status` was written from its beginning. *)
Overwrite(old, status) ==
    IF status = "active" /\ old \in {"retired", "revoked", "garbled"}
    THEN "garbled"
    ELSE status

(* write_text writes.  After its last save a call ends, except that a key   *)
(* generated by rotate or get_active_config is activated next.              *)
Write(p) ==
    /\ pc[p] = "write"
    /\ IF Saving(p).key = None
       THEN pointer' = key[p] /\ UNCHANGED <<file, revoked>>
       ELSE /\ file' = [file EXCEPT ![Saving(p).key] = Overwrite(@, Saving(p).status)]
            /\ revoked' = CASE Saving(p).status = "revoked" -> revoked \cup {key[p]}
                            [] Saving(p).status = "active" -> revoked \ {key[p]}
                            [] OTHER -> revoked
            /\ UNCHANGED pointer
    /\ IF Len(saves[p]) > 1
       THEN /\ GoTo(p, "open")
            /\ saves' = [saves EXCEPT ![p] = Tail(@)]
            /\ UNCHANGED <<key, unread>>
       ELSE IF Saving(p).key = None \/ call[p] \in {"generate_key", "revoke"}
       THEN End(p, "returned")
       ELSE /\ GoTo(p, "load")
            /\ saves' = [saves EXCEPT ![p] = <<>>]
            /\ UNCHANGED <<key, unread>>
    /\ UNCHANGED <<crashes, overlap>>

(* A process dies in the middle of a call. *)
Crash(p) ==
    /\ pc[p] # "idle"
    /\ crashes < MaxCrashes
    /\ crashes' = crashes + 1
    /\ End(p, "none")
    /\ UNCHANGED <<file, pointer, overlap, revoked>>

Step(p) ==
    \/ FindActive(p) \/ LoadActive(p) \/ Generate(p) \/ Load(p)
    \/ Glob(p) \/ ReadNext(p) \/ Open(p) \/ Write(p)

Next ==
    \E p \in Procs :
        \/ generate_key(p) \/ activate(p) \/ rotate(p) \/ revoke(p)
        \/ get_active_config(p)
        \/ Step(p)
        \/ Crash(p)

Spec == Init /\ [][Next]_vars

-----------------------------------------------------------------------------
(***************************************************************************)
(* Calls made one after the other lose at most one key per crash: however  *)
(* many keys an activation rewrites, a crash leaves one file unreadable,   *)
(* and nothing else does (_save).                                          *)
(***************************************************************************)
CrashLosesAtMostOneKey ==
    ~overlap
    => Cardinality({k \in Stored : ~Readable(k)})
           <= crashes + (IF \E p \in Procs : pc[p] = "write" THEN 1 ELSE 0)

(***************************************************************************)
(* When an activation has written active.json, the key it names is the     *)
(* only one with status "active", whatever earlier calls, interrupted ones *)
(* included, had left behind (activate), provided calls do not overlap.    *)
(***************************************************************************)
ActivationIsExclusive ==
    [][pointer' \in Keys /\ pointer' # pointer /\ ~overlap
       => {k \in Keys : file[k] = "active"} = {pointer'}]_vars

(***************************************************************************)
(* get_active_config recovers from any crash: alone, it never raises, and  *)
(* the key it returns is one that get_decryptor_keys gives a later process *)
(* to decrypt with, unless it was revoked by name and not activated since. *)
(* (revoke leaves active.json as it is, so a revoked key may go on         *)
(* encrypting what no later process decrypts.)                             *)
(***************************************************************************)
ConfigIsUsable ==
    [][\A p \in Procs :
           call[p] = "get_active_config" /\ outcome'[p] # outcome[p] /\ ~overlap
           => /\ outcome'[p] = "returned"
              /\ \/ key[p] \in get_decryptor_keys'
                 \/ key[p] \in revoked' /\ file'[key[p]] = "revoked"]_vars

(***************************************************************************)
(* A revoked key stays revoked until it is activated by name: rotations    *)
(* and activations of other keys leave it alone (activate), provided calls *)
(* do not overlap and no save of the key was cut short.                    *)
(***************************************************************************)
RevocationSticks ==
    ~overlap => \A k \in revoked : file[k] \in {"revoked", "empty"}

(***************************************************************************)
(* Activations that overlap may leave several active keys, but never none: *)
(* when every call is over and active.json names a key, some key has       *)
(* status "active", unless a crash, a revocation or a garbled file removed *)
(* it (the order of activate's saves: others first, then the key itself).  *)
(***************************************************************************)
SomeKeyStaysActive ==
    /\ \A p \in Procs : pc[p] = "idle"
    /\ pointer \in Keys
    /\ \A k \in Stored : file[k] \in {"active", "retired"}
    /\ crashes = 0
    => \E k \in Keys : file[k] = "active"
=============================================================================
