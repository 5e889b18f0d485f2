------------------------------ MODULE AuditLog ------------------------------
(***************************************************************************)
(* The hash-chained audit log of src/src/chen/observability/audit.py: a    *)
(* JSON Lines file that any number of writers append to.  record() reads   *)
(* the last line, builds the next entry from it and appends that, with no  *)
(* lock in between, so these are two actions.  A crash may cut the append  *)
(* short, and the file may be changed by hand: the hash has no key, so     *)
(* whoever changes a line can compute its hash anew.                       *)
(*                                                                         *)
(* SHA-256 is taken to be injective: the hash of an entry is the tuple of  *)
(* what is hashed.  The hashes of prompt and output and the timestamp are  *)
(* identified with the run they belong to.                                 *)
(***************************************************************************)
EXTENDS Integers, Sequences, FiniteSets

CONSTANTS
    Writers,
    MaxRecords,   \* bound: the number of record() calls
    MaxCrashes,   \* bound: the number of appends cut short
    MaxTampers    \* bound: the number of changes made by hand

ASSUME AuditAssumption ==
    /\ MaxRecords \in Nat
    /\ MaxCrashes \in Nat
    /\ MaxTampers \in Nat

VARIABLES
    log,        \* the lines of the file
    torn,       \* the last line has no newline
    writing,    \* the run each writer is about to append, 0 if none
    attempts,   \* history: for each record() call so far, the entry it
                \* built, the log it had read, and whether it returned
    crashes,
    tampers,
    raced,      \* history: two record() calls overlapped
    forged      \* history: a change by hand came with a hash computed anew

vars == <<log, torn, writing, attempts, crashes, tampers, raced, forged>>

(* A line that does not parse. *)
Garbage == [seq |-> -1, run |-> 0, prev_hash |-> <<>>, entry_hash |-> <<>>]

compute_hash(seq, run, prev_hash) == <<seq, run, prev_hash>>

Init ==
    /\ log = <<>>
    /\ torn = FALSE
    /\ writing = [w \in Writers |-> 0]
    /\ attempts = <<>>
    /\ crashes = 0
    /\ tampers = 0
    /\ raced = FALSE
    /\ forged = FALSE

-----------------------------------------------------------------------------
(* _last_entry: no line, and a last line that does not parse, are None. *)
HasLast == log # <<>> /\ log[Len(log)] # Garbage

(* Mutant: an entry is linked to what its predecessor was linked to. *)
NewEntry_SkipsLink(run) ==
    LET seq == IF HasLast THEN log[Len(log)].seq + 1 ELSE 0
        prev == IF HasLast THEN log[Len(log)].prev_hash ELSE <<>>
    IN  [seq |-> seq, run |-> run, prev_hash |-> prev,
         entry_hash |-> compute_hash(seq, run, prev)]

(* The entry record() builds on the last one. *)
NewEntry(run) ==
    LET seq == IF HasLast THEN log[Len(log)].seq + 1 ELSE 0
        prev == IF HasLast THEN log[Len(log)].entry_hash ELSE <<>>
    IN  [seq |-> seq, run |-> run, prev_hash |-> prev,
         entry_hash |-> compute_hash(seq, run, prev)]

(* record(), up to the append. *)
Prepare(w) ==
    /\ writing[w] = 0
    /\ Len(attempts) < MaxRecords
    /\ LET run == Len(attempts) + 1
       IN  /\ writing' = [writing EXCEPT ![w] = run]
           /\ attempts' = Append(attempts, [entry |-> NewEntry(run),
                                            after |-> log,
                                            returned |-> FALSE])
    /\ raced' = (raced \/ \E v \in Writers : writing[v] # 0)
    /\ UNCHANGED <<log, torn, crashes, tampers, forged>>

(* A line appended to the file; after a torn line it becomes part of it. *)
Appended(line) ==
    IF torn THEN [log EXCEPT ![Len(log)] = Garbage] ELSE Append(log, line)

Entry(w) == attempts[writing[w]].entry

(* Mutant: the file is written from what was read, as with open mode "w". *)
AppendEntry_Overwrites(w) ==
    /\ writing[w] # 0
    /\ log' = Append(attempts[writing[w]].after, Entry(w))
    /\ torn' = FALSE
    /\ attempts' = [attempts EXCEPT ![writing[w]].returned = TRUE]
    /\ writing' = [writing EXCEPT ![w] = 0]
    /\ UNCHANGED <<crashes, tampers, raced, forged>>

(* The append of record(), which then returns. *)
AppendEntry(w) ==
    /\ writing[w] # 0
    /\ log' = Appended(Entry(w))
    /\ torn' = FALSE
    /\ attempts' = [attempts EXCEPT ![writing[w]].returned = TRUE]
    /\ writing' = [writing EXCEPT ![w] = 0]
    /\ UNCHANGED <<crashes, tampers, raced, forged>>

(* The writer dies: nothing, part of the line, or all of it but the newline *)
(* has reached the file.                                                    *)
CrashInAppend(w) ==
    /\ writing[w] # 0
    /\ crashes < MaxCrashes
    /\ \/ UNCHANGED <<log, torn>>
       \/ \E line \in {Garbage, Entry(w)} :
              log' = Appended(line) /\ torn' = TRUE
    /\ writing' = [writing EXCEPT ![w] = 0]
    /\ crashes' = crashes + 1
    /\ UNCHANGED <<attempts, tampers, raced, forged>>

Without(s, i) == SubSeq(s, 1, i - 1) \o SubSeq(s, i + 1, Len(s))

(* A line with the number, link and hash that verify() asks for there. *)
Forged(i, run) ==
    LET prev == IF i = 1 THEN <<>> ELSE log[i - 1].entry_hash
    IN  [seq |-> i - 1, run |-> run, prev_hash |-> prev,
         entry_hash |-> compute_hash(i - 1, run, prev)]

(* A line of the file is changed, removed, or exchanged with the next; or   *)
(* its hash is computed anew, whether its contents are changed or it is     *)
(* only linked to a predecessor that was.                                   *)
Tamper ==
    /\ tampers < MaxTampers
    /\ ~torn
    /\ \E i \in DOMAIN log :
          \/ /\ \/ log' = [log EXCEPT ![i].run = 0]
                \/ log' = Without(log, i)
                \/ i < Len(log) /\ log' = [log EXCEPT ![i] = log[i + 1],
                                                      ![i + 1] = log[i]]
             /\ UNCHANGED forged
          \/ /\ \E run \in {0, log[i].run} :
                    log' = [log EXCEPT ![i] = Forged(i, run)]
             /\ forged' = TRUE
    /\ tampers' = tampers + 1
    /\ UNCHANGED <<torn, writing, attempts, crashes, raced>>

Next ==
    \/ \E w \in Writers : Prepare(w) \/ AppendEntry(w) \/ CrashInAppend(w)
    \/ Tamper

Spec == Init /\ [][Next]_vars

-----------------------------------------------------------------------------
(* Mutant: a line that does not parse is skipped. *)
verify_SkipsGarbage(lines) ==
    LET s == SelectSeq(lines, LAMBDA e : e # Garbage)
    IN  \A i \in DOMAIN s :
            /\ s[i].seq = i - 1
            /\ s[i].prev_hash = IF i = 1 THEN <<>> ELSE s[i - 1].entry_hash
            /\ s[i].entry_hash = compute_hash(s[i].seq, s[i].run, s[i].prev_hash)

(* Mutant: the entries' own hashes are not recomputed. *)
verify_TrustsHash(lines) ==
    \A i \in DOMAIN lines :
        /\ lines[i] # Garbage
        /\ lines[i].seq = i - 1
        /\ lines[i].prev_hash = IF i = 1 THEN <<>> ELSE lines[i - 1].entry_hash

(* verify(): every line parses, the numbers count up from 0, each entry is  *)
(* linked to its predecessor, and its hash is that of its fields.           *)
verify(lines) ==
    \A i \in DOMAIN lines :
        /\ lines[i] # Garbage
        /\ lines[i].seq = i - 1
        /\ lines[i].prev_hash = IF i = 1 THEN <<>> ELSE lines[i - 1].entry_hash
        /\ lines[i].entry_hash =
               compute_hash(lines[i].seq, lines[i].run, lines[i].prev_hash)

-----------------------------------------------------------------------------
(***************************************************************************)
(* What it says of a log that it verifies, whatever races, crashes and     *)
(* edits it went through.  Where it has the hash of an entry that record() *)
(* built, and which somebody may have kept, it has that entry, and before  *)
(* it exactly the log that record() call had read, if that one verified.   *)
(* And it has no other entries, unless somebody edited one and computed    *)
(* hashes anew: an entry after which nothing is known from elsewhere may   *)
(* be forged, as verify() recomputes the hashes with no key.               *)
(***************************************************************************)
HashVouchesForPast ==
    verify(log)
    => /\ \A i \in DOMAIN log, r \in DOMAIN attempts :
              log[i].entry_hash = attempts[r].entry.entry_hash
              => /\ log[i] = attempts[r].entry
                 /\ verify(attempts[r].after)
                    => SubSeq(log, 1, i - 1) = attempts[r].after
       /\ ~forged
          => \A i \in DOMAIN log : \E r \in DOMAIN attempts :
                 log[i] = attempts[r].entry

(***************************************************************************)
(* "assert log.verify() is True": holds, with one entry per call, as long  *)
(* as record() calls do not overlap, no append is cut short and nobody     *)
(* edits the file.                                                         *)
(***************************************************************************)
SequentialLogVerifies ==
    ~raced /\ crashes = 0 /\ tampers = 0
    => /\ verify(log)
       /\ Len(log) = Cardinality({r \in DOMAIN attempts : attempts[r].returned})

(***************************************************************************)
(* "Never overwrite": racing writers break the chain but lose nothing.  An *)
(* entry whose record() returned is in the file, except that one entry per *)
(* crash is glued to the torn line before it.                              *)
(***************************************************************************)
NoEntryLost ==
    tampers = 0
    => Cardinality({r \in DOMAIN attempts :
                       /\ attempts[r].returned
                       /\ \A i \in DOMAIN log : log[i] # attempts[r].entry})
       <= crashes

(***************************************************************************)
(* A broken chain stays broken: no later record() makes a log verify again *)
(* that did not, so that a break cannot go unnoticed by a late verify().   *)
(***************************************************************************)
BreakIsPermanent ==
    [][~verify(log) /\ tampers' = tampers => ~verify(log')]_vars
=============================================================================
