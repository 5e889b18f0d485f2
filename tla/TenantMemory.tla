---------------------------- MODULE TenantMemory ----------------------------
(***************************************************************************)
(* MultiTenantMemory of src/src/chen/persistence/tenant_memory.py over the *)
(* InMemoryMemory of src/src/chen/core/memory.py: one memory per tenant,   *)
(* with a quota, and a side table of write times from which expired        *)
(* entries are collected.  The table and the memories are two structures   *)
(* that every operation has to keep in step.                               *)
(*                                                                         *)
(* An entry is its id (a hash of role, expert and text), so writing it     *)
(* again updates it.  Times are kept as ages, saturated just above the TTL.*)
(***************************************************************************)
EXTENDS Integers, FiniteSets

CONSTANTS
    Tenants,
    Ids,
    max_entries_per_tenant,   \* 0 = unlimited
    ttl_seconds               \* 0 = no TTL

ASSUME TenantAssumption ==
    /\ IsFiniteSet(Ids)
    /\ max_entries_per_tenant \in Nat
    /\ ttl_seconds \in Nat

VARIABLES
    tenants,    \* the keys of _tenants
    entries,    \* the ids each tenant's memory holds
    timed,      \* the keys of _tenant_entry_times
    times,      \* the age _tenant_entry_times gives an id, or NoTime
    age,        \* history: time since the id was last written
    cleared,    \* history: the tenants whose memory was ever cleared
    result      \* what the last operation returned or raised

vars == <<tenants, entries, timed, times, age, cleared, result>>

NoTime == -1
Old == ttl_seconds + 1
NoTimes == [e \in Ids |-> NoTime]

Nothing == [what |-> "none", ids |-> {}]

Init ==
    /\ tenants = {}
    /\ entries = [t \in Tenants |-> {}]
    /\ timed = {}
    /\ times = [t \in Tenants |-> NoTimes]
    /\ age = [t \in Tenants |-> [e \in Ids |-> 0]]
    /\ cleared = {}
    /\ result = [t \in Tenants |-> Nothing]

-----------------------------------------------------------------------------
(* _gc_tenant: the ids that expire, and what is left. *)
Expired(t) ==
    IF ttl_seconds > 0 THEN {e \in Ids : times[t][e] > ttl_seconds} ELSE {}

Kept(t) == entries[t] \ Expired(t)

KeptTimes(t) ==
    [e \in Ids |-> IF e \in Expired(t) THEN NoTime ELSE times[t][e]]

(* Mutant: expired entries are collected after the quota is checked. *)
QuotaReached_BeforeGC(t) ==
    max_entries_per_tenant > 0 /\ Cardinality(entries[t]) >= max_entries_per_tenant

(* _check_quota, on what _gc_tenant has left. *)
QuotaReached(t) ==
    max_entries_per_tenant > 0 /\ Cardinality(Kept(t)) >= max_entries_per_tenant

(* _get_tenant_memory creates the memory and the time table together. *)
GetTenantMemory(t) ==
    /\ tenants' = tenants \cup {t}
    /\ timed' = IF t \in tenants THEN timed ELSE timed \cup {t}

Answer(t, what, ids) ==
    result' = [result EXCEPT ![t] = [what |-> what, ids |-> ids]]

(* Mutants: the write time of an entry is set when it is first stored and   *)
(* not refreshed; the quota is not checked.                                 *)
Write_FirstTime(t, e) ==
    /\ ~QuotaReached(t)
    /\ GetTenantMemory(t)
    /\ entries' = [entries EXCEPT ![t] = Kept(t) \cup {e}]
    /\ times' = [times EXCEPT ![t] = [KeptTimes(t) EXCEPT ![e] =
                    IF t \in timed' /\ @ = NoTime THEN 0 ELSE @]]
    /\ age' = [age EXCEPT ![t][e] = 0]
    /\ Answer(t, IF t \in timed' THEN "ok" ELSE "KeyError", {})
    /\ UNCHANGED cleared

Write_NoQuota(t, e) ==
    /\ GetTenantMemory(t)
    /\ entries' = [entries EXCEPT ![t] = Kept(t) \cup {e}]
    /\ times' = [times EXCEPT ![t] = [KeptTimes(t) EXCEPT ![e] =
                    IF t \in timed' THEN 0 ELSE @]]
    /\ age' = [age EXCEPT ![t][e] = 0]
    /\ Answer(t, IF t \in timed' THEN "ok" ELSE "KeyError", {})
    /\ UNCHANGED cleared

(* write: collect, check the quota, store, record the time.  A tenant whose *)
(* time table clear() removed keeps the entry but gets a KeyError.          *)
Write(t, e) ==
    /\ ~QuotaReached(t)
    /\ GetTenantMemory(t)
    /\ entries' = [entries EXCEPT ![t] = Kept(t) \cup {e}]
    /\ times' = [times EXCEPT ![t] = [KeptTimes(t) EXCEPT ![e] =
                    IF t \in timed' THEN 0 ELSE @]]
    /\ age' = [age EXCEPT ![t][e] = 0]
    /\ Answer(t, IF t \in timed' THEN "ok" ELSE "KeyError", {})
    /\ UNCHANGED cleared

(* write that raises QuotaExceededError; expired entries are gone by then. *)
WriteRefused(t, e) ==
    /\ QuotaReached(t)
    /\ entries' = [entries EXCEPT ![t] = Kept(t)]
    /\ times' = [times EXCEPT ![t] = KeptTimes(t)]
    /\ Answer(t, "QuotaExceeded", {})
    /\ UNCHANGED <<tenants, timed, age, cleared>>

(* retrieve, with k large enough for every entry. *)
Retrieve(t) ==
    /\ GetTenantMemory(t)
    /\ entries' = [entries EXCEPT ![t] = Kept(t)]
    /\ times' = [times EXCEPT ![t] = KeptTimes(t)]
    /\ Answer(t, "retrieved", Kept(t))
    /\ UNCHANGED <<age, cleared>>

(* count: no collection, but the tenant's memory is created. *)
Count(t) ==
    /\ GetTenantMemory(t)
    /\ Answer(t, "counted", entries[t])
    /\ UNCHANGED <<entries, times, age, cleared>>

(* clear(tenant_id): the memory is emptied and kept, its times removed. *)
Clear(t) ==
    /\ entries' = [entries EXCEPT ![t] = {}]
    /\ timed' = timed \ {t}
    /\ times' = [times EXCEPT ![t] = NoTimes]
    /\ cleared' = cleared \cup ({t} \cap tenants)
    /\ Answer(t, "cleared", {})
    /\ UNCHANGED <<tenants, age>>

(* clear(None): the same for every tenant. *)
ClearAll ==
    /\ entries' = [t \in Tenants |-> {}]
    /\ timed' = {}
    /\ times' = [t \in Tenants |-> NoTimes]
    /\ cleared' = cleared \cup tenants
    /\ result' = [t \in Tenants |-> Nothing]
    /\ UNCHANGED <<tenants, age>>

-----------------------------------------------------------------------------
Older(a) == IF a \in 0..ttl_seconds THEN a + 1 ELSE a

(* Time passes; what earlier calls returned is no longer looked at. *)
Tick ==
    /\ times' = [t \in Tenants |-> [e \in Ids |-> Older(times[t][e])]]
    /\ age' = [t \in Tenants |-> [e \in Ids |-> Older(age[t][e])]]
    /\ result' = [t \in Tenants |-> Nothing]
    /\ UNCHANGED <<tenants, entries, timed, cleared>>

Next ==
    \/ \E t \in Tenants : \/ \E e \in Ids : Write(t, e) \/ WriteRefused(t, e)
                          \/ Retrieve(t)
                          \/ Count(t)
                          \/ Clear(t)
    \/ ClearAll
    \/ Tick

Spec == Init /\ [][Next]_vars

-----------------------------------------------------------------------------
TypeOK ==
    /\ tenants \in SUBSET Tenants
    /\ entries \in [Tenants -> SUBSET Ids]
    /\ timed \in SUBSET tenants
    /\ times \in [Tenants -> [Ids -> NoTime..Old]]
    /\ age \in [Tenants -> [Ids -> 0..Old]]
    /\ cleared \in SUBSET tenants
    /\ result \in [Tenants ->
           [what : {"none", "ok", "KeyError", "QuotaExceeded", "retrieved",
                    "counted", "cleared"},
            ids : SUBSET Ids]]

(***************************************************************************)
(* "Hard cap on entries per tenant": no sequence of writes, rewrites,      *)
(* collections and clears leaves a tenant with more than its quota.        *)
(***************************************************************************)
QuotaHolds ==
    max_entries_per_tenant > 0
    => \A t \in Tenants : Cardinality(entries[t]) <= max_entries_per_tenant

(***************************************************************************)
(* The time table and the memory agree: an id with a time is stored, its   *)
(* time is that of its last write, and as long as a tenant's memory has    *)
(* not been cleared every stored id has one (write, _gc_tenant, clear).    *)
(***************************************************************************)
TimesFollowEntries ==
    \A t \in Tenants, e \in Ids :
        /\ times[t][e] # NoTime => e \in entries[t] /\ times[t][e] = age[t][e]
        /\ e \in entries[t] /\ t \notin cleared => times[t][e] # NoTime

(* The ids a tenant's last call returned, or was refused for, are live. *)
Live(t, ids) == ttl_seconds > 0 => \A e \in ids : age[t][e] <= ttl_seconds

(***************************************************************************)
(* A write is refused only when max_entries_per_tenant entries are still   *)
(* alive: expired ones never count against the quota (_gc_tenant runs      *)
(* before _check_quota), in a memory that was never cleared.               *)
(***************************************************************************)
RefusedByLiveEntriesOnly ==
    \A t \in Tenants :
        result[t].what = "QuotaExceeded" /\ t \notin cleared
        => /\ Live(t, entries[t])
           /\ Cardinality(entries[t]) >= max_entries_per_tenant

-----------------------------------------------------------------------------
(***************************************************************************)
(* "Entries older than this are garbage-collected": retrieve never returns *)
(* an entry older than ttl_seconds.                                        *)
(***************************************************************************)
RetrievedAreLive ==
    \A t \in Tenants :
        result[t].what = "retrieved" => Live(t, result[t].ids)
=============================================================================
