------------------------- MODULE PersistenceProofs -------------------------
(***************************************************************************)
(* Two parts.  First the quota and the bookkeeping of MultiTenantMemory,   *)
(* for any set of tenants, any finite set of entries, any quota and any    *)
(* TTL.  Then the connection pools of PostgresRunStore, for any number of  *)
(* calls; its state is that of an instance.                                *)
(***************************************************************************)
EXTENDS TenantMemory, Sequences, FiniteSetTheorems, TLAPS

USE TenantAssumption

(* Collecting expired entries never grows a memory. *)
LEMMA KeptIsSmaller ==
    ASSUME TypeOK, NEW t \in Tenants
    PROVE  /\ Kept(t) \subseteq entries[t]
           /\ IsFiniteSet(entries[t])
           /\ IsFiniteSet(Kept(t))
           /\ Cardinality(entries[t]) \in Nat
           /\ Cardinality(Kept(t)) \in Nat
           /\ Cardinality(Kept(t)) <= Cardinality(entries[t])
<1>1. Kept(t) \subseteq entries[t] /\ entries[t] \subseteq Ids
  BY DEF Kept, TypeOK
<1>2. IsFiniteSet(entries[t])
  BY <1>1, FS_Subset
<1>3. IsFiniteSet(Kept(t)) /\ Cardinality(Kept(t)) <= Cardinality(entries[t])
  BY <1>1, <1>2, FS_Subset
<1> QED
  BY <1>1, <1>2, <1>3, FS_CardinalityType

(* Every operation keeps the tables well-formed. *)
LEMMA TypeStep == TypeOK /\ [Next]_vars => TypeOK'
<1> SUFFICES ASSUME TypeOK, [Next]_vars PROVE TypeOK'
  OBVIOUS
<1> USE DEF TypeOK, NoTime, Old
<1>0. ASSUME NEW t \in Tenants
      PROVE  Kept(t) \in SUBSET Ids /\ KeptTimes(t) \in [Ids -> NoTime..Old]
  BY DEF Kept, KeptTimes, Expired
<1>1. ASSUME NEW t \in Tenants, NEW e \in Ids, Write(t, e) PROVE TypeOK'
  <2>1. tenants' \in SUBSET Tenants /\ timed' \in SUBSET tenants'
    BY <1>1 DEF Write, GetTenantMemory
  <2>2. entries' \in [Tenants -> SUBSET Ids]
    BY <1>0, <1>1 DEF Write
  <2>3. times' \in [Tenants -> [Ids -> NoTime..Old]]
    BY <1>0, <1>1 DEF Write
  <2>4. age' \in [Tenants -> [Ids -> 0..Old]] /\ cleared' \in SUBSET tenants'
    BY <1>1 DEF Write, GetTenantMemory
  <2>5. (result \in [Tenants ->
           [what : {"none", "ok", "KeyError", "QuotaExceeded", "retrieved",
                    "counted", "cleared"},
            ids : SUBSET Ids]])'
    BY <1>1 DEF Write, Answer
  <2> QED
    BY <2>1, <2>2, <2>3, <2>4, <2>5
<1>2. ASSUME NEW t \in Tenants, NEW e \in Ids, WriteRefused(t, e) PROVE TypeOK'
  BY <1>0, <1>2 DEF WriteRefused, Answer
<1>3. ASSUME NEW t \in Tenants, Retrieve(t) PROVE TypeOK'
  BY <1>0, <1>3 DEF Retrieve, Answer, GetTenantMemory
<1>4. ASSUME NEW t \in Tenants, Count(t) PROVE TypeOK'
  BY <1>4 DEF Count, Answer, GetTenantMemory
<1>5. ASSUME NEW t \in Tenants, Clear(t) PROVE TypeOK'
  BY <1>5 DEF Clear, Answer, NoTimes
<1>6. CASE ClearAll
  BY <1>6 DEF ClearAll, NoTimes, Nothing
<1>7. CASE Tick
  BY <1>7 DEF Tick, Older, Nothing
<1>8. CASE UNCHANGED vars
  BY <1>8 DEF vars
<1> QED
  BY <1>1, <1>2, <1>3, <1>4, <1>5, <1>6, <1>7, <1>8 DEF Next

(* The tables of MultiTenantMemory are well-formed in every reachable      *)
(* state.                                                                  *)
THEOREM TypeCorrect == Spec => []TypeOK
<1>1. Init => TypeOK
  BY DEF Init, TypeOK, NoTimes, NoTime, Old, Nothing
<1> QED
  BY <1>1, TypeStep, PTL DEF Spec

(* No operation takes a tenant over its quota: only write adds an entry,   *)
(* one at a time, and only to a memory _check_quota found below the cap.   *)
LEMMA QuotaStep == TypeOK /\ QuotaHolds /\ [Next]_vars => QuotaHolds'
<1> SUFFICES ASSUME TypeOK, QuotaHolds, [Next]_vars,
                    max_entries_per_tenant > 0, NEW u \in Tenants
             PROVE  Cardinality(entries'[u]) <= max_entries_per_tenant
  BY DEF QuotaHolds
<1>0. Cardinality(entries[u]) <= max_entries_per_tenant
  BY DEF QuotaHolds
<1>a. Cardinality(Kept(u)) <= max_entries_per_tenant
  BY <1>0, KeptIsSmaller
<1>1. ASSUME NEW t \in Tenants, NEW e \in Ids, Write(t, e)
      PROVE  Cardinality(entries'[u]) <= max_entries_per_tenant
  <2>1. CASE u = t
    <3>1. entries'[u] = Kept(u) \cup {e}
      BY <1>1, <2>1 DEF Write, TypeOK
    <3>2. Cardinality(Kept(u)) < max_entries_per_tenant
      BY <1>1, <2>1, KeptIsSmaller DEF Write, QuotaReached
    <3>3. \/ Cardinality(Kept(u) \cup {e}) = Cardinality(Kept(u))
          \/ Cardinality(Kept(u) \cup {e}) = Cardinality(Kept(u)) + 1
      BY KeptIsSmaller, FS_AddElement
    <3> QED
      BY <3>1, <3>2, <3>3, KeptIsSmaller
  <2>2. CASE u # t
    BY <1>0, <1>1, <2>2 DEF Write, TypeOK
  <2> QED
    BY <2>1, <2>2
<1>2. ASSUME NEW t \in Tenants, NEW e \in Ids, WriteRefused(t, e)
      PROVE  Cardinality(entries'[u]) <= max_entries_per_tenant
  <2>1. entries'[u] = entries[u] \/ entries'[u] = Kept(u)
    BY <1>2 DEF WriteRefused, TypeOK
  <2> QED
    BY <2>1, <1>0, <1>a
<1>3. ASSUME NEW t \in Tenants, Retrieve(t)
      PROVE  Cardinality(entries'[u]) <= max_entries_per_tenant
  <2>1. entries'[u] = entries[u] \/ entries'[u] = Kept(u)
    BY <1>3 DEF Retrieve, TypeOK
  <2> QED
    BY <2>1, <1>0, <1>a
<1>4. ASSUME NEW t \in Tenants, Count(t)
      PROVE  Cardinality(entries'[u]) <= max_entries_per_tenant
  BY <1>0, <1>4 DEF Count
<1>5. ASSUME NEW t \in Tenants, Clear(t)
      PROVE  Cardinality(entries'[u]) <= max_entries_per_tenant
  <2>1. entries'[u] = entries[u] \/ entries'[u] = {}
    BY <1>5 DEF Clear, TypeOK
  <2> QED
    BY <2>1, <1>0, FS_EmptySet
<1>6. CASE ClearAll
  <2>1. entries'[u] = {}
    BY <1>6 DEF ClearAll
  <2> QED
    BY <2>1, FS_EmptySet
<1>7. CASE Tick
  BY <1>0, <1>7 DEF Tick
<1>8. CASE UNCHANGED vars
  BY <1>0, <1>8 DEF vars
<1> QED
  BY <1>1, <1>2, <1>3, <1>4, <1>5, <1>6, <1>7, <1>8 DEF Next

(* No tenant ever holds more entries than max_entries_per_tenant. *)
THEOREM QuotaCorrect == Spec => []QuotaHolds
<1>1. Init => QuotaHolds
  <2> SUFFICES ASSUME Init, NEW t \in Tenants, max_entries_per_tenant > 0
               PROVE  Cardinality(entries[t]) <= max_entries_per_tenant
    BY DEF QuotaHolds
  <2>1. entries[t] = {}
    BY DEF Init
  <2> QED
    BY <2>1, FS_EmptySet
<1> QED
  BY <1>1, QuotaStep, TypeCorrect, PTL DEF Spec

-----------------------------------------------------------------------------
(* A tenant without a time table has no times, and only clear() takes the  *)
(* table of a tenant away.                                                 *)
TablesComplete ==
    /\ tenants \ cleared \subseteq timed
    /\ \A t \in Tenants \ timed : \A e \in Ids : times[t][e] = NoTime

(* The inductive invariant behind the two bookkeeping theorems. *)
IInv == TypeOK /\ TimesFollowEntries /\ TablesComplete

(* Each operation leaves a tenant without a time table without times, and  *)
(* creates the table with the memory.                                      *)
LEMMA TablesStep == IInv /\ [Next]_vars => TablesComplete'
<1> SUFFICES ASSUME IInv, [Next]_vars PROVE TablesComplete'
  OBVIOUS
<1> USE DEF IInv, TypeOK, TablesComplete
<1>0. ASSUME NEW t \in Tenants, NEW e \in Ids, times[t][e] = NoTime
      PROVE  KeptTimes(t)[e] = NoTime
  BY <1>0 DEF KeptTimes
<1>1. ASSUME NEW t \in Tenants, NEW e \in Ids, Write(t, e)
      PROVE  TablesComplete'
  <2>1. tenants' \ cleared' \subseteq timed'
    BY <1>1 DEF Write, GetTenantMemory
  <2>2. timed \subseteq timed' /\ KeptTimes(t) \in [Ids -> NoTime..Old]
    BY <1>1 DEF Write, GetTenantMemory, KeptTimes, NoTime, Old
  <2>3. ASSUME NEW u \in Tenants \ timed', NEW f \in Ids
        PROVE  times'[u][f] = NoTime
    BY <1>0, <1>1, <2>2, <2>3 DEF Write
  <2> QED
    BY <2>1, <2>3
<1>2. ASSUME NEW t \in Tenants, NEW e \in Ids, WriteRefused(t, e)
      PROVE  TablesComplete'
  BY <1>0, <1>2 DEF WriteRefused
<1>3. ASSUME NEW t \in Tenants, Retrieve(t) PROVE TablesComplete'
  BY <1>0, <1>3 DEF Retrieve, GetTenantMemory
<1>4. ASSUME NEW t \in Tenants, Count(t) PROVE TablesComplete'
  BY <1>4 DEF Count, GetTenantMemory
<1>5. ASSUME NEW t \in Tenants, Clear(t) PROVE TablesComplete'
  BY <1>5 DEF Clear, NoTimes
<1>6. CASE ClearAll
  BY <1>6 DEF ClearAll, NoTimes
<1>7. CASE Tick
  BY <1>7 DEF Tick, Older, NoTime
<1>8. CASE UNCHANGED vars
  BY <1>8 DEF vars
<1> QED
  BY <1>1, <1>2, <1>3, <1>4, <1>5, <1>6, <1>7, <1>8 DEF Next

(* The time table and the memory stay in step through every operation.     *)
LEMMA TimesStep == IInv /\ [Next]_vars => TimesFollowEntries'
<1> SUFFICES ASSUME IInv, [Next]_vars, NEW u \in Tenants, NEW f \in Ids
             PROVE  /\ times'[u][f] # NoTime
                       => f \in entries'[u] /\ times'[u][f] = age'[u][f]
                    /\ f \in entries'[u] /\ u \notin cleared'
                       => times'[u][f] # NoTime
  BY DEF TimesFollowEntries
<1> DEFINE Goal == /\ times'[u][f] # NoTime
                      => f \in entries'[u] /\ times'[u][f] = age'[u][f]
                   /\ f \in entries'[u] /\ u \notin cleared'
                      => times'[u][f] # NoTime
<1> USE DEF IInv, TypeOK
<1>0. /\ times[u][f] # NoTime => f \in entries[u] /\ times[u][f] = age[u][f]
      /\ f \in entries[u] /\ u \notin cleared => times[u][f] # NoTime
  BY DEF TimesFollowEntries
<1>a. /\ KeptTimes(u)[f] # NoTime
         => f \in Kept(u) /\ KeptTimes(u)[f] = age[u][f]
      /\ f \in Kept(u) /\ u \notin cleared => KeptTimes(u)[f] # NoTime
  BY <1>0 DEF Kept, KeptTimes
<1>1. ASSUME NEW t \in Tenants, NEW e \in Ids, Write(t, e) PROVE Goal
  <2>1. CASE u = t /\ f = e
    <3>1. f \in entries'[u] /\ age'[u][f] = 0
      BY <1>1, <2>1 DEF Write
    <3>2. times'[u][f] = IF u \in timed' THEN 0 ELSE KeptTimes(u)[f]
      BY <1>1, <2>1 DEF Write, KeptTimes
    <3>3. CASE u \in timed'
      BY <3>1, <3>2, <3>3 DEF NoTime
    <3>4. CASE u \notin timed'
      <4>1. u \notin timed /\ u \in cleared'
        BY <1>1, <2>1, <3>4 DEF Write, GetTenantMemory, TablesComplete
      <4>2. KeptTimes(u)[f] = NoTime
        BY <4>1 DEF TablesComplete, KeptTimes
      <4> QED
        BY <3>1, <3>2, <3>4, <4>1, <4>2
    <3> QED
      BY <3>3, <3>4
  <2>2. CASE u = t /\ f # e
    <3>1. /\ times'[u][f] = KeptTimes(u)[f]
          /\ f \in entries'[u] <=> f \in Kept(u)
          /\ age'[u][f] = age[u][f]
          /\ cleared' = cleared
      BY <1>1, <2>2 DEF Write, KeptTimes
    <3> QED
      BY <1>a, <3>1
  <2>3. CASE u # t
    BY <1>0, <1>1, <2>3 DEF Write
  <2> QED
    BY <2>1, <2>2, <2>3
<1>2. ASSUME NEW t \in Tenants, NEW e \in Ids, WriteRefused(t, e) PROVE Goal
  BY <1>0, <1>a, <1>2 DEF WriteRefused
<1>3. ASSUME NEW t \in Tenants, Retrieve(t) PROVE Goal
  BY <1>0, <1>a, <1>3 DEF Retrieve
<1>4. ASSUME NEW t \in Tenants, Count(t) PROVE Goal
  BY <1>0, <1>4 DEF Count
<1>5. ASSUME NEW t \in Tenants, Clear(t) PROVE Goal
  BY <1>0, <1>5 DEF Clear, NoTimes
<1>6. CASE ClearAll
  BY <1>6 DEF ClearAll, NoTimes
<1>7. CASE Tick
  BY <1>0, <1>7 DEF Tick, Older, NoTime, Old
<1>8. CASE UNCHANGED vars
  BY <1>0, <1>8 DEF vars
<1> QED
  BY <1>1, <1>2, <1>3, <1>4, <1>5, <1>6, <1>7, <1>8 DEF Next

(* IInv holds in every reachable state. *)
LEMMA Inductive == Spec => []IInv
<1>1. Init => IInv
  BY DEF Init, IInv, TypeOK, TimesFollowEntries, TablesComplete, NoTimes,
         NoTime, Old, Nothing
<1>2. IInv /\ [Next]_vars => IInv'
  BY TypeStep, TimesStep, TablesStep DEF IInv
<1> QED
  BY <1>1, <1>2, PTL DEF Spec

(* Entry times and stored entries agree; the only tenants whose entries    *)
(* can be without a time are those whose memory was cleared.               *)
THEOREM TimesCorrect == Spec => []TimesFollowEntries
<1>1. IInv => TimesFollowEntries
  BY DEF IInv
<1> QED
  BY Inductive, <1>1, PTL

(* After a refusal nothing happens to the tenant's entries without its     *)
(* last result changing too, and what _gc_tenant kept is alive.            *)
LEMMA RefusedStep ==
    IInv /\ RefusedByLiveEntriesOnly /\ [Next]_vars
    => RefusedByLiveEntriesOnly'
<1> SUFFICES ASSUME IInv, RefusedByLiveEntriesOnly, [Next]_vars,
                    NEW u \in Tenants,
                    result'[u].what = "QuotaExceeded", u \notin cleared'
             PROVE  /\ Live(u, entries[u])'
                    /\ Cardinality(entries'[u]) >= max_entries_per_tenant
  BY DEF RefusedByLiveEntriesOnly
<1> DEFINE Goal == /\ Live(u, entries[u])'
                   /\ Cardinality(entries'[u]) >= max_entries_per_tenant
<1> USE DEF IInv, TypeOK
<1>0. ASSUME result'[u] = result[u], entries'[u] = entries[u],
             age'[u] = age[u], cleared \subseteq cleared'
      PROVE  Goal
  BY <1>0 DEF RefusedByLiveEntriesOnly, Live
<1>1. ASSUME NEW t \in Tenants, NEW e \in Ids, Write(t, e) PROVE Goal
  <2>1. u # t
    BY <1>1 DEF Write, Answer
  <2> QED
    BY <1>0, <1>1, <2>1 DEF Write, Answer
<1>2. ASSUME NEW t \in Tenants, NEW e \in Ids, WriteRefused(t, e) PROVE Goal
  <2>1. CASE u = t
    <3>1. entries'[u] = Kept(u) /\ age' = age /\ cleared' = cleared
      BY <1>2, <2>1 DEF WriteRefused
    <3>2. Cardinality(Kept(u)) >= max_entries_per_tenant
      BY <1>2, <2>1 DEF WriteRefused, QuotaReached
    <3>3. ASSUME ttl_seconds > 0, NEW f \in Kept(u)
          PROVE  age[u][f] <= ttl_seconds
      <4>1. f \in Ids /\ f \in entries[u] /\ ~(times[u][f] > ttl_seconds)
        BY <3>3 DEF Kept, Expired
      <4>2. times[u][f] = age[u][f]
        BY <3>1, <4>1 DEF TimesFollowEntries
      <4> QED
        BY <4>1, <4>2
    <3> QED
      BY <3>1, <3>2, <3>3 DEF Live
  <2>2. CASE u # t
    BY <1>0, <1>2, <2>2 DEF WriteRefused, Answer
  <2> QED
    BY <2>1, <2>2
<1>3. ASSUME NEW t \in Tenants, Retrieve(t) PROVE Goal
  <2>1. u # t
    BY <1>3 DEF Retrieve, Answer
  <2> QED
    BY <1>0, <1>3, <2>1 DEF Retrieve, Answer
<1>4. ASSUME NEW t \in Tenants, Count(t) PROVE Goal
  <2>1. u # t
    BY <1>4 DEF Count, Answer
  <2> QED
    BY <1>0, <1>4, <2>1 DEF Count, Answer
<1>5. ASSUME NEW t \in Tenants, Clear(t) PROVE Goal
  <2>1. u # t
    BY <1>5 DEF Clear, Answer
  <2> QED
    BY <1>0, <1>5, <2>1 DEF Clear, Answer
<1>6. CASE ClearAll
  BY <1>6 DEF ClearAll, Nothing
<1>7. CASE Tick
  BY <1>7 DEF Tick, Nothing
<1>8. CASE UNCHANGED vars
  BY <1>0, <1>8 DEF vars
<1> QED
  BY <1>1, <1>2, <1>3, <1>4, <1>5, <1>6, <1>7, <1>8 DEF Next

(* A write to a memory that was never cleared is refused only when that    *)
(* memory is full of entries that have not expired.                        *)
THEOREM RefusalCorrect == Spec => []RefusedByLiveEntriesOnly
<1>1. Init => RefusedByLiveEntriesOnly
  BY DEF Init, RefusedByLiveEntriesOnly, Nothing
<1> QED
  BY <1>1, RefusedStep, Inductive, PTL DEF Spec
-----------------------------------------------------------------------------
(***************************************************************************)
(* What is left of "Entries older than this are garbage-collected": from a *)
(* memory that was never cleared, retrieve returns every entry still       *)
(* stored, and none of them is too old (_gc_tenant, retrieve).             *)
(***************************************************************************)
RetrievedAreLiveUnlessCleared ==
    \A t \in Tenants :
        result[t].what = "retrieved" /\ t \notin cleared
        => Live(t, result[t].ids) /\ result[t].ids = entries[t]

(* What a tenant was given stays what it has until its next call, or until  *)
(* the results are no longer looked at.                                     *)
LEMMA RetrievedStep ==
    IInv /\ RetrievedAreLiveUnlessCleared /\ [Next]_vars
    => RetrievedAreLiveUnlessCleared'
<1> SUFFICES ASSUME IInv, RetrievedAreLiveUnlessCleared, [Next]_vars,
                    NEW u \in Tenants,
                    result'[u].what = "retrieved", u \notin cleared'
             PROVE  Live(u, result[u].ids)' /\ result'[u].ids = entries'[u]
  BY DEF RetrievedAreLiveUnlessCleared
<1> DEFINE Goal == Live(u, result[u].ids)' /\ result'[u].ids = entries'[u]
<1> USE DEF IInv, TypeOK
<1>0. ASSUME result'[u] = result[u], entries'[u] = entries[u],
             age'[u] = age[u], cleared \subseteq cleared'
      PROVE  Goal
  BY <1>0 DEF RetrievedAreLiveUnlessCleared, Live
<1>1. ASSUME NEW t \in Tenants, NEW e \in Ids, Write(t, e) PROVE Goal
  <2>1. u # t
    BY <1>1 DEF Write, Answer
  <2> QED
    BY <1>0, <1>1, <2>1 DEF Write, Answer
<1>2. ASSUME NEW t \in Tenants, NEW e \in Ids, WriteRefused(t, e) PROVE Goal
  <2>1. u # t
    BY <1>2 DEF WriteRefused, Answer
  <2> QED
    BY <1>0, <1>2, <2>1 DEF WriteRefused, Answer
<1>3. ASSUME NEW t \in Tenants, Retrieve(t) PROVE Goal
  <2>1. CASE u = t
    <3>1. /\ entries'[u] = Kept(u) /\ result'[u].ids = Kept(u)
          /\ age' = age /\ cleared' = cleared
      BY <1>3, <2>1 DEF Retrieve, Answer
    <3>2. ASSUME ttl_seconds > 0, NEW f \in Kept(u)
          PROVE  age[u][f] <= ttl_seconds
      <4>1. f \in Ids /\ f \in entries[u] /\ ~(times[u][f] > ttl_seconds)
        BY <3>2 DEF Kept, Expired
      <4>2. times[u][f] = age[u][f]
        BY <3>1, <4>1 DEF TimesFollowEntries
      <4> QED
        BY <4>1, <4>2
    <3> QED
      BY <3>1, <3>2 DEF Live
  <2>2. CASE u # t
    BY <1>0, <1>3, <2>2 DEF Retrieve, Answer
  <2> QED
    BY <2>1, <2>2
<1>4. ASSUME NEW t \in Tenants, Count(t) PROVE Goal
  <2>1. u # t
    BY <1>4 DEF Count, Answer
  <2> QED
    BY <1>0, <1>4, <2>1 DEF Count, Answer
<1>5. ASSUME NEW t \in Tenants, Clear(t) PROVE Goal
  <2>1. u # t
    BY <1>5 DEF Clear, Answer
  <2> QED
    BY <1>0, <1>5, <2>1 DEF Clear, Answer
<1>6. CASE ClearAll
  BY <1>6 DEF ClearAll, Nothing
<1>7. CASE Tick
  BY <1>7 DEF Tick, Nothing
<1>8. CASE UNCHANGED vars
  BY <1>0, <1>8 DEF vars
<1> QED
  BY <1>1, <1>2, <1>3, <1>4, <1>5, <1>6, <1>7, <1>8 DEF Next

(* RetrievedAreLive, which the run of the TTL refutes, fails only for       *)
(* tenants whose memory was cleared: for all others retrieve returns live   *)
(* entries only, whatever the TTL and the quota.                            *)
THEOREM RetrievedCorrect == Spec => []RetrievedAreLiveUnlessCleared
<1>1. Init => RetrievedAreLiveUnlessCleared
  BY DEF Init, RetrievedAreLiveUnlessCleared, Nothing
<1> QED
  BY <1>1, RetrievedStep, Inductive, PTL DEF Spec
-----------------------------------------------------------------------------
CONSTANTS RunIds, Calls, MaxPools

VARIABLES table, rows, pool, pools, lock, op, id, mine, pc, answer

Postgres == INSTANCE PostgresRunStore

Steps ==
    {"start", "connecting", "schema", "acquire", "execute", "closing",
     "returned", "raised"}

PoolTypes ==
    /\ pools \in Seq({"open", "closing", "closed"})
    /\ pool \in 0..Len(pools)
    /\ mine \in [Calls -> 0..Len(pools)]
    /\ pc \in [Calls -> Steps]

(* The lock is held by the one call that makes a pool, and none is there    *)
(* before it has.                                                           *)
Making(c) == pc[c] \in {"connecting", "schema"}

OneMakes ==
    /\ \A c \in Calls : Making(c) => op[c] # "close" /\ lock
    /\ \A c, d \in Calls : Making(c) /\ Making(d) => c = d
    /\ \A c \in Calls : pc[c] = "connecting" => pool = 0

(* A call of close that is at work on another pool than _pool has been      *)
(* overtaken by one that was at work on the same.                           *)
Overtaken(c) ==
    pc[c] = "closing" /\ mine[c] # pool
    => \/ Postgres!ClosedTwice
       \/ \E d \in Calls : Postgres!Closed(d) /\ mine[d] = mine[c]

ClosersBehind ==
    \A c \in Calls :
        /\ pc[c] = "closing" => op[c] = "close" /\ mine[c] # 0
        /\ Overtaken(c)

PoolInv == PoolTypes /\ OneMakes /\ ClosersBehind /\ Postgres!NoPoolForgotten

(* A call that takes a step, and the others. *)
LEMMA GotoOf ==
    ASSUME PoolTypes, NEW c \in Calls, NEW from, NEW to \in Steps,
           Postgres!Goto(c, from, to)
    PROVE  /\ pc[c] = from /\ pc'[c] = to
           /\ \A d \in Calls : d # c => pc'[d] = pc[d]
           /\ pc' \in [Calls -> Steps]
           /\ op' = op
  BY DEF PoolTypes, Postgres!Goto

(* What was closed stays closed, by whoever closed it. *)
LEMMA ClosedStays ==
    ASSUME PoolTypes, NEW c \in Calls, pc[c] # "returned",
           \A d \in Calls : d # c => pc'[d] = pc[d] /\ mine'[d] = mine[d],
           op' = op
    PROVE  /\ \A d \in Calls : Postgres!Closed(d)
                               => Postgres!Closed(d)' /\ mine'[d] = mine[d]
           /\ Postgres!ClosedTwice => Postgres!ClosedTwice'
<1>1. ASSUME NEW d \in Calls, Postgres!Closed(d)
      PROVE  Postgres!Closed(d)' /\ mine'[d] = mine[d]
  <2>1. d # c
    BY <1>1 DEF Postgres!Closed
  <2> QED
    BY <1>1, <2>1 DEF Postgres!Closed
<1> QED
  BY <1>1 DEF Postgres!ClosedTwice

(* A step that leaves the pools and who works with them as they are.  *)
LEMMA PoolsStay ==
    ASSUME PoolInv, NEW c \in Calls,
           NEW from \in {"start", "schema", "connecting", "acquire", "execute"},
           NEW to \in {"connecting", "acquire", "execute", "returned", "raised"},
           Postgres!Goto(c, from, to),
           UNCHANGED <<pool, pools>>,
           mine' = mine \/ mine' = [mine EXCEPT ![c] = pool],
           op[c] = "close" => mine' = mine /\ to # "connecting",
           to = "connecting" => ~lock /\ lock' /\ pool = 0,
           from \in {"schema", "connecting"} => to # "connecting",
           from \notin {"schema", "connecting"} => lock' = lock \/ to = "connecting"
    PROVE  PoolInv'
<1> USE DEF PoolInv
<1>1. /\ pc[c] = from /\ pc'[c] = to
      /\ \A d \in Calls : d # c => pc'[d] = pc[d] /\ mine'[d] = mine[d]
      /\ pc' \in [Calls -> Steps]
      /\ op' = op
  BY GotoOf DEF Steps, PoolTypes
<1>2. PoolTypes'
  BY <1>1 DEF PoolTypes
<1>3. OneMakes'
  <2>1. ASSUME NEW d \in Calls, Making(d)' PROVE op'[d] # "close" /\ lock'
    BY <1>1, <2>1 DEF OneMakes, Making
  <2>2. ASSUME NEW d \in Calls, NEW e \in Calls, Making(d)', Making(e)'
        PROVE  d = e
    BY <1>1, <2>2 DEF OneMakes, Making
  <2>3. \A d \in Calls : pc'[d] = "connecting" => pool' = 0
    BY <1>1 DEF OneMakes
  <2> QED
    BY <2>1, <2>2, <2>3 DEF OneMakes
<1>4. /\ \A d \in Calls : Postgres!Closed(d)
                          => Postgres!Closed(d)' /\ mine'[d] = mine[d]
      /\ Postgres!ClosedTwice => Postgres!ClosedTwice'
  BY <1>1, ClosedStays
<1>5. ClosersBehind'
  BY <1>1, <1>4 DEF ClosersBehind, Overtaken
<1>6. Postgres!NoPoolForgotten'
  BY <1>4 DEF Postgres!NoPoolForgotten
<1> QED
  BY <1>2, <1>3, <1>5, <1>6

(* A new pool is published where there was none. *)
LEMMA PoolMade ==
    ASSUME PoolInv, NEW c \in Calls, Postgres!Connected(c)
    PROVE  PoolInv'
<1> USE DEF PoolInv
<1>1. /\ pc[c] = "connecting" /\ pc'[c] = "schema"
      /\ \A d \in Calls : d # c => pc'[d] = pc[d]
      /\ pc' \in [Calls -> Steps]
      /\ op' = op
  BY GotoOf DEF Postgres!Connected, Steps
<1>2. /\ pool = 0 /\ op[c] # "close" /\ lock
  BY <1>1 DEF OneMakes, Making
<1>3. /\ pools' = Append(pools, "open") /\ Len(pools) \in Nat
      /\ pools' \in Seq({"open", "closing", "closed"})
      /\ Len(pools') = Len(pools) + 1
      /\ DOMAIN pools = 1..Len(pools) /\ DOMAIN pools' = 1..(Len(pools) + 1)
      /\ \A p \in 1..Len(pools) : pools'[p] = pools[p]
  BY DEF Postgres!Connected, PoolTypes
<1>4. /\ pool' = Len(pools) + 1 /\ lock' = lock
      /\ mine' = [mine EXCEPT ![c] = Len(pools) + 1]
      /\ \A d \in Calls : d # c => mine'[d] = mine[d]
  BY DEF Postgres!Connected, Postgres!WorksWith, PoolTypes
<1>5. PoolTypes'
  BY <1>1, <1>3, <1>4 DEF PoolTypes
<1>6. OneMakes'
  BY <1>1, <1>2, <1>4 DEF OneMakes, Making
<1>7. /\ \A d \in Calls : Postgres!Closed(d)
                          => Postgres!Closed(d)' /\ mine'[d] = mine[d]
      /\ Postgres!ClosedTwice => Postgres!ClosedTwice'
  BY <1>1, <1>4, ClosedStays
<1>8. ClosersBehind'
  BY <1>1, <1>2, <1>4, <1>7 DEF ClosersBehind, Overtaken
<1>9. Postgres!NoPoolForgotten'
  BY <1>2, <1>3, <1>4, <1>7 DEF Postgres!NoPoolForgotten
<1> QED
  BY <1>5, <1>6, <1>8, <1>9

(* A call of close goes to work on _pool. *)
LEMMA CloseStarted ==
    ASSUME PoolInv, NEW c \in Calls, Postgres!StartClose(c)
    PROVE  PoolInv'
<1> USE DEF PoolInv
<1>1. /\ pc[c] = "start" /\ pc'[c] = "closing" /\ op[c] = "close"
      /\ \A d \in Calls : d # c => pc'[d] = pc[d]
      /\ pc' \in [Calls -> Steps]
      /\ op' = op
  BY GotoOf DEF Postgres!StartClose, Steps
<1>2. /\ pool # 0 /\ pool' = pool /\ lock' = lock
      /\ mine' = [mine EXCEPT ![c] = pool]
      /\ mine'[c] = pool /\ \A d \in Calls : d # c => mine'[d] = mine[d]
  BY DEF Postgres!StartClose, Postgres!WorksWith, PoolTypes
<1>3. /\ pools' = [pools EXCEPT ![pool] = IF @ = "open" THEN "closing" ELSE @]
      /\ pool \in DOMAIN pools
  BY <1>2 DEF Postgres!StartClose, PoolTypes
<1>4. /\ pools' \in Seq({"open", "closing", "closed"})
      /\ Len(pools') = Len(pools) /\ DOMAIN pools' = DOMAIN pools
      /\ \A p \in DOMAIN pools : pools'[p] = "closed" <=> pools[p] = "closed"
  BY <1>3 DEF PoolTypes
<1>5. PoolTypes'
  BY <1>1, <1>2, <1>4 DEF PoolTypes
<1>6. OneMakes'
  BY <1>1, <1>2 DEF OneMakes, Making
<1>7. /\ \A d \in Calls : Postgres!Closed(d)
                          => Postgres!Closed(d)' /\ mine'[d] = mine[d]
      /\ Postgres!ClosedTwice => Postgres!ClosedTwice'
  BY <1>1, <1>2, ClosedStays
<1>8. ClosersBehind'
  BY <1>1, <1>2, <1>7 DEF ClosersBehind, Overtaken
<1>9. Postgres!NoPoolForgotten'
  BY <1>2, <1>4, <1>7 DEF Postgres!NoPoolForgotten
<1> QED
  BY <1>5, <1>6, <1>8, <1>9

(* A call of close forgets _pool: the pool it has closed, or a later one if *)
(* it has been overtaken, and then its pool was closed twice.               *)
LEMMA CloseFinished ==
    ASSUME PoolInv, NEW c \in Calls, Postgres!FinishClose(c)
    PROVE  PoolInv'
<1> USE DEF PoolInv
<1>1. /\ pc[c] = "closing" /\ pc'[c] = "returned"
      /\ \A d \in Calls : d # c => pc'[d] = pc[d]
      /\ pc' \in [Calls -> Steps]
      /\ op' = op
  BY GotoOf DEF Postgres!FinishClose, Steps
<1>2. /\ op[c] = "close" /\ mine[c] # 0 /\ mine[c] \in DOMAIN pools
      /\ pool' = 0 /\ lock' = lock /\ mine' = mine
      /\ pools' = [pools EXCEPT ![mine[c]] = "closed"]
  BY <1>1 DEF Postgres!FinishClose, PoolTypes, ClosersBehind
<1>3. /\ pools' \in Seq({"open", "closing", "closed"})
      /\ Len(pools') = Len(pools) /\ DOMAIN pools' = DOMAIN pools
      /\ pools'[mine[c]] = "closed"
      /\ \A p \in DOMAIN pools : p # mine[c] => pools'[p] = pools[p]
  BY <1>2 DEF PoolTypes
<1>4. PoolTypes'
  BY <1>1, <1>2, <1>3 DEF PoolTypes
<1>5. OneMakes'
  BY <1>1, <1>2 DEF OneMakes, Making
<1>6. /\ \A d \in Calls : Postgres!Closed(d) => Postgres!Closed(d)'
      /\ Postgres!ClosedTwice => Postgres!ClosedTwice'
  BY <1>1, <1>2, ClosedStays
<1>7. Postgres!Closed(c)' /\ ~Postgres!Closed(c)
  BY <1>1, <1>2 DEF Postgres!Closed
<1>8. mine[c] # pool => Postgres!ClosedTwice'
  BY <1>1, <1>2, <1>6, <1>7 DEF ClosersBehind, Overtaken, Postgres!ClosedTwice
<1>9. ClosersBehind'
  <2> SUFFICES ASSUME NEW d \in Calls, pc'[d] = "closing"
               PROVE  op'[d] = "close" /\ mine'[d] # 0 /\ Overtaken(d)'
    BY DEF ClosersBehind, Overtaken
  <2>1. d # c /\ pc[d] = "closing" /\ op[d] = "close" /\ mine[d] # 0
    BY <1>1 DEF ClosersBehind
  <2>2. CASE mine[d] # pool
    BY <1>1, <1>2, <1>6, <2>1, <2>2 DEF ClosersBehind, Overtaken
  <2>3. CASE mine[d] = pool /\ mine[c] = pool
    BY <1>1, <1>2, <1>7, <2>1, <2>3 DEF Overtaken
  <2>4. CASE mine[c] # pool
    BY <1>1, <1>2, <1>8, <2>1, <2>4 DEF Overtaken
  <2> QED
    BY <2>2, <2>3, <2>4
<1>10. Postgres!NoPoolForgotten'
  BY <1>2, <1>3, <1>6, <1>8 DEF Postgres!NoPoolForgotten
<1> QED
  BY <1>4, <1>5, <1>9, <1>10

LEMMA PoolStep == PoolInv /\ [Postgres!Next]_Postgres!vars => PoolInv'
<1> SUFFICES ASSUME PoolInv, [Postgres!Next]_Postgres!vars PROVE PoolInv'
  OBVIOUS
<1>1. CASE UNCHANGED Postgres!vars
  BY <1>1
  DEF Postgres!vars, PoolInv, PoolTypes, OneMakes, Making, ClosersBehind,
      Overtaken, Postgres!Closed, Postgres!ClosedTwice, Postgres!NoPoolForgotten
<1>2. ASSUME NEW c \in Calls, Postgres!EnsurePool(c) PROVE PoolInv'
  BY <1>2, PoolsStay, Zenon DEF Postgres!EnsurePool, Postgres!WorksWith
<1>3. ASSUME NEW c \in Calls, Postgres!TakeLock(c) PROVE PoolInv'
  BY <1>3, PoolsStay, Zenon DEF Postgres!TakeLock
<1>4. ASSUME NEW c \in Calls, Postgres!ConnectFails(c) PROVE PoolInv'
  <2>1. Postgres!Goto(c, "connecting", "raised") /\ UNCHANGED <<pool, pools, mine>>
    BY <1>4 DEF Postgres!ConnectFails
  <2> QED
    BY <2>1, PoolsStay
<1>5. ASSUME NEW c \in Calls, Postgres!RunSchema(c) PROVE PoolInv'
  <2>1. /\ \E to \in {"acquire", "raised"} : Postgres!Goto(c, "schema", to)
        /\ UNCHANGED <<pool, pools, mine>>
    BY <1>5 DEF Postgres!RunSchema
  <2> QED
    BY <2>1, PoolsStay
<1>6. ASSUME NEW c \in Calls, Postgres!Acquire(c) PROVE PoolInv'
  <2>1. /\ \E to \in {"execute", "raised"} : Postgres!Goto(c, "acquire", to)
        /\ UNCHANGED <<pool, pools, lock, mine>>
    BY <1>6 DEF Postgres!Acquire
  <2> QED
    BY <2>1, PoolsStay
<1>7. ASSUME NEW c \in Calls,
             \/ Postgres!Save(c) \/ Postgres!Get(c)
             \/ Postgres!List(c) \/ Postgres!Count(c)
      PROVE  PoolInv'
  <2>1. \E o : Postgres!Statement(c, o)
    BY <1>7 DEF Postgres!Save, Postgres!Get, Postgres!List, Postgres!Count
  <2>2. /\ \E to \in {"raised", "returned"} : Postgres!Goto(c, "execute", to)
        /\ UNCHANGED <<pool, pools, lock, mine>>
    BY <2>1 DEF Postgres!Statement
  <2> QED
    BY <2>2, PoolsStay
<1>8. ASSUME NEW c \in Calls, Postgres!CloseNothing(c) PROVE PoolInv'
  <2>1. Postgres!Goto(c, "start", "returned") /\ UNCHANGED <<pool, pools, lock, mine>>
    BY <1>8 DEF Postgres!CloseNothing
  <2> QED
    BY <2>1, PoolsStay
<1> QED
  BY <1>1, <1>2, <1>3, <1>4, <1>5, <1>6, <1>7, <1>8, PoolMade, CloseStarted,
     CloseFinished
  DEF Postgres!Next

LEMMA PoolAlways == Postgres!Spec => []PoolInv
<1>1. Postgres!Init => PoolInv
  BY DEF Postgres!Init, PoolInv, PoolTypes, Steps, OneMakes, Making,
         ClosersBehind, Overtaken, Postgres!NoPoolForgotten
<1> QED
  BY <1>1, PoolStep, PTL DEF Postgres!Spec

(* For any number of calls and pools: a pool is forgotten only after two    *)
(* calls of close have closed another one.                                  *)
THEOREM PoolsCorrect == Postgres!Spec => []Postgres!NoPoolForgotten
<1>1. PoolInv => Postgres!NoPoolForgotten
  BY DEF PoolInv
<1> QED
  BY <1>1, PoolAlways, PTL

(* The lock of _ensure_pool does what it is for: however many calls come    *)
(* first, they share one pool.                                              *)
THEOREM PublishedOnce == Postgres!Spec => Postgres!PoolIsNeverReplaced
<1>1. PoolInv /\ [Postgres!Next]_Postgres!vars
      => [pool # 0 => pool' \in {0, pool}]_Postgres!vars
  <2> SUFFICES ASSUME PoolInv, [Postgres!Next]_Postgres!vars, pool # 0
               PROVE  pool' \in {0, pool}
    OBVIOUS
  <2>1. ASSUME NEW c \in Calls, Postgres!Connected(c) PROVE FALSE
    BY <2>1 DEF Postgres!Connected, Postgres!Goto, PoolInv, OneMakes
  <2> QED
    BY <2>1
    DEF Postgres!Next, Postgres!vars, Postgres!EnsurePool, Postgres!TakeLock,
        Postgres!ConnectFails, Postgres!RunSchema, Postgres!Acquire,
        Postgres!Save, Postgres!Get, Postgres!List, Postgres!Count,
        Postgres!Statement, Postgres!CloseNothing, Postgres!StartClose,
        Postgres!FinishClose
<1>2. Postgres!Spec => [][pool # 0 => pool' \in {0, pool}]_Postgres!vars
  BY <1>1, PoolAlways, PTL DEF Postgres!Spec
<1> QED
  BY <1>2 DEF Postgres!PoolIsNeverReplaced
=============================================================================
