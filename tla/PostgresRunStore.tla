-------------------------- MODULE PostgresRunStore --------------------------
(***************************************************************************)
(* The Postgres run store of src/src/chen/persistence/pg_store.py, which   *)
(* has the interface of RunStore.  The calls are coroutines of one event   *)
(* loop; each await is a place where another call may go on.  The pool is  *)
(* created by the first call, under an asyncio lock, and forgotten by      *)
(* close, without it: calls may hold on to a pool that is being closed.    *)
(*                                                                         *)
(* The schema is sent as one script, which Postgres runs as a transaction; *)
(* its last statement indexes a column, tenant_id, that its CREATE TABLE   *)
(* lacks, so it only succeeds on a table that has the column already.      *)
(***************************************************************************)
EXTENDS RunStore, Naturals, Sequences

CONSTANTS
    Calls,     \* the calls; a record is the call that saves it
    MaxPools   \* bound on the pools that are created

VARIABLES
    pool,     \* _pool: the number of a pool, or 0 for None
    pools,    \* the pools created so far: "open", "closing" or "closed"
    lock,     \* _lock is held
    op,       \* what each call does: "save", "get", "list", "count", "close"
    id,       \* the run id it is about
    mine,     \* the pool it works with
    pc,       \* where it is
    answer    \* what a call that reads returned, after its name

vars == <<table, rows, pool, pools, lock, op, id, mine, pc, answer>>
database == <<table, rows>>

Init ==
    /\ EmptyTable
    /\ pool = 0
    /\ pools = <<>>
    /\ lock = FALSE
    /\ op \in [Calls -> {"save", "get", "list", "count", "close"}]
    /\ id \in [Calls -> RunIds]
    /\ mine = [c \in Calls |-> 0]
    /\ pc = [c \in Calls |-> "start"]
    /\ answer = [c \in Calls |-> <<>>]

Goto(c, from, to) ==
    /\ pc[c] = from
    /\ pc' = [pc EXCEPT ![c] = to]
    /\ UNCHANGED <<op, id>>

WorksWith(c, p) == mine' = [mine EXCEPT ![c] = p]

-----------------------------------------------------------------------------
(* _ensure_pool: with a pool, or after waiting for the call that made it. *)
EnsurePool(c) ==
    /\ Goto(c, "start", "acquire") /\ op[c] # "close"
    /\ pool # 0
    /\ WorksWith(c, pool)
    /\ UNCHANGED <<database, pool, pools, lock, answer>>

(* Without one the call takes the lock and connects. *)
TakeLock(c) ==
    /\ Goto(c, "start", "connecting") /\ op[c] # "close"
    /\ pool = 0 /\ ~lock
    /\ lock' = TRUE
    /\ UNCHANGED <<database, pool, pools, mine, answer>>

(* create_pool returns or raises; the pool is published at once. *)
Connected(c) ==
    /\ Goto(c, "connecting", "schema")
    /\ Len(pools) < MaxPools
    /\ pools' = Append(pools, "open")
    /\ pool' = Len(pools) + 1
    /\ WorksWith(c, Len(pools) + 1)
    /\ UNCHANGED <<database, lock, answer>>

ConnectFails(c) ==
    /\ Goto(c, "connecting", "raised")
    /\ lock' = FALSE
    /\ UNCHANGED <<database, pool, pools, mine, answer>>

(* The schema script; when it raises, the pool stays.  What _ensure_pool    *)
(* returns is _pool, which close may have set to None by then.              *)
RunSchema(c) ==
    /\ Goto(c, "schema",
            IF table = "current" /\ pools[mine[c]] = "open" /\ pool # 0
            THEN "acquire"
            ELSE "raised")
    /\ lock' = FALSE
    /\ UNCHANGED <<database, pool, pools, mine, answer>>

(* pool.acquire raises when the pool is being closed. *)
Acquire(c) ==
    /\ Goto(c, "acquire",
            IF pools[mine[c]] = "open" THEN "execute" ELSE "raised")
    /\ UNCHANGED <<database, pool, pools, lock, mine, answer>>

-----------------------------------------------------------------------------
(* INSERT ... ON CONFLICT DO UPDATE: the columns of the result are replaced *)
(* and those of the request, the prompt among them, are kept.               *)
Upsert(c) ==
    IF rows[id[c]] = NoRow THEN save(id[c], c)
    ELSE rows' = [rows EXCEPT ![id[c]].output = c] /\ UNCHANGED table

(* A statement with a connection; there may be no table to work on. *)
Statement(c, o) ==
    /\ op[c] = o
    /\ Goto(c, "execute", IF table = "missing" THEN "raised" ELSE "returned")
    /\ UNCHANGED <<pool, pools, lock, mine>>

Answers(c, value) ==
    /\ answer' = IF table = "missing" THEN answer
                                      ELSE [answer EXCEPT ![c] = <<op[c], value>>]
    /\ UNCHANGED database

Save(c) ==
    /\ Statement(c, "save")
    /\ IF table = "missing" THEN UNCHANGED database ELSE Upsert(c)
    /\ UNCHANGED answer

(* get: the row, or None. *)
Get(c) == Statement(c, "get") /\ Answers(c, get(id[c]))

(* list: the rows, newest first, without a limit or a phase. *)
List(c) == Statement(c, "list") /\ Answers(c, {get(i) : i \in list})

Count(c) == Statement(c, "count") /\ Answers(c, count)

-----------------------------------------------------------------------------
(* close does nothing without a pool, although one may be on its way. *)
CloseNothing(c) ==
    /\ op[c] = "close" /\ pool = 0
    /\ Goto(c, "start", "returned")
    /\ UNCHANGED <<database, pool, pools, lock, mine, answer>>

(* Otherwise it closes the pool, which waits for connections in use, ... *)
StartClose(c) ==
    /\ op[c] = "close" /\ pool # 0
    /\ Goto(c, "start", "closing")
    /\ WorksWith(c, pool)
    /\ pools' = [pools EXCEPT ![pool] = IF @ = "open" THEN "closing" ELSE @]
    /\ UNCHANGED <<database, pool, lock, answer>>

(* ... and sets _pool to None, whatever it is by then. *)
FinishClose(c) ==
    /\ Goto(c, "closing", "returned")
    /\ \A d \in Calls : mine[d] = mine[c] => pc[d] \notin {"execute", "schema"}
    /\ pools' = [pools EXCEPT ![mine[c]] = "closed"]
    /\ pool' = 0
    /\ UNCHANGED <<database, lock, mine, answer>>

Next ==
    \E c \in Calls :
        \/ EnsurePool(c) \/ TakeLock(c) \/ Connected(c) \/ ConnectFails(c)
        \/ RunSchema(c) \/ Acquire(c)
        \/ Save(c) \/ Get(c) \/ List(c) \/ Count(c)
        \/ CloseNothing(c) \/ StartClose(c) \/ FinishClose(c)

Spec == Init /\ [][Next]_vars

-----------------------------------------------------------------------------
(* Two calls have closed the same pool. *)
Closed(c) == op[c] = "close" /\ pc[c] = "returned" /\ mine[c] # 0

ClosedTwice ==
    \E c, d \in Calls : c # d /\ Closed(c) /\ Closed(d) /\ mine[c] = mine[d]

(***************************************************************************)
(* The only way to lose a pool: one that is neither _pool nor closed, and  *)
(* that nobody will close, is there only if two calls of close overlapped  *)
(* on an earlier one, where the later one forgets what it has not closed   *)
(* (close, _ensure_pool).                                                  *)
(***************************************************************************)
NoPoolForgotten ==
    \A p \in DOMAIN pools : pools[p] # "closed" /\ p # pool => ClosedTwice

(***************************************************************************)
(* Calls that find no pool at the same time do not make one each: a pool   *)
(* that is published stays until close takes it away (_ensure_pool).       *)
(***************************************************************************)
PoolIsNeverReplaced == [][pool # 0 => pool' \in {0, pool}]_vars

-----------------------------------------------------------------------------
(***************************************************************************)
(* "Insert (or replace) a run record" (save): a stored row is the record   *)
(* of one run.                                                             *)
(***************************************************************************)
RowIsOneRun == \A i \in RunIds : rows[i].prompt = rows[i].output
=============================================================================
