------------------------------ MODULE RunStore ------------------------------
(***************************************************************************)
(* The run store of src/src/chen/persistence/run_store.py: one SQLite      *)
(* table, one connection per process, and a lock held by every operation.  *)
(* A statement is a transaction of its own, also against other processes   *)
(* on the file, so that each operation is one action.                      *)
(*                                                                         *)
(* A record is reduced to the run its columns come from: `prompt` stands   *)
(* for the columns that describe the request, `output` for those that      *)
(* describe its result.                                                    *)
(***************************************************************************)
EXTENDS FiniteSets

CONSTANT RunIds

VARIABLES
    table,   \* "missing", "plain" (without the columns that were added
             \* later, trace_id and tenant_id) or "current"
    rows     \* its rows, by primary key

NoRow == [prompt |-> "none", output |-> "none"]

Record(run) == [prompt |-> run, output |-> run]

EmptyTable ==
    /\ table \in {"missing", "plain", "current"}
    /\ rows = [id \in RunIds |-> NoRow]

(* RunStore(): the schema script creates a missing table with all columns.  *)
(* On a plain table its indexes on the later columns raise, before _migrate *)
(* gets to add these; on a current one _migrate finds nothing to add.       *)
opened ==
    /\ table # "plain"
    /\ table' = "current"
    /\ UNCHANGED rows

open_raises ==
    /\ table = "plain"
    /\ UNCHANGED <<table, rows>>

(* INSERT OR REPLACE: the whole row is the new record. *)
save(id, run) ==
    /\ rows' = [rows EXCEPT ![id] = Record(run)]
    /\ UNCHANGED table

get(id) == rows[id]

(* The ids of a list without a limit or a phase, and their count. *)
list == {id \in RunIds : rows[id] # NoRow}
count == Cardinality(list)
=============================================================================
