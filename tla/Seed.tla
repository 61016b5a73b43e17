-------------------------------- MODULE Seed --------------------------------
(***************************************************************************)
(* seed_table of mcp/tools/composite.py: one MCP tool call that fills one  *)
(* table by a series of API requests, between which other calls run; with  *)
(* the requests' handlers in services/unity_catalog.py and the warehouse   *)
(* of mcp/tools/sql.py.  Two calls seed the same table, each with rows of  *)
(* its own, and a call can be cancelled at any request.                    *)
(*                                                                         *)
(* A table's contents are its column list and whose rows it holds.  A      *)
(* request says which column lists its rows fit, those of its own list or  *)
(* not: rows without names for their columns may fit the columns of another*)
(* call.  Rows that do not fit are refused by the INSERT.                  *)
(***************************************************************************)
EXTENDS Naturals, FiniteSets, TLC

CONSTANTS Callers, NoTable

Columns == {"old", "new", "unsupported"}
ColumnLists == {"old", "new"}
Requests ==
  {r \in [columns : Columns, fits : SUBSET ColumnLists, empty : BOOLEAN, recreate : BOOLEAN] :
     r.empty => r.fits = ColumnLists /\ r.columns # "unsupported"}
Nobody == [caller |-> NoTable, table |-> NoTable]
Before == [columns |-> "old", rows |-> "before"]

VARIABLES
  request,     \* caller -> what it asks for
  at,          \* caller -> the API request it makes next
  table,       \* the DuckDB table: NoTable or its contents
  registered,  \* the Unity Catalog entry of the table
  stages,      \* the callers whose staging table exists
  parents,     \* those of catalog and schema that exist
  provisioned,  \* how many warehouses are called mcp-default
  overlapped,  \* two calls have been under way at the same time
  last         \* the call made last, while none has overlapped another:
               \* its caller and the table it met

vars == <<request, at, table, registered, stages, parents, provisioned, overlapped, last>>

Init ==
  /\ request = [c \in Callers |-> [columns |-> "old", fits |-> {}, empty |-> FALSE, recreate |-> FALSE]]
  /\ at = [c \in Callers |-> "idle"]
  /\ \/ table = NoTable /\ registered = FALSE /\ parents = {} /\ provisioned = 0
     \/ /\ table \in {NoTable, Before} /\ registered \in {FALSE, table # NoTable}
        /\ parents = {"catalog", "schema"} /\ provisioned = 1
  /\ stages = {} /\ overlapped = FALSE /\ last = [caller |-> NoTable, table |-> table]

Over == {"idle", "ok", "failed", "cancelled"}
Under(c) == at[c] \notin Over
Goes(c, from, to) == at[c] = from /\ at' = [at EXCEPT ![c] = to]

Call(c, r) ==
  /\ Goes(c, "idle", "list_warehouses") /\ request' = [request EXCEPT ![c] = r]
  /\ overlapped' = (overlapped \/ \E d \in Callers : Under(d))
  /\ last' = IF overlapped' THEN Nobody ELSE [caller |-> c, table |-> table]
  /\ UNCHANGED <<table, registered, stages, parents, provisioned>>

(* ensure_warehouse: list, then create what is not in the list.            *)
ListWarehouses(c) ==
  /\ Goes(c, "list_warehouses", IF provisioned = 0 THEN "create_warehouse" ELSE "catalog")
  /\ UNCHANGED <<request, table, registered, stages, parents, provisioned, overlapped, last>>

CreateWarehouse(c) ==
  /\ Goes(c, "create_warehouse", "catalog") /\ provisioned' = provisioned + 1
  /\ UNCHANGED <<request, table, registered, stages, parents, overlapped, last>>

(* _ensure_catalog and _ensure_schema: get, then create.  A parent that    *)
(* another call created in between fails the call.                         *)
AfterSchema(c) == IF request[c].recreate THEN "stage" ELSE "create"

GetParent(c) ==
  /\ \E p \in {"catalog", "schema"} :
       LET next == IF p = "catalog" THEN "schema" ELSE AfterSchema(c)
           missing == IF p = "catalog" THEN "create_catalog" ELSE "create_schema"
       IN Goes(c, p, IF p \in parents THEN next ELSE missing)
  /\ UNCHANGED <<request, table, registered, stages, parents, provisioned, overlapped, last>>

CreateParent(c) ==
  /\ \E p \in {"catalog", "schema"} :
       LET next == IF p = "catalog" THEN "schema" ELSE AfterSchema(c)
           create == IF p = "catalog" THEN "create_catalog" ELSE "create_schema"
       IN Goes(c, create, IF p \in parents THEN "failed" ELSE next) /\ parents' = parents \cup {p}
  /\ UNCHANGED <<request, table, registered, stages, provisioned, overlapped, last>>

(* _validate_seed_replacement: the columns and the rows are tried on a     *)
(* staging table, and a table name that is no identifier is refused.       *)
CreateStage(c) ==
  /\ \/ Goes(c, "stage", "failed") /\ UNCHANGED stages
     \/ /\ request[c].columns # "unsupported"
        /\ Goes(c, "stage", IF request[c].empty THEN "unstage" ELSE "fill_stage")
        /\ stages' = stages \cup {c}
  /\ UNCHANGED <<request, table, registered, parents, provisioned, overlapped, last>>

FillStage(c) ==
  /\ Goes(c, "fill_stage", IF request[c].columns \in request[c].fits THEN "unstage" ELSE "clean_up")
  /\ UNCHANGED <<request, table, registered, stages, parents, provisioned, overlapped, last>>

(* The staging table goes before the real one is touched; when that fails  *)
(* the call does too.                                                      *)
DropStage(c) ==
  /\ \/ Goes(c, "clean_up", "failed") /\ stages' \in {stages, stages \ {c}}
     \/ Goes(c, "unstage", "drop") /\ stages' = stages \ {c}
     \/ Goes(c, "unstage", "failed") /\ UNCHANGED stages
  /\ UNCHANGED <<request, table, registered, parents, provisioned, overlapped, last>>

DropPhysical(c) ==
  /\ Goes(c, "drop", "delete") /\ table' = NoTable
  /\ UNCHANGED <<request, registered, stages, parents, provisioned, overlapped, last>>

(* delete_table: the entry goes, and the table once the lock of the        *)
(* catalogs' connection is free; a table that is unknown is no failure.    *)
Unregister(c) ==
  /\ Goes(c, "delete", IF registered \/ table # NoTable THEN "delete_physical" ELSE "create")
  /\ registered' = FALSE
  /\ UNCHANGED <<request, table, stages, parents, provisioned, overlapped, last>>

DeletePhysical(c) ==
  /\ Goes(c, "delete_physical", "create") /\ table' = NoTable
  /\ UNCHANGED <<request, registered, stages, parents, provisioned, overlapped, last>>

(* create_table: a table in the registry or in DuckDB already exists, and  *)
(* the call goes on with it; the columns are resolved before the lock.     *)
CreateChecks(c) ==
  /\ Goes(c, "create", IF registered \/ table # NoTable THEN "refill"
                       ELSE IF request[c].columns = "unsupported" THEN "failed"
                       ELSE "create_physical")
  /\ UNCHANGED <<request, table, registered, stages, parents, provisioned, overlapped, last>>

(* With the lock: CREATE TABLE, which finds a table that was made since    *)
(* the check and leaves it as it is, unregistered or not.                  *)
CreatePhysical(c) ==
  /\ Goes(c, "create_physical", "refill")
  /\ IF table = NoTable
     THEN /\ table' = [columns |-> request[c].columns, rows |-> "none"] /\ registered' = TRUE
     ELSE UNCHANGED <<table, registered>>
  /\ UNCHANGED <<request, stages, parents, provisioned, overlapped, last>>

Inserts(c) == table.columns \in request[c].fits
Filled(c) == [table EXCEPT !.rows = IF request[c].empty THEN "none" ELSE c]
\* Mutant: the DELETE stays when the INSERT fails.
RolledBackNever(c) == [table EXCEPT !.rows = "none"]

RolledBack(c) == table

(* BEGIN, DELETE, INSERT and COMMIT are one statement, executed with the   *)
(* warehouse's lock held; one that fails is rolled back.                   *)
Refill(c) ==
  /\ IF table = NoTable THEN Goes(c, "refill", "failed") /\ UNCHANGED table
     ELSE IF Inserts(c) THEN Goes(c, "refill", "ok") /\ table' = Filled(c)
     ELSE Goes(c, "refill", "failed") /\ table' = RolledBack(c)
  /\ UNCHANGED <<request, registered, stages, parents, provisioned, overlapped, last>>

(* A tool call that is cancelled, or whose server is killed, stops where   *)
(* it is; a validation that is cancelled may leave its staging table.      *)
Cancel(c) ==
  /\ Under(c) /\ at' = [at EXCEPT ![c] = "cancelled"]
  /\ stages' \in {stages, IF at[c] \in {"fill_stage", "unstage"} THEN stages \ {c} ELSE stages}
  /\ UNCHANGED <<request, table, registered, parents, provisioned, overlapped, last>>

Next ==
  \E c \in Callers :
    \/ \E r \in Requests : Call(c, r)
    \/ ListWarehouses(c) \/ CreateWarehouse(c) \/ GetParent(c) \/ CreateParent(c)
    \/ CreateStage(c) \/ FillStage(c) \/ DropStage(c)
    \/ DropPhysical(c) \/ Unregister(c) \/ DeletePhysical(c)
    \/ CreateChecks(c) \/ CreatePhysical(c) \/ Refill(c) \/ Cancel(c)

(* The rows a table holds are either those it had before, none, or those   *)
(* of one call that fit it, never of two.  A call that nothing overlapped  *)
(* and nobody cancelled leaves exactly its own rows when it succeeds, and  *)
(* the table it met, at most a new and empty one, when it fails.           *)
SeedKeepsData ==
  /\ table # NoTable => \/ table.rows \in {"before", "none"}
                        \/ table.columns \in request[table.rows].fits
  /\ (~overlapped /\ last.caller \in Callers) =>
       LET c == last.caller
       IN CASE at[c] = "ok" -> table # NoTable /\ table.rows = (IF request[c].empty THEN "none" ELSE c)
            [] at[c] = "failed" -> \/ table = last.table
                                   \/ last.table = NoTable /\ table.rows = "none"
            [] OTHER -> TRUE
=============================================================================
