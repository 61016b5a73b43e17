----------------------------- MODULE Statements -----------------------------
(***************************************************************************)
(* services/sql_statements.py, services/sql_warehouses.py and the          *)
(* connections of duckdb_pool.py: statements run on one DuckDB connection  *)
(* that all warehouses share, their results are kept in a bounded cache,   *)
(* and clients read results in chunks and the history in pages.            *)
(* A statement runs from start to end in one step, since nothing in        *)
(* between awaits; a write to a Delta table waits for a Spark job.         *)
(* Bounds: MaxStatements statements and MaxWarehouses warehouses are made. *)
(***************************************************************************)
EXTENDS Integers, Sequences, FiniteSets

CONSTANTS
  CacheSize,        \* MINILAKE_STATEMENT_CACHE_SIZE
  ChunkSize,        \* _CHUNK_SIZE
  PageSize,         \* max_results of a history request
  MaxStatements, MaxWarehouses,
  RowsOf,           \* how many rows the n-th statement returns, if it is a query
  Spaces,           \* the namespaces a client may name
  Default           \* the one the connection starts in, which always exists

VARIABLES
  statements,   \* _state["statements"], oldest first
  warehouses,   \* _state["warehouses"]: id -> its state
  opened,       \* warehouse ids with a connection of their own
  conn,         \* the shared connection: its namespace and its transaction
  existing,     \* the namespaces that exist in DuckDB
  writes,       \* Delta writes that wait for their Spark job
  issued,       \* how many statements were sent, and warehouses created
  reader,       \* a client that follows the chunks of one result
  pager         \* a client that follows the pages of the history

vars == <<statements, warehouses, opened, conn, existing, writes, issued, reader, pager>>

StatementIds == 1..MaxStatements
Namespaces == Spaces \cup {Default}
Statuses == {"SUCCEEDED", "FAILED", "CANCELED"}

(* tx is the transaction of the connection: "none", "open", or "aborted"   *)
(* after an error that nobody rolled back; undo is what existed at BEGIN.  *)
NoReader == [id |-> 0, total |-> 0, next |-> 0, rows |-> <<>>, done |-> FALSE]
NoPager == [active |-> FALSE, filter |-> Statuses, offset |-> 0, begun |-> {}, seen |-> {},
            done |-> FALSE]
NewConnection == [space |-> Default, tx |-> "none", undo |-> {}]

Init ==
  /\ statements = <<>>
  /\ warehouses = <<>> /\ opened = {}
  /\ conn = NewConnection
  /\ existing = {Default}
  /\ writes = {}
  /\ issued = [statements |-> 0, warehouses |-> 0]
  /\ reader = NoReader /\ pager = NoPager

IdsOf(list) == {list[i].id : i \in 1..Len(list)}

----------------------------------------------------------------------------
(* The cache: the oldest entries go when there are more than the limit.    *)
Kept(list) ==
  LET limit == IF CacheSize < 1 THEN 1 ELSE CacheSize
  IN SubSeq(list, IF Len(list) > limit THEN Len(list) - limit + 1 ELSE 1, Len(list))

Record(id, w, status, rows) ==
  /\ statements' = Kept(Append(statements, [id |-> id, status |-> status,
                                            rows |-> rows, warehouse |-> w]))

RecordFailure(id, w) == Record(id, w, "FAILED", 0)

----------------------------------------------------------------------------
(* USE on the connection c where the namespaces in there exist.  Whether   *)
(* DuckDB runs it in an aborted transaction is left open.                  *)
Use(c, space, there) ==
  (IF space \in there THEN {[c EXCEPT !.space = space]} ELSE {c})
  \cup (IF c.tx = "aborted" THEN {c} ELSE {})

\* Mutant: the namespace of the request stays.
RestoredNever(c, space, there) == {c}

(* _restore_default_namespace: failing is only logged.                     *)
Restored(c, space, there) == Use(c, space, there)

(* _apply_default_namespace can go through: the connection answers, and    *)
(* the namespace that the request names, if any, is there.                 *)
Applicable(space) == space = Default \/ (conn.tx # "aborted" /\ space \in existing)
Applied(space) == IF space = Default THEN conn ELSE [conn EXCEPT !.space = space]

(* What executing sql can do to connection and namespaces; a request that  *)
(* names no namespace is one with space = Default.                         *)
Succeeds(sql, c) ==
  IF c.tx = "aborted" THEN sql = "rollback"
  ELSE CASE sql = "query" -> TRUE
         [] sql = "begin" -> c.tx = "none"
         [] sql \in {"commit", "rollback"} -> c.tx = "open"
         [] sql \in {"create", "drop"} -> TRUE
         [] sql = "use" -> TRUE
         [] OTHER -> FALSE

Effect(sql, target, c) ==
  CASE sql = "begin" -> [c |-> [c EXCEPT !.tx = "open", !.undo = existing], e |-> existing]
    [] sql = "commit" -> [c |-> [c EXCEPT !.tx = "none", !.undo = {}], e |-> existing]
    [] sql = "rollback" -> [c |-> [c EXCEPT !.tx = "none", !.undo = {}], e |-> c.undo]
    [] sql = "create" -> [c |-> c, e |-> existing \cup {target}]
    [] sql = "drop" -> [c |-> c, e |-> existing \ {target}]
    [] sql = "use" -> [c |-> [c EXCEPT !.space = target], e |-> existing]
    [] OTHER -> [c |-> c, e |-> existing]

(* The ROLLBACK after an error; without a transaction it changes nothing.  *)
RolledBack(c) ==
  IF c.tx = "none" THEN [c |-> c, e |-> existing]
  ELSE [c |-> [c EXCEPT !.tx = "none", !.undo = {}], e |-> c.undo]

(* execute_statement, for a statement that goes to DuckDB.  target is the  *)
(* namespace it creates, drops or switches to.                             *)
Issue(w) ==
  /\ w \in DOMAIN warehouses
  /\ issued.statements < MaxStatements
  /\ issued' = [issued EXCEPT !.statements = @ + 1]

Finish(space, result) ==
  /\ conn' \in IF space = Default THEN {result.c} ELSE Restored(result.c, conn.space, result.e)
  /\ existing' = result.e

Execute(w, space, sql, target) ==
  LET id == issued.statements + 1
      c == Applied(space)
  IN /\ Issue(w)
     /\ sql = "use" => target \in existing
     /\ IF ~Applicable(space)
        THEN RecordFailure(id, w) /\ UNCHANGED <<conn, existing>>
        ELSE IF Succeeds(sql, c)
        THEN /\ Record(id, w, "SUCCEEDED", IF sql = "query" THEN RowsOf[id] ELSE 0)
             /\ Finish(space, Effect(sql, target, c))
        ELSE RecordFailure(id, w) /\ Finish(space, RolledBack(c))
     /\ UNCHANGED <<warehouses, opened, writes, reader, pager>>

(* The same for INSERT, UPDATE or DELETE on a registered Delta table: the  *)
(* namespace is tried, an INSERT prepares its rows on the connection and   *)
(* leaves an error there to the transaction that is open, and the Spark    *)
(* job runs without any lock.                                              *)
DeltaWrite(w, space, prepared) ==
  LET id == issued.statements + 1
      broken == [Applied(space) EXCEPT !.tx = "aborted"]
  IN /\ Issue(w)
     /\ prepared \in {"yes", "no", "not needed"}
     /\ conn.tx = "aborted" => prepared # "yes"
     /\ IF ~Applicable(space)
        THEN RecordFailure(id, w) /\ UNCHANGED <<conn, writes>>
        ELSE IF prepared = "no"
        THEN /\ RecordFailure(id, w) /\ UNCHANGED writes
             /\ conn' \in IF conn.tx = "none" THEN {conn}
                          ELSE {conn} \cup Restored(broken, conn.space, existing)
        ELSE /\ writes' = writes \cup {[id |-> id, warehouse |-> w,
                                       rows |-> IF prepared = "yes" THEN 1 ELSE 0]}
             /\ UNCHANGED <<conn, statements>>
     /\ UNCHANGED <<existing, warehouses, opened, reader, pager>>

(* The Spark job ends, and the request is recorded in whatever cache there *)
(* is by then.                                                             *)
FinishWrite(write) ==
  /\ write \in writes
  /\ writes' = writes \ {write}
  /\ \/ Record(write.id, write.warehouse, "SUCCEEDED", write.rows)
     \/ RecordFailure(write.id, write.warehouse)
  /\ UNCHANGED <<conn, existing, warehouses, opened, issued, reader, pager>>

(* A handler of unity_catalog.py runs DDL on the connection, fails, and    *)
(* does not roll back.                                                     *)
HandlerFails ==
  /\ conn.tx = "open"
  /\ conn' = [conn EXCEPT !.tx = "aborted"]
  /\ UNCHANGED <<statements, warehouses, opened, existing, writes, issued, reader, pager>>

CancelStatement(id) ==
  /\ \E i \in 1..Len(statements) :
       statements[i].id = id /\ statements' = [statements EXCEPT ![i].status = "CANCELED"]
  /\ UNCHANGED <<warehouses, opened, conn, existing, writes, issued, reader, pager>>

----------------------------------------------------------------------------
(* A result of n rows in chunks: how many there are, and the rows of one.  *)
Chunks(n) == IF n = 0 THEN 1 ELSE (n + ChunkSize - 1) \div ChunkSize

\* Mutant: the offset of a chunk is off by one.
OffsetShifted(k) == k * ChunkSize + 1

Offset(k) == k * ChunkSize

RowsFrom(n, k) ==
  LET left == n - Offset(k)
  IN [i \in 1..(IF left < ChunkSize THEN left ELSE ChunkSize) |-> Offset(k) + i]

(* get_statement tells how many rows there are; one client follows the     *)
(* chunks of a result or the pages of the history at a time.               *)
OpenResult(id) ==
  /\ ~pager.active
  /\ \E i \in 1..Len(statements) :
       /\ statements[i].id = id
       /\ reader' = [NoReader EXCEPT !.id = id, !.total = statements[i].rows]
  /\ UNCHANGED <<statements, warehouses, opened, conn, existing, writes, issued, pager>>

(* get_result_chunk and get_result_chunk_data, with the link to the next   *)
(* chunk; an entry that is gone answers 404 and the client gives up.       *)
GetChunk ==
  /\ reader.id # 0 /\ ~reader.done
  /\ IF reader.id \notin IdsOf(statements) THEN reader' = NoReader
     ELSE \E i \in 1..Len(statements) :
            /\ statements[i].id = reader.id
            /\ reader' = [reader EXCEPT
                 !.rows = @ \o RowsFrom(statements[i].rows, reader.next),
                 !.next = @ + 1,
                 !.done = reader.next + 1 >= Chunks(statements[i].rows)]
  /\ UNCHANGED <<statements, warehouses, opened, conn, existing, writes, issued, pager>>

----------------------------------------------------------------------------
(* The history, newest first, of the statements with one of the statuses   *)
(* that the request asks for: where they are in the cache, and at which    *)
(* place of the history; a page token is an offset into it.                *)
Matching(filter) == {i \in 1..Len(statements) : statements[i].status \in filter}

\* Mutant: the list is not reversed.
PlaceOldestFirst(filter, i) == Cardinality({j \in Matching(filter) : j <= i})

Place(filter, i) == Cardinality({j \in Matching(filter) : j >= i})

History(filter) == {statements[i].id : i \in Matching(filter)}

ListHistory(filter) ==
  LET more == pager.offset + PageSize < Cardinality(Matching(filter))
      page == {statements[i].id : i \in {j \in Matching(filter) :
                 Place(filter, j) > pager.offset /\ Place(filter, j) <= pager.offset + PageSize}}
  IN /\ reader = NoReader /\ ~pager.done
     /\ pager.active => filter = pager.filter
     /\ pager' = [active |-> TRUE, filter |-> filter,
                  offset |-> IF more THEN pager.offset + PageSize ELSE 0,
                  begun |-> IF pager.active THEN pager.begun ELSE History(filter),
                  seen |-> pager.seen \cup page,
                  done |-> ~more]
     /\ UNCHANGED <<statements, warehouses, opened, conn, existing, writes, issued, reader>>

----------------------------------------------------------------------------
(* Warehouses: the state is shown, and no statement depends on it.         *)
CreateWarehouse ==
  LET w == issued.warehouses + 1
  IN /\ w <= MaxWarehouses
     /\ issued' = [issued EXCEPT !.warehouses = w]
     /\ warehouses' = [i \in DOMAIN warehouses \cup {w} |->
                         IF i = w THEN "RUNNING" ELSE warehouses[i]]
     /\ opened' = opened \cup {w}
     /\ UNCHANGED <<statements, conn, existing, writes, reader, pager>>

SetWarehouse(w, state) ==
  /\ w \in DOMAIN warehouses
  /\ warehouses' = [warehouses EXCEPT ![w] = state]
  /\ UNCHANGED <<statements, opened, conn, existing, writes, issued, reader, pager>>

StartWarehouse(w) == SetWarehouse(w, "RUNNING")
StopWarehouse(w) == SetWarehouse(w, "STOPPED")

(* close_warehouse *)
Closed(w) == opened \ {w}

DeleteWarehouse(w) ==
  /\ w \in DOMAIN warehouses
  /\ opened' = Closed(w)
  /\ warehouses' = [i \in DOMAIN warehouses \ {w} |-> warehouses[i]]
  /\ UNCHANGED <<statements, conn, existing, writes, issued, reader, pager>>

(* The reset of both services; a full one also closes the shared           *)
(* connection and removes its database, reset_all(full=True).              *)
Reset(full) ==
  /\ statements' = <<>>
  /\ warehouses' = <<>> /\ opened' = {}
  /\ IF full THEN conn' = NewConnection /\ existing' = {Default}
     ELSE UNCHANGED <<conn, existing>>
  /\ UNCHANGED <<writes, issued, reader, pager>>

(* A shutdown and a restart from the snapshot: the caches come back, the   *)
(* connection is new, what its transaction had not committed is gone, and  *)
(* so are requests and clients.                                            *)
Restart ==
  /\ opened' = {}
  /\ conn' = NewConnection
  /\ existing' = IF conn.tx = "none" THEN existing ELSE conn.undo
  /\ writes' = {}
  /\ reader' = NoReader /\ pager' = NoPager
  /\ UNCHANGED <<statements, warehouses, issued>>

Sql == {"query", "fail", "begin", "commit", "rollback", "create", "drop", "use"}

Next ==
  \/ \E w \in 1..MaxWarehouses, space \in Namespaces, sql \in Sql, target \in Spaces :
       Execute(w, space, sql, target)
  \/ \E w \in 1..MaxWarehouses, space \in Namespaces, prepared \in {"yes", "no", "not needed"} :
       DeltaWrite(w, space, prepared)
  \/ \E write \in writes : FinishWrite(write)
  \/ HandlerFails
  \/ \E id \in StatementIds : CancelStatement(id) \/ OpenResult(id)
  \/ GetChunk
  \/ \E filter \in {Statuses, {"SUCCEEDED"}} : ListHistory(filter)
  \/ CreateWarehouse
  \/ \E w \in 1..MaxWarehouses : StartWarehouse(w) \/ StopWarehouse(w) \/ DeleteWarehouse(w)
  \/ \E full \in BOOLEAN : Reset(full)
  \/ Restart

Spec == Init /\ [][Next]_vars

----------------------------------------------------------------------------
(* A client that follows the links of a result (get_result_chunk) to the   *)
(* end has every row once and in order, however much is evicted, cancelled *)
(* or restored from a snapshot beside it.                                  *)
ReaderHasAll == reader.done => reader.rows = [r \in 1..reader.total |-> r]

(* A client that follows the page tokens of the whole history              *)
(* (list_query_history) skips none: statements that are recorded, evicted  *)
(* or cancelled in between make it see some twice, but move none to a page *)
(* it has already read.                                                    *)
PagerSkipsNone ==
  pager.done /\ pager.filter = Statuses =>
    pager.begun \cap History(Statuses) \subseteq pager.seen

(* No request leaves the shared connection in another namespace than it    *)
(* found it in, which would make the unqualified names of other clients    *)
(* mean something else, unless it is a USE, its namespace is gone, its     *)
(* transaction was left aborted, or all connections were closed            *)
(* (_apply_statement_namespace and _restore_default_namespace).            *)
KeepsNamespace ==
  \/ conn'.space = conn.space
  \/ conn'.space = Default /\ opened' = {}
  \/ conn.space \notin existing'
  \/ conn'.tx = "aborted" /\ conn.tx # "none"
  \/ \E w \in 1..MaxWarehouses, target \in Spaces : Execute(w, Default, "use", target)

NamespaceKept == [][KeepsNamespace]_vars
=============================================================================
