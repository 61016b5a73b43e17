------------------------------- MODULE Server -------------------------------
(***************************************************************************)
(* The services of one minilake process beside Jobs, Clusters and Catalog: *)
(* services/__init__.py mounts each with a _state of its own, and what one *)
(* touches of another's, as DBFS does of the volumes, is in its own module.*)
(* The modules share no variable, so one service at a time is all there is *)
(* to look at: a behaviour is one of the service that its first state      *)
(* names, and the variables of the others stay Unused.                     *)
(***************************************************************************)
EXTENDS Naturals, Sequences

CONSTANTS
  Unused,
  CacheSize, ChunkSize, PageSize, MaxStatements, MaxWarehouses, RowsOf, Spaces, Default,
  Clients, TreePaths, Layouts, MaxHandles, MaxChanges,
  ObjectPaths, MaxIds,
  Ids, Names, Members, UserId, UserName, NoName,
  Scopes, Results, Exact,
  MaxRecords, Values, None,
  Services, MaxVersion, MaxStarts, Torn,
  Tasks,
  Callers, NoTable

(* The statement cache has room, and a page and a chunk hold something:    *)
(* config.py and the constants of sql_statements.py.  Floats are exact up  *)
(* to a power of two.                                                      *)
ASSUME ServerAssumption ==
  /\ CacheSize \in Nat /\ MaxStatements \in Nat /\ MaxWarehouses \in Nat
  /\ Exact \in Nat /\ Exact % 4 = 0
  /\ ChunkSize \in Nat \ {0} /\ PageSize \in Nat \ {0}
  /\ RowsOf \in [1..MaxStatements -> Nat]
  /\ Default \notin Spaces
  /\ UserId \in Ids /\ UserName \in Names /\ NoName \notin Names
  /\ \A s \in Scopes : \A name \in s.names :
       Len(name) \in Nat /\ name = [k \in 1..Len(name) |-> name[k]]

VARIABLES
  service,  \* the service this behaviour is about
  statements, warehouses, opened, conn, existing, writes, issued, reader, pager,
  fs, up, migrated, handles, next, held, late, uploads, changes,
  disk, objects, nextId, importing, stored, crashed, aliased,
  resources, store, renumbered,
  scope, queries, alerts, renamed, judged,
  kind, records, created, relabelled,
  phase, starts, enabled, live, envelope, temp, file, gathered,
  mode, step, target, tmp, nested, waiter, code, result, refused,
  child, process, ready, starter, stopper,
  request, at, table, registered, stages, parents, provisioned, overlapped, last

SQL == INSTANCE Statements
Files == INSTANCE Storage WITH Paths <- TreePaths
Objects == INSTANCE Workspace WITH Paths <- ObjectPaths
Identity == INSTANCE Scim WITH kind <- resources
Alerts == INSTANCE Queries
Admin == INSTANCE Records
Saving == INSTANCE Snapshot
Executing == INSTANCE Executor
Notebooks == INSTANCE Notebook
Seeding == INSTANCE Seed

(* Paths are not empty, those of a volume and of an older release's among  *)
(* them; a path of the workspace, however spelled, leads below its root;   *)
(* and the disk that DBFS finds at the first start is a tree of            *)
(* directories.                                                            *)
ASSUME PathsAssumption ==
  /\ TreePaths \cup ObjectPaths \cup {<<"volume">>, <<"legacy">>} \subseteq Files!Path
  /\ \A p \in ObjectPaths : Objects!Place(p) \in Files!Path
  /\ \A tree \in Layouts : Files!IsTree(tree)

(* What alerts compare is ordered by a number, and as far as it is one, it *)
(* is in the range in which Float is what float() does.                    *)
ASSUME AlertsAssumption ==
  \A v \in Results \cup UNION {s.values : s \in Scopes} :
    v.n \in Nat /\ (v.kind \in {"number", "numeral"} => v.n <= 2 * Exact)

(* What stands for a missing table is no table, and nobody's call.         *)
ASSUME SeedAssumption ==
  NoTable \notin Callers \cup [columns : Seeding!Columns, rows : Callers \cup {"before", "none"}]

sqlVars == <<statements, warehouses, opened, conn, existing, writes, issued, reader, pager>>
filesVars == <<fs, up, migrated, handles, next, held, late, uploads, changes>>
objectsVars == <<disk, objects, nextId, importing, stored, crashed, aliased>>
identityVars == <<resources, store, renumbered>>
alertsVars == <<scope, queries, alerts, renamed, judged>>
adminVars == <<kind, records, created, relabelled>>
savingVars == <<phase, starts, enabled, live, envelope, temp, file, gathered>>
executingVars == <<mode, step, target, tmp, nested, waiter, code, result, refused>>
notebooksVars == <<child, process, ready, starter, stopper>>
seedingVars == <<request, at, table, registered, stages, parents, provisioned, overlapped, last>>

vars == <<service, sqlVars, filesVars, objectsVars, identityVars, alertsVars, adminVars,
          savingVars, executingVars, notebooksVars, seedingVars>>

AllServices ==
  {"SQL", "Files", "Objects", "Identity", "Alerts", "Admin", "Saving", "Executing", "Notebooks",
   "Seeding"}

Init ==
  /\ service \in AllServices
  /\ IF service = "SQL" THEN SQL!Init
     ELSE statements = Unused /\ warehouses = Unused /\ opened = Unused /\ conn = Unused /\
          existing = Unused /\ writes = Unused /\ issued = Unused /\ reader = Unused /\
          pager = Unused
  /\ IF service = "Files" THEN Files!Init
     ELSE fs = Unused /\ up = Unused /\ migrated = Unused /\ handles = Unused /\
          next = Unused /\ held = Unused /\ late = Unused /\ uploads = Unused /\
          changes = Unused
  /\ IF service = "Objects" THEN Objects!Init
     ELSE disk = Unused /\ objects = Unused /\ nextId = Unused /\ importing = Unused /\
          stored = Unused /\ crashed = Unused /\ aliased = Unused
  /\ IF service = "Identity" THEN Identity!Init
     ELSE resources = Unused /\ store = Unused /\ renumbered = Unused
  /\ IF service = "Alerts" THEN Alerts!Init
     ELSE scope = Unused /\ queries = Unused /\ alerts = Unused /\ renamed = Unused /\
          judged = Unused
  /\ IF service = "Admin" THEN Admin!Init
     ELSE kind = Unused /\ records = Unused /\ created = Unused /\ relabelled = Unused
  /\ IF service = "Saving" THEN Saving!Init
     ELSE phase = Unused /\ starts = Unused /\ enabled = Unused /\ live = Unused /\
          envelope = Unused /\ temp = Unused /\ file = Unused /\ gathered = Unused
  /\ IF service = "Executing" THEN Executing!Init
     ELSE mode = Unused /\ step = Unused /\ target = Unused /\ tmp = Unused /\
          nested = Unused /\ waiter = Unused /\ code = Unused /\ result = Unused /\
          refused = Unused
  /\ IF service = "Notebooks" THEN Notebooks!Init
     ELSE child = Unused /\ process = Unused /\ ready = Unused /\ starter = Unused /\
          stopper = Unused
  /\ IF service = "Seeding" THEN Seeding!Init
     ELSE request = Unused /\ at = Unused /\ table = Unused /\ registered = Unused /\
          stages = Unused /\ parents = Unused /\ provisioned = Unused /\
          overlapped = Unused /\ last = Unused

UnchangedBut(s) ==
  /\ IF s = "SQL" THEN TRUE ELSE UNCHANGED sqlVars
  /\ IF s = "Files" THEN TRUE ELSE UNCHANGED filesVars
  /\ IF s = "Objects" THEN TRUE ELSE UNCHANGED objectsVars
  /\ IF s = "Identity" THEN TRUE ELSE UNCHANGED identityVars
  /\ IF s = "Alerts" THEN TRUE ELSE UNCHANGED alertsVars
  /\ IF s = "Admin" THEN TRUE ELSE UNCHANGED adminVars
  /\ IF s = "Saving" THEN TRUE ELSE UNCHANGED savingVars
  /\ IF s = "Executing" THEN TRUE ELSE UNCHANGED executingVars
  /\ IF s = "Notebooks" THEN TRUE ELSE UNCHANGED notebooksVars
  /\ IF s = "Seeding" THEN TRUE ELSE UNCHANGED seedingVars

Next ==
  /\ UNCHANGED service
  /\ \/ service = "SQL" /\ SQL!Next /\ UnchangedBut("SQL")
     \/ service = "Files" /\ Files!Next /\ UnchangedBut("Files")
     \/ service = "Objects" /\ Objects!Next /\ UnchangedBut("Objects")
     \/ service = "Identity" /\ Identity!Next /\ UnchangedBut("Identity")
     \/ service = "Alerts" /\ Alerts!Next /\ UnchangedBut("Alerts")
     \/ service = "Admin" /\ Admin!Next /\ UnchangedBut("Admin")
     \/ service = "Saving" /\ Saving!Next /\ UnchangedBut("Saving")
     \/ service = "Executing" /\ Executing!Next /\ UnchangedBut("Executing")
     \/ service = "Notebooks" /\ Notebooks!Next /\ UnchangedBut("Notebooks")
     \/ service = "Seeding" /\ Seeding!Next /\ UnchangedBut("Seeding")

Spec == Init /\ [][Next]_vars

----------------------------------------------------------------------------
(* A client that follows the links of a result to the end has every row    *)
(* once and in order, whatever is evicted, cancelled or restored beside it *)
(* (get_result_chunk of sql_statements.py).                                *)
ReaderHasAll == service = "SQL" => SQL!ReaderHasAll

(* A client that follows the page tokens of the whole history skips no     *)
(* statement that was there when it began and still is (list_query_history *)
(* of sql_statements.py).                                                  *)
PagerSkipsNone == service = "SQL" => SQL!PagerSkipsNone

(* No request leaves the connection all warehouses share in another        *)
(* namespace than it found it in, but for a USE, a namespace that is gone, *)
(* an aborted transaction and a reset (_restore_default_namespace).        *)
NamespaceKept == [][service = "SQL" => SQL!KeepsNamespace]_vars

(* A file holds the blocks of one upload, over restarts, failed closes and *)
(* other clients' uploads (the handle table of dbfs.py).                   *)
UploadsUnmixed == service = "Files" => Files!UploadsUnmixed

(* No file is lost to anything but a request to delete or to overwrite it: *)
(* not to a move, a lost race or the migration of an older release's data  *)
(* (_rename_without_replace of dbfs.py, volume_paths.py).                  *)
NothingLost == [][service = "Files" => Files!LosesNothing]_vars

(* An object id of the workspace names one object and is not the one given *)
(* out next; the entries and the files tell of the same objects until a    *)
(* crash, or a request that spells a path in another way (workspace.py).   *)
ObjectsIdentified == service = "Objects" => Objects!ObjectsIdentified

(* No two users, groups or principals, no two queries and no two alerts    *)
(* get the same name, whatever was created, patched, replaced, restored    *)
(* from the trash and resolved automatically (_unique_check of scim.py,    *)
(* _display_name_taken of saved_queries.py and alerts.py).                 *)
NamesUnique ==
  /\ service = "Identity" => Identity!NamesUnique
  /\ service = "Alerts" => Alerts!NamesUnique

(* An alert of either API fires exactly when the comparison its client     *)
(* wrote holds of the number its query returned, but for numbers beyond    *)
(* 2^53, which may pass for equal when they are not (evaluate_alert).      *)
AlertsJudged == service = "Alerts" => Alerts!AlertsJudged

(* What a start restores was true at one moment: the snapshot on disk is   *)
(* one whole gathering of all services even after a crash in the middle of *)
(* a write (save_state of persistence.py), and a record that went through  *)
(* it is found under the id it reports, unless a client has overwritten    *)
(* that id (workspace_admin.py).                                           *)
RestoredWhole ==
  /\ service = "Saving" => Saving!SnapshotWhole
  /\ service = "Admin" => Admin!RecordsFound

(* No process outlives what the server says of it: a task whose result is  *)
(* out has no process unless Docker refused, none runs against half of its *)
(* libraries, none succeeds without its script having (docker_executor.py),*)
(* and a notebook server that was stopped neither lives on nor is reported *)
(* as running (notebook.py).                                               *)
ChildrenAccounted ==
  /\ service = "Executing" => Executing!TasksAccounted
  /\ service = "Notebooks" => Notebooks!ChildAccounted

(* The save of a snapshot as an implementation of Durable, which knows no  *)
(* steps of a save.  A process that gathers and writes still runs.         *)
Persisted == INSTANCE Durable WITH
  up <- service = "Saving" /\ phase # "down",
  held <- IF service = "Saving" THEN live ELSE [s \in Services |-> 0],
  saved <- IF service = "Saving" THEN file ELSE None

(* MINILAKE_PERSIST=1 keeps its promise: what the next start restores is   *)
(* what the services held when the process last stopped in an orderly way, *)
(* and a save that fails or is cut short at any step loses nothing of the  *)
(* one before (save_state and load_state of persistence.py).               *)
SnapshotDurable == Persisted!Spec

(* A table that seed_table fills holds the rows of one call or those it    *)
(* had: a call that fails on its own leaves the table as it met it         *)
(* (mcp/tools/composite.py).                                               *)
SeedKeepsData == service = "Seeding" => Seeding!SeedKeepsData
=============================================================================
