# minilake in TLA+

TLA+ models of minilake, the local emulator of the Databricks REST API, with the TLC
configurations that model-check them and TLAPS proofs of the results that matter most.
Paths below are relative to `src/minilake/` of the repository unless they start with `docs/`
or are upper-case files of its root.

## 1. The system

minilake is one Python process with one asyncio event loop (FastAPI, `app.py`). Each service
is a module with its own `_state` dictionary, its request handlers, and `get_state`,
`restore_state` and `reset`. What makes it concurrent:

- Handlers run one at a time and are interrupted only where they really suspend. Most never
  do: an `await` of a coroutine that does not suspend is not a suspension. The exceptions are
  `docker_executor.run_python_task` (a thread that waits for a container or a subprocess),
  `asyncio.sleep` in the cluster transitions, `asyncio.gather` and `create_task` in the run
  scheduler, `await request.body()` in the uploads, and the start and stop of the notebook
  server. The locks of the DuckDB pool are awaited too, but nothing suspends while one is
  held, so nobody ever waits for one.
- `POST /_minilake/reset` replaces the state of every service and tells no coroutine.
- With `MINILAKE_PERSIST=1` the state is saved at a graceful shutdown and restored at start
  (`persistence.py`); coroutines, locks, timers and connections are not.

| Component | State | Operations that change it | Interacts with | What must be right |
|---|---|---|---|---|
| Task graph validation (`services/jobs.py`) | local variables of `_task_graph_error` | one function | called by six handlers and the scheduler | accepts exactly the schedulable lists, ends, does not raise |
| Jobs and runs (`services/jobs.py`) | jobs, runs, task outputs, idempotency tokens, id counters; one coroutine per run | create/update/reset/delete job; run-now, submit, cancel and delete run; the scheduler | executor, SQL statements, workspace, secrets, alerts | one driver per active run, outcomes follow `run_if`, every run ends, one run per token, outputs under the right id |
| Clusters (`services/clusters.py`) | clusters, transition tokens; a sleeping coroutine per request | create, edit, update, start, terminate, restart, resize, permanent-delete, wake-up | policies, pools | the latest request wins, no cluster is stuck |
| Cluster policies, instance pools | registries | create, edit, delete | clusters | unique names, no deletion while in use |
| SQL statements (`services/sql_statements.py`) | statement cache, oldest first out | execute, cancel; chunks and history read it | DuckDB pool, Unity Catalog, executor | pages and chunks stay consistent under eviction |
| Warehouses, DuckDB pool (`services/sql_warehouses.py`, `duckdb_pool.py`) | warehouses; connections, attached databases, locks | create, start, stop, delete; attach, detach, close, reset | statements, catalogs | no use of a closed connection, no orphan database file |
| Unity Catalog (`services/unity_catalog.py`) | catalogs, schemas, tables, external tables, volumes, functions | create, update, delete with `force` | DuckDB pool, grants, volumes on disk | no child without parent, a refused deletion changes nothing |
| Grants (`services/grants.py`) | (type, name) to principals to privileges | update; cascade on deletion | Unity Catalog | effective privileges are those of the ancestors |
| DBFS, Files, Workspace | upload handles, objects; files on disk | uploads, moves, deletions, imports | volumes on disk, jobs | no overwrite without permission, metadata matches the disk |
| Snapshot and reset (`persistence.py`, `admin.py`) | one file | save, load, reset | every service | a crash leaves the old or the new snapshot |
| Executor (`docker_executor.py`) | containers, library cache | run a task, install libraries | jobs, statements | each task ends, no container is left |
| Notebook server (`notebook.py`) | child process, proxy client | start, stop | app | no child survives the server |
| Saved queries, alerts, legacy SQL (`services/saved_queries.py`, `alerts.py`, `preview_sql.py`) | two stores that two APIs share | create, update, trash, evaluate | statements, jobs | display names stay unique, an alert judges by the operator its client asked for |
| SCIM (`services/scim.py`) | users, groups, service principals | create, replace, patch, delete | permissions | names stay unique, a refused patch changes nothing |
| Secrets, tokens, permissions, workspace settings, dashboards | registries | create, update, delete | - | a record is found under the id it reports, also after a restart |
| MCP server (`mcp/`) | none | tools that call the REST API | every service | a tool of several requests leaves the data whole when one of them fails |
| Command line, configuration, TLS | none | - | - | - |

`PROJECT.json` lists every component with its status, and under `hazards` the places of the
code that are hard to test, with the properties that watch them or a note on what is open.

## 2. Modules

| Module | Models | Checked by | Proved in |
|---|---|---|---|
| `Tasks` | acyclic task lists, task outcomes, `_run_if_satisfied` | `jobs_dag` | used by the two below |
| `TaskGraph` | `_task_graph_error`, loop by loop | `taskgraph` | `TaskGraphProofs` |
| `RunContract` | the abstract contract of runs: accept once per token, PENDING - RUNNING - TERMINATED, cancel, delete | as `KeepsContract` in `jobs_registry` | `JobsProofs` |
| `Jobs` | the Jobs service and its coroutines | `jobs_dag`, `jobs_registry`, `jobs_reset`, `jobs_restart` | `JobsProofs`, `JobsOutcomeProofs` |
| `MCJobsDag`, `MCJobsRegistry` | the instances of `Jobs` | | |
| `Clusters` | clusters, their transition coroutines, policies and pools | `clusters`, `cluster_restart`, `cluster_pool` | `ClustersProofs` |
| `Grants` | grants, effective permissions, the cascade; extended by `Catalog` | `catalog`, `catalog_metastore` | `CatalogProofs` |
| `Catalog` | Unity Catalog over registry, DuckDB files and volume directories | `catalog`, `catalog_metastore` | `CatalogProofs` |
| `MCCatalog` | the instance of `Catalog` | | |
| `SqlText` | the three scanners of `services/sql_statements.py` and the passes over DDL | through `Sql` | `SqlProofs` |
| `SqlRelations` | the rewriting of Delta tables' names in queries | through `Sql` | - |
| `ColumnTypes` | the parser of column types in `uc_types.py` | through `Sql` | - |
| `SqlGrammar`, `Sql`, `MCSql` | the texts to check these on, the properties, the instance | `sql` | `SqlProofs` |
| `Statements` | statement cache, chunks, history, warehouses, the shared connection | `server` | `ServerDataProofs` |
| `Storage` | DBFS, Files and the migration of old volumes over one tree of files | `server` | `ServerDataProofs` |
| `Workspace` | workspace objects: metadata beside the disk | `server` | `ServerDataProofs` |
| `Scim` | users, groups, service principals | `server` | `ServerProofs` |
| `Queries` | saved queries and alerts behind two APIs | `server` | `ServerProofs`, `ServerDataProofs` |
| `Records` | secrets, tokens, permissions, settings, dashboards | `server` | `ServerProofs` |
| `Snapshot` | `persistence.py` and the lifespan of `app.py` | `server` | `ServerProofs` |
| `Durable` | what `MINILAKE_PERSIST=1` promises, without the steps of a save | as `SnapshotDurable` in `server` | `ServerProofs` |
| `Executor` | containers, subprocesses, library installation | `server` | `ServerProofs` |
| `Notebook` | the JupyterLab child process | `server` | `ServerProofs` |
| `Seed` | the MCP tool `seed_table` against other calls | `server` | `ServerDataProofs` |
| `Server`, `MCServer` | the last ten side by side, the instance | `server` | `ServerProofs`, `ServerDataProofs` |

### Tasks and TaskGraph

`TaskGraph` runs `_task_graph_error` as a state machine over an arbitrary argument: the two
loops that look for a repeated key and for an unknown dependency are an action each, each turn
of the peeling loop is an action (`Peel`), and so is the comparison at the end (`Conclude`).
The deque becomes a set, which allows every order of peeling. `VerdictCorrect` compares the
outcome with a definition that has no algorithm in it: `Acyclic` says that every non-empty set
of tasks has one that waits for no other of the set. `PeelsOnce` is why it never looks for a
key in vain (`NoKeyError`) and why it ends (`EachTurnPops`): every step finishes a loop or takes
a key for good. `_run_if_satisfied` counts outcomes
(`RunIfSatisfied`); `RunIfMeans` says what the names of the conditions mean with quantifiers,
and the runs of `Jobs` compare the two.

### Jobs

One action per handler (`CreateJob`, `UpdateJob` for update and reset, `DeleteJob`, `RunNow`,
`SubmitRun`, `CancelRun`, `DeleteRun`), one per stretch of a run's coroutine between two
suspensions: `StartRun` (`_execute_run` up to its first gather, or to its end),
`RunOneCanceled`, `RunOneSkipped`, `RunOneExecute` (a `run_one` gets the loop for the first
time), `FinishTask` (its container, subprocess or Delta write is over) and `EndWave` (gather
returns; then the next wave, the result of the run, or the handling of an exception).

- A run is a Python dict that its coroutine keeps a reference to. The model names a dict by
  `<<epoch, run_id>>`, where `epoch` counts resets, so that a coroutine can work on a dict the
  registry has forgotten. `co[c].on` is that reference; `co[c].results` is the coroutine's
  dict of results and `co[c].running` the tasks that wait, with the ids they were given.
- `jobs` keeps the task list of each job, the only part of the settings the service acts on.
  A task is its dependencies, its `run_if` and its kind: `python` (container or subprocess),
  `sql` (the SQL engine, or a Delta write that waits for a Spark job), `other` (an unsupported
  type, skipped). `InlineOutcomes` and `LateOutcomes` say what each kind can end with before
  and after a suspension, an exception out of `_execute_task` included.
- `taskOutputs` maps an id to the run and task that wrote the output: whose output it is, not
  what it says.
- Requests that are refused, or answered with an earlier run, change nothing and are not
  actions.

`RunContract` is the abstract specification; `Contract!Spec` maps each dict to its entry in
the book of runs and the registry to the visible runs. Coroutine steps that only move tasks
are stuttering steps there.

`Restart` saves and restores the whole state, as `get_state` and `restore_state` do, and ends
every coroutine where it stands; `ResetState` replaces the state and leaves the coroutines
alone. `Spec` is one life of the server, `RestartSpec` adds restarts, `LivesSpec` both.
`SchedulerAdvances` says that there is always a task for the next wave (`AlwaysSchedulable`) and
why a run ends (`RunsProgress`): what a coroutine has left to do is its stage, the tasks that
were in no wave yet, those of its wave without an end, and those of them that did not start,
in this order, and every step of it makes that less while nothing else adds to it.

### Clusters

One action per lifecycle request, each with the scheduling of its coroutine
(`ScheduleTransition`), and `Transition` for a coroutine that wakes up, whether it is obeyed
or not. The coroutines asleep are the set `timers`; they wake up in any order, since the start
and terminate delays differ and are configurable. Tokens and ids come from `uuid4`; a model
value stands for a fresh one when nothing refers to it any more. Two fields of a cluster are
there for the properties only: `goal`, the target of the latest lifecycle request, and
`forced`, set when `update` with the mask `*` overwrites the state, which the service lets a
client do and after which the lifecycle properties ask nothing until the next request or
wake-up. `update` validates no reference; `ReferencesKept` therefore says that a reference that
is good stays good, not that every reference is.

### Catalog and Grants

The objects of Unity Catalog live in three places, and `Catalog` keeps them apart: `uc` is the
registry, `files`, `dbSchemas` and `stored` are what is on disk (the DuckDB file of a catalog,
its schemas, and the tables, macros and volume directories), and `attached` says where the
alias of each catalog leads on the shared connection: to nothing, to its own file, or to
another database. `main`, the schema that every DuckDB database has, is never in `dbSchemas`.

One action per request (`CreateCatalog` to `DeleteFunction`, `UpdateGrants`), with the DuckDB
calls it makes, the errors that it logs and passes over, and the cascade. The handlers await the
connection and its lock, which is always free, so a handler runs to its end. What pulls the three
places apart are actions too: `Statement`, the DDL, `DETACH` and `ATTACH` that `execute_statement`
passes to DuckDB; `ResetState` and `FullReset`; and `Restart(save, load)`, in good order or as a
crash, with or without a snapshot. `Sql*` model DuckDB as the service uses it: it keeps names
unique and drops with a schema all that is in it. Where an alias leads to another database, what a
lookup in it finds, and whether it takes an object, is left open. `request` records, for the
properties, which kind of deletion has just been answered.

`Grants` has the dictionary of grants as a set of (securable, principal, privilege), a dotted
name as the sequence of its parts, and a list of changes applied up to the first malformed
one (`Applied`), whose effect on a privilege is that of the last change that touches it.
`Effective` is what `get_effective_permissions` reports, with its source.

The model leaves out the fields that describe an object, name folding (DuckDB compares names
without case, the registry with), files in volumes, and the failure of DuckDB on a healthy
file. A table stands for a view too, a function for every other object in a schema.

### The texts: SqlText, SqlRelations, ColumnTypes, SqlGrammar, Sql

Before a statement reaches DuckDB, `services/sql_statements.py` looks into its text with scanners
written by hand. A text is a sequence of atoms, the characters and marks the scanners tell apart.
`SqlText` has the backtick conversion (`Debacktick`), the token spans of the DDL passes (`Spans`)
and the tokens of the relation rewriting (`RewriteTokens`), each translated from its own code
although all three describe one lexical grammar, and on top of the spans the removal of
table-format clauses and the recognition of external tables. `SqlRelations` walks the tokens of a
statement with a stack of scopes, as the code before `_rewrite_sql_for_duckdb` does, and
`ColumnTypes` parses a type the way `uc_types.py` does, with a recursive function.

`Sql` produces the inputs. `Write` appends arbitrary atoms to a seed and checks the scanners
against each other and the passes against the tokens. `Derive` derives statements, scripts and
types from `SqlGrammar`, whose derivations know what the passes have to find out, so that the
passes are compared with the derivation and not with another parser. No text has `*/` twice in
a row, whose middle would read as a comment mark that the atoms do not show; identifiers that
touch a double quote are excepted where backticks are converted (`IdentifiersTouch`), and block
comments after a string where comments are blanked (`CommentBehindString`): there the pass
changes what DuckDB itself reads. Which tokens there are is one recursive function of the
position, `TokenSpans`, with what starts at a position in `SpanAt`. `TokensStand` joins what is
said of them: the scanners agree (`ScannersAgree`), none loses a part of the text
(`TextCovered`), and blanking comments moves no token (`CommentsBlanked`).

### Statements

A statement runs from its first line to the recording of its result without an await, so
`Execute` is one action: it switches the shared connection to the statement's namespace
(`Applied`), executes, rolls back where the code does, switches back (`Restored`) and records
(`Record`, with the eviction in `Kept`). `conn` has the namespace, the state of the
transaction and what a rollback brings back. `DeltaWrite` and `FinishWrite` are the two halves
of a write that waits for a Spark job. `reader` and `pager` are clients: one follows the
chunks of a result by the links it gets, the other the pages of the history by their tokens;
any request of other clients comes in between. An evicted result answers the reader with an
error and it starts again.

### Storage and Workspace

In `Storage` the DBFS and Files APIs share one tree, a function from paths to directories and
files, a file being the set of clients whose blocks it holds. What suspends is split: an upload of
the Files API into the check (`StartUpload`) and the write (`FinishUpload`), one through a DBFS
handle into its requests. `held` is what each client believes its handle to be, which a reset does
not tell it. `Startup` migrates what an older release left (`_merge_legacy_volume`), and
`DieMigrating` is a crash with any part of it moved. Moves and the migration are one operator,
`Relocated`: what is at or below a path goes to where `Placed` says, and every directory above it
is there. A client has at most one upload waiting for its body, so that the uploads of two
clients, or one of them and a stream through a handle, overlap on one path. `Workspace` has the
metadata beside the disk, `StartImportFile` and `FinishImportFile` around the wait for the body,
the snapshot of the metadata, and a crash that loses it. A path there is the sequence of its parts
as they were spelled: entries are kept under the spelling, as `_normalize` leaves it, and files at
the place where `_resolve` leads (`Place`), so `/d/../d//f` is an alias of `/d/f` that shares its
file and not its entry. `aliased` remembers that a request has used one, `crashed` that the server
died.

### Scim, Queries and Records

`Scim` is about names that must be unique: creations, replacements, deletions and patches of up
to two operations, applied to a copy which is checked and stored or dropped (`Applicable`).
`renumbered` remembers that a patch has changed an id, which the code lets through. `Queries`
has both APIs over the two stores; the newer one resolves name conflicts by numbering
(`Resolved`), the legacy one sets names unchecked (`renamed`). `EvaluateAlert` judges an alert, with
the operators and coercions of `_coerce_for_compare`, and is compared with a reading of the
symbol that the client asked for. `Float` is what `float()` does to a whole number beyond
`Exact`, which stands for 2^53: it takes one that it can hold, and the comparison goes on with
that. `Records` has every registry that keeps records and does
nothing else; a key is a number or a text, since a JSON snapshot makes texts of all of them.
An update of a credential, a dashboard, a widget or a visualization is taken over with all that
it holds (`TakeOver`), the id among it, and `relabelled` remembers whose id a client has
overwritten; the models of the other requests drop the fields they do not name.

### Snapshot, Executor, Notebook and Seed

`Snapshot` gathers the state service by service, writes the temporary file, replaces the snapshot,
and can die at each step; what a service holds is a version number. At a start any set of services
is enabled, any may fail to restore, and the file may be of a format this release does not know.
`Durable` knows no steps of a save: a stop saves what the services hold, in one piece, or leaves
what was saved before; `SnapshotDurable` maps a process that gathers, writes and replaces to one
that still runs. `Executor` has a process per task (check, install, rename, script), a thread that
waits for it with a time-out, and Docker, which may refuse to stop or remove; `pip` and the script
are external. `Notebook` splits start and stop at every await. `Seed` has an action per API
request of `seed_table`, for two calls on one table that can fail or be cancelled at any of them;
the rows of a call may or may not fit a table with the columns of the other.

### Server

The services share no variables, so their product would only multiply states. `Server` puts
them side by side: a behaviour is one of the service that `service` names in its first state,
and the variables of the others are `Unused`. `NamesUnique` speaks of `Scim` and `Queries`,
`RestoredWhole` of `Snapshot` and `Records`, `ChildrenAccounted` of `Executor` and `Notebook`;
each has a mutant in both. `SnapshotDurable` is about `Snapshot` alone.

## 3. Runs

| Run | Instance | Question |
|---|---|---|
| `taskgraph` | 3 keys, lists of up to 3 tasks, every dependency set | is the verdict right, is a key ever removed twice, does it end, and why |
| `jobs_dag` | 1 run, 1 job, task lists of up to 3 tasks with mixed kinds and conditions | the scheduler against cancellation, deletion and update; every step of the coroutine brings it nearer to its end |
| `jobs_registry` | 2 runs, 1 job, 1 token, 1 task | registry, ids, tokens, and the refinement of `RunContract` |
| `jobs_reset` | `jobs_registry` with one reset | finding: outputs of a run from before the reset |
| `jobs_restart` | the same with a restart from a snapshot | finding: runs restored in flight |
| `clusters` | 1 cluster, 3 coroutines asleep, 2 policies, 1 pool | lifecycle, references, names, settling |
| `cluster_restart` | 1 cluster, restart from a snapshot | finding: clusters restored in transition stay there |
| `cluster_pool` | 1 cluster, 1 pool | finding: a driver's pool can be deleted |
| `catalog` | 1 catalog, 3 schemas, 1 table, 1 volume, 1 function, 2 securables | can registry, files and grants drift apart so far that a deletion destroys or leaves too much |
| `catalog_metastore` | the same with the metastore as a securable | finding: its grants are not inherited |
| `sql` | texts of up to 4 atoms after a seed, statements of 15, scripts of 30 and types of 9 symbols | do the passes over SQL text agree with each other and with the grammar, and is none of it lost |
| `server` | below, per service | ten services, each under every order of its requests, waits, restarts and crashes |

Bounds, and why they are enough:

- `MaxTasks = 3`, `Key = {a, b, c}`: with three keys there are cycles of length one, two and
  three, diamonds cut short, and lists with a repeated key. The theorems remove the bound.
- `jobs_dag`: three tasks give a wave of two followed by a task that depends on both, and a
  chain of three waves; the lists cover every `run_if` and every kind.
- `MaxRuns = 2` and `MaxRunId = 3` in `jobs_registry`: two runs share the token, and a task's
  id falls between the ids of the two runs, which is where ids could collide.
- `MaxJobs = 1`: jobs do not interact. `MaxResets` is 0 where resets are not the question.
- Resets and restarts appear only in `jobs_reset`, `jobs_restart` and `cluster_restart`, each
  of which shows what breaks; what holds all the same is proved, for `LivesSpec` and
  `RestartSpec`, with any number of runs, resets and restarts (section 4).
- `Token = {t1, t2, t3}` in `clusters`: three transitions of a cluster asleep at the same
  time, so a superseded coroutine can wake up before, between and after two newer ones. One
  cluster: clusters share nothing but policies and pools, and the theorems remove the bound.

- `catalog`: one catalog, since nothing but the shared connection ties two together and aliases
  are modelled one by one. Its schemas are of the three sorts the code tells apart (the
  default one, DuckDB's `main`, any other), and each kind of object is in another of them.
  Grants are on the catalog and on the volume, two levels below it, so inheritance and cascade
  skip a level; a list of changes grants, grants and revokes, or fails half way.
- `MaxSaved = 2`: the schemas, objects and grants in a snapshot that is written are at most
  two together, enough for an object with its schema or a catalog with a grant to come back
  after their files are gone, and the other way round. It bounds when a snapshot may be
  written, nothing else, and the theorems do not depend on it.

- `sql`: twelve atoms, with seeds that open each kind of token, so that four more atoms reach
  a quote inside a comment, an escape inside a string and a comment mark inside an identifier.
  The grammar reaches a query nested in a query and a type nested in a type.
- `server`, `Statements`: the cache holds 2 of 3 statements, chunks have 2 rows and pages 1
  entry; results of 3, 0 and 2 rows are a chunk and a half, none, and exactly one chunk. One
  warehouse and one namespace beside the default: the connection is shared anyway.
- `Storage`: 2 clients, a directory, a volume and a file in it, 2 handles, 2 changes of the
  tree; it starts with nothing, with two old files to migrate, or with a conflict between an
  old file and a new one. `Workspace`: a directory, a file in it and an alias of
  the file, 2 object ids.
- `Scim`: 2 ids, 2 names, 1 member, enough for a swap of names in one patch. `Queries`: a
  behaviour has 3 queries of one name, 2 queries or 2 alerts that can collide by numbering, or
  1 alert whose client uses one or two of the symbols, each in some scope: the eight
  comparisons, the two tests for null, and one that neither map knows. Its threshold is a
  number that results are less than, equal to and greater than, or the last exact one as a
  text, to which the next is rounded, or a bool, or missing; results are numbers, numbers in a
  text, other texts, bools and nulls. `Exact = 4`, and numbers go to `2 * Exact`, where floats
  have only every other number; larger ones, which round more coarsely, negative ones and
  fractions are left out, and so are numbers too large for a float and texts such as "nan",
  which are floats. `Records`: 2 records of each kind.
- `Snapshot`: 2 services, 2 versions, 2 starts, so that what one process saved and the next
  restored is saved again. `Executor`: 2 tasks with one set of libraries. `Seed`: 2 calls.
- Clients, tasks and callers are the same two values, which no definition tells apart; the
  run declares them symmetric and checks no liveness.

Deadlock is checked except where the system really may stop (a validation that has returned,
a bounded number of runs that have all ended).

### Fairness

`RunsTerminate` and `Returns` need that the event loop gives every runnable coroutine its turn,
which asyncio does, and that containers, subprocesses and Delta writes end, which their
timeouts ensure (`task.timeout_seconds or DEFAULT_TIMEOUT_SECONDS`, 300 s for a Delta write).
`Settles` needs that a sleeping coroutine wakes up. All of it is weak fairness of the
coroutines' own steps; nothing is assumed of clients.

### Findings

Five runs end in a counterexample, each against a sentence of the documentation or a
docstring; `PROJECT.json` quotes them.

1. `jobs_reset`: after a reset, a surviving coroutine files its output in the new state
   (`services/jobs.py:577` and `:664` look `_state` up again), under an id that a new run or
   task is given too.
2. `jobs_restart`: the snapshot holds runs in flight and nothing ends them after a restart,
   against "only completed run records are restored" (`FEATURES.md`).
3. `cluster_restart`: a cluster saved in a transitional state is never moved on.
4. `cluster_pool`: `driver_instance_pool_id` does not count as a use of the pool.
5. `catalog_metastore`: a grant on the metastore is stored under a name, and looked up as an
   ancestor under none.

Seen while modelling, and not made a run: the plain reset deletes the DuckDB file of every
registered catalog (`services/unity_catalog.py:1365`), as `docs/getting-started.md` says, while
`FEATURES.md` ("preserves DuckDB tables") and the docstring of `reset_state` say that the
databases survive. The same reset deletes what it should keep by that document: it says of
workspace and DBFS files that they stay on disk (`docs/getting-started.md:142`, and
`docs/mcp/examples.md:203`), but `reset` of `services/dbfs.py:347` and of
`services/workspace.py:429` delete the directories, as a comment at `admin.py:68` has it.
`NothingLost` excepts a reset for that reason, and not because the documents agree. The
properties of the run `server` except what follows, each at the place
where the code does it:

- `Statements`: a `BEGIN` while another client's transaction is open fails, and the rollback
  that follows discards that client's work; a failed preparation of a Delta write leaves the
  connection in an aborted transaction; a cancel rewrites the status of a finished statement
  (its docstring calls that a no-op), which moves entries of a history filtered by status to a
  page already read; an eviction drops the whole entry, where `docs/configuration.md` says rows
  first.
- `Storage`: two uploads without `overwrite` both succeed, the later one replacing the earlier
  (`services/files.py:66`); DBFS handle numbers start again at 1 after a reset, so an old handle
  can add to a new upload; DBFS reaches the root directory of a volume and can delete it.
- `Workspace`: a file imported as `/d//f` has its entry under that spelling; deleting it as
  `/d/f` leaves the entry, and a list of `/d` shows the file without an object id, because
  `_normalize` (`services/workspace.py:50`) keeps what `_resolve` drops. A crash takes the ids
  given out since the last snapshot back, and a reset all of them, so an id can be given out
  again; what holds is that no two entries share one at a time.
- `Queries`: both sides of a comparison go through `float()` (`services/alerts.py:115`), so
  9007199254740993 is not greater than 9007199254740992 and an alert on that does not fire.
- `Records`: the update of a credential (`services/workspace_admin.py:145`) and those of a
  dashboard, a widget and a visualization (`services/preview_sql.py:372`, `:418`, `:457`) take
  over an id in the body: the record then reports an id under which it is not found, and a
  `credential_id` that is no number makes every later read of it fail.
- `Scim` and `Queries`: a client may choose the id of a new resource, which then replaces the
  one that has it; a patch of `id` defeats the check of names; the legacy update sets names
  unchecked.
- `Snapshot`: a service that is disabled, or whose `get_state` raises, is missing from the next
  snapshot; a snapshot that could not be read is overwritten at the next shutdown.
- `Executor` and `Notebook`: the `mv` of the loser puts its directory inside the winner's; a
  killed container leaves its temporary directory; a container that Docker refuses to stop and
  to remove stays; of two overlapping stops of the notebook server one can raise.
- `Seed`: two calls can create two warehouses named `mcp-default`; the second of two calls that
  create the catalog fails; a cancelled call can leave its staging table.
- `ColumnTypes`: the canonical text of the type NULL, `void`, is not accepted back.

## 4. Proofs

`TLAPS` proves, for every value of the constants:

- `TaskGraphProofs`: `VerdictIsCorrect`, and `PeelingNeverRaises` and `PeelingEnds`, which are
  `EachKeyIsPeeledOnce` together. The inductive invariant says, while peeling, which keys have
  been popped (those neither ready nor left with dependencies), that `visited` is their number,
  and that what remains of a task's dependencies are the ones not yet popped. If fewer keys were
  popped than listed, the rest is a set in which everyone waits for another; if all were popped,
  the order in which they were rules out a cycle. The same invariant makes `EachTurnPops` hold,
  the measure behind `Returns`.
- `ClustersProofs`: `TransitionsArePending`, `LatestRequestDecides`, `ReferencesAreKept` and
  `PolicyNamesStayUnique`, the last of which is inductive as it stands.
  The two lifecycle invariants are not inductive alone: an update may overwrite the state
  while a coroutine sleeps, so the invariant also says that the token of a cluster always
  belongs to a coroutine that leads to the goal (`TokenBacked`), and that no other coroutine
  carries that token (`TokensUnique`). Restarts from a snapshot keep this part (`Backed`), so
  the last three theorems are for `LivesSpec`, in which the server restarts at any moment;
  they hold of `Spec` too, which implies it. `TransitionsArePending` also needs that a
  cluster in transition has a token (`HasToken`), which a restart takes away, and is for
  `Spec` alone: `cluster_restart` shows what becomes of such a cluster.
- `JobsProofs`: `TypesHold` and `EveryRunHasOneDriver`, in one life of the server (`Spec`), and
  `ContractSurvivesRestarts`, for `RestartSpec`, from one inductive invariant, `IInv`. `OneDriver`
  alone says nothing of how a coroutine came to drive a run; the invariant says that a
  coroutine works on the run it was created with, that its stage matches the run's life cycle
  state, and that an active run is registered (`DrivesItsRun`). That new runs get fresh ids is
  `IdsGrow`; that a token is used once is `TokensRemembered` (tokens are never forgotten, runs
  are); that a waiting task belongs to the list its coroutine read is `WavesOfTheirLists`. A
  restart keeps all of it. What it breaks, and `OneDriver` needs, is that the run of an ended
  coroutine has ended (`RunsEnded`): the finding of `jobs_restart`. For the refinement each
  coroutine step is shown to be `Begin`, `End` or a stutter, each request `Accept`, `Cancel`,
  `Delete` or a stutter, and a restart a stutter.
- `JobsOutcomeProofs`, for `RestartSpec`: `ResultsSurviveRestarts` and `OutputsSurviveRestarts`,
  and `EndedRunsAreIdle` for `Spec`, from `RInv`, which adds three things to `IInv`.
  `WorkAccounted` relates a coroutine's record to its run's dict. That the outcomes a decision
  rested on never change later is not inductive alone; it needs that only tasks of the wave
  are busy, that none of these has an outcome yet, and that the dependencies of a wave had
  ended before it began (`TasksInStage`). `IdsName` says that an id names one thing, a run or
  a task of it, and that the output under it was written by that; with the counter above all
  ids, no output is overwritten by another owner. `Diagnosed` is what `IdsName` lacks for the
  result of a run that failed by an exception. `RunIfIsItsMeaning` shows by counting that
  `_run_if_satisfied` decides what the names of the conditions mean, for any number of
  dependencies.
- The same module, for `LivesSpec`, with resets and restarts at any time: `SchedulerNeverStuck`,
  `OutcomesStayJustified`, `CancelStopsTheRun` and `CoroutinesComeNearer`, the
  first and the last of which are `SchedulerNeverStops`. After a reset `IInv`
  is false, as a coroutine may execute a run it was not created with, or one that no registry
  has. `LInv` keeps what each coroutine can rely on all the same: its own record is sound
  with respect to the dict it holds (`RecordsSound`), every list a run may read was validated
  (`SourcesValid`), and a new dict never replaces one that a coroutine holds (`IdsNew`).
  `CoroutineSteps` describes once what any step of a coroutine does to its record
  (`StepsTo`), and the four theorems read it off. `SchedulerNeverStuck` rests on the lemma
  `RestHasReadyTask`: what is left of a valid list has a task that waits for nothing in it; the
  same lemma makes every wave take a task that none had before, so that `RunsProgress` holds.
  It is the safety half of `RunsTerminate`: what is left to TLC is that a coroutine which can
  take a step does.

- `CatalogProofs`: `CatalogTypesHold`, `ParentsStayRegistered`, `UnforcedDeletionIsSafe` and
  `DeletionIsComplete`. `TypeOK` carries `FilesHold`, without which an empty list of schemas
  would say nothing about the tables in the file: an unforced `DeleteCatalog` looks for
  schemas other than `default` and `main` and for objects in these two, and it is `FilesHold`
  that makes this all there is. `ParentsRegistered` is inductive because it speaks of the
  snapshot as well as of the registry. `InheritanceIsComplete`, of `Grants`, is a fact of every
  state with well-formed grants: the sources of a securable are among those of everything
  below it.

- `ServerProofs`: `ChildrenStayAccounted`, `RestoredStaysWhole` and `NamesStayUnique`, each from
  one invariant per service, since the variables of the others do not change. For the executor the
  invariant says what a task may rely on at its step (`TaskSound`: whoever renames has a whole
  directory, whoever runs the script finds one); for the notebook server, that a stop that is over
  has left no process and that the launch was over before any stop. A snapshot is whole because
  what is about to replace the file is an envelope that was gathered (`SnapshotInv`); that it
  holds what the services held when they stopped, so that the saving implements `Durable`
  (`SnapshotKeepsItsPromise`), needs that nothing changes between the gathering and the
  replacement (`DurableInv`). A record is found because every key is one that a restart leaves as
  it is (`Kept`), and its id, unless a client has overwritten that, is the key; that the next
  credential gets a number of its own needs that every key is among those counted (`Counted`),
  whatever ids the records report. Names of users, groups and principals stay unique as long as a
  resource holds the id it is stored under (`IdentityInv`); for queries and alerts,
  `ResolvedIsFree` shows by counting that one of the numbered names is free: they are pairwise
  different (`NumberedApart`) and one more than the objects.
- `ServerDataProofs`, about the services of `Server` that keep data:
  - `ObjectsStayIdentified` (`Workspace`). `ObjectsInv` says that ids are below the counter and
    pairwise different, in memory and in the snapshot, that metadata and disk agree until a
    crash or the use of an alias (`Recalled`), and that the disk is a tree: below a file there
    is nothing. No two entries share an id in any case, and none has the one given out next.
  - `UploadsStayUnmixed` and `NothingIsLost` (`Storage`). `HandlesInv` says that a handle is held
    by one client, and has blocks of no other, but for clients that go on from before a reset.
    `NothingLost` counts contents, and a count is hard to follow through a move; the proof
    gives an injection of the files before a step into those after it (`Survives`), which
    `SurvivalCounts` turns into the counts. Moving and migrating are one operator in the
    model, and `TreeMove`, `TreeMigration` and `TreeDeath` are instances of the lemmas about it:
    `RebaseInjective` (two paths do not collide), `RebaseParents` (parents go with their
    children) and `OverlayTree` (what was there before stays a tree with what comes).
  - `AlertsStayJudged` (`Queries`): every stored operator is the translation of the symbol that
    its client asked for (`JudgeInv`), and rounding, which only ever makes two numbers equal,
    never turns their order round (`FloatMeant`, `FloatsCompare`).
  - `SeedingKeepsData` (`Seed`). While nothing overlaps, `CallSound` says for every step of a call
    what of the table it found is still there, and what a step may rely on: whoever drops the
    table has columns that are supported and rows that fit.
  - `NamespaceStaysKept`, `ReadersGetAll` and `PagersSkipNone` (`Statements`). A reader that has
    `n` chunks has the rows before chunk `n` (`ReaderInv`), whatever happened to the cache,
    since an id is never given out twice and the number of its rows never changes (`CacheInv`).
    The pager's invariant counts from the oldest entry: a statement that was there at its
    start and has fewer younger ones than the pager's offset has been seen (`PagerInv`). A new
    statement or an eviction makes that harder to satisfy, never easier.

- `SqlProofs`, for texts of any length and any atoms: `ScannersAlwaysAgree`, `NoTextIsLost` and
  `CommentsStayBlank`, together `TokensAlwaysStand`. Every scanner is a recursive function of a
  position, and the library's induction theorems are out of reach, but that a set of numbers has a
  least one is not (`LeastNumber`); from it follows induction from the end of a text
  (`FromTheEnd`), and with that the functions exist (`ScanExists`) and every token ends where it
  should (`QuoteEndFacts` to `SpanAtFacts`). The two scanners are then one scan whose spans are
  named differently (`IsScan`, `RewriteTokensScan`). That it loses nothing is `ScanCovers`. That
  it finds the same tokens once the comments are blank is local: a position that no span goes over
  is a boundary, what starts there in the text ends where it did in the blanked one (`SpanStays`,
  which has a lemma for each kind of token), and its end is a boundary again. Two of these are
  less obvious than the code looks: what stands to the left of a token decides whether a dollar or
  a quote opens a string, so that a comment there must end with `*/` or before a line break
  (`CommentsEndPlainly`, which counts the marks of nested comments); and a string may go on after
  line comments, which are blank afterwards (`ContinuationBeyond`). After block comments it may
  not, which is why these are excepted behind a string.

The assumptions are those on the constants, each named in the module that declares them and
evaluated by TLC:

- `Jobs`: task lists are functions from finitely many keys to tasks, `NoToken` is no token and
  `NoKey` no key. `TaskGraph`: the set of keys is finite.
- `Grants`: securables are records of a type and a name.
- `Sql`: the seeds are sequences of atoms.
- `Server`: bounds are natural numbers, chunks and pages hold at least one entry; the default
  namespace and the names set aside are no others; the names of queries and alerts are
  sequences; `Exact` is a multiple of 4, as 2^53 is; paths are sequences of strings, those of the
  workspace lead below its root however they are spelled, the first disk is a tree in which every
  directory above an entry exists and no file mixes uploads (`PathsAssumption`); the numbers
  that alerts compare are in the range where `Float` is exact about `float()`
  (`AlertsAssumption`); what stands
  for a missing table is no table (`SeedAssumption`).

Type correctness is proved everywhere (`TypesHold` for `Jobs`) and checked by TLC where a hazard
hangs on it, in `catalog`; the other runs check what it is needed for. The invariants of
`JobsOutcomeProofs` and `ServerDataProofs` were checked by TLC on the instances of the runs
before they were proved.

Left to TLC:

- Liveness: `Returns`, `RunsTerminate`, `Settles`. Fairness is out of this prover's reach.
- Of `Sql`, `IdentifiersKept`, whose text changes its length, so that every token after a
  converted identifier is found somewhere else, and the four properties that compare a pass
  with a grammar: `TailsStripped`, `ExternalRecognized`, `RelationsFound` and `SpellingsAgree`.
  They speak of derivations, whose shape takes an induction that the positions of a text
  do not give.
- With resets `OutputsBelongToTheirRun` is false (`jobs_reset`), and so are `OneDriver`,
  `NoOrphanTask`, `ResultAccounted` and the contract, which speak of the run an id names. With
  restarts `OneDriver` and `NoOrphanTask` are false (`jobs_restart`). Nothing is proved of them
  there.

## 5. Not modelled, and why

What DuckDB and Spark answer, and the formats of results (text and data); reading endpoints,
which change nothing; descriptive fields that no guard reads; logging; the proxy of the
notebook server; the other MCP tools, which are one request each; the command line,
configuration and TLS, which only run before the first request.

Liveness of the modules under `Server` is not stated: nothing in them waits for another party
except for a time-out or a client.

## 6. Plan

Every safety property and every action property of the passing runs is now a theorem, but for
five of `Sql`. What is left:

1. `IdentifiersKept`: lemmas that each scanner finds the same token in a text that is shifted,
   after those of `SqlProofs` for a text that is blanked.
2. The hazard without a property at `services/sql_statements.py:1052`: a Delta write whose
   table is dropped while it waits needs `Statements` and `Catalog` composed.
