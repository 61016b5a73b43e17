------------------------------ MODULE Catalog -------------------------------
(***************************************************************************)
(* Unity Catalog (services/unity_catalog.py) over the three places that    *)
(* keep its objects: the registry in memory, the DuckDB file of each       *)
(* catalog, attached to one shared connection (duckdb_pool.py), and the    *)
(* directories of the volumes; with the grants of module Grants.           *)
(*                                                                         *)
(* The three drift apart: statements run DDL, DETACH and ATTACH that the   *)
(* registry never sees, DuckDB errors are logged and passed over, and a    *)
(* restart loses the registry, or restores an old snapshot of it, while    *)
(* files and directories stay.  The handlers hold no lock over a real      *)
(* suspension, so each is one action.                                      *)
(*                                                                         *)
(* Left out: what only describes an object (comments, properties, owners,  *)
(* columns, ids), the updates of it, and reads.  A table stands for a view *)
(* too, a function for every other kind of object DuckDB keeps in a        *)
(* schema.  Requests that are rejected and change nothing are not actions. *)
(***************************************************************************)
EXTENDS Grants, FiniteSets

CONSTANTS
  CatalogName,
  SchemaName,
  Default,      \* the schema every catalog is created with
  Main,         \* the schema every DuckDB database has, which cannot be dropped
  Object,       \* tables, functions and volumes: [kind, catalog, schema, name]
  MaxSaved      \* bound: how many schemas, objects and grants a snapshot holds

ASSUME SchemaAssumption == Default \in SchemaName /\ Main \in SchemaName /\ Default # Main
ASSUME ObjectAssumption ==
  \A o \in Object :
    /\ o.kind \in {"TABLE", "FUNCTION", "VOLUME"}
    /\ o.catalog \in CatalogName /\ o.schema \in SchemaName

VARIABLES
  uc,         \* unity_catalog._state; objects: tables, volumes and functions, external: external_tables
  attached,   \* what each catalog's alias is attached to: its own file, another database, or nothing
  files,      \* the catalogs whose DuckDB file exists
  dbSchemas,  \* the schemas in the files, apart from main
  stored,     \* the tables and macros in the files, and the volume directories
  snapshot,   \* the registry and grants last saved
  request     \* for the properties only: the deletion just answered with success, if any

registry == <<uc, grants>>
storage == <<attached, files, dbSchemas, stored>>
vars == <<uc, grants, attached, files, dbSchemas, stored, snapshot, request>>

Schema == CatalogName \X SchemaName
SchemaOf(o) == <<o.catalog, o.schema>>
InFile(o) == o.kind # "VOLUME"

Empty == [catalogs |-> {}, schemas |-> {}, objects |-> {}, external |-> {}]

OnCatalog(c) == [type |-> "CATALOG", name |-> <<c>>]
OnSchema(c, s) == [type |-> "SCHEMA", name |-> <<c, s>>]

Init ==
  /\ uc = Empty /\ grants = {} /\ snapshot = [uc |-> Empty, grants |-> {}]
  /\ attached = [c \in CatalogName |-> "none"]
  /\ files = {} /\ dbSchemas = {} /\ stored = {}
  /\ request = "other"

-----------------------------------------------------------------------------
(* The pool and the files                                                  *)

\* attach_catalog: ATTACH IF NOT EXISTS, which creates a missing file.
AttachedWith(c) == [attached EXCEPT ![c] = IF @ = "none" THEN "file" ELSE @]
FilesWith(c) == IF attached[c] = "none" THEN files \cup {c} ELSE files

\* The alias c, once attached, leads to the catalog's file.
OwnFile(c) == attached[c] # "other"

\* The alias c leads to the catalog's file now, and the schema is in it.
SchemaInFile(c, s) == attached[c] = "file" /\ (s = Main \/ <<c, s>> \in dbSchemas)

\* What the directory of a schema and its part of the file hold.
Directories(c, s) == {o \in stored : SchemaOf(o) = <<c, s>> /\ ~InFile(o)}
Native(c, s) == {o \in stored : SchemaOf(o) = <<c, s>> /\ InFile(o)}

Registered(c, s) == {o \in uc.objects \cup uc.external : SchemaOf(o) = <<c, s>>}

-----------------------------------------------------------------------------
(* Catalogs                                                                *)

\* CREATE SCHEMA IF NOT EXISTS through an alias that is (after) attached as in `to`.
SchemasWith(c, s, to) == dbSchemas \cup (IF to[c] = "file" THEN {<<c, s>>} \ {<<c, Main>>} ELSE {})

\* create_catalog attaches the file, which may be left from an earlier catalog of the name,
\* and then creates the default schema; had that been registered already, it would raise.
CreateCatalog(c) ==
  /\ c \notin uc.catalogs
  /\ attached' = AttachedWith(c)
  /\ files' = FilesWith(c)
  /\ uc' = [uc EXCEPT !.catalogs = @ \cup {c}, !.schemas = @ \cup {<<c, Default>>}]
  /\ dbSchemas' = IF <<c, Default>> \in uc.schemas THEN dbSchemas
                  ELSE SchemasWith(c, Default, AttachedWith(c))
  /\ request' = "other"
  /\ UNCHANGED <<grants, stored, snapshot>>

\* Mutant: only what the registry knows is looked at.
CatalogEmptyRegistered(c) ==
  /\ \A cs \in uc.schemas : cs[1] = c => cs[2] = Default
  /\ \A o \in uc.objects \cup uc.external : o.catalog # c

\* _catalog_has_registered_children and _duckdb_catalog_has_children find nothing: in the file
\* they look for other schemas than these two, and for objects in these two.
CatalogEmpty(c) ==
  /\ \A cs \in uc.schemas \cup dbSchemas : cs[1] = c => cs[2] = Default
  /\ \A o \in uc.objects \cup uc.external : o.catalog # c
  /\ \A o \in stored : o.catalog = c => InFile(o) /\ o.schema \notin {Default, Main}

\* detach_catalog deletes the file, _delete_catalog_children all the rest.
DropCatalog(c) ==
  /\ uc' = [catalogs |-> uc.catalogs \ {c}, schemas |-> {cs \in uc.schemas : cs[1] # c},
            objects |-> {o \in uc.objects : o.catalog # c},
            external |-> {o \in uc.external : o.catalog # c}]
  /\ grants' = GrantsWithout(OnCatalog(c))
  /\ attached' = [attached EXCEPT ![c] = "none"]
  /\ files' = files \ {c}
  /\ dbSchemas' = {cs \in dbSchemas : cs[1] # c}
  /\ stored' = {o \in stored : o.catalog # c}

\* delete_catalog attaches the catalog, so that a file nobody has opened is inspected too,
\* and refuses an alias of another database.  A refusal leaves the catalog attached.
DeleteCatalog(c, force) ==
  /\ c \in uc.catalogs
  /\ UNCHANGED snapshot
  /\ \/ /\ OwnFile(c)
        /\ force \/ CatalogEmpty(c)
        /\ DropCatalog(c)
        /\ request' = IF force THEN "force" ELSE "delete"
     \/ /\ ~(OwnFile(c) /\ (force \/ CatalogEmpty(c)))
        /\ attached' = AttachedWith(c)
        /\ files' = FilesWith(c)
        /\ request' = "other"
        /\ UNCHANGED <<registry, dbSchemas, stored>>

-----------------------------------------------------------------------------
(* Schemas                                                                 *)

\* create_schema registers the schema even when DuckDB cannot create it.
CreateSchema(c, s) ==
  /\ c \in uc.catalogs
  /\ <<c, s>> \notin uc.schemas
  /\ uc' = [uc EXCEPT !.schemas = @ \cup {<<c, s>>}]
  /\ dbSchemas' = SchemasWith(c, s, attached)
  /\ request' = "other"
  /\ UNCHANGED <<grants, attached, files, stored, snapshot>>

\* The emptiness check of delete_schema succeeds; the last conjunct is about the attached
\* database, and when that is another one it may hold anything.
SchemaEmpty(c, s) ==
  /\ Registered(c, s) = {}
  /\ Directories(c, s) = {}
  /\ OwnFile(c) => Native(c, s) = {}

\* Mutant: external tables are forgotten by the cascade.
DropSchemaKeepsExternal(c, s) ==
  /\ uc' = [uc EXCEPT !.schemas = @ \ {<<c, s>>},
                      !.objects = {o \in @ : SchemaOf(o) # <<c, s>>}]
  /\ grants' = GrantsWithout(OnSchema(c, s))
  /\ dbSchemas' = IF OwnFile(c) THEN dbSchemas \ {<<c, s>>} ELSE dbSchemas
  /\ stored' = stored \ (Directories(c, s) \cup IF OwnFile(c) THEN Native(c, s) ELSE {})

\* DROP SCHEMA CASCADE or RESTRICT, where the alias leads to the file, and
\* _delete_schema_children.
DropSchema(c, s) ==
  /\ uc' = [uc EXCEPT !.schemas = @ \ {<<c, s>>},
                      !.objects = {o \in @ : SchemaOf(o) # <<c, s>>},
                      !.external = {o \in @ : SchemaOf(o) # <<c, s>>}]
  /\ grants' = GrantsWithout(OnSchema(c, s))
  /\ dbSchemas' = IF OwnFile(c) THEN dbSchemas \ {<<c, s>>} ELSE dbSchemas
  /\ stored' = stored \ (Directories(c, s) \cup IF OwnFile(c) THEN Native(c, s) ELSE {})

\* delete_schema.  DuckDB refuses to drop main.
DeleteSchema(c, s, force) ==
  /\ <<c, s>> \in uc.schemas
  /\ attached' = AttachedWith(c)
  /\ files' = FilesWith(c)
  /\ UNCHANGED snapshot
  /\ \/ /\ s # Main
        /\ force \/ SchemaEmpty(c, s)
        /\ DropSchema(c, s)
        /\ request' = IF force THEN "force" ELSE "delete"
     \/ /\ OwnFile(c) => s = Main \/ ~(force \/ SchemaEmpty(c, s))
        /\ request' = "other"
        /\ UNCHANGED <<registry, dbSchemas, stored>>

-----------------------------------------------------------------------------
(* Tables, volumes and functions                                           *)

\* create_table looks for a table of the name in the registry and in the attached database.
\* Through an alias of another database, whether it is found, or can be created, is open.
CreateTable(o, external) ==
  /\ o.kind = "TABLE" /\ SchemaOf(o) \in uc.schemas
  /\ o \notin uc.objects
  /\ attached[o.catalog] = "file" => o \notin stored
  /\ uc' = [uc EXCEPT !.objects = @ \cup {o}, !.external = IF external THEN @ \cup {o} ELSE @]
  /\ \/ /\ external \/ attached[o.catalog] = "other"
        /\ UNCHANGED stored
     \/ /\ ~external /\ SchemaInFile(o.catalog, o.schema)
        /\ stored' = stored \cup {o}
  /\ request' = "other"
  /\ UNCHANGED <<grants, attached, files, dbSchemas, snapshot>>

\* delete_table takes a name from the registry or from the attached database.  The table in
\* the file stays when the name was that of an external table, and when DuckDB cannot drop it.
DeleteTable(o) ==
  /\ o.kind = "TABLE"
  /\ \/ o \in uc.objects \cup uc.external
     \/ o \in stored /\ attached[o.catalog] = "file"
  /\ uc' = [uc EXCEPT !.objects = @ \ {o}, !.external = @ \ {o}]
  /\ stored' = IF o \in uc.external \/ attached[o.catalog] # "file" THEN stored ELSE stored \ {o}
  /\ request' = "other"
  /\ UNCHANGED <<grants, attached, files, dbSchemas, snapshot>>

\* create_volume refuses a directory that is already there.
CreateVolume(o) ==
  /\ o.kind = "VOLUME" /\ SchemaOf(o) \in uc.schemas
  /\ o \notin uc.objects \cup stored
  /\ uc' = [uc EXCEPT !.objects = @ \cup {o}]
  /\ stored' = stored \cup {o}
  /\ request' = "other"
  /\ UNCHANGED <<grants, attached, files, dbSchemas, snapshot>>

DeleteVolume(o) ==
  /\ o.kind = "VOLUME"
  /\ o \in uc.objects \cup stored
  /\ uc' = [uc EXCEPT !.objects = @ \ {o}]
  /\ stored' = stored \ {o}
  /\ request' = "other"
  /\ UNCHANGED <<grants, attached, files, dbSchemas, snapshot>>

\* create_function: a macro stands behind the function if it is in SQL and DuckDB takes it.
CreateFunction(o) ==
  /\ o.kind = "FUNCTION" /\ SchemaOf(o) \in uc.schemas
  /\ o \notin uc.objects
  /\ uc' = [uc EXCEPT !.objects = @ \cup {o}]
  /\ \/ UNCHANGED stored
     \/ SchemaInFile(o.catalog, o.schema) /\ stored' = stored \cup {o}
  /\ request' = "other"
  /\ UNCHANGED <<grants, attached, files, dbSchemas, snapshot>>

DeleteFunction(o) ==
  /\ o.kind = "FUNCTION"
  /\ o \in uc.objects
  /\ uc' = [uc EXCEPT !.objects = @ \ {o}]
  /\ stored' = IF attached[o.catalog] = "file" THEN stored \ {o} ELSE stored
  /\ request' = "other"
  /\ UNCHANGED <<grants, attached, files, dbSchemas, snapshot>>

-----------------------------------------------------------------------------
(* Statements that go past the registry                                    *)

SqlCreateSchema(c, s) ==
  /\ attached[c] = "file"
  /\ dbSchemas' = SchemasWith(c, s, attached)
  /\ UNCHANGED <<registry, attached, files, stored>>

SqlDropSchema(c, s) ==
  /\ attached[c] = "file" /\ s # Main
  /\ dbSchemas' = dbSchemas \ {<<c, s>>}
  /\ stored' = stored \ Native(c, s)
  /\ UNCHANGED <<registry, attached, files>>

SqlCreate(o) ==
  /\ InFile(o) /\ SchemaInFile(o.catalog, o.schema)
  /\ stored' = stored \cup {o}
  /\ UNCHANGED <<registry, attached, files, dbSchemas>>

SqlDrop(o) ==
  /\ InFile(o) /\ SchemaInFile(o.catalog, o.schema)
  /\ stored' = stored \ {o}
  /\ UNCHANGED <<registry, attached, files, dbSchemas>>

SqlDetach(c) ==
  /\ attached[c] # "none"
  /\ attached' = [attached EXCEPT ![c] = "none"]
  /\ UNCHANGED <<registry, files, dbSchemas, stored>>

\* ATTACH of another database under the name of a catalog.
SqlAttachOther(c) ==
  /\ attached[c] = "none"
  /\ attached' = [attached EXCEPT ![c] = "other"]
  /\ UNCHANGED <<registry, files, dbSchemas, stored>>

Statement ==
  /\ UNCHANGED snapshot /\ request' = "other"
  /\ \/ \E c \in CatalogName, s \in SchemaName : SqlCreateSchema(c, s) \/ SqlDropSchema(c, s)
     \/ \E o \in Object : SqlCreate(o) \/ SqlDrop(o)
     \/ \E c \in CatalogName : SqlDetach(c) \/ SqlAttachOther(c)

-----------------------------------------------------------------------------
(* Grants, reset and restart                                               *)

UpdateGrants(s, changes) ==
  /\ UpdatePermissions(s, changes)
  /\ request' = "other"
  /\ UNCHANGED <<uc, storage, snapshot>>

\* Mutant: the files are deleted under the attached aliases.
ResetStateStaysAttached ==
  LET gone == {c \in uc.catalogs : OwnFile(c)}
  IN /\ uc' = Empty /\ grants' = {}
     /\ files' = files \ gone
     /\ dbSchemas' = {cs \in dbSchemas : cs[1] \notin gone}
     /\ stored' = {o \in stored : o.catalog \in gone => ~InFile(o)}
     /\ request' = "other"
     /\ UNCHANGED <<attached, snapshot>>

\* The plain reset detaches the registered catalogs and deletes their files; it cannot, and
\* goes on, where the alias leads to another database.  The volumes stay.
ResetState ==
  LET gone == {c \in uc.catalogs : OwnFile(c)}
  IN /\ uc' = Empty /\ grants' = {}
     /\ attached' = [c \in CatalogName |-> IF c \in gone THEN "none" ELSE attached[c]]
     /\ files' = files \ gone
     /\ dbSchemas' = {cs \in dbSchemas : cs[1] \notin gone}
     /\ stored' = {o \in stored : o.catalog \in gone => ~InFile(o)}
     /\ request' = "other"
     /\ UNCHANGED snapshot

\* The full reset closes the shared connection as well and wipes the data directories.
FullReset ==
  /\ uc' = Empty /\ grants' = {}
  /\ attached' = [c \in CatalogName |-> "none"]
  /\ files' = {} /\ dbSchemas' = {} /\ stored' = {}
  /\ request' = "other"
  /\ UNCHANGED snapshot

Saveable == Cardinality(uc.schemas) + Cardinality(uc.objects) + Cardinality(grants) <= MaxSaved

\* The process ends and starts again.  It saves a snapshot if it stops in good order with
\* MINILAKE_PERSIST set, and restores the last one, attaching its catalogs, if it starts with
\* MINILAKE_PERSIST set.
Restart(save, load) ==
  LET saved == IF save THEN [uc |-> uc, grants |-> grants] ELSE snapshot
      start == IF load THEN saved ELSE [uc |-> Empty, grants |-> {}]
  IN /\ save => Saveable
     /\ snapshot' = saved
     /\ uc' = start.uc /\ grants' = start.grants
     /\ attached' = [c \in CatalogName |-> IF c \in start.uc.catalogs THEN "file" ELSE "none"]
     /\ files' = files \cup start.uc.catalogs
     /\ request' = "other"
     /\ UNCHANGED <<dbSchemas, stored>>

Next ==
  \/ \E c \in CatalogName : CreateCatalog(c)
  \/ \E c \in CatalogName, force \in BOOLEAN : DeleteCatalog(c, force)
  \/ \E c \in CatalogName, s \in SchemaName : CreateSchema(c, s)
  \/ \E c \in CatalogName, s \in SchemaName, force \in BOOLEAN : DeleteSchema(c, s, force)
  \/ \E o \in Object, external \in BOOLEAN : CreateTable(o, external)
  \/ \E o \in Object : DeleteTable(o)
  \/ \E o \in Object : CreateVolume(o)
  \/ \E o \in Object : DeleteVolume(o)
  \/ \E o \in Object : CreateFunction(o)
  \/ \E o \in Object : DeleteFunction(o)
  \/ Statement
  \/ \E s \in Securable, changes \in ChangeList : UpdateGrants(s, changes)
  \/ ResetState
  \/ FullReset
  \/ \E save, load \in BOOLEAN : Restart(save, load)

Spec == Init /\ [][Next]_vars

-----------------------------------------------------------------------------
Registry ==
  [catalogs : SUBSET CatalogName, schemas : SUBSET Schema,
   objects : SUBSET Object, external : SUBSET {o \in Object : o.kind = "TABLE"}]

\* What the files hold is in a file that exists and, but for main, in a schema of it.
FilesHold ==
  /\ \A cs \in dbSchemas : cs[1] \in files /\ cs[2] # Main
  /\ \A o \in stored : InFile(o) =>
       o.catalog \in files /\ (o.schema = Main \/ SchemaOf(o) \in dbSchemas)
  /\ \A c \in CatalogName : attached[c] = "file" => c \in files

TypeOK ==
  /\ FilesHold
  /\ uc \in Registry /\ grants \subseteq Grant
  /\ snapshot \in [uc : Registry, grants : SUBSET Grant]
  /\ attached \in [CatalogName -> {"none", "file", "other"}]
  /\ files \subseteq CatalogName
  /\ dbSchemas \subseteq Schema /\ stored \subseteq Object
  /\ request \in {"other", "delete", "force"}

Closed(r) ==
  /\ \A o \in r.objects : SchemaOf(o) \in r.schemas
  /\ \A cs \in r.schemas : cs[1] \in r.catalogs
  /\ r.external \subseteq r.objects

\* Whatever is registered is registered under a parent that is too (its schema, the schema's
\* catalog, the table of an external table's location), also in the snapshot a crash goes
\* back to.
ParentsRegistered == Closed(uc) /\ Closed(snapshot.uc)

\* A deletion that was not forced destroys nothing: no table, function or volume, whether
\* registered, created by a statement, or left from before a restart in a file or directory.
UnforcedLosesNothing ==
  [][request' = "delete" =>
       stored' = stored /\ uc'.objects = uc.objects /\ uc'.external = uc.external]_vars

\* After a deletion nothing is left under the deleted catalog, and under a deleted schema only
\* what an alias of another database kept out of reach: no object, no directory, no grant.
NothingUnder(cs) ==
  /\ \A o \in uc.objects \cup uc.external : SchemaOf(o) # cs
  /\ \A o \in stored : SchemaOf(o) = cs => InFile(o) /\ attached[cs[1]] = "other"
  /\ \A g \in grants : ~(g.on = OnSchema(cs[1], cs[2]) \/ Descends(g.on, OnSchema(cs[1], cs[2])))

DeletionLeavesNothing ==
  [][request' \in {"delete", "force"} =>
       /\ \A cs \in uc.schemas \ uc'.schemas : NothingUnder(cs)'
       /\ \A c \in uc.catalogs \ uc'.catalogs :
            /\ c \notin files'
            /\ \A cs \in Schema : cs[1] = c => NothingUnder(cs)' /\ cs \notin dbSchemas'
            /\ \A g \in grants' : ~(g.on = OnCatalog(c) \/ Descends(g.on, OnCatalog(c)))]_vars
=============================================================================
