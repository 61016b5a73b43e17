---------------------------- MODULE CatalogProofs ---------------------------
(***************************************************************************)
(* Proofs about the modules Catalog and Grants, for any catalogs, schemas, *)
(* objects, securables and lists of changes, and any bound on snapshots.   *)
(***************************************************************************)
EXTENDS Catalog, TLAPS

-----------------------------------------------------------------------------
(* Types, and what the files hold                                          *)

\* The part of TypeOK about the registry, and the part about files and directories.
Kept ==
  /\ uc \in Registry /\ grants \subseteq Grant
  /\ snapshot \in [uc : Registry, grants : SUBSET Grant]

Placed ==
  /\ attached \in [CatalogName -> {"none", "file", "other"}]
  /\ files \subseteq CatalogName
  /\ dbSchemas \subseteq Schema /\ stored \subseteq Object
  /\ FilesHold

LEMMA TypeParts == TypeOK <=> Kept /\ Placed /\ request \in {"other", "delete", "force"}
  BY DEF TypeOK, Kept, Placed

LEMMA FewerGrants == ASSUME NEW s, grants \subseteq Grant PROVE GrantsWithout(s) \subseteq Grant
  BY DEF GrantsWithout

LEMMA EmptyIsRegistry == Empty \in Registry
  BY DEF Empty, Registry

LEMMA KeptByCatalogs ==
  ASSUME Kept, NEW c \in CatalogName, NEW force \in BOOLEAN,
         CreateCatalog(c) \/ DeleteCatalog(c, force)
  PROVE  Kept'
<1>1. CASE CreateCatalog(c)
  <2>1. uc' = [uc EXCEPT !.catalogs = @ \cup {c}, !.schemas = @ \cup {<<c, Default>>}]
    BY <1>1 DEF CreateCatalog
  <2>2. <<c, Default>> \in Schema
    BY SchemaAssumption DEF Schema
  <2>3. uc' \in Registry
    BY <2>1, <2>2 DEF Kept, Registry
  <2>. QED
    BY <1>1, <2>3 DEF CreateCatalog, Kept
<1>2. CASE DeleteCatalog(c, force)
  BY <1>2, FewerGrants DEF DeleteCatalog, DropCatalog, Kept, Registry, registry
<1>. QED
  BY <1>1, <1>2

LEMMA KeptBySchemas ==
  ASSUME Kept, NEW c \in CatalogName, NEW s \in SchemaName, NEW force \in BOOLEAN,
         CreateSchema(c, s) \/ DeleteSchema(c, s, force)
  PROVE  Kept'
<1>1. CASE CreateSchema(c, s)
  BY <1>1 DEF CreateSchema, Kept, Registry, Schema
<1>2. CASE DeleteSchema(c, s, force)
  <2>1. CASE DropSchema(c, s)
    <3>1. uc' \in Registry
      BY <2>1 DEF DropSchema, Kept, Registry
    <3>. QED
      BY <1>2, <2>1, <3>1, FewerGrants DEF DeleteSchema, DropSchema, Kept
  <2>. QED
    BY <1>2, <2>1 DEF DeleteSchema, Kept, registry
<1>. QED
  BY <1>1, <1>2

LEMMA KeptByObjects ==
  ASSUME Kept, NEW o \in Object, NEW external \in BOOLEAN,
         \/ CreateTable(o, external) \/ DeleteTable(o)
         \/ CreateVolume(o) \/ DeleteVolume(o)
         \/ CreateFunction(o) \/ DeleteFunction(o)
  PROVE  Kept'
<1>1. UNCHANGED <<grants, snapshot>>
  BY DEF CreateTable, DeleteTable, CreateVolume, DeleteVolume, CreateFunction, DeleteFunction
<1>2. \/ /\ uc' = [uc EXCEPT !.objects = @ \cup {o}, !.external = IF external THEN @ \cup {o} ELSE @]
         /\ CreateTable(o, external)
      \/ uc' = [uc EXCEPT !.objects = @ \ {o}, !.external = @ \ {o}]
      \/ uc' = [uc EXCEPT !.objects = @ \cup {o}]
      \/ uc' = [uc EXCEPT !.objects = @ \ {o}]
  BY DEF CreateTable, DeleteTable, CreateVolume, DeleteVolume, CreateFunction, DeleteFunction
<1>. DEFINE more == IF external THEN uc.external \cup {o} ELSE uc.external
<1>3. CreateTable(o, external) => more \in SUBSET {x \in Object : x.kind = "TABLE"}
  BY DEF CreateTable, Kept, Registry
<1>4. CASE uc' = [uc EXCEPT !.objects = @ \cup {o}, !.external = more] /\ CreateTable(o, external)
  <2>. HIDE DEF more
  <2>. QED
    BY <1>1, <1>3, <1>4 DEF Kept, Registry
<1>5. CASE uc' = [uc EXCEPT !.objects = @ \ {o}, !.external = @ \ {o}]
  BY <1>1, <1>5 DEF Kept, Registry
<1>6. CASE uc' = [uc EXCEPT !.objects = @ \cup {o}] \/ uc' = [uc EXCEPT !.objects = @ \ {o}]
  BY <1>1, <1>6 DEF Kept, Registry
<1>. QED
  BY <1>2, <1>4, <1>5, <1>6

LEMMA KeptByRestart ==
  ASSUME Kept, NEW save \in BOOLEAN, NEW load \in BOOLEAN, Restart(save, load)
  PROVE  Kept'
<1>. DEFINE now == [uc |-> uc, grants |-> grants]
            none == [uc |-> Empty, grants |-> {}]
<1>1. now \in [uc : Registry, grants : SUBSET Grant] /\ none \in [uc : Registry, grants : SUBSET Grant]
  BY EmptyIsRegistry DEF Kept
<1>2. snapshot' \in {now, snapshot}
  BY DEF Restart
<1>3. uc' \in {snapshot'.uc, Empty} /\ grants' \in {snapshot'.grants, {}}
  BY DEF Restart
<1>. QED
  BY <1>1, <1>2, <1>3, EmptyIsRegistry DEF Kept

LEMMA KeptByStep == ASSUME Kept, [Next]_vars PROVE Kept'
<1>1. ASSUME NEW s \in Securable, NEW changes \in ChangeList, UpdateGrants(s, changes)
      PROVE  Kept'
  BY <1>1 DEF UpdateGrants, UpdatePermissions, Kept
<1>2. CASE Statement
  BY <1>2 DEF Statement, SqlCreateSchema, SqlDropSchema, SqlCreate, SqlDrop, SqlDetach,
             SqlAttachOther, registry, Kept
<1>3. CASE ResetState \/ FullReset
  BY <1>3, EmptyIsRegistry DEF ResetState, FullReset, Kept
<1>4. CASE UNCHANGED vars
  BY <1>4 DEF vars, Kept
<1>. QED
  BY <1>1, <1>2, <1>3, <1>4, KeptByCatalogs, KeptBySchemas, KeptByObjects, KeptByRestart DEF Next

LEMMA AttachingPlaces ==
  ASSUME Placed, NEW c \in CatalogName, attached' = AttachedWith(c), files' = FilesWith(c),
         stored' = stored, dbSchemas' = dbSchemas
  PROVE  Placed'
  BY DEF AttachedWith, FilesWith, Placed, FilesHold, InFile, SchemaOf

\* Schemas and objects are added only where a file is attached, and only below a schema.
LEMMA AddingPlaces ==
  ASSUME Placed, UNCHANGED <<attached, files>>,
         dbSchemas \subseteq dbSchemas', dbSchemas' \subseteq Schema,
         \A cs \in dbSchemas' : cs \in dbSchemas \/ (attached[cs[1]] = "file" /\ cs[2] # Main),
         stored' \subseteq Object,
         \A o \in stored' : o \in stored \/ ~InFile(o) \/ SchemaInFile(o.catalog, o.schema)
  PROVE  Placed'
<1>1. \A o \in Object : o.catalog \in CatalogName /\ o.schema \in SchemaName
  BY ObjectAssumption
<1>2. \A cs \in Schema : cs[1] \in CatalogName
  BY DEF Schema
<1>3. \A cs \in dbSchemas' : cs[1] \in files' /\ cs[2] # Main
  BY <1>2 DEF Placed, FilesHold
<1>4. \A o \in stored' : InFile(o) =>
        o.catalog \in files' /\ (o.schema = Main \/ SchemaOf(o) \in dbSchemas')
  BY <1>1 DEF Placed, FilesHold, SchemaInFile, SchemaOf
<1>. QED
  BY <1>3, <1>4 DEF Placed, FilesHold

\* Taking away objects, or a schema with its objects, leaves the rest in its place.
LEMMA RemovingPlaces ==
  ASSUME Placed, UNCHANGED <<attached, files>>,
         stored' \subseteq stored, dbSchemas' \subseteq dbSchemas,
         \A o \in stored' : InFile(o) /\ o.schema # Main /\ SchemaOf(o) \in dbSchemas => SchemaOf(o) \in dbSchemas'
  PROVE  Placed'
  BY DEF Placed, FilesHold

LEMMA PlacedByCatalogs ==
  ASSUME Placed, NEW c \in CatalogName, NEW force \in BOOLEAN,
         CreateCatalog(c) \/ DeleteCatalog(c, force)
  PROVE  Placed'
<1>1. CASE CreateCatalog(c)
  <2>1. attached' = AttachedWith(c) /\ files' = FilesWith(c) /\ stored' = stored
    BY <1>1 DEF CreateCatalog
  <2>2. dbSchemas' \in {dbSchemas, SchemasWith(c, Default, AttachedWith(c))}
    BY <1>1 DEF CreateCatalog
  <2>3. dbSchemas' \subseteq dbSchemas \cup {<<c, Default>>} /\ dbSchemas \subseteq dbSchemas'
    BY <2>2, SchemaAssumption DEF SchemasWith
  <2>4. <<c, Default>> \in dbSchemas' /\ <<c, Default>> \notin dbSchemas => AttachedWith(c)[c] = "file"
    BY <2>2 DEF SchemasWith
  <2>5. AttachedWith(c)[c] = "file" => c \in FilesWith(c)
    BY DEF AttachedWith, FilesWith, Placed, FilesHold
  <2>6. attached' \in [CatalogName -> {"none", "file", "other"}] /\ files' \subseteq CatalogName /\ files \subseteq files'
    BY <2>1 DEF AttachedWith, FilesWith, Placed
  <2>7. \A d \in CatalogName : attached'[d] = "file" => d \in files'
    BY <2>1 DEF AttachedWith, FilesWith, Placed, FilesHold
  <2>8. dbSchemas' \subseteq Schema
    BY <2>3, SchemaAssumption DEF Schema, Placed
  <2>9. \A cs \in dbSchemas' : cs[1] \in files' /\ cs[2] # Main
    BY <2>1, <2>3, <2>4, <2>5, <2>6, SchemaAssumption DEF Placed, FilesHold
  <2>. QED
    BY <2>1, <2>3, <2>6, <2>7, <2>8, <2>9 DEF Placed, FilesHold
<1>2. CASE DeleteCatalog(c, force)
  <2>1. CASE DropCatalog(c)
    BY <2>1 DEF DropCatalog, Placed, FilesHold, SchemaOf
  <2>2. CASE attached' = AttachedWith(c) /\ files' = FilesWith(c) /\ UNCHANGED <<registry, dbSchemas, stored>>
    BY <2>2, AttachingPlaces
  <2>. QED
    BY <1>2, <2>1, <2>2 DEF DeleteCatalog
<1>. QED
  BY <1>1, <1>2

LEMMA PlacedBySchemas ==
  ASSUME Placed, NEW c \in CatalogName, NEW s \in SchemaName, NEW force \in BOOLEAN,
         CreateSchema(c, s) \/ DeleteSchema(c, s, force)
  PROVE  Placed'
<1>1. CASE CreateSchema(c, s)
  <2>1. dbSchemas' = SchemasWith(c, s, attached) /\ UNCHANGED <<attached, files, stored>>
    BY <1>1 DEF CreateSchema
  <2>. QED
    BY <2>1, AddingPlaces DEF SchemasWith, Schema, Placed
<1>2. CASE DeleteSchema(c, s, force)
  <2>1. attached' = AttachedWith(c) /\ files' = FilesWith(c)
    BY <1>2 DEF DeleteSchema
  <2>2. CASE DropSchema(c, s)
    <3>1. stored' \subseteq stored /\ dbSchemas' \subseteq dbSchemas
      BY <2>2 DEF DropSchema
    <3>2. \A cs \in dbSchemas \ dbSchemas' : cs = <<c, s>> /\ OwnFile(c)
      BY <2>2 DEF DropSchema
    <3>3. \A o \in stored' : InFile(o) /\ OwnFile(c) => SchemaOf(o) # <<c, s>>
      BY <2>2 DEF DropSchema, Native
    <3>4. files \subseteq files' /\ files' \subseteq CatalogName
      BY <2>1 DEF FilesWith, Placed
    <3>5. attached' \in [CatalogName -> {"none", "file", "other"}]
      BY <2>1 DEF AttachedWith, Placed
    <3>6. \A d \in CatalogName : attached'[d] = "file" => d \in files'
      BY <2>1 DEF AttachedWith, FilesWith, Placed, FilesHold
    <3>. QED
      BY <3>1, <3>2, <3>3, <3>4, <3>5, <3>6 DEF Placed, FilesHold
  <2>3. CASE UNCHANGED <<registry, dbSchemas, stored>>
    BY <2>1, <2>3, AttachingPlaces
  <2>. QED
    BY <1>2, <2>2, <2>3 DEF DeleteSchema
<1>. QED
  BY <1>1, <1>2

LEMMA PlacedByObjects ==
  ASSUME Placed, NEW o \in Object, NEW external \in BOOLEAN,
         \/ CreateTable(o, external) \/ DeleteTable(o)
         \/ CreateVolume(o) \/ DeleteVolume(o)
         \/ CreateFunction(o) \/ DeleteFunction(o)
  PROVE  Placed'
<1>1. UNCHANGED <<attached, files, dbSchemas>>
  BY DEF CreateTable, DeleteTable, CreateVolume, DeleteVolume, CreateFunction, DeleteFunction
<1>2. \/ stored' \subseteq stored
      \/ stored' = stored \cup {o} /\ (SchemaInFile(o.catalog, o.schema) \/ ~InFile(o))
  BY DEF CreateTable, DeleteTable, CreateVolume, DeleteVolume, CreateFunction, DeleteFunction, InFile
<1>3. CASE stored' \subseteq stored
  BY <1>1, <1>3, RemovingPlaces
<1>4. CASE stored' = stored \cup {o} /\ (SchemaInFile(o.catalog, o.schema) \/ ~InFile(o))
  <2>1. stored' \subseteq Object
    BY <1>4 DEF Placed
  <2>2. \A p \in stored' : p \in stored \/ ~InFile(p) \/ SchemaInFile(p.catalog, p.schema)
    BY <1>4
  <2>. QED
    BY <1>1, <2>1, <2>2, AddingPlaces DEF Placed
<1>. QED
  BY <1>2, <1>3, <1>4

LEMMA PlacedByStatement == ASSUME Placed, Statement PROVE Placed'
<1>1. ASSUME NEW c \in CatalogName, NEW s \in SchemaName, SqlCreateSchema(c, s) PROVE Placed'
  BY <1>1, AddingPlaces DEF SqlCreateSchema, SchemasWith, Schema, Placed
<1>2. ASSUME NEW c \in CatalogName, NEW s \in SchemaName, SqlDropSchema(c, s) PROVE Placed'
  <2>1. \A o \in stored' : InFile(o) => SchemaOf(o) # <<c, s>>
    BY <1>2 DEF SqlDropSchema, Native
  <2>. QED
    BY <1>2, <2>1, RemovingPlaces DEF SqlDropSchema
<1>3. ASSUME NEW o \in Object, SqlCreate(o) PROVE Placed'
  <2>1. stored' = stored \cup {o} /\ UNCHANGED <<attached, files, dbSchemas>>
    BY <1>3 DEF SqlCreate
  <2>2. \A p \in stored' : p \in stored \/ SchemaInFile(p.catalog, p.schema)
    BY <1>3, <2>1 DEF SqlCreate
  <2>. QED
    BY <2>1, <2>2, AddingPlaces DEF Placed
<1>4. ASSUME NEW o \in Object, SqlDrop(o) PROVE Placed'
  BY <1>4, RemovingPlaces DEF SqlDrop
<1>5. ASSUME NEW c \in CatalogName, SqlDetach(c) \/ SqlAttachOther(c) PROVE Placed'
  <2>1. UNCHANGED <<files, dbSchemas, stored>>
    BY <1>5 DEF SqlDetach, SqlAttachOther
  <2>2. /\ attached' \in [CatalogName -> {"none", "file", "other"}]
        /\ \A d \in CatalogName : attached'[d] = "file" => attached[d] = "file"
    BY <1>5 DEF SqlDetach, SqlAttachOther, Placed
  <2>. QED
    BY <2>1, <2>2 DEF Placed, FilesHold
<1>. QED
  BY <1>1, <1>2, <1>3, <1>4, <1>5 DEF Statement

LEMMA PlacedByStep == ASSUME Kept, Placed, [Next]_vars PROVE Placed'
<1>1. ASSUME NEW s \in Securable, NEW changes \in ChangeList, UpdateGrants(s, changes)
      PROVE  Placed'
  BY <1>1 DEF UpdateGrants, storage, Placed, FilesHold
<1>2. CASE ResetState
  <2>1. PICK gone \in SUBSET CatalogName :
          /\ attached' = [c \in CatalogName |-> IF c \in gone THEN "none" ELSE attached[c]]
          /\ files' = files \ gone
          /\ dbSchemas' = {cs \in dbSchemas : cs[1] \notin gone}
          /\ stored' = {o \in stored : o.catalog \in gone => ~InFile(o)}
    BY <1>2 DEF ResetState, Kept, Registry
  <2>. QED
    BY <2>1 DEF Placed, FilesHold, SchemaOf
<1>3. CASE FullReset
  BY <1>3 DEF FullReset, Placed, FilesHold
<1>4. ASSUME NEW save \in BOOLEAN, NEW load \in BOOLEAN, Restart(save, load) PROVE Placed'
  <2>1. uc'.catalogs \subseteq CatalogName
    BY <1>4, KeptByRestart DEF Kept, Registry
  <2>2. /\ attached' = [c \in CatalogName |-> IF c \in uc'.catalogs THEN "file" ELSE "none"]
        /\ files' = files \cup uc'.catalogs
        /\ UNCHANGED <<dbSchemas, stored>>
    BY <1>4 DEF Restart
  <2>. QED
    BY <2>1, <2>2 DEF Placed, FilesHold
<1>5. CASE UNCHANGED vars
  BY <1>5 DEF vars, Placed, FilesHold
<1>. QED
  BY <1>1, <1>2, <1>3, <1>4, <1>5, PlacedByCatalogs, PlacedBySchemas, PlacedByObjects,
     PlacedByStatement DEF Next

\* Types, and the shape of the storage: no file holds anything once it is gone, nothing in a
\* file is outside a schema of it, and an alias that leads to a file leads to one that exists.
THEOREM CatalogTypesHold == Spec => []TypeOK
<1>1. Init => TypeOK
  BY EmptyIsRegistry DEF Init, TypeOK, FilesHold
<1>2. TypeOK /\ [Next]_vars => TypeOK'
  <2>. SUFFICES ASSUME TypeOK, [Next]_vars PROVE TypeOK'
    OBVIOUS
  <2>1. Kept' /\ Placed'
    BY TypeParts, KeptByStep, PlacedByStep
  <2>2. request' \in {"other", "delete", "force"}
    BY DEF TypeOK, Next, vars, CreateCatalog, DeleteCatalog, CreateSchema, DeleteSchema,
           CreateTable, DeleteTable, CreateVolume, DeleteVolume, CreateFunction, DeleteFunction,
           Statement, UpdateGrants, ResetState, FullReset, Restart
  <2>. QED
    BY <2>1, <2>2, TypeParts DEF TypeOK, Kept, Placed
<1>. QED
  BY <1>1, <1>2, PTL DEF Spec

-----------------------------------------------------------------------------
(* The registry is a tree                                                  *)

LEMMA ClosedByCatalogs ==
  ASSUME uc \in Registry, Closed(uc), NEW c \in CatalogName, NEW force \in BOOLEAN,
         CreateCatalog(c) \/ DeleteCatalog(c, force)
  PROVE  Closed(uc') /\ snapshot' = snapshot
<1>1. CASE CreateCatalog(c)
  <2>1. /\ uc'.catalogs = uc.catalogs \cup {c} /\ uc'.schemas = uc.schemas \cup {<<c, Default>>}
        /\ uc'.objects = uc.objects /\ uc'.external = uc.external
    BY <1>1 DEF CreateCatalog, Registry
  <2>. QED
    BY <1>1, <2>1 DEF CreateCatalog, Closed
<1>2. CASE DeleteCatalog(c, force)
  <2>1. CASE DropCatalog(c)
    BY <1>2, <2>1 DEF DropCatalog, DeleteCatalog, Closed, SchemaOf
  <2>. QED
    BY <1>2, <2>1 DEF DeleteCatalog, registry
<1>. QED
  BY <1>1, <1>2

LEMMA ClosedBySchemas ==
  ASSUME uc \in Registry, Closed(uc), NEW c \in CatalogName, NEW s \in SchemaName,
         NEW force \in BOOLEAN, CreateSchema(c, s) \/ DeleteSchema(c, s, force)
  PROVE  Closed(uc') /\ snapshot' = snapshot
<1>1. CASE CreateSchema(c, s)
  <2>1. /\ uc'.catalogs = uc.catalogs /\ uc'.schemas = uc.schemas \cup {<<c, s>>}
        /\ uc'.objects = uc.objects /\ uc'.external = uc.external /\ c \in uc.catalogs
    BY <1>1 DEF CreateSchema, Registry
  <2>. QED
    BY <1>1, <2>1 DEF CreateSchema, Closed
<1>2. CASE DeleteSchema(c, s, force)
  <2>1. CASE DropSchema(c, s)
    <3>1. /\ uc'.catalogs = uc.catalogs /\ uc'.schemas = uc.schemas \ {<<c, s>>}
          /\ uc'.objects = {o \in uc.objects : SchemaOf(o) # <<c, s>>}
          /\ uc'.external = {o \in uc.external : SchemaOf(o) # <<c, s>>}
      BY <2>1 DEF DropSchema, Registry
    <3>. QED
      BY <1>2, <3>1 DEF DeleteSchema, Closed
  <2>. QED
    BY <1>2, <2>1 DEF DeleteSchema, registry
<1>. QED
  BY <1>1, <1>2

LEMMA ClosedByObjects ==
  ASSUME uc \in Registry, Closed(uc), NEW o \in Object, NEW external \in BOOLEAN,
         \/ CreateTable(o, external) \/ DeleteTable(o)
         \/ CreateVolume(o) \/ DeleteVolume(o)
         \/ CreateFunction(o) \/ DeleteFunction(o)
  PROVE  Closed(uc') /\ snapshot' = snapshot
<1>1. CASE CreateTable(o, external)
  <2>1. /\ uc'.catalogs = uc.catalogs /\ uc'.schemas = uc.schemas /\ SchemaOf(o) \in uc.schemas
        /\ uc'.objects = uc.objects \cup {o} /\ uc'.external \subseteq uc.external \cup {o}
    BY <1>1 DEF CreateTable, Registry
  <2>. QED
    BY <1>1, <2>1 DEF CreateTable, Closed
<1>2. CASE DeleteTable(o)
  <2>1. /\ uc'.catalogs = uc.catalogs /\ uc'.schemas = uc.schemas
        /\ uc'.objects = uc.objects \ {o} /\ uc'.external = uc.external \ {o}
    BY <1>2 DEF DeleteTable, Registry
  <2>. QED
    BY <1>2, <2>1 DEF DeleteTable, Closed
<1>3. CASE CreateVolume(o) \/ CreateFunction(o)
  <2>1. /\ uc'.catalogs = uc.catalogs /\ uc'.schemas = uc.schemas /\ SchemaOf(o) \in uc.schemas
        /\ uc'.objects = uc.objects \cup {o} /\ uc'.external = uc.external
    BY <1>3 DEF CreateVolume, CreateFunction, Registry
  <2>. QED
    BY <1>3, <2>1 DEF CreateVolume, CreateFunction, Closed
<1>4. CASE DeleteVolume(o) \/ DeleteFunction(o)
  <2>1. /\ uc'.catalogs = uc.catalogs /\ uc'.schemas = uc.schemas /\ o.kind # "TABLE"
        /\ uc'.objects = uc.objects \ {o} /\ uc'.external = uc.external
    BY <1>4 DEF DeleteVolume, DeleteFunction, Registry
  <2>2. o \notin uc.external
    BY <2>1 DEF Registry
  <2>. QED
    BY <1>4, <2>1, <2>2 DEF DeleteVolume, DeleteFunction, Closed
<1>. QED
  BY <1>1, <1>2, <1>3, <1>4

LEMMA ClosedByStep ==
  ASSUME Kept, ParentsRegistered, [Next]_vars
  PROVE  ParentsRegistered'
<1>. Closed(Empty)
  BY DEF Closed, Empty
<1>1. ASSUME NEW save \in BOOLEAN, NEW load \in BOOLEAN, Restart(save, load)
      PROVE  ParentsRegistered'
  <2>1. snapshot'.uc \in {uc, snapshot.uc} /\ uc' \in {snapshot'.uc, Empty}
    BY <1>1 DEF Restart
  <2>. QED
    BY <2>1 DEF ParentsRegistered
<1>2. CASE ResetState \/ FullReset
  BY <1>2 DEF ResetState, FullReset, ParentsRegistered
<1>3. CASE Statement
  BY <1>3 DEF Statement, SqlCreateSchema, SqlDropSchema, SqlCreate, SqlDrop, SqlDetach,
             SqlAttachOther, registry, ParentsRegistered
<1>4. ASSUME NEW s \in Securable, NEW changes \in ChangeList, UpdateGrants(s, changes)
      PROVE  ParentsRegistered'
  BY <1>4 DEF UpdateGrants, ParentsRegistered
<1>5. CASE UNCHANGED vars
  BY <1>5 DEF vars, ParentsRegistered
<1>6. ASSUME Closed(uc') /\ snapshot' = snapshot PROVE ParentsRegistered'
  BY <1>6 DEF ParentsRegistered
<1>. QED
  BY <1>1, <1>2, <1>3, <1>4, <1>5, <1>6, ClosedByCatalogs, ClosedBySchemas, ClosedByObjects
     DEF Next, Kept, ParentsRegistered

\* The registry is a tree in every state, also after a crash that goes back to an old snapshot:
\* no table, volume or function without its schema, no schema without its catalog.
THEOREM ParentsStayRegistered == Spec => []ParentsRegistered
<1>1. Init => ParentsRegistered
  BY DEF Init, ParentsRegistered, Closed, Empty
<1>2. TypeOK /\ ParentsRegistered /\ [Next]_vars => ParentsRegistered'
  BY ClosedByStep, TypeParts
<1>. QED
  BY <1>1, <1>2, CatalogTypesHold, PTL DEF Spec

-----------------------------------------------------------------------------
(* Deletion                                                                *)

\* The steps that answer a deletion with success.
LEMMA DeletionSteps ==
  ASSUME Next, request' # "other"
  PROVE  \/ \E c \in CatalogName, force \in BOOLEAN : DeleteCatalog(c, force)
         \/ \E c \in CatalogName, s \in SchemaName, force \in BOOLEAN : DeleteSchema(c, s, force)
  BY DEF Next, CreateCatalog, CreateSchema, CreateTable, DeleteTable, CreateVolume,
         DeleteVolume, CreateFunction, DeleteFunction, Statement, UpdateGrants, ResetState,
         FullReset, Restart

LEMMA CatalogDropped ==
  ASSUME NEW c, NEW force, DeleteCatalog(c, force), request' # "other"
  PROVE  /\ c \in uc.catalogs
         /\ DropCatalog(c)
         /\ request' = IF force THEN "force" ELSE "delete"
         /\ force \/ CatalogEmpty(c)
  BY DEF DeleteCatalog

LEMMA SchemaDropped ==
  ASSUME NEW c, NEW s, NEW force, DeleteSchema(c, s, force), request' # "other"
  PROVE  /\ <<c, s>> \in uc.schemas
         /\ DropSchema(c, s)
         /\ attached' = AttachedWith(c)
         /\ request' = IF force THEN "force" ELSE "delete"
         /\ force \/ SchemaEmpty(c, s)
  BY DEF DeleteSchema

\* A deletion that was not forced destroys nothing: what the emptiness checks look at, in the
\* registry, in the file and on disk, is all there is to lose.
THEOREM UnforcedDeletionIsSafe == Spec => UnforcedLosesNothing
<1>. DEFINE Safe == request' = "delete" =>
                      stored' = stored /\ uc'.objects = uc.objects /\ uc'.external = uc.external
<1>1. TypeOK /\ Next => Safe
  <2>. SUFFICES ASSUME TypeOK, Next, request' = "delete"
                PROVE  stored' = stored /\ uc'.objects = uc.objects /\ uc'.external = uc.external
    OBVIOUS
  <2>1. ASSUME NEW c \in CatalogName, NEW force \in BOOLEAN, DeleteCatalog(c, force)
        PROVE  stored' = stored /\ uc'.objects = uc.objects /\ uc'.external = uc.external
    <3>1. DropCatalog(c) /\ CatalogEmpty(c)
      BY <2>1, CatalogDropped
    <3>2. ASSUME NEW o \in stored, o.catalog = c PROVE FALSE
      <4>1. InFile(o) /\ o.schema # Default /\ o.schema # Main
        BY <3>1, <3>2 DEF CatalogEmpty
      <4>2. SchemaOf(o) \in dbSchemas /\ SchemaOf(o)[1] = c /\ SchemaOf(o)[2] = o.schema
        BY <3>2, <4>1 DEF TypeOK, FilesHold, SchemaOf
      <4>. QED
        BY <3>1, <4>1, <4>2 DEF CatalogEmpty
    <3>3. /\ stored' = {o \in stored : o.catalog # c}
          /\ uc'.objects = {o \in uc.objects : o.catalog # c}
          /\ uc'.external = {o \in uc.external : o.catalog # c}
      BY <3>1 DEF DropCatalog
    <3>4. \A o \in uc.objects \cup uc.external : o.catalog # c
      BY <3>1 DEF CatalogEmpty
    <3>. QED
      BY <3>2, <3>3, <3>4
  <2>2. ASSUME NEW c \in CatalogName, NEW s \in SchemaName, NEW force \in BOOLEAN,
               DeleteSchema(c, s, force)
        PROVE  stored' = stored /\ uc'.objects = uc.objects /\ uc'.external = uc.external
    <3>1. DropSchema(c, s) /\ SchemaEmpty(c, s)
      BY <2>2, SchemaDropped
    <3>2. stored' = stored
      BY <3>1 DEF DropSchema, SchemaEmpty
    <3>3. \A o \in uc.objects \cup uc.external : SchemaOf(o) # <<c, s>>
      BY <3>1 DEF SchemaEmpty, Registered
    <3>4. /\ uc'.objects = {o \in uc.objects : SchemaOf(o) # <<c, s>>}
          /\ uc'.external = {o \in uc.external : SchemaOf(o) # <<c, s>>}
      BY <3>1 DEF DropSchema, TypeOK, Registry
    <3>. QED
      BY <3>2, <3>3, <3>4
  <2>. QED
    BY <2>1, <2>2, DeletionSteps
<1>2. TypeOK /\ [Next]_vars => [Safe]_vars
  BY <1>1
<1>. QED
  BY <1>2, CatalogTypesHold, PTL DEF Spec, UnforcedLosesNothing

\* A name that continues that of a schema of a catalog is below the catalog as well.
LEMMA BelowSchemaIsBelowCatalog ==
  ASSUME NEW g, NEW c, NEW s, g.on = OnSchema(c, s) \/ Descends(g.on, OnSchema(c, s))
  PROVE  Descends(g.on, OnCatalog(c))
<1>1. /\ DOMAIN Depth = {"CATALOG", "SCHEMA", "TABLE", "VOLUME", "FUNCTION"}
      /\ Depth["CATALOG"] = 1 /\ Depth["SCHEMA"] = 2
  BY DEF Depth
<1>2. /\ OnSchema(c, s).type = "SCHEMA" /\ OnSchema(c, s).name = <<c, s>>
      /\ OnCatalog(c).type = "CATALOG" /\ OnCatalog(c).name = <<c>>
  BY DEF OnSchema, OnCatalog
<1>3. g.on.name[1] = c
  BY <1>2 DEF Descends
<1>4. Nests(g.on) /\ Nests(OnCatalog(c))
  BY <1>1, <1>2 DEF Descends, Nests
<1>5. Depth[g.on.type] > 1
  <2>1. \A x \in DOMAIN Depth : Depth[x] \in 1 .. 3
    BY DEF Depth
  <2>. QED
    BY <1>1, <1>2, <1>4, <2>1 DEF Descends, Nests
<1>. QED
  BY <1>1, <1>2, <1>3, <1>4, <1>5 DEF Descends

\* After a deletion nothing under the deleted catalog or schema is left in any of the places
\* that keep objects, nor a grant on it, so that a new one of the name starts empty.
THEOREM DeletionIsComplete == Spec => DeletionLeavesNothing
<1>. DEFINE Complete ==
       request' \in {"delete", "force"} =>
         /\ \A cs \in uc.schemas \ uc'.schemas : NothingUnder(cs)'
         /\ \A c \in uc.catalogs \ uc'.catalogs :
              /\ c \notin files'
              /\ \A cs \in Schema : cs[1] = c => NothingUnder(cs)' /\ cs \notin dbSchemas'
              /\ \A g \in grants' : ~(g.on = OnCatalog(c) \/ Descends(g.on, OnCatalog(c)))
<1>1. TypeOK /\ Next => Complete
  <2>. SUFFICES ASSUME TypeOK, Next, request' \in {"delete", "force"} PROVE Complete
    OBVIOUS
  <2>1. ASSUME NEW c \in CatalogName, NEW force \in BOOLEAN, DeleteCatalog(c, force)
        PROVE  Complete
    <3>1. DropCatalog(c)
      BY <2>1, CatalogDropped
    <3>2. /\ \A o \in uc'.objects \cup uc'.external \cup stored' : o.catalog # c
          /\ \A cs \in dbSchemas' : cs[1] # c
          /\ c \notin files'
      BY <3>1 DEF DropCatalog
    <3>3. \A g \in grants' : ~(g.on = OnCatalog(c) \/ Descends(g.on, OnCatalog(c)))
      BY <3>1 DEF DropCatalog, GrantsWithout
    <3>4. \A cs \in Schema : cs[1] = c => NothingUnder(cs)'
      BY <3>2, <3>3, BelowSchemaIsBelowCatalog DEF NothingUnder, SchemaOf
    <3>5. /\ uc.catalogs \ uc'.catalogs \subseteq {c}
          /\ \A cs \in uc.schemas \ uc'.schemas : cs[1] = c /\ cs \in Schema
      BY <3>1 DEF DropCatalog, TypeOK, Registry
    <3>. QED
      BY <3>2, <3>3, <3>4, <3>5
  <2>2. ASSUME NEW c \in CatalogName, NEW s \in SchemaName, NEW force \in BOOLEAN,
               DeleteSchema(c, s, force)
        PROVE  Complete
    <3>1. DropSchema(c, s) /\ attached' = AttachedWith(c)
      BY <2>2, SchemaDropped
    <3>2. uc'.catalogs = uc.catalogs /\ uc'.schemas = uc.schemas \ {<<c, s>>}
      BY <3>1 DEF DropSchema, TypeOK, Registry
    <3>3. \A o \in uc'.objects \cup uc'.external : SchemaOf(o) # <<c, s>>
      BY <3>1 DEF DropSchema, TypeOK, Registry
    <3>4. \A o \in stored' : SchemaOf(o) = <<c, s>> => InFile(o) /\ ~OwnFile(c)
      BY <3>1 DEF DropSchema, Directories, Native
    <3>5. ~OwnFile(c) => attached'[c] = "other"
      BY <3>1 DEF OwnFile, AttachedWith, TypeOK
    <3>6. \A g \in grants' : ~(g.on = OnSchema(c, s) \/ Descends(g.on, OnSchema(c, s)))
      BY <3>1 DEF DropSchema, GrantsWithout
    <3>7. <<c, s>>[1] = c /\ <<c, s>>[2] = s
      OBVIOUS
    <3>8. NothingUnder(<<c, s>>)'
      BY <3>3, <3>4, <3>5, <3>6, <3>7 DEF NothingUnder
    <3>. QED
      BY <3>2, <3>8
  <2>. QED
    BY <2>1, <2>2, DeletionSteps
<1>2. TypeOK /\ [Next]_vars => [Complete]_vars
  BY <1>1
<1>. QED
  BY <1>2, CatalogTypesHold, PTL DEF Spec, DeletionLeavesNothing

-----------------------------------------------------------------------------
(* Grants: inheritance                                                     *)

LEMMA DepthValues ==
  /\ DOMAIN Depth = {"CATALOG", "SCHEMA", "TABLE", "VOLUME", "FUNCTION"}
  /\ Depth["CATALOG"] = 1 /\ Depth["SCHEMA"] = 2
  /\ Depth["TABLE"] = 3 /\ Depth["VOLUME"] = 3 /\ Depth["FUNCTION"] = 3
  BY DEF Depth

LEMMA NearnessValues ==
  ASSUME NEW s, NEW source \in Sources(s)
  PROVE  Nearness(source, s) \in {0, 1, 2, 4}
  BY DepthValues DEF Sources, Ancestors, Parent, Nearness

\* Choosing the nearest source loses nobody: who holds a privilege at some source holds it.
LEMMA HeldSomewhere ==
  ASSUME NEW s, NEW who \in Principal, NEW what \in Privilege
  PROVE  <<who, what>> \in Holds(s) <=> \E source \in Sources(s) : HeldAt(source, who, what)
<1>1. ASSUME <<who, what>> \in Holds(s)
      PROVE  \E source \in Sources(s) : HeldAt(source, who, what)
  BY <1>1 DEF Holds, Effective
<1>2. ASSUME NEW source \in Sources(s), HeldAt(source, who, what)
      PROVE  <<who, what>> \in Holds(s)
  <2>. DEFINE At(n) == \E x \in Sources(s) : HeldAt(x, who, what) /\ Nearness(x, s) = n
  <2>1. PICK n \in {0, 1, 2, 4} : At(n) /\ \A m \in {0, 1, 2, 4} : At(m) => m <= n
    <3>1. At(0) \/ At(1) \/ At(2) \/ At(4)
      BY <1>2, NearnessValues
    <3>. HIDE DEF At
    <3>. QED
      BY <3>1
  <2>2. PICK x \in Sources(s) : HeldAt(x, who, what) /\ Nearness(x, s) = n
    BY <2>1
  <2>3. \A y \in Sources(s) : HeldAt(y, who, what) => Nearness(y, s) <= Nearness(x, s)
    BY <2>1, <2>2, NearnessValues
  <2>. DEFINE e == [who |-> who, what |-> what, from |-> x]
  <2>4. e \in Effective(s)
    BY <2>2, <2>3 DEF Effective
  <2>5. e.who = who /\ e.what = what
    OBVIOUS
  <2>. HIDE DEF e
  <2>. QED
    BY <2>4, <2>5 DEF Holds
<1>. QED
  BY <1>1, <1>2

\* Below a securable, its sources are sources too, and so is the securable itself.
LEMMA SourcesGrow ==
  ASSUME NEW s \in Securable, NEW t \in Securable, WellNamed(s), WellNamed(t), Descends(t, s)
  PROVE  Sources(s) \subseteq Sources(t)
<1>1. /\ s \in [type : STRING, name : Seq(NamePart)] /\ t \in [type : STRING, name : Seq(NamePart)]
      /\ Len(s.name) = Depth[s.type] /\ Len(t.name) = Depth[t.type]
      /\ Depth[s.type] < Depth[t.type]
      /\ s.type \in DOMAIN Depth /\ t.type \in DOMAIN Depth
  BY SecurableAssumption DEF Descends, WellNamed, Nests
<1>2. s.type \in {"CATALOG", "SCHEMA"}
  BY <1>1, DepthValues
<1>3. SubSeq(t.name, 1, Len(s.name)) = s.name
  <2>1. Len(s.name) \in 1 .. 2 /\ Len(s.name) <= Len(t.name)
    BY <1>1, <1>2, DepthValues
  <2>2. Len(SubSeq(t.name, 1, Len(s.name))) = Len(s.name) /\ SubSeq(t.name, 1, Len(s.name)) \in Seq(NamePart)
    BY <1>1, <2>1
  <2>3. \A i \in 1 .. Len(s.name) : SubSeq(t.name, 1, Len(s.name))[i] = s.name[i]
    BY <1>1, <2>1 DEF Descends
  <2>. QED
    BY <1>1, <2>2, <2>3
<1>4. Parent(t, s.type) = s
  BY <1>1, <1>3 DEF Parent
<1>5. s \in Ancestors(t)
  BY <1>1, <1>2, <1>4 DEF Ancestors, Nests
<1>6. ASSUME NEW type \in {"SCHEMA", "CATALOG"}, Depth[type] < Depth[s.type]
      PROVE  Parent(s, type) \in Ancestors(t)
  <2>1. s.type = "SCHEMA" /\ type = "CATALOG"
    BY <1>2, <1>6, DepthValues
  <2>2. Parent(s, "CATALOG") = Parent(t, "CATALOG")
    <3>1. Len(s.name) = 2 /\ Len(t.name) = 3 /\ s.name[1] = t.name[1]
      BY <1>1, <2>1, DepthValues DEF Descends
    <3>2. SubSeq(s.name, 1, 1) = SubSeq(t.name, 1, 1)
      BY <1>1, <3>1
    <3>. QED
      BY <3>2, DepthValues DEF Parent
  <2>. QED
    BY <1>1, <2>1, <2>2, DepthValues DEF Ancestors, Nests
<1>. QED
  BY <1>5, <1>6 DEF Sources, Ancestors

\* Whatever is effective on a securable is effective on everything below it, for any grants.
THEOREM InheritanceIsComplete == grants \subseteq Grant => InheritanceComplete
<1>. SUFFICES ASSUME NEW s \in Securable, NEW t \in Securable,
                     WellNamed(s), WellNamed(t), Descends(t, s),
                     NEW who \in Principal, NEW what \in Privilege, <<who, what>> \in Holds(s)
              PROVE  <<who, what>> \in Holds(t)
  BY DEF InheritanceComplete, Holds, Effective
<1>. QED
  BY HeldSomewhere, SourcesGrow
=============================================================================
