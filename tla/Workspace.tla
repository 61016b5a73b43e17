------------------------------ MODULE Workspace ------------------------------
(***************************************************************************)
(* services/workspace.py: files and directories on disk, and beside them   *)
(* the metadata that the disk does not keep, an object id among it.  Files *)
(* get their entry when they are imported, directories when somebody asks  *)
(* for them, and only the metadata is part of the snapshot.  The contents  *)
(* of a file are left out; of its metadata the id and the type are kept.   *)
(* A path is the sequence of its parts between slashes as _normalize leaves*)
(* them, empty ones, "." and ".." among them: entries are kept under it as *)
(* it was spelled, files where _resolve leads it.  A spelling other than   *)
(* the plain one is an alias.  Paths to the root, and those that lead out  *)
(* of it and are refused, are left out.                                    *)
(* Bounds: Paths, MaxIds object ids, one import whose body is on its way.  *)
(***************************************************************************)
EXTENDS Integers, Sequences, FiniteSets, SequencesExt

CONSTANTS Paths, MaxIds

VARIABLES
  disk,       \* place -> "DIRECTORY", or the type that the last import gave the file
  objects,    \* _state["objects"]: path as spelled -> object id and object type
  nextId,     \* _state["next_id"]
  importing,  \* imports that wait for their body
  stored,     \* objects and next_id as the last snapshot holds them
  crashed,    \* since the last reset the server has died without a snapshot
  aliased     \* since the last reset a request has used an alias

vars == <<disk, objects, nextId, importing, stored, crashed, aliased>>

FileTypes == {"NOTEBOOK", "FILE"}
NoObjects == <<>>

Init ==
  /\ disk = <<>> /\ objects = NoObjects /\ nextId = 1
  /\ importing = {} /\ crashed = FALSE /\ aliased = FALSE
  /\ stored = [objects |-> NoObjects, nextId |-> 1]

(* _resolve: the place on disk that a path leads to.                       *)
Entered(place, part) ==
  CASE part \in {"", "."} -> place
    [] part = ".." -> SubSeq(place, 1, Len(place) - 1)
    [] OTHER -> Append(place, part)
Place(p) == FoldLeft(Entered, <<>>, p)

IsAlias(p) == Place(p) # p
Uses(p) == aliased' = (aliased \/ IsAlias(p))

Above(p) == {SubSeq(p, 1, n) : n \in 1..(Len(p) - 1)}
Below(paths, p) == {q \in paths : IsPrefix(p, q)}
IsDir(p) == p \in DOMAIN disk /\ disk[p] = "DIRECTORY"
IsFile(p) == p \in DOMAIN disk /\ disk[p] \in FileTypes
Makeable(dirs) == \A q \in dirs : ~IsFile(q)
WithDirs(dirs) == [q \in DOMAIN disk \cup dirs |-> IF q \in dirs THEN "DIRECTORY" ELSE disk[q]]
Without(f, paths) == [q \in DOMAIN f \ paths |-> f[q]]
Put(f, p, value) == [q \in DOMAIN f \cup {p} |-> IF q = p THEN value ELSE f[q]]

----------------------------------------------------------------------------
(* _file_metadata: an entry keeps its id, whatever wrote it; the id is     *)
(* taken before the file is written.                                       *)
KnownId(p) == p \in DOMAIN objects
FileId(p) == IF KnownId(p) THEN objects[p].id ELSE nextId
TakesId(p) ==
  /\ KnownId(p) \/ nextId <= MaxIds
  /\ nextId' = IF KnownId(p) THEN nextId ELSE nextId + 1

(* The file is written, and then its entry.                                *)
Recorded(p, type) == objects' = Put(objects, p, [id |-> FileId(p), type |-> type])

ImportObject(p, place, overwrite, valid) ==
  /\ place \in DOMAIN disk => overwrite
  /\ ~IsDir(place) /\ Makeable(Above(place))
  /\ IF valid
     THEN /\ disk' = Put(WithDirs(Above(place)), place, "NOTEBOOK")
          /\ TakesId(p) /\ Recorded(p, "NOTEBOOK")
     ELSE disk' = WithDirs(Above(place)) /\ UNCHANGED <<objects, nextId>>
  /\ Uses(p) /\ UNCHANGED <<importing, stored, crashed>>

(* import_file looks at the path, makes the directories above it, waits    *)
(* for the body, and looks at nothing again.                               *)
StartImportFile(p, place, overwrite) ==
  /\ importing = {}
  /\ ~IsDir(place) /\ IsFile(place) => overwrite
  /\ ~IsDir(place) /\ Makeable(Above(place))
  /\ disk' = WithDirs(Above(place))
  /\ importing' = {p}
  /\ UNCHANGED <<objects, nextId, stored, crashed, aliased>>

FinishImportFile(p, place) ==
  /\ p \in importing /\ importing' = {}
  /\ TakesId(p)
  /\ IF ~IsDir(place) /\ \A q \in Above(place) : IsDir(q)
     THEN disk' = Put(disk, place, "FILE") /\ Recorded(p, "FILE")
     ELSE UNCHANGED <<disk, objects>>
  /\ Uses(p) /\ UNCHANGED <<stored, crashed>>

AbandonImport ==
  /\ importing # {} /\ importing' = {}
  /\ UNCHANGED <<disk, objects, nextId, stored, crashed, aliased>>

----------------------------------------------------------------------------
(* _directory_object_id, for each of the directories in some order.        *)
Assigned(dirs) ==
  LET new == dirs \ DOMAIN objects
      count == Cardinality(new)
  IN /\ nextId + count <= MaxIds + 1
     /\ nextId' = nextId + count
     /\ \E order \in [new -> 0..(count - 1)] :
          /\ \A p, q \in new : order[p] = order[q] => p = q
          /\ objects' = [p \in DOMAIN objects \cup dirs |->
               IF p \in DOMAIN objects THEN objects[p]
               ELSE [id |-> nextId + order[p], type |-> "DIRECTORY"]]
     /\ UNCHANGED <<disk, importing, stored, crashed>>

GetStatus(p, place) == IsDir(place) /\ Assigned({p}) /\ Uses(p)

Children(place) == {q \in DOMAIN disk : Len(q) = Len(place) + 1 /\ IsPrefix(place, q)}

(* A list spells what it finds like the directory that was asked for.      *)
ListObjects(p, place) ==
  /\ IsDir(place) \/ place = <<>>
  /\ Assigned({Append(p, q[Len(q)]) : q \in {r \in Children(place) : IsDir(r)}})
  /\ Uses(p)

Mkdirs(place) ==
  /\ Makeable(Above(place) \cup {place})
  /\ disk' = WithDirs(Above(place) \cup {place})
  /\ UNCHANGED <<objects, nextId, importing, stored, crashed, aliased>>

\* Mutant: the entries below a directory stay.
ForgottenAlone(p, place) == {p}

(* delete_object forgets the entries of a directory and of all that is     *)
(* spelled as below it; the disk loses what is below its place.            *)
Forgotten(p, place) == IF IsDir(place) THEN Below(DOMAIN objects, p) ELSE {p}

DeleteObject(p, place, recursive) ==
  /\ place \in DOMAIN disk
  /\ (IsDir(place) /\ ~recursive) => Children(place) = {}
  /\ disk' = Without(disk, Below(DOMAIN disk, place))
  /\ objects' = Without(objects, Forgotten(p, place))
  /\ Uses(p) /\ UNCHANGED <<nextId, importing, stored, crashed>>

----------------------------------------------------------------------------
(* get_state and restore_state of a clean restart; a crash goes back to    *)
(* the snapshot before, while the disk stays as it is.                     *)
Restart ==
  /\ importing' = {}
  /\ stored' = [objects |-> objects, nextId |-> nextId]
  /\ UNCHANGED <<disk, objects, nextId, crashed, aliased>>

Crash ==
  /\ crashed' = TRUE /\ importing' = {}
  /\ objects' = stored.objects /\ nextId' = stored.nextId
  /\ UNCHANGED <<disk, stored, aliased>>

Reset ==
  /\ disk' = <<>> /\ objects' = NoObjects /\ nextId' = 1
  /\ crashed' = FALSE /\ aliased' = FALSE
  /\ UNCHANGED <<importing, stored>>

Requests(p, place) ==
  \/ \E overwrite \in BOOLEAN :
       \/ \E valid \in BOOLEAN : ImportObject(p, place, overwrite, valid)
       \/ StartImportFile(p, place, overwrite)
  \/ FinishImportFile(p, place) \/ GetStatus(p, place) \/ Mkdirs(place)
  \/ ListObjects(p, place)
  \/ \E recursive \in BOOLEAN : DeleteObject(p, place, recursive)

Next ==
  \/ \E p \in Paths : Requests(p, Place(p))
  \/ ListObjects(<<>>, <<>>)
  \/ AbandonImport \/ Restart \/ Crash \/ Reset

Spec == Init /\ [][Next]_vars

----------------------------------------------------------------------------
(* Object ids name one object: whatever was imported, deleted, listed and  *)
(* restored in whatever order and spelling, no two entries share an id and *)
(* none has the id that is given out next.  While the server has not died  *)
(* and no request has used an alias, every file has an entry that tells    *)
(* its type, and every entry tells the type of what is there; an alias     *)
(* reaches a file and misses its entry (_normalize and _resolve of         *)
(* workspace.py).                                                          *)
ObjectsIdentified ==
  /\ \A p, q \in DOMAIN objects : objects[p].id = objects[q].id => p = q
  /\ \A p \in DOMAIN objects : objects[p].id < nextId
  /\ ~crashed /\ ~aliased =>
       /\ \A p \in DOMAIN disk : IsFile(p) => p \in DOMAIN objects
       /\ \A p \in DOMAIN objects : p \in DOMAIN disk /\ objects[p].type = disk[p]
=============================================================================
