------------------------------- MODULE Storage -------------------------------
(***************************************************************************)
(* services/dbfs.py, services/files.py and services/volume_paths.py: two   *)
(* APIs over one tree of files, uploads that take several requests, and    *)
(* the one-time migration of volumes that an older release kept elsewhere. *)
(* A path is a sequence of names.  What is under <<"volume">> is the       *)
(* directory of one Unity Catalog volume, what is under <<"legacy">> the   *)
(* place where the older release kept its files, which no request reaches. *)
(* Of the contents of a file the model keeps who sent a block of it.       *)
(* Bounds: Paths, MaxHandles upload handles, MaxChanges changes of the     *)
(* tree by requests, one upload of each client whose body is on its way.   *)
(***************************************************************************)
EXTENDS Integers, Sequences, FiniteSets, SequencesExt

CONSTANTS Clients, Paths, Layouts, MaxHandles, MaxChanges

VARIABLES
  fs,        \* what is on disk: path -> a directory, or a file and whose blocks it holds
  up,        \* the server answers requests
  migrated,  \* .legacy_volume_migration_complete
  handles,   \* _state["handles"]
  next,      \* _state["next_handle"]
  held,      \* the handle each client believes to hold, 0 if none
  late,      \* clients whose handle was given out before a reset
  uploads,   \* Files uploads whose body is on its way
  changes    \* how often a request has changed the tree

vars == <<fs, up, migrated, handles, next, held, late, uploads, changes>>

Dir == [dir |-> TRUE, by |-> {}]
File(by) == [dir |-> FALSE, by |-> by]
Stray == "stray"   \* a block that a client added to a handle it holds from before a reset

(* The tree: above p, at or below p, and what mkdir and unlink make of it. *)
Above(p) == {SubSeq(p, 1, n) : n \in 1..(Len(p) - 1)}
Below(p) == {q \in DOMAIN fs : IsPrefix(p, q)}
IsDir(p) == p \in DOMAIN fs /\ fs[p].dir
IsFile(p) == p \in DOMAIN fs /\ ~fs[p].dir

(* What a disk can hold: files and directories below directories, and in   *)
(* each file the blocks of one upload.                                     *)
Path == Seq(STRING) \ {<<>>}
OneUpload(by) == \A a, b \in by \ {Stray} : a = b
IsTree(tree) ==
  /\ IsFiniteSet(DOMAIN tree) /\ DOMAIN tree \subseteq Path
  /\ \A p \in DOMAIN tree :
       /\ tree[p] \in {Dir, File(tree[p].by)} /\ OneUpload(tree[p].by)
       /\ \A q \in Above(p) : q \in DOMAIN tree /\ tree[q].dir

Init ==
  /\ fs \in Layouts
  /\ up = FALSE /\ migrated = FALSE
  /\ handles = <<>> /\ next = 1
  /\ held = [c \in Clients |-> 0] /\ late = {}
  /\ uploads = {} /\ changes = 0

----------------------------------------------------------------------------
(* mkdir(parents=True, exist_ok=True) can make all of dirs.                *)
Makeable(dirs) == \A q \in dirs : ~IsFile(q)
WithDirs(tree, dirs) == [q \in DOMAIN tree \cup dirs |-> IF q \in dirs THEN Dir ELSE tree[q]]
Without(paths) == [q \in DOMAIN fs \ paths |-> fs[q]]
WithFile(p, by) ==
  [q \in DOMAIN fs \cup Above(p) \cup {p} |->
     IF q = p THEN File(by) ELSE IF q \in Above(p) THEN Dir ELSE fs[q]]

(* A path of a volume has meaning only while the volume has a directory.   *)
Resolves(p) == Head(p) # "legacy" /\ (Head(p) = "volume" => IsDir(<<"volume">>))
Requested(p) == up /\ p \in Paths /\ Resolves(p)

Counted == changes < MaxChanges /\ changes' = changes + 1

----------------------------------------------------------------------------
(* DBFS: create, add-block, close.  Only create looks whether the path is  *)
(* free; close leaves that to the file system, and a refused close leaves  *)
(* the handle to be closed again.                                          *)
CreateHandle(c, p, overwrite) ==
  /\ Requested(p) /\ next <= MaxHandles
  /\ p \in DOMAIN fs => overwrite
  /\ handles' = [h \in DOMAIN handles \cup {next} |->
       IF h = next THEN [path |-> p, overwrite |-> overwrite, buffer |-> {}] ELSE handles[h]]
  /\ next' = next + 1
  /\ held' = [held EXCEPT ![c] = next] /\ late' = late \ {c}
  /\ UNCHANGED <<fs, up, migrated, uploads, changes>>

AddBlock(c) ==
  LET h == held[c]
  IN /\ up /\ h \in DOMAIN handles
     /\ handles' = [handles EXCEPT ![h].buffer = @ \cup {IF c \in late THEN Stray ELSE c}]
     /\ UNCHANGED <<fs, up, migrated, next, held, late, uploads, changes>>

(* _write_file_without_overwrite: os.link refuses a name that is taken.    *)
Publish(p, by) == IF p \in DOMAIN fs THEN fs ELSE WithFile(p, by)

CloseHandle(c) ==
  LET h == held[c]
      entry == handles[h]
      tree == IF entry.overwrite THEN WithFile(entry.path, entry.buffer)
              ELSE Publish(entry.path, entry.buffer)
  IN /\ up /\ h \in DOMAIN handles
     /\ Resolves(entry.path) /\ Makeable(Above(entry.path))
     /\ entry.overwrite => ~IsDir(entry.path)
     /\ fs' = tree
     /\ IF tree = fs /\ ~entry.overwrite
        THEN UNCHANGED <<handles, held, changes>>
        ELSE /\ Counted
             /\ handles' = [k \in DOMAIN handles \ {h} |-> handles[k]]
             /\ held' = [held EXCEPT ![c] = 0]
     /\ UNCHANGED <<up, migrated, next, late, uploads>>

(* put checks and writes in one step; contents that do not decode leave    *)
(* only the directories.                                                   *)
Put(c, p, overwrite, valid) ==
  /\ Requested(p) /\ Makeable(Above(p))
  /\ p \in DOMAIN fs => overwrite
  /\ valid => ~IsDir(p)
  /\ Counted
  /\ fs' = IF valid THEN WithFile(p, {c}) ELSE WithDirs(fs, Above(p))
  /\ UNCHANGED <<up, migrated, handles, next, held, late, uploads>>

(* mkdirs, and create_directory of the Files API.                          *)
Mkdirs(p) ==
  /\ Counted
  /\ Requested(p) /\ Makeable(Above(p) \cup {p})
  /\ fs' = WithDirs(fs, Above(p) \cup {p})
  /\ UNCHANGED <<up, migrated, handles, next, held, late, uploads>>

(* delete_path; delete_file and delete_directory of the Files API are its  *)
(* cases for a file and, without recursive, for a directory.               *)
Delete(p, recursive) ==
  /\ Counted
  /\ Requested(p) /\ p \in DOMAIN fs
  /\ recursive \/ Below(p) = {p}
  /\ fs' = Without(Below(p))
  /\ UNCHANGED <<up, migrated, handles, next, held, late, uploads>>

(* Where q is when the directory s has become d, and what a rename of s    *)
(* makes of the paths at or below it.                                      *)
Placed(s, d, q) == d \o SubSeq(q, Len(s) + 1, Len(q))
Relocated(tree, paths, s, d) ==
  [q \in (DOMAIN tree \ paths) \cup {Placed(s, d, r) : r \in paths} |->
     IF \E r \in paths : Placed(s, d, r) = q
     THEN tree[CHOOSE r \in paths : Placed(s, d, r) = q] ELSE tree[q]]

(* move_path: the parents of the destination are made first, and stay when *)
(* the rename fails, as it does when the destination is inside the source. *)
Moved(s, d, tree) == Relocated(tree, {q \in DOMAIN tree : IsPrefix(s, q)}, s, d)

\* Mutant: Path.rename, which replaces what is there.
RenamedReplacing(s, d, tree) == IF IsPrefix(s, d) THEN tree ELSE Moved(s, d, tree)

(* _rename_without_replace *)
Renamed(s, d, tree) ==
  IF d \in DOMAIN tree \/ IsPrefix(s, d) THEN tree ELSE Moved(s, d, tree)

Move(s, d) ==
  /\ Counted
  /\ Requested(s) /\ Requested(d) /\ s \in DOMAIN fs
  /\ Makeable(Above(d))
  /\ fs' = Renamed(s, d, WithDirs(fs, Above(d)))
  /\ UNCHANGED <<up, migrated, handles, next, held, late, uploads>>

----------------------------------------------------------------------------
(* upload_file looks whether the path is free, makes the directories,      *)
(* waits for the body and writes.                                          *)
StartUpload(c, p, overwrite) ==
  /\ Requested(p) /\ Makeable(Above(p))
  /\ p \in DOMAIN fs => overwrite
  /\ \A u \in uploads : u.client # c
  /\ Counted
  /\ fs' = WithDirs(fs, Above(p))
  /\ uploads' = uploads \cup {[client |-> c, path |-> p]}
  /\ UNCHANGED <<up, migrated, handles, next, held, late>>

(* The write fails where a directory is in the way, or is gone; the client *)
(* may also go away before it has sent the body.                           *)
FinishUpload(u) ==
  /\ up /\ u \in uploads
  /\ uploads' = uploads \ {u}
  /\ \/ /\ \A q \in Above(u.path) : IsDir(q)
        /\ ~IsDir(u.path)
        /\ fs' = WithFile(u.path, {u.client})
     \/ UNCHANGED fs
  /\ UNCHANGED <<up, migrated, handles, next, held, late, changes>>

----------------------------------------------------------------------------
(* A volume is created, or deleted with everything in it.                  *)
CreateVolume ==
  /\ Counted
  /\ up /\ <<"volume">> \notin DOMAIN fs
  /\ fs' = WithDirs(fs, {<<"volume">>})
  /\ UNCHANGED <<up, migrated, handles, next, held, late, uploads>>

DeleteVolume ==
  /\ Counted
  /\ up /\ <<"volume">> \in DOMAIN fs
  /\ fs' = Without(Below(<<"volume">>))
  /\ UNCHANGED <<up, migrated, handles, next, held, late, uploads>>

----------------------------------------------------------------------------
(* _merge_legacy_volume: check, then move_contents.                        *)
Legacy == {p \in DOMAIN fs : Head(p) = "legacy"}
Target(p) == Placed(<<"legacy">>, <<"volume">>, p)

Conflicts ==
  \/ IsFile(<<"legacy">>)
  \/ \E p \in Legacy \ {<<"legacy">>} :
       Target(p) \in DOMAIN fs /\ ~(IsDir(p) /\ IsDir(Target(p)))

MigratedBy(paths) == Relocated(fs, paths, <<"legacy">>, <<"volume">>)

(* The server starts: the counter of handles comes back from the snapshot, *)
(* open uploads do not.  A conflict stops it; without the directory of a   *)
(* volume nothing is migrated, now or later.                               *)
Migrating == ~migrated /\ IsDir(<<"volume">>) /\ Legacy # {}

Startup ==
  /\ ~up
  /\ Migrating => ~Conflicts
  /\ fs' = IF Migrating THEN MigratedBy(Legacy) ELSE fs
  /\ up' = TRUE /\ migrated' = TRUE
  /\ UNCHANGED <<handles, next, held, late, uploads, changes>>

(* The process dies while it moves the files, some of which it has moved.  *)
DieMigrating(files) ==
  /\ ~up /\ Migrating /\ ~Conflicts
  /\ fs' = WithDirs(MigratedBy(files), {Target(q) : q \in UNION {Above(p) : p \in files}})
  /\ UNCHANGED <<up, migrated, handles, next, held, late, uploads, changes>>

\* Mutant: the snapshot does not hold the counter.
RestoredFromOne == 1

RestoredCounter == next

Shutdown ==
  /\ up
  /\ up' = FALSE /\ handles' = <<>> /\ uploads' = {}
  /\ next' = RestoredCounter
  /\ UNCHANGED <<fs, migrated, held, late, changes>>

(* The reset of dbfs; a full one wipes the volumes too, and the marker of  *)
(* the migration with them.                                                *)
Reset(full) ==
  /\ up
  /\ handles' = <<>> /\ next' = 1
  /\ late' = {c \in Clients : held[c] # 0}
  /\ fs' = Without({p \in DOMAIN fs : full \/ Head(p) # "volume"})
  /\ migrated' = (migrated /\ ~full)
  /\ UNCHANGED <<up, held, uploads, changes>>

Request ==
  \/ \E c \in Clients, p \in Paths, overwrite \in BOOLEAN :
       \/ CreateHandle(c, p, overwrite)
       \/ StartUpload(c, p, overwrite)
       \/ \E valid \in BOOLEAN : Put(c, p, overwrite, valid)
  \/ \E c \in Clients : AddBlock(c) \/ CloseHandle(c)
  \/ \E u \in uploads : FinishUpload(u)
  \/ \E p \in Paths : Mkdirs(p)
  \/ \E p \in Paths, recursive \in BOOLEAN : Delete(p, recursive)
  \/ \E s, d \in Paths : Move(s, d)
  \/ CreateVolume \/ DeleteVolume

Lifecycle == Startup \/ Shutdown \/ \E files \in SUBSET {p \in Legacy : IsFile(p)} : DieMigrating(files)

Next == Request \/ Lifecycle \/ \E full \in BOOLEAN : Reset(full)

Spec == Init /\ [][Next]_vars

----------------------------------------------------------------------------
(* A file holds the blocks of one upload: no restart, no failed close and  *)
(* no other client's upload ever mixes blocks of two, unless a client goes *)
(* on with a handle from before a reset (the handle table of dbfs.py).     *)
UploadsUnmixed ==
  \A p \in DOMAIN fs : Cardinality(fs[p].by \ {Stray}) <= 1

(* How often a file with this content is there.                            *)
Copies(tree, by) == Cardinality({p \in DOMAIN tree : tree[p] = File(by)})

(* No file is lost unless a request says so: a deletion, a write with      *)
(* overwrite, the late write of upload_file, and a reset, which deletes    *)
(* the files of DBFS although docs/getting-started.md says that they       *)
(* survive it.  Moves, the close of an upload that lost its race, and the  *)
(* migration keep every content that was there (_rename_without_replace,   *)
(* _merge_legacy_volume).                                                  *)
LosesNothing ==
  \/ \A p \in DOMAIN fs : ~fs[p].dir => Copies(fs', fs[p].by) >= Copies(fs, fs[p].by)
  \/ \E p \in Paths : Delete(p, TRUE) \/ Delete(p, FALSE)
  \/ DeleteVolume
  \/ \E full \in BOOLEAN : Reset(full)
  \/ \E c \in Clients, p \in Paths : Put(c, p, TRUE, TRUE)
  \/ \E c \in Clients : CloseHandle(c) /\ handles[held[c]].overwrite
  \/ \E u \in uploads : FinishUpload(u)

NothingLost == [][LosesNothing]_vars
=============================================================================
