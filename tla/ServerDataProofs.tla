-------------------------- MODULE ServerDataProofs --------------------------
(***************************************************************************)
(* Proofs about the services of module Server that keep data: what is on   *)
(* disk (DBFS, volumes, workspace), what alerts judge, what seed_table     *)
(* leaves in a table, and what a client reads of results and history.      *)
(* They follow ServerProofs: for each service an invariant, that its first *)
(* states have it, that its steps keep it, and a theorem of Server.        *)
(***************************************************************************)
EXTENDS ServerProofs

----------------------------------------------------------------------------
(* Paths, as both trees on disk use them.                                  *)
Under(q, p) ==
  /\ p \in Files!Path /\ q \in Files!Path
  /\ Len(q) < Len(p) /\ \A i \in 1..Len(q) : q[i] = p[i]

LEMMA AboveMeant ==
  ASSUME NEW p \in Files!Path
  PROVE  \A q : q \in Files!Above(p) <=> Under(q, p)
<1>. SUFFICES ASSUME NEW q PROVE q \in Files!Above(p) <=> Under(q, p)
  OBVIOUS
<1>1. p \in Seq(STRING) /\ Len(p) \in Nat
  BY DEF Files!Path
<1>2. ASSUME NEW n \in 1..(Len(p) - 1)
      PROVE  /\ SubSeq(p, 1, n) \in Files!Path /\ Len(SubSeq(p, 1, n)) = n
             /\ \A i \in 1..n : SubSeq(p, 1, n)[i] = p[i]
  <2>1. n \in Int /\ \A i \in 1..n : p[i] \in STRING
    BY <1>1, ElementOfSeq
  <2>2. /\ SubSeq(p, 1, n) \in Seq(STRING) /\ Len(SubSeq(p, 1, n)) = n
        /\ \A i \in 1..n : SubSeq(p, 1, n)[i] = p[i]
    <3>1. /\ SubSeq(p, 1, n) \in Seq(STRING)
          /\ Len(SubSeq(p, 1, n)) = IF 1 <= n THEN n - 1 + 1 ELSE 0
          /\ \A i \in 1..(n - 1 + 1) : SubSeq(p, 1, n)[i] = p[1 + i - 1]
      BY <2>1, SubSeqProperties
    <3>. QED
      BY <1>1, <3>1
  <2>. QED
    BY <2>2, EmptySeq DEF Files!Path
<1>3. ASSUME q \in Files!Above(p) PROVE Under(q, p)
  <2>1. PICK n \in 1..(Len(p) - 1) : q = SubSeq(p, 1, n)
    BY <1>3 DEF Files!Above
  <2>. QED
    BY <1>1, <1>2, <2>1 DEF Under
<1>4. ASSUME Under(q, p) PROVE q \in Files!Above(p)
  <2>. DEFINE n == Len(q)
  <2>1. n \in 1..(Len(p) - 1) /\ q \in Seq(STRING)
    BY <1>1, <1>4, EmptySeq DEF Under, Files!Path
  <2>. HIDE DEF n
  <2>2. SubSeq(p, 1, n) \in Seq(STRING) /\ Len(SubSeq(p, 1, n)) = n
    BY <1>2, <2>1 DEF Files!Path
  <2>3. \A i \in 1..Len(q) : q[i] = SubSeq(p, 1, n)[i]
    BY <1>2, <1>4, <2>1 DEF Under, n
  <2>4. q = SubSeq(p, 1, n)
    BY <2>1, <2>2, <2>3, SeqEqual DEF n
  <2>. QED
    BY <2>1, <2>4 DEF Files!Above
<1>. QED
  BY <1>3, <1>4

(* What is above is shorter, and what is above that is above too.          *)
LEMMA AboveOrdered ==
  ASSUME NEW p \in Files!Path
  PROVE  /\ p \notin Files!Above(p) /\ Files!Above(p) \subseteq Files!Path
         /\ \A q \in Files!Above(p) : Files!Above(q) \subseteq Files!Above(p)
<1>1. p \notin Files!Above(p) /\ Files!Above(p) \subseteq Files!Path
  BY AboveMeant DEF Under, Files!Path
<1>2. ASSUME NEW q \in Files!Above(p), NEW r \in Files!Above(q) PROVE r \in Files!Above(p)
  <2>1. Under(q, p) /\ Under(r, q)
    BY <1>1, AboveMeant
  <2>2. Len(p) \in Nat /\ Len(q) \in Nat /\ Len(r) \in Nat
    BY <2>1 DEF Under, Files!Path
  <2>3. Under(r, p)
    BY <2>1, <2>2 DEF Under
  <2>. QED
    BY <2>3, AboveMeant
<1>. QED
  BY <1>1, <1>2

LEMMA AboveFinite ==
  ASSUME NEW p \in Files!Path
  PROVE  IsFiniteSet(Files!Above(p))
<1>. DEFINE n == Len(p) - 1
            f == [k \in 1..n |-> SubSeq(p, 1, k)]
<1>1. n \in Int /\ IsFiniteSet(1..n)
  BY FS_Interval DEF Files!Path
<1>2. f \in Surjection(1..n, Files!Above(p))
  BY DEF Surjection, Files!Above
<1>. QED
  BY <1>1, <1>2, FS_Surjection

LEMMA PrefixMeant ==
  ASSUME NEW p \in Files!Path, NEW q \in Files!Path
  PROVE  Files!IsPrefix(p, q) <=> p = q \/ p \in Files!Above(q)
<1>1. p \in Seq(STRING) /\ q \in Seq(STRING) /\ Len(p) \in Nat \ {0} /\ Len(q) \in Nat \ {0}
  BY EmptySeq DEF Files!Path
<1>2. SubSeq(p, 1, Len(p)) = p /\ SubSeq(q, 1, Len(q)) = q
  BY <1>1, SubSeqFull
<1>3. ASSUME Files!IsPrefix(p, q) PROVE p = q \/ p \in Files!Above(q)
  <2>1. Len(p) <= Len(q) /\ p = SubSeq(q, 1, Len(p))
    BY <1>2, <1>3 DEF Files!IsPrefix
  <2>2. CASE Len(p) = Len(q)
    BY <1>2, <2>1, <2>2
  <2>3. CASE Len(p) # Len(q)
    <3>1. Len(p) \in 1..(Len(q) - 1)
      BY <1>1, <2>1, <2>3
    <3>. QED
      BY <2>1, <3>1 DEF Files!Above
  <2>. QED
    BY <2>2, <2>3
<1>4. ASSUME p \in Files!Above(q) PROVE Files!IsPrefix(p, q)
  <2>1. PICK n \in 1..(Len(q) - 1) : p = SubSeq(q, 1, n)
    BY <1>4 DEF Files!Above
  <2>2. \A i \in 1..n : q[i] \in STRING
    BY <1>1, ElementOfSeq
  <2>3. Len(p) = n
    <3>1. Len(SubSeq(q, 1, n)) = IF 1 <= n THEN n - 1 + 1 ELSE 0
      BY <2>2, SubSeqProperties
    <3>. QED
      BY <2>1, <3>1
  <2>. QED
    BY <1>1, <1>2, <2>1, <2>3 DEF Files!IsPrefix
<1>5. Files!IsPrefix(p, p)
  BY <1>1 DEF Files!IsPrefix
<1>. QED
  BY <1>3, <1>4, <1>5

LEMMA SamePaths ==
  /\ \A p : Objects!Above(p) = Files!Above(p)
  /\ \A p, q : Objects!IsPrefix(p, q) <=> Files!IsPrefix(p, q)
  BY DEF Objects!Above, Files!Above, Objects!IsPrefix, Files!IsPrefix

----------------------------------------------------------------------------
(* The workspace.                                                          *)
Identified(known, counter) ==
  /\ counter \in Nat
  /\ \A p \in DOMAIN known : known[p].id \in Nat /\ known[p].id < counter
  /\ \A p, q \in DOMAIN known : known[p].id = known[q].id => p = q

Recalled ==
  /\ \A p \in DOMAIN disk : Objects!IsFile(p) => p \in DOMAIN objects
  /\ \A p \in DOMAIN objects : p \in DOMAIN disk /\ objects[p].type = disk[p]

(* What is on the disk of the workspace: below a directory.                *)
DiskTree(tree) ==
  /\ IsFiniteSet(DOMAIN tree) /\ DOMAIN tree \subseteq Files!Path
  /\ \A p \in DOMAIN tree :
       /\ tree[p] \in Objects!FileTypes \cup {"DIRECTORY"}
       /\ \A q \in Files!Above(p) : q \in DOMAIN tree /\ tree[q] = "DIRECTORY"

ObjectsInv ==
  /\ DiskTree(disk) /\ importing \subseteq ObjectPaths
  /\ Identified(objects, nextId) /\ Identified(stored.objects, stored.nextId)
  /\ crashed \in BOOLEAN /\ aliased \in BOOLEAN /\ (~crashed /\ ~aliased => Recalled)

(* A request for p, which leads to place.                                  *)
Leads(p, place) ==
  /\ place = Objects!Place(p) /\ place \in Files!Path
  /\ aliased' = (aliased \/ Objects!IsAlias(p))

LEMMA PlainUnlessAliased ==
  ASSUME ObjectsInv, NEW p, NEW place, Leads(p, place)
  PROVE  aliased' \in BOOLEAN /\ (~aliased' => ~aliased /\ place = p)
  BY DEF ObjectsInv, Leads, Objects!IsAlias

(* Directories that can be made leave what is there as it is.              *)
LEMMA DirsMade ==
  ASSUME DiskTree(disk), NEW p \in Files!Path, NEW dirs,
         dirs \in {Files!Above(p), Files!Above(p) \cup {p}},
         Objects!Makeable(dirs)
  PROVE  /\ DiskTree(Objects!WithDirs(dirs))
         /\ DOMAIN Objects!WithDirs(dirs) = DOMAIN disk \cup dirs
         /\ \A q \in DOMAIN disk : Objects!WithDirs(dirs)[q] = disk[q]
         /\ \A q \in dirs : Objects!WithDirs(dirs)[q] = "DIRECTORY"
<1>. DEFINE tree == Objects!WithDirs(dirs)
<1>1. /\ DOMAIN tree = DOMAIN disk \cup dirs
      /\ \A q \in dirs : tree[q] = "DIRECTORY"
      /\ \A q \in DOMAIN disk \ dirs : tree[q] = disk[q]
  BY DEF Objects!WithDirs
<1>2. \A q \in DOMAIN disk : tree[q] = disk[q]
  BY <1>1 DEF DiskTree, Objects!Makeable, Objects!IsFile
<1>3. dirs \subseteq Files!Path /\ \A q \in dirs : Files!Above(q) \subseteq dirs
  BY AboveOrdered
<1>4. IsFiniteSet(dirs)
  <2>1. IsFiniteSet(Files!Above(p)) /\ IsFiniteSet({p})
    BY AboveFinite, FS_Singleton
  <2>2. IsFiniteSet(Files!Above(p) \cup {p})
    BY <2>1, FS_Union
  <2>. QED
    BY <2>1, <2>2
<1>. HIDE DEF tree
<1>5. IsFiniteSet(DOMAIN tree)
  <2>1. IsFiniteSet(DOMAIN disk \cup dirs)
    BY <1>4, FS_Union DEF DiskTree
  <2>. QED
    BY <1>1, <2>1
<1>6. ASSUME NEW q \in DOMAIN tree
      PROVE  /\ tree[q] \in Objects!FileTypes \cup {"DIRECTORY"}
             /\ \A r \in Files!Above(q) : r \in DOMAIN tree /\ tree[r] = "DIRECTORY"
  BY <1>1, <1>2, <1>3 DEF DiskTree
<1>7. DiskTree(tree)
  BY <1>1, <1>3, <1>5, <1>6 DEF DiskTree
<1>. QED
  BY <1>1, <1>2, <1>7 DEF tree

(* A file that is written where no directory is.                           *)
LEMMA FileMade ==
  ASSUME NEW tree, DiskTree(tree), NEW p \in Files!Path, NEW type \in Objects!FileTypes,
         p \in DOMAIN tree => tree[p] # "DIRECTORY",
         \A q \in Files!Above(p) : q \in DOMAIN tree /\ tree[q] = "DIRECTORY"
  PROVE  DiskTree(Objects!Put(tree, p, type))
<1>. DEFINE new == Objects!Put(tree, p, type)
<1>1. /\ DOMAIN new = DOMAIN tree \cup {p} /\ new[p] = type
      /\ \A q \in DOMAIN tree : q # p => new[q] = tree[q]
  BY DEF Objects!Put
<1>2. IsFiniteSet(DOMAIN new)
  BY <1>1, FS_AddElement DEF DiskTree
<1>3. ASSUME NEW q \in DOMAIN new, NEW r \in Files!Above(q)
      PROVE  r \in DOMAIN tree /\ tree[r] = "DIRECTORY" /\ r # p
  BY <1>1, <1>3 DEF DiskTree
<1>. HIDE DEF new
<1>. QED
  BY <1>1, <1>2, <1>3 DEF DiskTree, new

(* The id a file gets is its own.                                          *)
LEMMA IdTaken ==
  ASSUME Identified(objects, nextId), NEW p, NEW type, Objects!TakesId(p)
  PROVE  /\ Identified(objects, nextId')
         /\ Objects!Recorded(p, type) => Identified(objects', nextId')
<1>1. nextId \in Nat /\ nextId' \in Nat /\ nextId <= nextId'
      /\ Objects!FileId(p) \in Nat /\ Objects!FileId(p) < nextId'
      /\ \A q \in DOMAIN objects : q # p => objects[q].id # Objects!FileId(p)
  BY DEF Identified, Objects!TakesId, Objects!KnownId, Objects!FileId
<1>2. Identified(objects, nextId')
  BY <1>1 DEF Identified
<1>3. ASSUME Objects!Recorded(p, type) PROVE Identified(objects', nextId')
  <2>1. /\ DOMAIN objects' = DOMAIN objects \cup {p} /\ objects'[p].id = Objects!FileId(p)
        /\ \A q \in DOMAIN objects : q # p => objects'[q] = objects[q]
    BY <1>3 DEF Objects!Recorded, Objects!Put
  <2>2. ASSUME NEW q \in DOMAIN objects'
        PROVE  /\ objects'[q].id \in Nat /\ objects'[q].id < nextId'
               /\ q # p => q \in DOMAIN objects /\ objects'[q].id # objects'[p].id
    BY <1>1, <1>2, <2>1 DEF Identified
  <2>. QED
    BY <1>1, <2>1, <2>2 DEF Identified
<1>. QED
  BY <1>2, <1>3

LEMMA ObjectsStart == Objects!Init => ObjectsInv
<1>. SUFFICES ASSUME Objects!Init PROVE ObjectsInv
  OBVIOUS
<1>1. DOMAIN <<>> = {} /\ IsFiniteSet({})
  BY FS_EmptySet
<1>2. /\ DOMAIN disk = {} /\ DOMAIN objects = {} /\ nextId = 1 /\ importing = {}
      /\ crashed = FALSE /\ aliased = FALSE
      /\ DOMAIN stored.objects = {} /\ stored.nextId = 1
  BY <1>1 DEF Objects!Init, Objects!NoObjects
<1>3. DiskTree(disk) /\ importing \subseteq ObjectPaths
  BY <1>1, <1>2 DEF DiskTree
<1>4. Identified(objects, nextId) /\ Identified(stored.objects, stored.nextId)
  BY <1>2 DEF Identified
<1>5. Recalled
  BY <1>2 DEF Recalled
<1>. QED
  BY <1>2, <1>3, <1>4, <1>5 DEF ObjectsInv

LEMMA ImportKeeps ==
  ASSUME ObjectsInv, NEW p \in ObjectPaths, NEW place, place = Objects!Place(p),
         NEW overwrite, NEW valid, Objects!ImportObject(p, place, overwrite, valid)
  PROVE  ObjectsInv'
<1>. DEFINE made == Objects!WithDirs(Files!Above(place))
<1>1. place \in Files!Path /\ ~Objects!IsDir(place) /\ Objects!Makeable(Files!Above(place))
      /\ Leads(p, place) /\ UNCHANGED <<importing, stored, crashed>>
  BY PathsAssumption, SamePaths DEF Objects!ImportObject, Objects!Uses, Leads
<1>2. /\ DiskTree(made) /\ DOMAIN made = DOMAIN disk \cup Files!Above(place)
      /\ \A q \in DOMAIN disk : made[q] = disk[q]
      /\ \A q \in Files!Above(place) : made[q] = "DIRECTORY"
  BY <1>1, DirsMade DEF ObjectsInv
<1>. HIDE DEF made
<1>3. CASE ~valid
  <2>1. disk' = made /\ UNCHANGED <<objects, nextId>>
    BY <1>3, SamePaths DEF Objects!ImportObject, made
  <2>2. Recalled => Recalled'
    BY <1>2, <2>1 DEF Recalled, Objects!IsFile, Objects!FileTypes
  <2>. QED
    BY <1>1, <1>2, <2>1, <2>2, PlainUnlessAliased DEF ObjectsInv
<1>4. CASE valid
  <2>1. /\ disk' = Objects!Put(made, place, "NOTEBOOK")
        /\ Objects!TakesId(p) /\ Objects!Recorded(p, "NOTEBOOK")
    BY <1>4, SamePaths DEF Objects!ImportObject, made
  <2>2. DiskTree(disk')
    BY <1>1, <1>2, <2>1, FileMade, AboveOrdered DEF Objects!IsDir, Objects!FileTypes
  <2>3. Identified(objects', nextId')
    BY <2>1, IdTaken DEF ObjectsInv
  <2>4. /\ DOMAIN disk' = DOMAIN made \cup {place} /\ disk'[place] = "NOTEBOOK"
        /\ \A q \in DOMAIN made : q # place => disk'[q] = made[q]
        /\ DOMAIN objects' = DOMAIN objects \cup {p} /\ objects'[p].type = "NOTEBOOK"
        /\ \A q \in DOMAIN objects : q # p => objects'[q] = objects[q]
    BY <2>1 DEF Objects!Recorded, Objects!Put
  <2>5. Recalled /\ place = p => Recalled'
    BY <1>2, <2>4 DEF Recalled, Objects!IsFile, Objects!FileTypes
  <2>. QED
    BY <1>1, <2>2, <2>3, <2>5, PlainUnlessAliased DEF ObjectsInv
<1>. QED
  BY <1>3, <1>4

LEMMA StartImportKeeps ==
  ASSUME ObjectsInv, NEW p \in ObjectPaths, NEW place, place = Objects!Place(p),
         NEW overwrite, Objects!StartImportFile(p, place, overwrite)
  PROVE  ObjectsInv'
<1>1. /\ place \in Files!Path /\ Objects!Makeable(Files!Above(place))
      /\ disk' = Objects!WithDirs(Files!Above(place)) /\ importing' = {p}
      /\ UNCHANGED <<objects, nextId, stored, crashed, aliased>>
  BY PathsAssumption, SamePaths DEF Objects!StartImportFile
<1>2. /\ DiskTree(disk') /\ DOMAIN disk' = DOMAIN disk \cup Files!Above(place)
      /\ \A q \in DOMAIN disk : disk'[q] = disk[q]
      /\ \A q \in Files!Above(place) : disk'[q] = "DIRECTORY"
  BY <1>1, DirsMade DEF ObjectsInv
<1>3. Recalled => Recalled'
  BY <1>1, <1>2 DEF Recalled, Objects!IsFile, Objects!FileTypes
<1>. QED
  BY <1>1, <1>2, <1>3 DEF ObjectsInv

LEMMA FinishImportKeeps ==
  ASSUME ObjectsInv, NEW p \in ObjectPaths, NEW place, place = Objects!Place(p),
         Objects!FinishImportFile(p, place)
  PROVE  ObjectsInv'
<1>1. /\ place \in Files!Path /\ importing' = {} /\ Objects!TakesId(p) /\ Leads(p, place)
      /\ UNCHANGED <<stored, crashed>>
  BY PathsAssumption DEF Objects!FinishImportFile, Objects!Uses, Leads
<1>2. CASE ~Objects!IsDir(place) /\ \A q \in Files!Above(place) : Objects!IsDir(q)
  <2>1. disk' = Objects!Put(disk, place, "FILE") /\ Objects!Recorded(p, "FILE")
    BY <1>2, SamePaths DEF Objects!FinishImportFile
  <2>2. DiskTree(disk')
    BY <1>1, <1>2, <2>1, FileMade DEF ObjectsInv, Objects!IsDir, Objects!FileTypes
  <2>3. Identified(objects', nextId')
    BY <1>1, <2>1, IdTaken DEF ObjectsInv
  <2>4. /\ DOMAIN disk' = DOMAIN disk \cup {place} /\ disk'[place] = "FILE"
        /\ \A q \in DOMAIN disk : q # place => disk'[q] = disk[q]
        /\ DOMAIN objects' = DOMAIN objects \cup {p} /\ objects'[p].type = "FILE"
        /\ \A q \in DOMAIN objects : q # p => objects'[q] = objects[q]
    BY <2>1 DEF Objects!Recorded, Objects!Put
  <2>5. Recalled /\ place = p => Recalled'
    BY <2>4 DEF Recalled, Objects!IsFile
  <2>. QED
    BY <1>1, <2>2, <2>3, <2>5, PlainUnlessAliased DEF ObjectsInv
<1>3. CASE ~(~Objects!IsDir(place) /\ \A q \in Files!Above(place) : Objects!IsDir(q))
  <2>1. UNCHANGED <<disk, objects>>
    BY <1>3, SamePaths DEF Objects!FinishImportFile
  <2>2. Identified(objects, nextId')
    BY <1>1, IdTaken DEF ObjectsInv
  <2>. QED
    BY <1>1, <2>1, <2>2, PlainUnlessAliased DEF ObjectsInv, Recalled, Objects!IsFile
<1>. QED
  BY <1>2, <1>3

(* Whatever the order in which directories get their ids.                  *)
LEMMA AssignedKeeps ==
  ASSUME ObjectsInv, NEW dirs, IsFiniteSet(dirs), Objects!Assigned(dirs),
         aliased' \in BOOLEAN,
         ~aliased' => ~aliased /\ \A p \in dirs : Objects!IsDir(p)
  PROVE  ObjectsInv'
<1>. DEFINE new == dirs \ DOMAIN objects
            count == Objects!Cardinality(new)
<1>1. count \in Nat
  <2>1. new \subseteq dirs
    OBVIOUS
  <2>2. IsFiniteSet(new)
    BY <2>1, FS_Subset
  <2>3. count = Cardinality(new)
    BY DEF Objects!Cardinality, Cardinality
  <2>. QED
    BY <2>2, <2>3, FS_CardinalityType
<1>2. nextId \in Nat /\ nextId' = nextId + count /\ UNCHANGED <<disk, importing, stored, crashed>>
  BY DEF Objects!Assigned, ObjectsInv, Identified
<1>3. PICK order \in [new -> 0..(count - 1)] :
        /\ \A p, q \in new : order[p] = order[q] => p = q
        /\ objects' = [p \in DOMAIN objects \cup dirs |->
             IF p \in DOMAIN objects THEN objects[p]
             ELSE [id |-> nextId + order[p], type |-> "DIRECTORY"]]
  BY DEF Objects!Assigned
<1>4. /\ DOMAIN objects' = DOMAIN objects \cup new
      /\ \A p \in DOMAIN objects : objects'[p] = objects[p]
      /\ \A p \in new : objects'[p] = [id |-> nextId + order[p], type |-> "DIRECTORY"]
      /\ \A p \in new : order[p] \in Nat /\ order[p] < count /\ p \in dirs
  <2>1. \A p \in new : p \in dirs /\ p \notin DOMAIN objects
    OBVIOUS
  <2>2. DOMAIN objects \cup dirs = DOMAIN objects \cup new
    OBVIOUS
  <2>. HIDE DEF new, count
  <2>3. \A p \in new : order[p] \in Nat /\ order[p] < count
    BY <1>1, <1>3
  <2>. QED
    BY <1>3, <2>1, <2>2, <2>3
<1>. HIDE DEF new, count
<1>5. ASSUME NEW p \in DOMAIN objects'
      PROVE  /\ objects'[p].id \in Nat /\ objects'[p].id < nextId'
             /\ p \in new <=> objects'[p].id >= nextId
  <2>1. CASE p \in new
    <3>1. objects'[p].id = nextId + order[p]
      BY <1>4, <2>1
    <3>. QED
      BY <1>1, <1>2, <1>4, <2>1, <3>1
  <2>2. CASE p \notin new
    <3>1. p \in DOMAIN objects /\ objects'[p] = objects[p]
      BY <1>4, <1>5, <2>2
    <3>2. objects[p].id \in Nat /\ objects[p].id < nextId
      BY <3>1 DEF ObjectsInv, Identified
    <3>. QED
      BY <1>1, <1>2, <2>2, <3>1, <3>2
  <2>. QED
    BY <2>1, <2>2
<1>6. ASSUME NEW p \in DOMAIN objects', NEW q \in DOMAIN objects', objects'[p].id = objects'[q].id
      PROVE  p = q
  <2>1. CASE p \in new
    <3>1. q \in new
      BY <1>5, <1>6, <2>1
    <3>2. nextId + order[p] = nextId + order[q]
      BY <1>4, <1>6, <2>1, <3>1
    <3>3. order[p] = order[q]
      <4>1. nextId \in Int /\ order[p] \in Int /\ order[q] \in Int
        BY <1>2, <1>4, <2>1, <3>1
      <4>. QED
        BY <3>2, <4>1
    <3>. QED
      BY <1>3, <2>1, <3>1, <3>3
  <2>2. CASE p \notin new
    <3>1. q \notin new
      BY <1>5, <1>6, <2>2
    <3>. QED
      BY <1>4, <1>6, <2>2, <3>1 DEF ObjectsInv, Identified
  <2>. QED
    BY <2>1, <2>2
<1>7. Identified(objects', nextId')
  BY <1>1, <1>2, <1>5, <1>6 DEF Identified
<1>8. Recalled /\ (\A p \in dirs : Objects!IsDir(p)) => Recalled'
  BY <1>2, <1>4 DEF Recalled, Objects!IsDir, Objects!IsFile
<1>. QED
  BY <1>2, <1>7, <1>8 DEF ObjectsInv

LEMMA MkdirsKeeps ==
  ASSUME ObjectsInv, NEW p \in Files!Path, Objects!Mkdirs(p)
  PROVE  ObjectsInv'
<1>. DEFINE dirs == Files!Above(p) \cup {p}
<1>1. /\ Objects!Makeable(dirs) /\ disk' = Objects!WithDirs(dirs)
      /\ UNCHANGED <<objects, nextId, importing, stored, crashed, aliased>>
  BY SamePaths DEF Objects!Mkdirs
<1>2. /\ DiskTree(disk') /\ DOMAIN disk' = DOMAIN disk \cup dirs
      /\ \A q \in DOMAIN disk : disk'[q] = disk[q]
      /\ \A q \in dirs : disk'[q] = "DIRECTORY"
  <2>1. dirs \in {Files!Above(p), Files!Above(p) \cup {p}}
    OBVIOUS
  <2>2. DiskTree(disk)
    BY DEF ObjectsInv
  <2>. HIDE DEF dirs
  <2>3. /\ DiskTree(Objects!WithDirs(dirs)) /\ DOMAIN Objects!WithDirs(dirs) = DOMAIN disk \cup dirs
        /\ \A q \in DOMAIN disk : Objects!WithDirs(dirs)[q] = disk[q]
        /\ \A q \in dirs : Objects!WithDirs(dirs)[q] = "DIRECTORY"
    BY <1>1, <2>1, <2>2, DirsMade
  <2>. QED
    BY <1>1, <2>3
<1>3. Recalled => Recalled'
  BY <1>1, <1>2 DEF Recalled, Objects!IsFile, Objects!FileTypes
<1>. QED
  BY <1>1, <1>2, <1>3 DEF ObjectsInv

LEMMA DeleteObjectKeeps ==
  ASSUME ObjectsInv, NEW p \in ObjectPaths, NEW place, place = Objects!Place(p),
         NEW recursive, Objects!DeleteObject(p, place, recursive)
  PROVE  ObjectsInv'
<1>. DEFINE below == Objects!Below(DOMAIN disk, place)
<1>1. /\ place \in Files!Path /\ place \in DOMAIN disk
      /\ Leads(p, place) /\ UNCHANGED <<nextId, importing, stored, crashed>>
      /\ DOMAIN disk' = DOMAIN disk \ below
      /\ \A q \in DOMAIN disk' : disk'[q] = disk[q]
      /\ DOMAIN objects' = DOMAIN objects \ Objects!Forgotten(p, place)
      /\ \A q \in DOMAIN objects' : objects'[q] = objects[q]
  BY PathsAssumption DEF Objects!DeleteObject, Objects!Without, Objects!Uses, Leads
<1>2. \A q \in DOMAIN disk : q \in below <=> q = place \/ place \in Files!Above(q)
  BY <1>1, PrefixMeant, SamePaths DEF Objects!Below, ObjectsInv, DiskTree
<1>3. DiskTree(disk')
  <2>1. ASSUME NEW q \in DOMAIN disk', NEW r \in Files!Above(q)
        PROVE  r \in DOMAIN disk' /\ disk'[r] = "DIRECTORY"
    <3>1. r \in DOMAIN disk /\ disk[r] = "DIRECTORY" /\ q \in Files!Path
      BY <1>1, <2>1 DEF ObjectsInv, DiskTree
    <3>2. r \notin below
      BY <1>1, <1>2, <3>1, AboveOrdered
    <3>. QED
      BY <1>1, <3>1, <3>2
  <2>2. IsFiniteSet(DOMAIN disk')
    BY <1>1, FS_Subset DEF ObjectsInv, DiskTree
  <2>. QED
    BY <1>1, <2>1, <2>2 DEF ObjectsInv, DiskTree
<1>4. Identified(objects', nextId')
  BY <1>1 DEF ObjectsInv, Identified
<1>5. Recalled /\ place = p => Recalled'
  <2>. SUFFICES ASSUME Recalled, place = p PROVE Recalled'
    OBVIOUS
  <2>1. DOMAIN objects \subseteq DOMAIN disk
    BY DEF Recalled
  <2>2. \A q \in DOMAIN objects : q \in Objects!Forgotten(p, place) <=> q \in below
    BY <1>1, <1>2, <2>1 DEF Objects!Forgotten, Objects!Below, ObjectsInv, DiskTree, Objects!IsDir
  <2>. QED
    BY <1>1, <2>1, <2>2 DEF Recalled, Objects!IsFile
<1>. QED
  BY <1>1, <1>3, <1>4, <1>5, PlainUnlessAliased DEF ObjectsInv

(* A plain list gives ids to the directories that are there.               *)
LEMMA ListKeeps ==
  ASSUME ObjectsInv, NEW p, NEW place, Objects!ListObjects(p, place), aliased' \in BOOLEAN,
         ~aliased' => ~aliased /\ place = p /\ p \in Seq(STRING)
  PROVE  ObjectsInv'
<1>. DEFINE there == {r \in Objects!Children(place) : Objects!IsDir(r)}
            dirs == {Append(p, q[Len(q)]) : q \in there}
            f == [q \in there |-> Append(p, q[Len(q)])]
<1>1. Objects!Assigned(dirs)
  BY DEF Objects!ListObjects
<1>2. IsFiniteSet(dirs)
  <2>1. IsFiniteSet(there)
    BY FS_Subset DEF Objects!Children, ObjectsInv, DiskTree
  <2>2. f \in Surjection(there, dirs)
    BY DEF Surjection
  <2>. QED
    BY <2>1, <2>2, FS_Surjection
<1>3. ASSUME place = p, p \in Seq(STRING), NEW q \in there
      PROVE  Append(p, q[Len(q)]) = q
  <2>1. q \in Seq(STRING) /\ Len(q) = Len(p) + 1 /\ Len(p) \in Nat /\ Files!IsPrefix(p, q)
    BY <1>3, SamePaths DEF Objects!Children, ObjectsInv, DiskTree, Files!Path
  <2>2. \A k \in 1..Len(p) : p[k] = q[k]
    <3>1. SubSeq(p, 1, Len(p)) = SubSeq(q, 1, Len(p))
      BY <2>1 DEF Files!IsPrefix
    <3>. QED
      BY <1>3, <2>1, <3>1
  <2>3. Append(p, q[Len(q)]) \in Seq(STRING) /\ Len(Append(p, q[Len(q)])) = Len(q)
    BY <1>3, <2>1
  <2>4. \A k \in 1..Len(q) : Append(p, q[Len(q)])[k] = q[k]
    BY <1>3, <2>1, <2>2
  <2>. QED
    BY <2>1, <2>3, <2>4
<1>4. ~aliased' => ~aliased /\ \A q \in dirs : Objects!IsDir(q)
  BY <1>3
<1>. HIDE DEF dirs
<1>. QED
  BY <1>1, <1>2, <1>4, AssignedKeeps

LEMMA ObjectsSteps == ObjectsInv /\ Objects!Next => ObjectsInv'
<1>. SUFFICES ASSUME ObjectsInv, Objects!Next PROVE ObjectsInv'
  OBVIOUS
<1>1. ASSUME NEW p \in ObjectPaths, NEW place, place = Objects!Place(p),
             Objects!GetStatus(p, place)
      PROVE  ObjectsInv'
  <2>1. Leads(p, place) /\ Objects!IsDir(place) /\ Objects!Assigned({p})
    BY <1>1, PathsAssumption DEF Objects!GetStatus, Objects!Uses, Leads
  <2>2. aliased' \in BOOLEAN /\ (~aliased' => ~aliased /\ \A q \in {p} : Objects!IsDir(q))
    BY <2>1, PlainUnlessAliased
  <2>3. IsFiniteSet({p})
    BY FS_Singleton
  <2>. QED
    BY <2>1, <2>2, <2>3, AssignedKeeps
<1>2. ASSUME NEW p, NEW place, Objects!ListObjects(p, place), aliased' \in BOOLEAN,
             ~aliased' => ~aliased /\ place = p /\ p \in Seq(STRING)
      PROVE  ObjectsInv'
  BY <1>2, ListKeeps
<1>3. CASE Objects!AbandonImport \/ Objects!Restart
  BY <1>3 DEF Objects!AbandonImport, Objects!Restart, ObjectsInv, Recalled, Objects!IsFile
<1>4. CASE Objects!Crash
  BY <1>4 DEF Objects!Crash, ObjectsInv
<1>5. CASE Objects!Reset
  <2>1. DOMAIN <<>> = {} /\ IsFiniteSet({})
    BY FS_EmptySet
  <2>. QED
    BY <1>5, <2>1 DEF Objects!Reset, Objects!NoObjects, ObjectsInv, DiskTree, Identified, Recalled,
         Objects!IsFile
<1>. QED
  <2>1. CASE Objects!ListObjects(<<>>, <<>>)
    <3>1. aliased' = (aliased \/ Objects!IsAlias(<<>>)) /\ <<>> \in Seq(STRING)
      BY <2>1, EmptySeq DEF Objects!ListObjects, Objects!Uses
    <3>2. aliased' \in BOOLEAN /\ (~aliased' => ~aliased)
      BY <3>1 DEF ObjectsInv, Objects!IsAlias
    <3>. QED
      BY <1>2, <2>1, <3>1, <3>2
  <2>2. ASSUME NEW p \in ObjectPaths, Objects!Requests(p, Objects!Place(p)) PROVE ObjectsInv'
    <3>. DEFINE place == Objects!Place(p)
    <3>1. place \in Files!Path
      BY PathsAssumption
    <3>2. CASE Objects!ListObjects(p, place)
      <4>1. Leads(p, place)
        BY <3>1, <3>2 DEF Objects!ListObjects, Objects!Uses, Leads
      <4>2. aliased' \in BOOLEAN /\ (~aliased' => ~aliased /\ place = p /\ p \in Seq(STRING))
        BY <3>1, <4>1, PlainUnlessAliased DEF Files!Path
      <4>. QED
        BY <1>2, <3>2, <4>2
    <3>3. place = Objects!Place(p)
      OBVIOUS
    <3>. HIDE DEF place
    <3>4. CASE Objects!Mkdirs(place)
      BY <3>1, <3>4, MkdirsKeeps
    <3>5. CASE \E overwrite, valid \in BOOLEAN : Objects!ImportObject(p, place, overwrite, valid)
      BY <3>3, <3>5, ImportKeeps
    <3>6. CASE \E overwrite \in BOOLEAN : Objects!StartImportFile(p, place, overwrite)
      BY <3>3, <3>6, StartImportKeeps
    <3>7. CASE Objects!FinishImportFile(p, place) \/ Objects!GetStatus(p, place)
      BY <1>1, <3>3, <3>7, FinishImportKeeps
    <3>8. CASE \E recursive \in BOOLEAN : Objects!DeleteObject(p, place, recursive)
      BY <3>3, <3>8, DeleteObjectKeeps
    <3>. QED
      BY <2>2, <3>2, <3>3, <3>4, <3>5, <3>6, <3>7, <3>8 DEF Objects!Requests
  <2>. QED
    BY <1>3, <1>4, <1>5, <2>1, <2>2 DEF Objects!Next

(* For any paths and any limit of ids, no two entries share an object id   *)
(* and none has the one that is given out next; and until a crash or the   *)
(* use of an alias the entries and what is on disk tell of the same        *)
(* objects (workspace.py).                                                 *)
THEOREM ObjectsStayIdentified == Spec => []ObjectsIdentified
<1>. DEFINE Inv == service = "Objects" => ObjectsInv
<1>1. Init => Inv
  BY ObjectsStart DEF Init
<1>2. Inv /\ [Next]_vars => Inv'
  <2>1. Next => UNCHANGED service /\ (service = "Objects" => Objects!Next)
    BY DEF Next
  <2>2. UNCHANGED vars => UNCHANGED service /\ (ObjectsInv => ObjectsInv')
    BY DEF vars, objectsVars, ObjectsInv, Recalled, Objects!IsFile
  <2>. QED
    BY <2>1, <2>2, ObjectsSteps
<1>3. Inv => ObjectsIdentified
  BY DEF ObjectsInv, Identified, Recalled, ObjectsIdentified, Objects!ObjectsIdentified
<1>. QED
  BY <1>1, <1>2, <1>3, PTL DEF Spec

----------------------------------------------------------------------------
(* A tree of files.                                                        *)
Entry(value) == value = Files!Dir \/ \E by : value = Files!File(by) /\ Files!OneUpload(by)

Tree(tree) ==
  /\ IsFiniteSet(DOMAIN tree) /\ DOMAIN tree \subseteq Files!Path
  /\ \A p \in DOMAIN tree :
       /\ Entry(tree[p])
       /\ \A q \in Files!Above(p) : q \in DOMAIN tree /\ tree[q] = Files!Dir

(* Every file of old is in new, where f says.                              *)
FilesOf(tree) == {p \in DOMAIN tree : tree[p] # Files!Dir}
Survives(old, new) ==
  \E f \in [FilesOf(old) -> DOMAIN new] :
    \A p \in FilesOf(old) :
      new[f[p]] = old[p] /\ \A q \in FilesOf(old) : f[p] = f[q] => p = q

LEMMA EntryMeant ==
  ASSUME NEW value, Entry(value)
  PROVE  /\ value.dir \in BOOLEAN /\ (value.dir <=> value = Files!Dir)
         /\ Files!OneUpload(value.by) /\ value \in {Files!Dir, Files!File(value.by)}
<1>1. CASE value = Files!Dir
  BY <1>1 DEF Files!Dir, Files!OneUpload
<1>2. ASSUME NEW by, value = Files!File(by), Files!OneUpload(by)
      PROVE  value.dir = FALSE /\ value.by = by /\ value # Files!Dir
  BY <1>2 DEF Files!File, Files!Dir
<1>. QED
  BY <1>1, <1>2 DEF Entry

LEMMA TreesAre == ASSUME NEW tree, Files!IsTree(tree) PROVE Tree(tree)
<1>1. IsFiniteSet(DOMAIN tree)
  BY DEF Files!IsTree, Files!IsFiniteSet, IsFiniteSet
<1>2. ASSUME NEW p \in DOMAIN tree PROVE Entry(tree[p])
  BY DEF Files!IsTree, Entry
<1>3. ASSUME NEW p \in DOMAIN tree, NEW q \in Files!Above(p)
      PROVE  q \in DOMAIN tree /\ tree[q] = Files!Dir
  <2>1. q \in DOMAIN tree /\ tree[q].dir
    BY DEF Files!IsTree
  <2>. QED
    BY <1>2, <2>1, EntryMeant
<1>. QED
  BY <1>1, <1>2, <1>3 DEF Tree, Files!IsTree

LEMMA SurvivalCounts ==
  ASSUME NEW old, NEW new, Tree(old), Tree(new), Survives(old, new), NEW by
  PROVE  Files!Copies(new, by) >= Files!Copies(old, by)
<1>. DEFINE A == {p \in DOMAIN old : old[p] = Files!File(by)}
            B == {p \in DOMAIN new : new[p] = Files!File(by)}
<1>1. Files!File(by) # Files!Dir
  BY DEF Files!File, Files!Dir
<1>2. A \subseteq FilesOf(old)
  BY <1>1 DEF FilesOf
<1>3. PICK f \in [FilesOf(old) -> DOMAIN new] :
        \A p \in FilesOf(old) :
          new[f[p]] = old[p] /\ \A q \in FilesOf(old) : f[p] = f[q] => p = q
  BY DEF Survives
<1>. DEFINE g == [p \in A |-> f[p]]
<1>4. IsFiniteSet(A) /\ IsFiniteSet(B)
  BY FS_Subset DEF Tree
<1>5. g \in [A -> B]
  BY <1>2, <1>3
<1>6. \A p, q \in A : g[p] = g[q] => p = q
  BY <1>2, <1>3
<1>7. g \in Injection(A, B)
  BY <1>5, <1>6 DEF Injection, IsInjective
<1>. HIDE DEF A, B, g
<1>8. Cardinality(A) <= Cardinality(B) /\ Cardinality(A) \in Nat /\ Cardinality(B) \in Nat
  BY <1>4, <1>7, FS_Injection, FS_CardinalityType
<1>9. Files!Copies(new, by) = Cardinality(B) /\ Files!Copies(old, by) = Cardinality(A)
  BY DEF Files!Copies, Files!Cardinality, Cardinality, A, B
<1>. QED
  BY <1>8, <1>9

(* What has all of a tree has its files.                                   *)
LEMMA SupersetKeeps ==
  ASSUME NEW old, NEW new, FilesOf(old) \subseteq DOMAIN new,
         \A p \in FilesOf(old) : new[p] = old[p]
  PROVE  Survives(old, new)
<1>. DEFINE f == [p \in FilesOf(old) |-> p]
<1>1. f \in [FilesOf(old) -> DOMAIN new]
  OBVIOUS
<1>2. \A p \in FilesOf(old) : new[f[p]] = old[p] /\ \A q \in FilesOf(old) : f[p] = f[q] => p = q
  OBVIOUS
<1>. QED
  BY <1>1, <1>2 DEF Survives

LEMMA KindsMeant ==
  ASSUME Tree(fs), NEW p
  PROVE  /\ Files!IsDir(p) <=> p \in DOMAIN fs /\ fs[p] = Files!Dir
         /\ Files!IsFile(p) <=> p \in DOMAIN fs /\ fs[p] # Files!Dir
  BY EntryMeant DEF Tree, Files!IsDir, Files!IsFile

(* mkdir, with the parents.                                                *)
Fit(tree, dirs) ==
  /\ IsFiniteSet(dirs) /\ dirs \subseteq Files!Path
  /\ \A q \in dirs : (q \in DOMAIN tree => tree[q] = Files!Dir) /\ Files!Above(q) \subseteq dirs

LEMMA TreeDirs ==
  ASSUME NEW tree, Tree(tree), NEW dirs, Fit(tree, dirs)
  PROVE  /\ Tree(Files!WithDirs(tree, dirs)) /\ Survives(tree, Files!WithDirs(tree, dirs))
         /\ DOMAIN Files!WithDirs(tree, dirs) = DOMAIN tree \cup dirs
         /\ \A q \in DOMAIN tree : Files!WithDirs(tree, dirs)[q] = tree[q]
         /\ \A q \in dirs : Files!WithDirs(tree, dirs)[q] = Files!Dir
<1>. DEFINE new == Files!WithDirs(tree, dirs)
<1>1. /\ DOMAIN new = DOMAIN tree \cup dirs
      /\ \A q \in DOMAIN tree : new[q] = tree[q]
      /\ \A q \in dirs : new[q] = Files!Dir
  BY DEF Files!WithDirs, Fit
<1>. HIDE DEF new
<1>2. IsFiniteSet(DOMAIN new)
  <2>1. IsFiniteSet(DOMAIN tree \cup dirs)
    BY FS_Union DEF Tree, Fit
  <2>. QED
    BY <1>1, <2>1
<1>3. ASSUME NEW p \in DOMAIN new
      PROVE  /\ Entry(new[p])
             /\ \A q \in Files!Above(p) : q \in DOMAIN new /\ new[q] = Files!Dir
  BY <1>1 DEF Tree, Entry, Fit
<1>4. Tree(new)
  BY <1>1, <1>2, <1>3 DEF Tree, Fit
<1>5. Survives(tree, new)
  <2>1. FilesOf(tree) \subseteq DOMAIN new /\ \A p \in FilesOf(tree) : new[p] = tree[p]
    BY <1>1 DEF FilesOf
  <2>. QED
    BY <2>1, SupersetKeeps
<1>. QED
  BY <1>1, <1>4, <1>5 DEF new

LEMMA TreeParents ==
  ASSUME Tree(fs), NEW p \in Files!Path, NEW dirs,
         dirs \in {Files!Above(p), Files!Above(p) \cup {p}}, Files!Makeable(dirs)
  PROVE  /\ Tree(Files!WithDirs(fs, dirs)) /\ Survives(fs, Files!WithDirs(fs, dirs))
         /\ DOMAIN Files!WithDirs(fs, dirs) = DOMAIN fs \cup dirs
         /\ \A q \in DOMAIN fs : Files!WithDirs(fs, dirs)[q] = fs[q]
         /\ \A q \in dirs : Files!WithDirs(fs, dirs)[q] = Files!Dir
<1>1. IsFiniteSet(dirs)
  <2>1. IsFiniteSet(Files!Above(p)) /\ IsFiniteSet({p})
    BY AboveFinite, FS_Singleton
  <2>2. IsFiniteSet(Files!Above(p) \cup {p})
    BY <2>1, FS_Union
  <2>. QED
    BY <2>1, <2>2
<1>2. dirs \subseteq Files!Path /\ \A q \in dirs : Files!Above(q) \subseteq dirs
  BY AboveOrdered
<1>3. \A q \in dirs : /\ q \in DOMAIN fs => fs[q] = Files!Dir
                       /\ Files!Above(q) \subseteq dirs
  BY <1>2, KindsMeant DEF Files!Makeable
<1>4. Fit(fs, dirs)
  BY <1>1, <1>2, <1>3 DEF Fit
<1>. QED
  BY <1>4, TreeDirs

(* A file is written where no directory is.                                *)
LEMMA TreeFile ==
  ASSUME Tree(fs), NEW p \in Files!Path, NEW by, Files!OneUpload(by),
         Files!Makeable(Files!Above(p)), ~Files!IsDir(p)
  PROVE  /\ Tree(Files!WithFile(p, by))
         /\ p \notin DOMAIN fs => Survives(fs, Files!WithFile(p, by))
<1>. DEFINE new == Files!WithFile(p, by)
            dirs == Files!Above(p)
            made == Files!WithDirs(fs, dirs)
<1>1. /\ Tree(made) /\ DOMAIN made = DOMAIN fs \cup dirs
      /\ \A q \in DOMAIN fs : made[q] = fs[q]
      /\ \A q \in dirs : made[q] = Files!Dir
  BY TreeParents
<1>3. p \notin dirs
  BY AboveOrdered
<1>2. /\ DOMAIN new = DOMAIN made \cup {p} /\ new[p] = Files!File(by)
      /\ \A q \in DOMAIN made : q # p => new[q] = made[q]
  <2>1. /\ DOMAIN new = DOMAIN fs \cup dirs \cup {p} /\ new[p] = Files!File(by)
        /\ \A q \in dirs : q # p => new[q] = Files!Dir
        /\ \A q \in DOMAIN fs : q # p /\ q \notin dirs => new[q] = fs[q]
    BY DEF Files!WithFile
  <2>. HIDE DEF new, made, dirs
  <2>. QED
    BY <1>1, <2>1
<1>4. p \in DOMAIN made => made[p] # Files!Dir
  BY <1>1, <1>3, KindsMeant
<1>. HIDE DEF new, made
<1>5. IsFiniteSet(DOMAIN new)
  <2>1. IsFiniteSet(DOMAIN made \cup {p})
    BY <1>1, FS_AddElement DEF Tree
  <2>. QED
    BY <1>2, <2>1
<1>6. ASSUME NEW q \in DOMAIN new
      PROVE  /\ Entry(new[q])
             /\ \A r \in Files!Above(q) : r \in DOMAIN new /\ new[r] = Files!Dir
  <2>1. CASE q = p
    BY <1>1, <1>2, <1>3, <2>1 DEF Entry
  <2>2. CASE q # p
    <3>1. q \in DOMAIN made /\ new[q] = made[q] /\ Entry(made[q])
      BY <1>1, <1>2, <2>2 DEF Tree
    <3>2. ASSUME NEW r \in Files!Above(q) PROVE r \in DOMAIN made /\ made[r] = Files!Dir /\ r # p
      BY <1>1, <1>4, <3>1, <3>2 DEF Tree
    <3>. QED
      BY <1>2, <3>1, <3>2
  <2>. QED
    BY <2>1, <2>2
<1>7. Tree(new)
  BY <1>1, <1>2, <1>5, <1>6 DEF Tree
<1>8. ASSUME p \notin DOMAIN fs PROVE Survives(fs, new)
  <2>1. FilesOf(fs) \subseteq DOMAIN new /\ \A q \in FilesOf(fs) : new[q] = fs[q]
    BY <1>1, <1>2, <1>8 DEF FilesOf
  <2>. QED
    BY <2>1, SupersetKeeps
<1>. QED
  BY <1>7, <1>8 DEF new

(* What is removed with all that is below it.                              *)
LEMMA TreeWithout ==
  ASSUME Tree(fs), NEW paths,
         \A q \in DOMAIN fs : \A r \in Files!Above(q) : r \in paths => q \in paths
  PROVE  Tree(Files!Without(paths))
<1>. DEFINE new == Files!Without(paths)
<1>1. DOMAIN new = DOMAIN fs \ paths /\ \A q \in DOMAIN new : new[q] = fs[q]
  BY DEF Files!Without
<1>. HIDE DEF new
<1>2. IsFiniteSet(DOMAIN new)
  BY <1>1, FS_Subset DEF Tree
<1>3. ASSUME NEW q \in DOMAIN new
      PROVE  /\ Entry(new[q])
             /\ \A r \in Files!Above(q) : r \in DOMAIN new /\ new[r] = Files!Dir
  BY <1>1 DEF Tree
<1>4. Tree(new)
  BY <1>1, <1>2, <1>3 DEF Tree
<1>. QED
  BY <1>4 DEF new

LEMMA TreeBelow ==
  ASSUME Tree(fs), NEW p \in Files!Path
  PROVE  Tree(Files!Without(Files!Below(p)))
<1>1. \A q \in DOMAIN fs : q \in Files!Below(p) <=> q = p \/ p \in Files!Above(q)
  BY PrefixMeant DEF Files!Below, Tree
<1>2. ASSUME NEW q \in DOMAIN fs, NEW r \in Files!Above(q), r \in Files!Below(p)
      PROVE  q \in Files!Below(p)
  <2>1. q \in Files!Path /\ r \in DOMAIN fs
    BY DEF Tree
  <2>. QED
    BY <1>1, <1>2, <2>1, AboveOrdered
<1>. QED
  BY <1>2, TreeWithout

----------------------------------------------------------------------------
(* Where what is at or below s comes to be when s becomes d.               *)
AtOrBelow(s, q) == q = s \/ s \in Files!Above(q)

Rebased(s, d, q, r) ==
  /\ r \in Files!Path
  /\ Len(s) <= Len(q) /\ \A i \in 1..Len(s) : q[i] = s[i]
  /\ Len(r) = Len(d) + (Len(q) - Len(s))
  /\ \A i \in 1..Len(d) : r[i] = d[i]
  /\ \A i \in 1..(Len(q) - Len(s)) : r[Len(d) + i] = q[Len(s) + i]

LEMMA RebaseMeant ==
  ASSUME NEW s \in Files!Path, NEW d \in Files!Path, NEW q \in Files!Path, AtOrBelow(s, q)
  PROVE  Rebased(s, d, q, Files!Placed(s, d, q))
<1>. DEFINE rest == SubSeq(q, Len(s) + 1, Len(q))
<1>1. /\ s \in Seq(STRING) /\ d \in Seq(STRING) /\ q \in Seq(STRING)
      /\ Len(s) \in Nat \ {0} /\ Len(d) \in Nat \ {0} /\ Len(q) \in Nat \ {0}
  BY EmptySeq DEF Files!Path
<1>2. Len(s) <= Len(q) /\ \A i \in 1..Len(s) : q[i] = s[i]
  BY <1>1, AboveMeant DEF AtOrBelow, Under
<1>3. /\ rest \in Seq(STRING) /\ Len(rest) = Len(q) - Len(s)
      /\ \A i \in 1..(Len(q) - Len(s)) : rest[i] = q[Len(s) + i]
  <2>. DEFINE a == Len(s) + 1
              b == Len(q)
  <2>1. a \in Int /\ b \in Int /\ \A i \in a..b : q[i] \in STRING
    BY <1>1, <1>2, ElementOfSeq
  <2>2. /\ SubSeq(q, a, b) \in Seq(STRING)
        /\ Len(SubSeq(q, a, b)) = IF a <= b THEN b - a + 1 ELSE 0
        /\ \A i \in 1..(b - a + 1) : SubSeq(q, a, b)[i] = q[a + i - 1]
    <3>. HIDE DEF a, b
    <3>. QED
      BY <2>1, SubSeqProperties
  <2>3. rest \in Seq(STRING) /\ Len(rest) = Len(q) - Len(s)
    BY <1>1, <1>2, <2>2
  <2>4. b - a + 1 = Len(q) - Len(s) /\ \A i \in 1..(Len(q) - Len(s)) : a + i - 1 = Len(s) + i
    BY <1>1, <1>2
  <2>5. \A i \in 1..(Len(q) - Len(s)) : SubSeq(q, a, b)[i] = q[a + i - 1]
    BY <2>2, <2>4
  <2>6. \A i \in 1..(Len(q) - Len(s)) : SubSeq(q, a, b)[i] = q[Len(s) + i]
    BY <2>4, <2>5
  <2>. QED
    BY <2>3, <2>6
<1>. HIDE DEF rest
<1>4. /\ d \o rest \in Seq(STRING) /\ Len(d \o rest) = Len(d) + Len(rest)
      /\ \A i \in 1..(Len(d) + Len(rest)) :
           (d \o rest)[i] = IF i <= Len(d) THEN d[i] ELSE rest[i - Len(d)]
  BY <1>1, <1>3, ConcatProperties
<1>5. Files!Placed(s, d, q) = d \o rest
  BY DEF Files!Placed, rest
<1>6. d \o rest # <<>>
  BY <1>1, <1>3, <1>2, <1>4, EmptySeq
<1>7. ASSUME NEW i \in 1..Len(d) PROVE (d \o rest)[i] = d[i]
  BY <1>1, <1>2, <1>3, <1>4
<1>8. ASSUME NEW i \in 1..(Len(q) - Len(s)) PROVE (d \o rest)[Len(d) + i] = q[Len(s) + i]
  <2>1. Len(d) + i \in 1..(Len(d) + Len(rest)) /\ ~(Len(d) + i <= Len(d)) /\ Len(d) + i - Len(d) = i
    BY <1>1, <1>2, <1>3
  <2>. QED
    BY <1>3, <1>4, <2>1
<1>. QED
  BY <1>2, <1>3, <1>4, <1>5, <1>6, <1>7, <1>8 DEF Files!Path, Rebased

LEMMA RebaseBelow ==
  ASSUME NEW s \in Files!Path, NEW d \in Files!Path, NEW q \in Files!Path, AtOrBelow(s, q)
  PROVE  AtOrBelow(d, Files!Placed(s, d, q))
<1>. DEFINE r == Files!Placed(s, d, q)
<1>1. /\ r \in Files!Path /\ Len(s) <= Len(q) /\ Len(r) = Len(d) + (Len(q) - Len(s))
      /\ \A i \in 1..Len(d) : r[i] = d[i]
  <2>1. Rebased(s, d, q, Files!Placed(s, d, q))
    BY RebaseMeant
  <2>. QED
    BY <2>1 DEF Rebased
<1>. HIDE DEF r
<1>2. /\ r \in Seq(STRING) /\ d \in Seq(STRING)
      /\ Len(s) \in Nat /\ Len(q) \in Nat /\ Len(d) \in Nat /\ Len(r) \in Nat
  BY <1>1 DEF Files!Path
<1>3. CASE Len(r) = Len(d)
  <2>1. d = r
    BY <1>1, <1>2, <1>3, SeqEqual
  <2>. QED
    BY <2>1 DEF AtOrBelow, r
<1>4. CASE Len(d) < Len(r)
  <2>1. d \in Files!Above(r)
    BY <1>1, <1>4, AboveMeant DEF Under
  <2>. QED
    BY <2>1 DEF AtOrBelow, r
<1>. QED
  BY <1>1, <1>2, <1>3, <1>4

LEMMA RebaseInjective ==
  ASSUME NEW s \in Files!Path, NEW d \in Files!Path, NEW q \in Files!Path, NEW r \in Files!Path,
         AtOrBelow(s, q), AtOrBelow(s, r), Files!Placed(s, d, q) = Files!Placed(s, d, r)
  PROVE  q = r
<1>1. /\ q \in Seq(STRING) /\ r \in Seq(STRING)
      /\ Len(s) \in Nat /\ Len(d) \in Nat /\ Len(q) \in Nat /\ Len(r) \in Nat
  BY DEF Files!Path
<1>2. /\ Len(s) <= Len(q) /\ \A i \in 1..Len(s) : q[i] = s[i]
      /\ Len(Files!Placed(s, d, q)) = Len(d) + (Len(q) - Len(s))
      /\ \A i \in 1..(Len(q) - Len(s)) : Files!Placed(s, d, q)[Len(d) + i] = q[Len(s) + i]
  <2>1. Rebased(s, d, q, Files!Placed(s, d, q))
    BY RebaseMeant
  <2>. QED
    BY <2>1 DEF Rebased
<1>3. /\ Len(s) <= Len(r) /\ \A i \in 1..Len(s) : r[i] = s[i]
      /\ Len(Files!Placed(s, d, q)) = Len(d) + (Len(r) - Len(s))
      /\ \A i \in 1..(Len(r) - Len(s)) : Files!Placed(s, d, q)[Len(d) + i] = r[Len(s) + i]
  <2>1. Rebased(s, d, r, Files!Placed(s, d, r))
    BY RebaseMeant
  <2>. QED
    BY <2>1 DEF Rebased
<1>4. Len(q) = Len(r)
  BY <1>1, <1>2, <1>3
<1>5. ASSUME NEW i \in 1..Len(q) PROVE q[i] = r[i]
  <2>1. CASE i \in 1..Len(s)
    BY <1>2, <1>3, <2>1
  <2>2. CASE i \notin 1..Len(s)
    <3>. DEFINE j == i - Len(s)
    <3>1. j \in 1..(Len(q) - Len(s)) /\ j \in 1..(Len(r) - Len(s)) /\ i = Len(s) + j
      BY <1>1, <1>2, <1>4, <2>2
    <3>. HIDE DEF j
    <3>. QED
      BY <1>2, <1>3, <3>1
  <2>. QED
    BY <2>1, <2>2
<1>. QED
  BY <1>1, <1>4, <1>5, SeqEqual

(* The parents of where a path comes to be are the places of its parents,  *)
(* and those above them.                                                   *)
LEMMA RebaseParents ==
  ASSUME NEW s \in Files!Path, NEW d \in Files!Path, NEW q \in Files!Path, AtOrBelow(s, q),
         NEW x \in Files!Above(Files!Placed(s, d, q))
  PROVE  \/ x \in Files!Above(d)
         \/ \E p \in Files!Above(q) : AtOrBelow(s, p) /\ x = Files!Placed(s, d, p)
<1>. DEFINE r == Files!Placed(s, d, q)
            m == Len(x) - Len(d) + Len(s)
            p == SubSeq(q, 1, m)
<1>1. /\ r \in Files!Path /\ Len(s) <= Len(q) /\ \A i \in 1..Len(s) : q[i] = s[i]
      /\ Len(r) = Len(d) + (Len(q) - Len(s))
      /\ \A i \in 1..Len(d) : r[i] = d[i]
      /\ \A i \in 1..(Len(q) - Len(s)) : r[Len(d) + i] = q[Len(s) + i]
  <2>1. Rebased(s, d, q, Files!Placed(s, d, q))
    BY RebaseMeant
  <2>. QED
    BY <2>1 DEF Rebased
<1>2. Under(x, r)
  BY <1>1, AboveMeant
<1>3. /\ x \in Seq(STRING) /\ s \in Seq(STRING) /\ d \in Seq(STRING) /\ q \in Seq(STRING)
      /\ Len(s) \in Nat \ {0} /\ Len(d) \in Nat /\ Len(q) \in Nat /\ Len(x) \in Nat
  BY <1>2, EmptySeq DEF Under, Files!Path
<1>4. x \in Files!Path /\ Len(x) < Len(r) /\ \A i \in 1..Len(x) : x[i] = r[i]
  BY <1>2 DEF Under
<1>. HIDE DEF r
<1>5. CASE Len(x) < Len(d)
  <2>1. Under(x, d)
    BY <1>1, <1>3, <1>4, <1>5 DEF Under
  <2>. QED
    BY <2>1, AboveMeant
<1>6. CASE Len(d) <= Len(x)
  <2>1. m \in Nat \ {0} /\ Len(s) <= m /\ m < Len(q) /\ m \in 1..(Len(q) - 1)
        /\ m - Len(s) = Len(x) - Len(d)
    BY <1>1, <1>3, <1>4, <1>6
  <2>2. p \in Files!Above(q)
    BY <2>1 DEF Files!Above
  <2>3. p \in Files!Path /\ Under(p, q)
    BY <2>2, AboveMeant DEF Under
  <2>4. Len(p) = m
    <3>1. \A i \in 1..m : q[i] \in STRING
      BY <1>3, <2>1, ElementOfSeq
    <3>2. Len(p) = IF 1 <= m THEN m - 1 + 1 ELSE 0
      <4>. HIDE DEF m
      <4>. QED
        BY <2>1, <3>1, SubSeqProperties
    <3>. QED
      BY <2>1, <3>2
  <2>. HIDE DEF p, m
  <2>5. p \in Seq(STRING) /\ \A i \in 1..m : p[i] = q[i]
    BY <2>3, <2>4 DEF Under, Files!Path
  <2>6. AtOrBelow(s, p)
    <3>1. CASE m = Len(s)
      <4>1. p = s
        BY <1>1, <1>3, <2>4, <2>5, <3>1, SeqEqual
      <4>. QED
        BY <4>1 DEF AtOrBelow
    <3>2. CASE m # Len(s)
      <4>1. Under(s, p)
        BY SMTT(30), <1>1, <1>3, <2>1, <2>3, <2>4, <2>5, <3>2 DEF Under
      <4>. QED
        BY <2>3, <4>1, AboveMeant DEF AtOrBelow
    <3>. QED
      BY <3>1, <3>2
  <2>7. x = Files!Placed(s, d, p)
    <3>. DEFINE y == Files!Placed(s, d, p)
    <3>1. /\ y \in Files!Path /\ Len(y) = Len(d) + (m - Len(s))
          /\ \A i \in 1..Len(d) : y[i] = d[i]
          /\ \A i \in 1..(m - Len(s)) : y[Len(d) + i] = p[Len(s) + i]
      <4>1. Rebased(s, d, p, Files!Placed(s, d, p))
        BY <2>3, <2>6, RebaseMeant
      <4>. QED
        BY <2>4, <4>1 DEF Rebased
    <3>. HIDE DEF y
    <3>2. Len(y) = Len(x) /\ y \in Seq(STRING)
      BY <1>3, <2>1, <3>1 DEF Files!Path
    <3>3. ASSUME NEW i \in 1..Len(x) PROVE x[i] = y[i]
      <4>1. CASE i \in 1..Len(d)
        BY <1>1, <1>4, <3>1, <4>1
      <4>2. CASE i \notin 1..Len(d)
        <5>. DEFINE j == i - Len(d)
        <5>1. /\ j \in 1..(m - Len(s)) /\ j \in 1..(Len(q) - Len(s)) /\ i = Len(d) + j
              /\ Len(s) + j \in 1..m
          BY <1>3, <2>1, <4>2
        <5>. HIDE DEF j
        <5>2. x[i] = q[Len(s) + j]
          BY <1>1, <1>4, <5>1
        <5>3. y[i] = p[Len(s) + j]
          BY <3>1, <5>1
        <5>. QED
          BY <2>5, <5>1, <5>2, <5>3
      <4>. QED
        BY <4>1, <4>2
    <3>4. x = y
      BY <1>3, <3>2, <3>3, SeqEqual
    <3>. QED
      BY <3>4 DEF y
  <2>. QED
    BY <2>2, <2>6, <2>7
<1>. QED
  BY <1>3, <1>5, <1>6

(* The migration makes the directory of the volume of that of the older    *)
(* release.                                                                *)
LegacyRoot == <<"legacy">>
VolumeRoot == <<"volume">>

LEMMA TargetMeant ==
  /\ LegacyRoot \in Files!Path /\ VolumeRoot \in Files!Path /\ Files!Above(VolumeRoot) = {}
  /\ \A p \in Files!Path :
       /\ Head(p) = "legacy" <=> AtOrBelow(LegacyRoot, p)
       /\ Files!Target(p) = Files!Placed(LegacyRoot, VolumeRoot, p)
       /\ \A q \in Files!Above(p) : Head(q) = Head(p)
<1>1. /\ LegacyRoot \in Files!Path /\ VolumeRoot \in Files!Path
      /\ Len(LegacyRoot) = 1 /\ Len(VolumeRoot) = 1 /\ LegacyRoot[1] = "legacy"
      /\ LegacyRoot \in Seq(STRING)
  <2>1. Len(LegacyRoot) = 1 /\ Len(VolumeRoot) = 1 /\ LegacyRoot[1] = "legacy"
    <3>1. \A x : Len(<<x>>) = 1 /\ <<x>>[1] = x
      OBVIOUS
    <3>. QED
      BY <3>1 DEF LegacyRoot, VolumeRoot
  <2>2. LegacyRoot \in Files!Path /\ VolumeRoot \in Files!Path
    BY PathsAssumption DEF LegacyRoot, VolumeRoot
  <2>. QED
    BY <2>1, <2>2 DEF Files!Path
<1>2. Files!Above(VolumeRoot) = {}
  BY <1>1 DEF Files!Above
<1>3. ASSUME NEW p \in Files!Path
      PROVE  /\ p \in Seq(STRING) /\ Len(p) \in Nat \ {0} /\ p # <<>> /\ Head(p) = p[1]
  BY EmptySeq DEF Files!Path
<1>4. ASSUME NEW p \in Files!Path
      PROVE  Head(p) = "legacy" <=> AtOrBelow(LegacyRoot, p)
  <2>1. ASSUME p[1] = "legacy", Len(p) = 1 PROVE p = LegacyRoot
    BY <1>1, <1>3, <2>1, SeqEqual
  <2>2. ASSUME p[1] = "legacy", Len(p) # 1 PROVE LegacyRoot \in Files!Above(p)
    <3>1. Under(LegacyRoot, p)
      BY <1>1, <1>3, <2>2 DEF Under
    <3>. QED
      BY <3>1, AboveMeant
  <2>3. ASSUME LegacyRoot \in Files!Above(p) PROVE p[1] = "legacy"
    <3>1. Under(LegacyRoot, p)
      BY <2>3, AboveMeant
    <3>. QED
      BY <1>1, <3>1 DEF Under
  <2>. QED
    BY <1>1, <1>3, <2>1, <2>2, <2>3 DEF AtOrBelow
<1>5. ASSUME NEW p \in Files!Path PROVE Files!Target(p) = Files!Placed(LegacyRoot, VolumeRoot, p)
  BY DEF Files!Target, LegacyRoot, VolumeRoot
<1>6. ASSUME NEW p \in Files!Path, NEW q \in Files!Above(p) PROVE Head(q) = Head(p)
  <2>1. Under(q, p) /\ q \in Files!Path
    BY AboveMeant DEF Under
  <2>. QED
    BY <1>3, <2>1 DEF Under
<1>. QED
  BY <1>1, <1>2, <1>4, <1>5, <1>6

----------------------------------------------------------------------------
(* A tree in which what is at from, at or below s, has come to be below d. *)
Rebasing(tree, from, s, d) ==
  /\ s \in Files!Path /\ d \in Files!Path /\ from \subseteq DOMAIN tree
  /\ \A q \in from : AtOrBelow(s, q)

Places(from, s, d) == {Files!Placed(s, d, q) : q \in from}

(* Where something is already, that and what comes there are directories.  *)
Clear(tree, from, s, d) ==
  \A q \in from :
    Files!Placed(s, d, q) \in DOMAIN tree =>
      tree[q] = Files!Dir /\ tree[Files!Placed(s, d, q)] = Files!Dir

Overlaid(tree, from, s, d, new) ==
  /\ DOMAIN new = (DOMAIN tree \ from) \cup Places(from, s, d)
  /\ \A q \in from : new[Files!Placed(s, d, q)] = tree[q]
  /\ \A q \in DOMAIN tree \ from : q \notin Places(from, s, d) => new[q] = tree[q]

LEMMA OverlayMeant ==
  ASSUME NEW tree, Tree(tree), NEW from, NEW s, NEW d, Rebasing(tree, from, s, d)
  PROVE  Overlaid(tree, from, s, d, Files!Relocated(tree, from, s, d))
<1>. DEFINE new == Files!Relocated(tree, from, s, d)
            there == (DOMAIN tree \ from) \cup Places(from, s, d)
<1>1. DOMAIN new = there
  BY DEF Files!Relocated, Places
<1>2. ASSUME NEW q \in from PROVE new[Files!Placed(s, d, q)] = tree[q]
  <2>. DEFINE r == CHOOSE r \in from : Files!Placed(s, d, r) = Files!Placed(s, d, q)
  <2>1. Files!Placed(s, d, q) \in there
    BY DEF Places
  <2>2. r \in from /\ Files!Placed(s, d, r) = Files!Placed(s, d, q)
    OBVIOUS
  <2>3. new[Files!Placed(s, d, q)] = tree[r]
    BY <2>1 DEF Files!Relocated
  <2>. HIDE DEF r
  <2>4. r \in Files!Path /\ q \in Files!Path /\ AtOrBelow(s, r) /\ AtOrBelow(s, q)
        /\ s \in Files!Path /\ d \in Files!Path
    BY <2>2 DEF Rebasing, Tree
  <2>5. r = q
    BY <2>2, <2>4, RebaseInjective
  <2>. QED
    BY <2>3, <2>5
<1>3. ASSUME NEW q \in DOMAIN tree \ from, q \notin Places(from, s, d) PROVE new[q] = tree[q]
  <2>1. ~\E r \in from : Files!Placed(s, d, r) = q
    BY <1>3 DEF Places
  <2>2. q \in there
    OBVIOUS
  <2>. QED
    BY <2>1, <2>2 DEF Files!Relocated
<1>. HIDE DEF new
<1>. QED
  BY <1>1, <1>2, <1>3 DEF new, Overlaid

(* Such a tree is finite and has every file.                               *)
Covers(tree, from, new) ==
  /\ IsFiniteSet(DOMAIN new) /\ DOMAIN new \subseteq Files!Path
  /\ \A q \in DOMAIN new : Entry(new[q])
  /\ \A q \in DOMAIN tree \ from : new[q] = tree[q]
  /\ Survives(tree, new)

LEMMA OverlayKeeps ==
  ASSUME NEW tree, Tree(tree), NEW from, NEW s, NEW d, Rebasing(tree, from, s, d),
         Clear(tree, from, s, d)
  PROVE  Covers(tree, from, Files!Relocated(tree, from, s, d))
<1>. DEFINE new == Files!Relocated(tree, from, s, d)
            places == Places(from, s, d)
<1>1. /\ DOMAIN new = (DOMAIN tree \ from) \cup places
      /\ \A q \in from : new[Files!Placed(s, d, q)] = tree[q]
      /\ \A q \in DOMAIN tree \ from : q \notin places => new[q] = tree[q]
  <2>1. Overlaid(tree, from, s, d, new)
    BY OverlayMeant
  <2>. HIDE DEF new
  <2>. QED
    BY <2>1 DEF Overlaid
<1>2. IsFiniteSet(places)
  <2>. DEFINE f == [q \in from |-> Files!Placed(s, d, q)]
  <2>1. f \in Surjection(from, places)
    BY DEF Surjection, Places
  <2>2. IsFiniteSet(from)
    BY FS_Subset DEF Rebasing, Tree
  <2>. QED
    BY <2>1, <2>2, FS_Surjection
<1>3. places \subseteq Files!Path
  <2>1. ASSUME NEW q \in from PROVE Files!Placed(s, d, q) \in Files!Path
    <3>1. Rebased(s, d, q, Files!Placed(s, d, q))
      BY RebaseMeant DEF Rebasing, Tree
    <3>. QED
      BY <3>1 DEF Rebased
  <2>. QED
    BY <2>1 DEF Places
<1>4. \A r \in places : \E q \in from : r = Files!Placed(s, d, q)
  BY DEF Places
<1>5. \A q \in from : Files!Placed(s, d, q) \in places
  BY DEF Places
<1>. HIDE DEF new, places
<1>6. IsFiniteSet(DOMAIN new)
  <2>1. IsFiniteSet(DOMAIN tree \ from)
    BY FS_Subset DEF Tree
  <2>2. IsFiniteSet((DOMAIN tree \ from) \cup places)
    BY <1>2, <2>1, FS_Union
  <2>. QED
    BY <1>1, <2>2
<1>7. DOMAIN new \subseteq Files!Path
  BY <1>1, <1>3 DEF Tree
<1>8. ASSUME NEW q \in DOMAIN tree \ from PROVE new[q] = tree[q]
  BY <1>1, <1>4 DEF Clear
<1>9. ASSUME NEW q \in DOMAIN new PROVE Entry(new[q])
  BY <1>1, <1>4, <1>8 DEF Tree, Rebasing
<1>10. Survives(tree, new)
  <2>. DEFINE f == [q \in FilesOf(tree) |-> IF q \in from THEN Files!Placed(s, d, q) ELSE q]
  <2>1. ASSUME NEW q \in FilesOf(tree) PROVE f[q] \in DOMAIN new /\ new[f[q]] = tree[q]
    BY <1>1, <1>5, <1>8 DEF FilesOf
  <2>2. ASSUME NEW q \in FilesOf(tree), NEW r \in FilesOf(tree), f[q] = f[r] PROVE q = r
    <3>1. CASE q \in from /\ r \in from
      <4>1. Files!Placed(s, d, q) = Files!Placed(s, d, r)
        BY <2>2, <3>1
      <4>2. /\ q \in Files!Path /\ r \in Files!Path /\ s \in Files!Path /\ d \in Files!Path
            /\ AtOrBelow(s, q) /\ AtOrBelow(s, r)
        BY <3>1 DEF Rebasing, Tree
      <4>. QED
        BY <4>1, <4>2, RebaseInjective
    <3>2. CASE q \in from /\ r \notin from
      BY <2>2, <3>2 DEF Clear, FilesOf
    <3>3. CASE q \notin from /\ r \in from
      BY <2>2, <3>3 DEF Clear, FilesOf
    <3>4. CASE q \notin from /\ r \notin from
      BY <2>2, <3>4
    <3>. QED
      BY <3>1, <3>2, <3>3, <3>4
  <2>3. f \in [FilesOf(tree) -> DOMAIN new]
    BY <2>1
  <2>. HIDE DEF f
  <2>. QED
    BY <2>1, <2>2, <2>3 DEF Survives
<1>. QED
  BY <1>6, <1>7, <1>8, <1>9, <1>10 DEF new, Covers

(* It is a tree when directories stay above what stays and are above what  *)
(* comes.                                                                  *)
LEMMA OverlayTree ==
  ASSUME NEW tree, Tree(tree), NEW from, NEW s, NEW d, Rebasing(tree, from, s, d),
         Clear(tree, from, s, d),
         \A q \in DOMAIN tree \ from : \A x \in Files!Above(q) : x \notin from,
         \A q \in from : \A x \in Files!Above(q) : AtOrBelow(s, x) => x \in from,
         \A x \in Files!Above(d) : x \in DOMAIN tree \ from /\ tree[x] = Files!Dir
  PROVE  Tree(Files!Relocated(tree, from, s, d)) /\ Survives(tree, Files!Relocated(tree, from, s, d))
<1>. DEFINE new == Files!Relocated(tree, from, s, d)
<1>1. /\ DOMAIN new = (DOMAIN tree \ from) \cup Places(from, s, d)
      /\ \A q \in from : new[Files!Placed(s, d, q)] = tree[q]
  <2>1. Overlaid(tree, from, s, d, new)
    BY OverlayMeant
  <2>. HIDE DEF new
  <2>. QED
    BY <2>1 DEF Overlaid
<1>2. /\ IsFiniteSet(DOMAIN new) /\ DOMAIN new \subseteq Files!Path
      /\ \A q \in DOMAIN new : Entry(new[q])
      /\ \A q \in DOMAIN tree \ from : new[q] = tree[q]
      /\ Survives(tree, new)
  <2>1. Covers(tree, from, new)
    BY OverlayKeeps
  <2>. HIDE DEF new
  <2>. QED
    BY <2>1 DEF Covers
<1>. HIDE DEF new
<1>3. ASSUME NEW q \in DOMAIN tree \ from, NEW x \in Files!Above(q)
      PROVE  x \in DOMAIN new /\ new[x] = Files!Dir
  BY <1>1, <1>2 DEF Tree
<1>4. ASSUME NEW q \in from, NEW x \in Files!Above(Files!Placed(s, d, q))
      PROVE  x \in DOMAIN new /\ new[x] = Files!Dir
  <2>1. CASE x \in Files!Above(d)
    BY <1>1, <1>2, <2>1
  <2>2. ASSUME NEW p \in Files!Above(q), AtOrBelow(s, p), x = Files!Placed(s, d, p)
        PROVE  x \in DOMAIN new /\ new[x] = Files!Dir
    <3>1. p \in from /\ tree[p] = Files!Dir
      BY <2>2 DEF Rebasing, Tree
    <3>. QED
      BY <1>1, <2>2, <3>1 DEF Places
  <2>3. \/ x \in Files!Above(d)
        \/ \E p \in Files!Above(q) : AtOrBelow(s, p) /\ x = Files!Placed(s, d, p)
    <3>1. q \in Files!Path /\ s \in Files!Path /\ d \in Files!Path /\ AtOrBelow(s, q)
      BY DEF Rebasing, Tree
    <3>. QED
      BY <3>1, RebaseParents
  <2>. QED
    BY <2>1, <2>2, <2>3
<1>5. ASSUME NEW q \in DOMAIN new, NEW x \in Files!Above(q)
      PROVE  x \in DOMAIN new /\ new[x] = Files!Dir
  <2>1. CASE q \in DOMAIN tree \ from
    BY <1>3, <2>1
  <2>2. CASE q \in Places(from, s, d)
    <3>1. PICK p \in from : q = Files!Placed(s, d, p)
      BY <2>2 DEF Places
    <3>. QED
      BY <1>4, <3>1
  <2>. QED
    BY <1>1, <2>1, <2>2
<1>6. Tree(new)
  BY <1>2, <1>5 DEF Tree
<1>. QED
  BY <1>2, <1>6 DEF new

LEMMA SurvivesOn ==
  ASSUME NEW a, NEW b, NEW c, Survives(a, b), Survives(b, c)
  PROVE  Survives(a, c)
<1>1. PICK f \in [FilesOf(a) -> DOMAIN b] :
        \A p \in FilesOf(a) : b[f[p]] = a[p] /\ \A q \in FilesOf(a) : f[p] = f[q] => p = q
  BY DEF Survives
<1>2. PICK g \in [FilesOf(b) -> DOMAIN c] :
        \A p \in FilesOf(b) : c[g[p]] = b[p] /\ \A q \in FilesOf(b) : g[p] = g[q] => p = q
  BY DEF Survives
<1>3. \A p \in FilesOf(a) : f[p] \in FilesOf(b)
  BY <1>1 DEF FilesOf
<1>. DEFINE h == [p \in FilesOf(a) |-> g[f[p]]]
<1>4. h \in [FilesOf(a) -> DOMAIN c]
  BY <1>2, <1>3
<1>5. \A p \in FilesOf(a) : h[p] = g[f[p]]
  OBVIOUS
<1>. HIDE DEF h
<1>6. \A p \in FilesOf(a) : c[h[p]] = a[p] /\ \A q \in FilesOf(a) : h[p] = h[q] => p = q
  BY <1>1, <1>2, <1>3, <1>5
<1>. QED
  BY <1>4, <1>6 DEF Survives

(* move_path *)
LEMMA TreeMove ==
  ASSUME Tree(fs), NEW s \in Files!Path, NEW d \in Files!Path, s \in DOMAIN fs,
         Files!Makeable(Files!Above(d))
  PROVE  LET tree == Files!WithDirs(fs, Files!Above(d))
         IN  Tree(Files!Renamed(s, d, tree)) /\ Survives(fs, Files!Renamed(s, d, tree))
<1>. DEFINE tree == Files!WithDirs(fs, Files!Above(d))
<1>1. /\ Tree(tree) /\ Survives(fs, tree) /\ DOMAIN tree = DOMAIN fs \cup Files!Above(d)
      /\ \A q \in DOMAIN fs : tree[q] = fs[q]
      /\ \A q \in Files!Above(d) : tree[q] = Files!Dir
  BY TreeParents
<1>. HIDE DEF tree
<1>2. CASE d \in DOMAIN tree \/ Files!IsPrefix(s, d)
  BY <1>1, <1>2 DEF Files!Renamed, tree
<1>3. CASE ~(d \in DOMAIN tree \/ Files!IsPrefix(s, d))
  <2>. DEFINE from == {q \in DOMAIN tree : Files!IsPrefix(s, q)}
  <2>1. \A q \in DOMAIN tree : q \in from <=> AtOrBelow(s, q)
    BY <1>1, PrefixMeant DEF AtOrBelow, Tree
  <2>2. ~AtOrBelow(s, d)
    BY <1>3, PrefixMeant DEF AtOrBelow
  <2>3. Files!Renamed(s, d, tree) = Files!Relocated(tree, from, s, d)
    BY <1>3 DEF Files!Renamed, Files!Moved, Files!Relocated, Places, Files!Placed
  <2>4. from \subseteq DOMAIN tree
    OBVIOUS
  <2>. HIDE DEF from
  <2>5. Rebasing(tree, from, s, d)
    BY <2>1, <2>4 DEF Rebasing
  <2>6. ASSUME NEW q \in from PROVE Files!Placed(s, d, q) \notin DOMAIN tree
    <3>1. q \in Files!Path /\ AtOrBelow(s, q)
      BY <1>1, <2>1, <2>4 DEF Tree
    <3>2. AtOrBelow(d, Files!Placed(s, d, q))
      BY <3>1, RebaseBelow
    <3>. QED
      BY <1>1, <1>3, <3>2 DEF AtOrBelow, Tree
  <2>7. Clear(tree, from, s, d)
    BY <2>6 DEF Clear
  <2>8. ASSUME NEW q \in DOMAIN tree \ from, NEW x \in Files!Above(q) PROVE x \notin from
    BY <1>1, <2>1, <2>8, AboveOrdered DEF AtOrBelow, Tree
  <2>9. ASSUME NEW q \in from, NEW x \in Files!Above(q), AtOrBelow(s, x) PROVE x \in from
    BY <1>1, <2>1, <2>4, <2>9 DEF Tree
  <2>10. ASSUME NEW x \in Files!Above(d) PROVE x \in DOMAIN tree \ from /\ tree[x] = Files!Dir
    BY <1>1, <2>1, <2>2, AboveOrdered DEF AtOrBelow
  <2>11. Tree(Files!Relocated(tree, from, s, d)) /\ Survives(tree, Files!Relocated(tree, from, s, d))
    BY <1>1, <2>5, <2>7, <2>8, <2>9, <2>10, OverlayTree
  <2>12. Survives(fs, Files!Relocated(tree, from, s, d))
    BY <1>1, <2>11, SurvivesOn
  <2>. QED
    BY <2>3, <2>11, <2>12 DEF tree
<1>. QED
  BY <1>2, <1>3

----------------------------------------------------------------------------
(* _merge_legacy_volume: nothing is in the way of what it moves, and it    *)
(* keeps a tree and every file, also when the process dies in the middle.  *)
LEMMA LegacyMeant ==
  ASSUME Tree(fs)
  PROVE  /\ \A p : p \in Files!Legacy <=> p \in DOMAIN fs /\ AtOrBelow(LegacyRoot, p)
         /\ \A p \in DOMAIN fs : \A q \in Files!Above(p) : q \in Files!Legacy <=> p \in Files!Legacy
<1>1. \A p : p \in Files!Legacy <=> p \in DOMAIN fs /\ AtOrBelow(LegacyRoot, p)
  BY TargetMeant DEF Files!Legacy, Tree
<1>2. ASSUME NEW p \in DOMAIN fs, NEW q \in Files!Above(p)
      PROVE  q \in Files!Legacy <=> p \in Files!Legacy
  <2>1. p \in Files!Path /\ q \in DOMAIN fs
    BY DEF Tree
  <2>2. Head(q) = Head(p)
    BY <2>1, TargetMeant
  <2>. QED
    BY <2>1, <2>2 DEF Files!Legacy
<1>. QED
  BY <1>1, <1>2

LEMMA MigrationClear ==
  ASSUME Tree(fs), Files!Migrating, ~Files!Conflicts, NEW from \in SUBSET Files!Legacy
  PROVE  Rebasing(fs, from, LegacyRoot, VolumeRoot) /\ Clear(fs, from, LegacyRoot, VolumeRoot)
<1>1. Rebasing(fs, from, LegacyRoot, VolumeRoot)
  BY LegacyMeant, TargetMeant DEF Rebasing
<1>2. ASSUME NEW q \in from, Files!Placed(LegacyRoot, VolumeRoot, q) \in DOMAIN fs
      PROVE  fs[q] = Files!Dir /\ fs[Files!Placed(LegacyRoot, VolumeRoot, q)] = Files!Dir
  <2>1. q \in DOMAIN fs /\ q \in Files!Path /\ q \in Files!Legacy
    BY <1>1 DEF Rebasing, Tree
  <2>2. Files!Target(q) = Files!Placed(LegacyRoot, VolumeRoot, q)
    BY <2>1, TargetMeant
  <2>3. CASE q # LegacyRoot
    <3>1. Files!IsDir(q) /\ Files!IsDir(Files!Target(q))
      BY <1>2, <2>1, <2>2, <2>3 DEF Files!Conflicts, LegacyRoot
    <3>. QED
      BY <2>2, <3>1, KindsMeant
  <2>4. CASE q = LegacyRoot
    <3>1. fs[q] = Files!Dir
      BY <2>1, <2>4, KindsMeant DEF Files!Conflicts, LegacyRoot
    <3>2. fs[VolumeRoot] = Files!Dir
      BY KindsMeant DEF Files!Migrating, VolumeRoot
    <3>3. Files!Placed(LegacyRoot, VolumeRoot, q) = VolumeRoot
      <4>1. SubSeq(LegacyRoot, Len(LegacyRoot) + 1, Len(LegacyRoot)) = <<>>
        <5>1. Len(LegacyRoot) \in Int /\ Len(LegacyRoot) + 1 \in Int /\ Len(LegacyRoot) < Len(LegacyRoot) + 1
          BY TargetMeant DEF Files!Path
        <5>. QED
          BY <5>1, SubSeqEmpty
      <4>2. VolumeRoot \in Seq(STRING)
        BY TargetMeant DEF Files!Path
      <4>3. VolumeRoot \o <<>> = VolumeRoot
        BY <4>2, ConcatEmptySeq
      <4>. QED
        BY <2>4, <4>1, <4>3 DEF Files!Placed
    <3>. QED
      BY <3>1, <3>2, <3>3
  <2>. QED
    BY <2>3, <2>4
<1>. QED
  BY <1>1, <1>2 DEF Clear

LEMMA TreeMigration ==
  ASSUME Tree(fs), Files!Migrating, ~Files!Conflicts
  PROVE  Tree(Files!MigratedBy(Files!Legacy)) /\ Survives(fs, Files!MigratedBy(Files!Legacy))
<1>. DEFINE from == Files!Legacy
<1>1. Rebasing(fs, from, LegacyRoot, VolumeRoot) /\ Clear(fs, from, LegacyRoot, VolumeRoot)
  BY MigrationClear
<1>2. \A q \in DOMAIN fs \ from : \A x \in Files!Above(q) : x \notin from
  BY LegacyMeant
<1>3. \A q \in from : \A x \in Files!Above(q) : AtOrBelow(LegacyRoot, x) => x \in from
  BY LegacyMeant
<1>4. \A x \in Files!Above(VolumeRoot) : x \in DOMAIN fs \ from /\ fs[x] = Files!Dir
  BY TargetMeant
<1>5. Files!MigratedBy(from) = Files!Relocated(fs, from, LegacyRoot, VolumeRoot)
  BY DEF Files!MigratedBy, LegacyRoot, VolumeRoot
<1>. HIDE DEF from
<1>6. /\ Tree(Files!Relocated(fs, from, LegacyRoot, VolumeRoot))
      /\ Survives(fs, Files!Relocated(fs, from, LegacyRoot, VolumeRoot))
  BY <1>1, <1>2, <1>3, <1>4, OverlayTree
<1>. QED
  BY <1>5, <1>6 DEF from

LEMMA TreeDeath ==
  ASSUME Tree(fs), NEW files \in SUBSET {p \in Files!Legacy : Files!IsFile(p)},
         Files!DieMigrating(files)
  PROVE  Tree(fs') /\ Survives(fs, fs')
<1>. DEFINE over == Files!Relocated(fs, files, LegacyRoot, VolumeRoot)
            above == UNION {Files!Above(p) : p \in files}
            dirs == {Files!Target(q) : q \in above}
<1>1. Files!Migrating /\ ~Files!Conflicts /\ files \in SUBSET Files!Legacy
  BY DEF Files!DieMigrating
<1>2. fs' = Files!WithDirs(over, dirs)
  BY DEF Files!DieMigrating, Files!MigratedBy, LegacyRoot, VolumeRoot
<1>3. /\ Rebasing(fs, files, LegacyRoot, VolumeRoot) /\ Clear(fs, files, LegacyRoot, VolumeRoot)
      /\ Clear(fs, Files!Legacy, LegacyRoot, VolumeRoot)
  BY <1>1, MigrationClear
<1>4. ASSUME NEW p \in files
      PROVE  /\ p \in DOMAIN fs /\ fs[p] # Files!Dir /\ p \in Files!Path /\ AtOrBelow(LegacyRoot, p)
             /\ p \in Files!Legacy
  BY <1>1, KindsMeant, LegacyMeant DEF Tree
<1>5. ASSUME NEW q \in above
      PROVE  /\ q \in DOMAIN fs /\ fs[q] = Files!Dir /\ q \in Files!Path /\ AtOrBelow(LegacyRoot, q)
             /\ q \in Files!Legacy /\ Files!Target(q) = Files!Placed(LegacyRoot, VolumeRoot, q)
             /\ \E p \in files : q \in Files!Above(p)
  <2>1. PICK p \in files : q \in Files!Above(p)
    OBVIOUS
  <2>2. q \in DOMAIN fs /\ fs[q] = Files!Dir /\ q \in Files!Path
    BY <1>4, <2>1 DEF Tree
  <2>3. q \in Files!Legacy
    BY <1>4, <2>1, LegacyMeant
  <2>. QED
    BY <2>1, <2>2, <2>3, LegacyMeant, TargetMeant
<1>6. \A x \in dirs : \E q \in above : x = Files!Target(q)
  OBVIOUS
<1>7. \A q \in above : Files!Target(q) \in dirs
  OBVIOUS
<1>8. \A p \in files : \A q \in Files!Above(p) : q \in above
  OBVIOUS
<1>9. IsFiniteSet(dirs) /\ dirs \subseteq Files!Path
  <2>. DEFINE f == [q \in above |-> Files!Target(q)]
  <2>1. f \in Surjection(above, dirs)
    BY DEF Surjection
  <2>2. above \subseteq DOMAIN fs
    BY <1>5
  <2>. HIDE DEF above, dirs, f
  <2>3. IsFiniteSet(above)
    BY <2>2, FS_Subset DEF Tree
  <2>4. IsFiniteSet(dirs)
    BY <2>1, <2>3, FS_Surjection
  <2>5. ASSUME NEW q \in above PROVE Files!Target(q) \in Files!Path
    <3>1. Rebased(LegacyRoot, VolumeRoot, q, Files!Placed(LegacyRoot, VolumeRoot, q))
      BY <1>5, TargetMeant, RebaseMeant
    <3>. QED
      BY <1>5, <3>1 DEF Rebased
  <2>. QED
    BY <1>6, <2>4, <2>5
<1>10. Covers(fs, files, over) /\ Overlaid(fs, files, LegacyRoot, VolumeRoot, over)
  BY <1>3, OverlayKeeps, OverlayMeant
<1>. HIDE DEF over, above, dirs
<1>11. ASSUME NEW x \in dirs, x \in DOMAIN over PROVE over[x] = Files!Dir
  <2>1. PICK q \in above : x = Files!Placed(LegacyRoot, VolumeRoot, q)
    BY <1>5, <1>6
  <2>2. CASE x \in DOMAIN fs \ files
    <3>1. fs[x] = Files!Dir
      BY <1>3, <1>5, <2>1, <2>2 DEF Clear
    <3>. QED
      BY <1>10, <2>2, <3>1 DEF Covers
  <2>3. CASE x \in Places(files, LegacyRoot, VolumeRoot)
    <3>1. PICK p \in files : x = Files!Placed(LegacyRoot, VolumeRoot, p)
      BY <2>3 DEF Places
    <3>2. q = p
      BY <1>4, <1>5, <2>1, <3>1, RebaseInjective, TargetMeant
    <3>. QED
      BY <1>4, <1>5, <3>2
  <2>. QED
    BY <1>10, <1>11, <2>2, <2>3 DEF Overlaid
<1>12. ASSUME NEW p \in Files!Path, AtOrBelow(LegacyRoot, p), Files!Above(p) \subseteq above,
              NEW x \in Files!Above(Files!Placed(LegacyRoot, VolumeRoot, p))
       PROVE  x \in dirs
  <2>1. PICK q \in Files!Above(p) : AtOrBelow(LegacyRoot, q) /\ x = Files!Placed(LegacyRoot, VolumeRoot, q)
    BY <1>12, TargetMeant, RebaseParents
  <2>. QED
    BY <1>5, <1>7, <1>12, <2>1
<1>13. /\ DOMAIN fs' = DOMAIN over \cup dirs
       /\ \A q \in DOMAIN over : fs'[q] = over[q]
       /\ \A q \in dirs : fs'[q] = Files!Dir
  BY <1>2, <1>11 DEF Files!WithDirs
<1>14. IsFiniteSet(DOMAIN fs')
  BY <1>9, <1>10, <1>13, FS_Union DEF Covers
<1>15. ASSUME NEW q \in DOMAIN fs', NEW x \in Files!Above(q)
       PROVE  x \in DOMAIN fs' /\ fs'[x] = Files!Dir
  <2>1. CASE q \in dirs
    <3>1. PICK p \in above : q = Files!Placed(LegacyRoot, VolumeRoot, p)
      BY <1>5, <1>6, <2>1
    <3>2. p \in Files!Path /\ AtOrBelow(LegacyRoot, p)
      BY <1>5
    <3>3. Files!Above(p) \subseteq above
      <4>1. PICK r \in files : p \in Files!Above(r)
        BY <1>5
      <4>. QED
        BY <1>4, <1>8, <4>1, AboveOrdered
    <3>. QED
      BY <1>12, <1>13, <3>1, <3>2, <3>3
  <2>2. CASE q \in Places(files, LegacyRoot, VolumeRoot)
    <3>1. PICK p \in files : q = Files!Placed(LegacyRoot, VolumeRoot, p)
      BY <2>2 DEF Places
    <3>. QED
      BY <1>4, <1>8, <1>12, <1>13, <3>1
  <2>3. CASE q \in DOMAIN fs \ files
    <3>1. x \in DOMAIN fs /\ fs[x] = Files!Dir
      BY <2>3 DEF Tree
    <3>2. x \in DOMAIN fs \ files
      BY <1>4, <3>1
    <3>. QED
      BY <1>10, <1>13, <3>1, <3>2 DEF Covers, Overlaid
  <2>. QED
    BY <1>10, <1>13, <2>1, <2>2, <2>3 DEF Overlaid
<1>16. Tree(fs')
  BY <1>9, <1>10, <1>13, <1>14, <1>15 DEF Tree, Covers, Entry
<1>17. Survives(over, fs')
  <2>1. FilesOf(over) \subseteq DOMAIN fs' /\ \A p \in FilesOf(over) : fs'[p] = over[p]
    BY <1>13 DEF FilesOf
  <2>. QED
    BY <2>1, SupersetKeeps
<1>. QED
  BY <1>10, <1>16, <1>17, SurvivesOn DEF Covers

----------------------------------------------------------------------------
(* The handles.  Only one client goes on with an upload, unless it does so *)
(* from before a reset, when it adds strays.                               *)
Holder(c) == c \in Clients \ late

HandlesInv ==
  /\ next \in Nat \ {0} /\ held \in [Clients -> Nat]
  /\ \A h \in DOMAIN handles :
       /\ h \in 1..(next - 1)
       /\ handles[h] \in [path : Files!Path, overwrite : BOOLEAN,
                          buffer : SUBSET (Clients \cup {Files!Stray})]
       /\ Files!OneUpload(handles[h].buffer)
       /\ \A c \in Clients : Holder(c) /\ held[c] = h => handles[h].buffer \ {Files!Stray} \subseteq {c}
  /\ \A c \in Clients : Holder(c) => held[c] < next
  /\ \A c, d \in Clients : Holder(c) /\ Holder(d) /\ held[c] = held[d] /\ held[c] # 0 => c = d

FilesInv ==
  /\ Tree(fs) /\ HandlesInv
  /\ \A u \in uploads : u.path \in Files!Path

LEMMA FilesStart == Files!Init => FilesInv
<1>. SUFFICES ASSUME Files!Init PROVE FilesInv
  OBVIOUS
<1>1. Tree(fs)
  BY PathsAssumption, TreesAre DEF Files!Init
<1>2. /\ DOMAIN handles = {} /\ next = 1 /\ held = [c \in Clients |-> 0] /\ uploads = {}
  BY DEF Files!Init
<1>3. HandlesInv
  BY <1>2 DEF HandlesInv
<1>. QED
  BY <1>1, <1>2, <1>3 DEF FilesInv

LEMMA HandleCreated ==
  ASSUME HandlesInv, NEW c \in Clients, NEW p, NEW overwrite \in BOOLEAN,
         Files!CreateHandle(c, p, overwrite)
  PROVE  HandlesInv'
<1>1. /\ p \in Files!Path /\ next' = next + 1 /\ next \in Nat \ {0}
      /\ held' \in [Clients -> Nat] /\ held'[c] = next /\ late' = late \ {c}
      /\ \A d \in Clients : d # c => held'[d] = held[d]
      /\ DOMAIN handles' = DOMAIN handles \cup {next}
      /\ handles'[next] = [path |-> p, overwrite |-> overwrite, buffer |-> {}]
      /\ \A h \in DOMAIN handles : h # next => handles'[h] = handles[h]
  BY PathsAssumption DEF Files!CreateHandle, Files!Requested, HandlesInv
<1>2. next \notin DOMAIN handles
  BY <1>1 DEF HandlesInv
<1>3. \A d \in Clients : d # c => (Holder(d)' <=> Holder(d))
  BY <1>1 DEF Holder
<1>4. ASSUME NEW h \in DOMAIN handles'
      PROVE  /\ h \in 1..(next' - 1)
             /\ handles'[h] \in [path : Files!Path, overwrite : BOOLEAN,
                                 buffer : SUBSET (Clients \cup {Files!Stray})]
             /\ Files!OneUpload(handles'[h].buffer)
             /\ \A d \in Clients : Holder(d)' /\ held'[d] = h =>
                  handles'[h].buffer \ {Files!Stray} \subseteq {d}
  <2>1. CASE h = next
    BY <1>1, <2>1 DEF Files!OneUpload
  <2>2. CASE h # next
    <3>1. /\ h \in DOMAIN handles /\ handles'[h] = handles[h] /\ h \in 1..(next - 1)
      BY <1>1, <2>2 DEF HandlesInv
    <3>. QED
      BY <1>1, <1>3, <2>2, <3>1 DEF HandlesInv
  <2>. QED
    BY <2>1, <2>2
<1>5. ASSUME NEW d \in Clients, Holder(d)' PROVE held'[d] < next'
  BY <1>1, <1>3, <1>5 DEF HandlesInv
<1>6. ASSUME NEW d \in Clients, NEW e \in Clients, Holder(d)', Holder(e)',
             held'[d] = held'[e], held'[d] # 0
      PROVE  d = e
  BY <1>1, <1>3, <1>6 DEF HandlesInv
<1>. QED
  BY <1>1, <1>4, <1>5, <1>6 DEF HandlesInv

LEMMA BlockAdded ==
  ASSUME HandlesInv, NEW c \in Clients, Files!AddBlock(c)
  PROVE  HandlesInv'
<1>. DEFINE g == held[c]
            block == IF c \in late THEN Files!Stray ELSE c
<1>1. /\ g \in DOMAIN handles /\ UNCHANGED <<next, held, late>>
      /\ handles' = [handles EXCEPT ![g].buffer = @ \cup {block}]
  BY DEF Files!AddBlock
<1>2. handles[g] \in [path : Files!Path, overwrite : BOOLEAN,
                      buffer : SUBSET (Clients \cup {Files!Stray})]
  BY <1>1 DEF HandlesInv
<1>3. /\ DOMAIN handles' = DOMAIN handles
      /\ handles'[g].buffer = handles[g].buffer \cup {block}
      /\ handles'[g] \in [path : Files!Path, overwrite : BOOLEAN,
                          buffer : SUBSET (Clients \cup {Files!Stray})]
      /\ \A h \in DOMAIN handles : h # g => handles'[h] = handles[h]
  BY <1>1, <1>2
<1>4. g # 0 /\ \A d \in Clients : Holder(d)' <=> Holder(d)
  BY <1>1 DEF HandlesInv, Holder
<1>. HIDE DEF g
<1>5. Files!OneUpload(handles'[g].buffer)
  <2>1. CASE c \in late
    BY <1>1, <1>3, <2>1 DEF HandlesInv, Files!OneUpload
  <2>2. CASE c \notin late
    <3>1. handles[g].buffer \ {Files!Stray} \subseteq {c}
      BY <1>1, <2>2 DEF HandlesInv, Holder, g
    <3>. QED
      BY <1>3, <2>2, <3>1 DEF Files!OneUpload
  <2>. QED
    BY <2>1, <2>2
<1>6. ASSUME NEW d \in Clients, Holder(d), held[d] = g
      PROVE  handles'[g].buffer \ {Files!Stray} \subseteq {d}
  <2>1. handles[g].buffer \ {Files!Stray} \subseteq {d}
    BY <1>1, <1>6 DEF HandlesInv
  <2>2. CASE c \in late
    BY <1>3, <2>1, <2>2
  <2>3. CASE c \notin late
    <3>1. c = d
      BY <1>4, <1>6, <2>3 DEF HandlesInv, Holder, g
    <3>. QED
      BY <1>3, <2>1, <2>3, <3>1
  <2>. QED
    BY <2>2, <2>3
<1>7. ASSUME NEW h \in DOMAIN handles'
      PROVE  /\ h \in 1..(next' - 1)
             /\ handles'[h] \in [path : Files!Path, overwrite : BOOLEAN,
                                 buffer : SUBSET (Clients \cup {Files!Stray})]
             /\ Files!OneUpload(handles'[h].buffer)
             /\ \A d \in Clients : Holder(d)' /\ held'[d] = h =>
                  handles'[h].buffer \ {Files!Stray} \subseteq {d}
  <2>1. CASE h = g
    BY <1>1, <1>3, <1>4, <1>5, <1>6, <2>1 DEF HandlesInv
  <2>2. CASE h # g
    BY <1>1, <1>3, <1>4, <2>2 DEF HandlesInv
  <2>. QED
    BY <2>1, <2>2
<1>. QED
  BY <1>1, <1>4, <1>7 DEF HandlesInv

LEMMA HandleClosed ==
  ASSUME HandlesInv, NEW c \in Clients, Files!CloseHandle(c)
  PROVE  HandlesInv'
<1>1. UNCHANGED <<next, late>>
  BY DEF Files!CloseHandle
<1>2. CASE UNCHANGED <<handles, held>>
  BY <1>1, <1>2 DEF HandlesInv, Holder
<1>3. CASE /\ handles' = [k \in DOMAIN handles \ {held[c]} |-> handles[k]]
           /\ held' = [held EXCEPT ![c] = 0]
  <2>1. /\ DOMAIN handles' \subseteq DOMAIN handles
        /\ \A h \in DOMAIN handles' : handles'[h] = handles[h] /\ h # 0
        /\ held' \in [Clients -> Nat] /\ held'[c] = 0
        /\ \A d \in Clients : d # c => held'[d] = held[d]
        /\ \A d \in Clients : Holder(d)' <=> Holder(d)
    BY <1>1, <1>3 DEF HandlesInv, Holder
  <2>2. \A d \in Clients : Holder(d) => held'[d] < next
    BY <2>1 DEF HandlesInv
  <2>3. \A d, e \in Clients : Holder(d) /\ Holder(e) /\ held'[d] = held'[e] /\ held'[d] # 0 => d = e
    BY <2>1 DEF HandlesInv
  <2>4. ASSUME NEW h \in DOMAIN handles', NEW d \in Clients, Holder(d), held'[d] = h
        PROVE  handles'[h].buffer \ {Files!Stray} \subseteq {d}
    BY <2>1, <2>4 DEF HandlesInv
  <2>. QED
    BY <1>1, <2>1, <2>2, <2>3, <2>4 DEF HandlesInv
<1>. QED
  BY <1>2, <1>3 DEF Files!CloseHandle

LEMMA HandlesSteps == HandlesInv /\ Files!Next => HandlesInv'
<1>. SUFFICES ASSUME HandlesInv, Files!Next PROVE HandlesInv'
  OBVIOUS
<1>1. ASSUME UNCHANGED <<handles, next, held, late>> PROVE HandlesInv'
  BY <1>1 DEF HandlesInv, Holder
<1>2. DOMAIN <<>> = {}
  OBVIOUS
<1>3. CASE Files!Shutdown
  <2>1. DOMAIN handles' = {} /\ UNCHANGED <<next, held, late>>
    BY <1>2, <1>3 DEF Files!Shutdown, Files!RestoredCounter
  <2>. QED
    BY <2>1 DEF HandlesInv, Holder
<1>4. ASSUME NEW full, Files!Reset(full) PROVE HandlesInv'
  <2>1. /\ DOMAIN handles' = {} /\ next' = 1 /\ UNCHANGED held
        /\ late' = {c \in Clients : held[c] # 0}
    BY <1>2, <1>4 DEF Files!Reset
  <2>. QED
    BY <2>1 DEF HandlesInv, Holder
<1>5. ASSUME NEW c, NEW p, NEW overwrite, NEW valid,
             \/ Files!StartUpload(c, p, overwrite) \/ Files!Put(c, p, overwrite, valid)
      PROVE  HandlesInv'
  BY <1>1, <1>5 DEF Files!StartUpload, Files!Put
<1>6. ASSUME NEW p, NEW q, NEW recursive,
             Files!Mkdirs(p) \/ Files!Delete(p, recursive) \/ Files!Move(p, q) \/ Files!FinishUpload(p)
      PROVE  HandlesInv'
  BY <1>1, <1>6 DEF Files!Mkdirs, Files!Delete, Files!Move, Files!FinishUpload
<1>7. CASE Files!CreateVolume \/ Files!DeleteVolume \/ Files!Startup
  BY <1>1, <1>7 DEF Files!CreateVolume, Files!DeleteVolume, Files!Startup
<1>8. ASSUME NEW files, Files!DieMigrating(files) PROVE HandlesInv'
  BY <1>1, <1>8 DEF Files!DieMigrating
<1>. QED
  BY <1>3, <1>4, <1>5, <1>6, <1>7, <1>8, HandleCreated, BlockAdded, HandleClosed
     DEF Files!Next, Files!Request, Files!Lifecycle

----------------------------------------------------------------------------
(* Each step leaves a tree, and all files in it, unless it is one that     *)
(* deletes or overwrites.                                                  *)
LEMMA LossesMeant ==
  ASSUME Tree(fs), Tree(fs'), Survives(fs, fs')
  PROVE  Files!LosesNothing
  BY SurvivalCounts DEF Files!LosesNothing

LEMMA UnchangedTree == ASSUME Tree(fs), UNCHANGED fs PROVE Tree(fs') /\ Files!LosesNothing
<1>1. Tree(fs') /\ \A p \in FilesOf(fs) : fs'[p] = fs[p]
  OBVIOUS
<1>2. FilesOf(fs) \subseteq DOMAIN fs'
  BY DEF FilesOf
<1>. QED
  BY <1>1, <1>2, SupersetKeeps, LossesMeant

LEMMA CloseKeeps ==
  ASSUME FilesInv, NEW c \in Clients, Files!CloseHandle(c)
  PROVE  Tree(fs') /\ Files!LosesNothing
<1>. DEFINE entry == handles[held[c]]
<1>1. /\ held[c] \in DOMAIN handles /\ Files!Makeable(Files!Above(entry.path))
      /\ entry.overwrite => ~Files!IsDir(entry.path)
      /\ fs' = IF entry.overwrite THEN Files!WithFile(entry.path, entry.buffer)
               ELSE Files!Publish(entry.path, entry.buffer)
  BY DEF Files!CloseHandle
<1>2. /\ entry.path \in Files!Path /\ entry.overwrite \in BOOLEAN
      /\ Files!OneUpload(entry.buffer) /\ Tree(fs)
  BY <1>1 DEF FilesInv, HandlesInv
<1>. HIDE DEF entry
<1>3. CASE entry.overwrite
  <2>1. Tree(fs')
    BY <1>1, <1>2, <1>3, TreeFile
  <2>2. Files!LosesNothing
    BY <1>3 DEF Files!LosesNothing, entry
  <2>. QED
    BY <2>1, <2>2
<1>4. CASE ~entry.overwrite /\ entry.path \in DOMAIN fs
  BY <1>1, <1>2, <1>4, UnchangedTree DEF Files!Publish
<1>5. CASE ~entry.overwrite /\ entry.path \notin DOMAIN fs
  <2>1. fs' = Files!WithFile(entry.path, entry.buffer) /\ ~Files!IsDir(entry.path)
    BY <1>1, <1>5 DEF Files!Publish, Files!IsDir
  <2>2. Tree(fs') /\ Survives(fs, fs')
    BY <1>1, <1>2, <1>5, <2>1, TreeFile
  <2>. QED
    BY <1>2, <2>2, LossesMeant
<1>. QED
  BY <1>2, <1>3, <1>4, <1>5

LEMMA PutKeeps ==
  ASSUME FilesInv, NEW c \in Clients, NEW p \in TreePaths,
         NEW overwrite \in BOOLEAN, NEW valid \in BOOLEAN, Files!Put(c, p, overwrite, valid)
  PROVE  Tree(fs') /\ Files!LosesNothing
<1>1. /\ p \in Files!Path /\ Files!Makeable(Files!Above(p)) /\ Tree(fs)
      /\ p \in DOMAIN fs => overwrite
      /\ Files!OneUpload({c})
  BY PathsAssumption DEF Files!Put, FilesInv, Files!OneUpload
<1>2. CASE ~valid
  <2>1. fs' = Files!WithDirs(fs, Files!Above(p))
    BY <1>2 DEF Files!Put
  <2>2. Tree(fs') /\ Survives(fs, fs')
    BY <1>1, <2>1, TreeParents
  <2>. QED
    BY <1>1, <2>2, LossesMeant
<1>3. CASE valid
  <2>1. fs' = Files!WithFile(p, {c}) /\ ~Files!IsDir(p)
    BY <1>3 DEF Files!Put
  <2>2. Tree(fs') /\ (p \notin DOMAIN fs => Survives(fs, fs'))
    BY <1>1, <2>1, TreeFile
  <2>3. CASE overwrite
    <3>1. Files!Put(c, p, TRUE, TRUE)
      BY <1>3, <2>3
    <3>. QED
      BY <2>2, <3>1 DEF Files!LosesNothing
  <2>4. CASE ~overwrite
    BY <1>1, <2>2, <2>4, LossesMeant
  <2>. QED
    BY <2>3, <2>4
<1>. QED
  BY <1>2, <1>3

LEMMA MakesDirs ==
  ASSUME Tree(fs), NEW p \in Files!Path, NEW dirs, Files!Makeable(dirs),
         dirs \in {Files!Above(p), Files!Above(p) \cup {p}}, fs' = Files!WithDirs(fs, dirs)
  PROVE  Tree(fs') /\ Files!LosesNothing
<1>1. Tree(Files!WithDirs(fs, dirs)) /\ Survives(fs, Files!WithDirs(fs, dirs))
  BY TreeParents
<1>. QED
  BY <1>1, LossesMeant

LEMMA TreeSteps == FilesInv /\ Files!Next => Tree(fs') /\ Files!LosesNothing
<1>. SUFFICES ASSUME FilesInv, Files!Next PROVE Tree(fs') /\ Files!LosesNothing
  OBVIOUS
<1>0. Tree(fs) /\ TreePaths \subseteq Files!Path /\ VolumeRoot \in Files!Path
  BY PathsAssumption, TargetMeant DEF FilesInv
<1>1. ASSUME NEW c \in Clients, NEW p \in TreePaths, NEW overwrite \in BOOLEAN,
             Files!StartUpload(c, p, overwrite)
      PROVE  Tree(fs') /\ Files!LosesNothing
  <2>1. Files!Makeable(Files!Above(p)) /\ fs' = Files!WithDirs(fs, Files!Above(p)) /\ p \in Files!Path
    BY <1>0, <1>1 DEF Files!StartUpload
  <2>. QED
    BY <1>0, <2>1, MakesDirs
<1>2. ASSUME NEW p \in TreePaths, Files!Mkdirs(p) PROVE Tree(fs') /\ Files!LosesNothing
  <2>. DEFINE dirs == Files!Above(p) \cup {p}
  <2>1. /\ Files!Makeable(dirs) /\ fs' = Files!WithDirs(fs, dirs) /\ p \in Files!Path
        /\ dirs \in {Files!Above(p), Files!Above(p) \cup {p}}
    BY <1>0, <1>2 DEF Files!Mkdirs
  <2>. HIDE DEF dirs
  <2>. QED
    BY <1>0, <2>1, MakesDirs
<1>3. ASSUME NEW p \in TreePaths, NEW recursive \in BOOLEAN, Files!Delete(p, recursive)
      PROVE  Tree(fs') /\ Files!LosesNothing
  <2>1. Tree(fs')
    BY <1>0, <1>3, TreeBelow DEF Files!Delete
  <2>2. Files!Delete(p, TRUE) \/ Files!Delete(p, FALSE)
    <3>1. recursive = TRUE \/ recursive = FALSE
      OBVIOUS
    <3>. QED
      BY <1>3, <3>1
  <2>. QED
    BY <2>1, <2>2 DEF Files!LosesNothing
<1>4. ASSUME NEW s \in TreePaths, NEW d \in TreePaths, Files!Move(s, d)
      PROVE  Tree(fs') /\ Files!LosesNothing
  <2>1. /\ s \in DOMAIN fs /\ Files!Makeable(Files!Above(d))
        /\ fs' = Files!Renamed(s, d, Files!WithDirs(fs, Files!Above(d)))
    BY <1>4 DEF Files!Move
  <2>2. Tree(fs') /\ Survives(fs, fs')
    BY <1>0, <2>1, TreeMove
  <2>. QED
    BY <1>0, <2>2, LossesMeant
<1>5. ASSUME NEW u \in uploads, Files!FinishUpload(u) PROVE Tree(fs') /\ Files!LosesNothing
  <2>1. CASE UNCHANGED fs
    BY <1>0, <2>1, UnchangedTree
  <2>2. CASE /\ \A q \in Files!Above(u.path) : Files!IsDir(q)
             /\ ~Files!IsDir(u.path) /\ fs' = Files!WithFile(u.path, {u.client})
    <3>1. u.path \in Files!Path /\ Files!OneUpload({u.client})
      BY DEF FilesInv, Files!OneUpload
    <3>2. Files!Makeable(Files!Above(u.path))
      BY <1>0, <2>2, KindsMeant DEF Files!Makeable
    <3>3. Tree(fs')
      BY <1>0, <2>2, <3>1, <3>2, TreeFile
    <3>. QED
      BY <1>5, <3>3 DEF Files!LosesNothing
  <2>. QED
    BY <1>5, <2>1, <2>2 DEF Files!FinishUpload
<1>6. CASE Files!CreateVolume
  <2>. DEFINE dirs == {VolumeRoot}
  <2>1. /\ dirs = Files!Above(VolumeRoot) \cup {VolumeRoot}
        /\ fs' = Files!WithDirs(fs, dirs) /\ VolumeRoot \notin DOMAIN fs
    BY <1>6, TargetMeant DEF Files!CreateVolume, VolumeRoot
  <2>2. Files!Makeable(dirs)
    BY <2>1 DEF Files!Makeable, Files!IsFile
  <2>. HIDE DEF dirs
  <2>. QED
    BY <1>0, <2>1, <2>2, MakesDirs
<1>7. CASE Files!DeleteVolume
  <2>1. Tree(fs')
    BY <1>0, <1>7, TreeBelow DEF Files!DeleteVolume, VolumeRoot
  <2>. QED
    BY <1>7, <2>1 DEF Files!LosesNothing
<1>8. CASE Files!Startup
  <2>1. CASE Files!Migrating
    <3>1. ~Files!Conflicts /\ fs' = Files!MigratedBy(Files!Legacy)
      BY <1>8, <2>1 DEF Files!Startup
    <3>2. Tree(fs') /\ Survives(fs, fs')
      BY <1>0, <2>1, <3>1, TreeMigration
    <3>. QED
      BY <1>0, <3>2, LossesMeant
  <2>2. CASE ~Files!Migrating
    BY <1>0, <1>8, <2>2, UnchangedTree DEF Files!Startup
  <2>. QED
    BY <2>1, <2>2
<1>9. ASSUME NEW files \in SUBSET {p \in Files!Legacy : Files!IsFile(p)}, Files!DieMigrating(files)
      PROVE  Tree(fs') /\ Files!LosesNothing
  BY <1>0, <1>9, TreeDeath, LossesMeant
<1>10. ASSUME NEW full \in BOOLEAN, Files!Reset(full) PROVE Tree(fs') /\ Files!LosesNothing
  <2>. DEFINE gone == {p \in DOMAIN fs : full \/ Head(p) # "volume"}
  <2>1. ASSUME NEW q \in DOMAIN fs, NEW r \in Files!Above(q), r \in gone PROVE q \in gone
    <3>1. Head(r) = Head(q)
      BY <1>0, TargetMeant DEF Tree
    <3>. QED
      BY <2>1, <3>1
  <2>2. fs' = Files!Without(gone)
    BY <1>10 DEF Files!Reset
  <2>. HIDE DEF gone
  <2>3. Tree(fs')
    BY <1>0, <2>1, <2>2, TreeWithout
  <2>. QED
    BY <1>10, <2>3 DEF Files!LosesNothing
<1>11. CASE Files!Shutdown
  BY <1>0, <1>11, UnchangedTree DEF Files!Shutdown
<1>12. ASSUME NEW c, NEW p, NEW overwrite, Files!CreateHandle(c, p, overwrite) \/ Files!AddBlock(c)
       PROVE  Tree(fs') /\ Files!LosesNothing
  BY <1>0, <1>12, UnchangedTree DEF Files!CreateHandle, Files!AddBlock
<1>13. CASE Files!Request
  BY <1>1, <1>2, <1>3, <1>4, <1>5, <1>6, <1>7, <1>12, <1>13, CloseKeeps, PutKeeps DEF Files!Request
<1>14. CASE Files!Lifecycle
  BY <1>8, <1>9, <1>11, <1>14 DEF Files!Lifecycle
<1>. QED
  BY <1>10, <1>13, <1>14 DEF Files!Next

LEMMA FilesSteps == FilesInv /\ Files!Next => FilesInv' /\ Files!LosesNothing
<1>. SUFFICES ASSUME FilesInv, Files!Next PROVE FilesInv' /\ Files!LosesNothing
  OBVIOUS
<1>1. Tree(fs') /\ Files!LosesNothing
  BY TreeSteps
<1>2. HandlesInv'
  BY HandlesSteps DEF FilesInv
<1>3. ASSUME uploads' \subseteq uploads PROVE FilesInv'
  BY <1>1, <1>2, <1>3 DEF FilesInv
<1>4. ASSUME NEW c, NEW p \in TreePaths, NEW overwrite, Files!StartUpload(c, p, overwrite)
      PROVE  FilesInv'
  <2>1. uploads' = uploads \cup {[client |-> c, path |-> p]} /\ p \in Files!Path
    BY <1>4, PathsAssumption DEF Files!StartUpload
  <2>. QED
    BY <1>1, <1>2, <2>1 DEF FilesInv
<1>5. ASSUME NEW c, NEW p, NEW overwrite, NEW valid,
             \/ Files!CreateHandle(c, p, overwrite) \/ Files!Put(c, p, overwrite, valid)
             \/ Files!AddBlock(c) \/ Files!CloseHandle(c)
      PROVE  FilesInv'
  BY <1>3, <1>5 DEF Files!CreateHandle, Files!Put, Files!AddBlock, Files!CloseHandle
<1>6. ASSUME NEW p, NEW q, NEW recursive,
             Files!Mkdirs(p) \/ Files!Delete(p, recursive) \/ Files!Move(p, q) \/ Files!FinishUpload(p)
      PROVE  FilesInv'
  BY <1>3, <1>6 DEF Files!Mkdirs, Files!Delete, Files!Move, Files!FinishUpload
<1>7. CASE Files!CreateVolume \/ Files!DeleteVolume
  BY <1>1, <1>3, <1>7 DEF Files!CreateVolume, Files!DeleteVolume
<1>10. CASE Files!Startup
  BY <1>1, <1>3, <1>10 DEF Files!Startup
<1>11. CASE Files!Shutdown
  <2>1. uploads' \subseteq uploads
    BY <1>11 DEF Files!Shutdown
  <2>. QED
    BY <1>1, <1>3, <2>1
<1>8. ASSUME NEW files, NEW full, Files!DieMigrating(files) \/ Files!Reset(full) PROVE FilesInv'
  BY <1>3, <1>8 DEF Files!DieMigrating, Files!Reset
<1>9. FilesInv'
  BY <1>4, <1>5, <1>6, <1>7, <1>8, <1>10, <1>11 DEF Files!Next, Files!Request, Files!Lifecycle
<1>. QED
  BY <1>1, <1>9

LEMMA FilesHold == Spec => [](service = "Files" => FilesInv)
<1>. DEFINE Inv == service = "Files" => FilesInv
<1>1. Init => Inv
  BY FilesStart DEF Init
<1>2. Inv /\ [Next]_vars => Inv'
  <2>1. Next => UNCHANGED service /\ (service = "Files" => Files!Next)
    BY DEF Next
  <2>2. UNCHANGED vars => UNCHANGED service /\ (FilesInv => FilesInv')
    BY DEF vars, filesVars, FilesInv, HandlesInv, Holder
  <2>. QED
    BY <2>1, <2>2, FilesSteps
<1>. QED
  BY <1>1, <1>2, PTL DEF Spec

(* For any clients, paths and disks, no file ever holds blocks of two      *)
(* uploads, but for those of a client that goes on with a handle from      *)
(* before a reset (the handle table of dbfs.py).                           *)
THEOREM UploadsStayUnmixed == Spec => []UploadsUnmixed
<1>1. (service = "Files" => FilesInv) => UploadsUnmixed
  <2>. SUFFICES ASSUME service = "Files", FilesInv, NEW p \in DOMAIN fs
                PROVE  Files!Cardinality(fs[p].by \ {Files!Stray}) <= 1
    BY DEF UploadsUnmixed, Files!UploadsUnmixed
  <2>. DEFINE blocks == fs[p].by \ {Files!Stray}
  <2>1. \A a, b \in blocks : a = b
    BY EntryMeant DEF FilesInv, Tree, Files!OneUpload
  <2>2. Files!Cardinality(blocks) = Cardinality(blocks)
    BY DEF Files!Cardinality, Cardinality
  <2>3. blocks = {} \/ \E a : blocks = {a}
    BY <2>1
  <2>. HIDE DEF blocks
  <2>4. Cardinality(blocks) <= 1
    <3>1. CASE blocks = {}
      BY <3>1, FS_EmptySet
    <3>2. ASSUME NEW a, blocks = {a} PROVE Cardinality(blocks) <= 1
      <4>1. Cardinality({a}) = 1
        BY FS_Singleton
      <4>. QED
        BY <3>2, <4>1
    <3>. QED
      BY <2>3, <3>1, <3>2
  <2>. QED
    BY <2>2, <2>4 DEF blocks
<1>. QED
  BY <1>1, FilesHold, PTL

(* For any clients, paths and disks, the file system loses no content but  *)
(* to a request to delete or to overwrite it, a full or partial reset, and *)
(* the late write of upload_file: no move, no upload that lost its race    *)
(* and no migration, finished or not, ever does                            *)
(* (_rename_without_replace of dbfs.py, volume_paths.py).                  *)
THEOREM NothingIsLost == Spec => NothingLost
<1>1. (service = "Files" => FilesInv) /\ [Next]_vars => [service = "Files" => Files!LosesNothing]_vars
  <2>1. Next => (service = "Files" => Files!Next)
    BY DEF Next
  <2>. QED
    BY <2>1, FilesSteps
<1>. QED
  BY <1>1, FilesHold, PTL DEF Spec, NothingLost

----------------------------------------------------------------------------
(* Alerts.                                                                 *)
JudgeInv ==
  /\ scope \in Scopes
  /\ \A i \in DOMAIN alerts :
       /\ alerts[i].condition.op = Alerts!Translated(alerts[i].symbol)
       /\ alerts[i].condition.empty = "UNKNOWN"
       /\ alerts[i].condition.value.n \in Nat
  /\ Alerts!AlertsJudged

LEMMA JudgeStarts == Alerts!Init => JudgeInv
<1>1. DOMAIN <<>> = {}
  OBVIOUS
<1>. QED
  BY <1>1 DEF Alerts!Init, Alerts!NotJudged, JudgeInv, Alerts!AlertsJudged, Alerts!LegacyToModern

(* A symbol of the legacy API compares two numbers, as floats, as the      *)
(* operator it is translated to does.                                      *)
LEMMA SymbolMeant ==
  ASSUME NEW symbol \in DOMAIN Alerts!LegacyToModern, NEW a, NEW b, Alerts!Numeric(a, b)
  PROVE  Alerts!Compared(Alerts!Translated(symbol), a, b) =
           Alerts!Holds(symbol, Alerts!Float(a.n), Alerts!Float(b.n))
<1>1. Alerts!Numeric(b, a) /\ "bool" \notin {a.kind, b.kind} /\ "bool" \notin {b.kind, a.kind}
  BY DEF Alerts!Numeric
<1>2. Alerts!Coerced(a, b) = Alerts!Float(a.n) /\ Alerts!Coerced(b, a) = Alerts!Float(b.n)
  BY <1>1 DEF Alerts!Coerced
<1>3. symbol \in {">", ">=", "<", "<=", "==", "=", "!="}
  BY DEF Alerts!LegacyToModern
<1>4. Alerts!Translated(symbol) = Alerts!LegacyToModern[symbol]
  BY DEF Alerts!Translated
<1>. HIDE DEF Alerts!Float
<1>. QED
  BY <1>2, <1>3, <1>4 DEF Alerts!LegacyToModern, Alerts!Compared, Alerts!Ordered, Alerts!Holds

(* Rounding is exact up to Exact, and never turns an order round.          *)
LEMMA FloatMeant ==
  ASSUME NEW x \in Nat, NEW y \in Nat
  PROVE  /\ Alerts!Float(x) \in Int /\ (x <= Exact => Alerts!Float(x) = x)
         /\ x <= y => Alerts!Float(x) <= Alerts!Float(y)
<1>1. Exact \in Nat
  BY ServerAssumption
<1>2. ASSUME NEW n \in Nat, n <= Exact
      PROVE  Alerts!Float(n) = n
  <2>1. n <= Exact /\ ~(n > Exact)
    BY <1>1, <1>2
  <2>. QED
    BY <2>1 DEF Alerts!Float
<1>3. ASSUME NEW n \in Nat
      PROVE  \/ Alerts!Float(n) = n
             \/ n % 4 = 3 /\ Alerts!Float(n) = n + 1
             \/ n % 4 = 1 /\ Alerts!Float(n) = n - 1
  <2>1. CASE n <= Exact \/ n % 2 = 0
    BY <2>1 DEF Alerts!Float
  <2>2. CASE ~(n <= Exact \/ n % 2 = 0)
    <3>1. n > Exact /\ (n % 4 = 1 \/ n % 4 = 3)
      BY <1>1, <1>3, <2>2
    <3>2. CASE n % 4 = 1
      BY <2>2, <3>1, <3>2 DEF Alerts!Float
    <3>3. CASE n % 4 = 3
      BY <2>2, <3>1, <3>3 DEF Alerts!Float
    <3>. QED
      BY <3>1, <3>2, <3>3
  <2>. QED
    BY <2>1, <2>2
<1>4. Alerts!Float(x) \in Int /\ Alerts!Float(y) \in Int
  <2>1. x \in Int /\ x - 1 \in Int /\ x + 1 \in Int /\ y \in Int /\ y - 1 \in Int /\ y + 1 \in Int
    OBVIOUS
  <2>. QED
    BY <1>3, <2>1
<1>5. ASSUME x <= y PROVE Alerts!Float(x) <= Alerts!Float(y)
  <2>. DEFINE f == Alerts!Float(x)
              g == Alerts!Float(y)
  <2>1. /\ f = x \/ (x % 4 = 3 /\ f = x + 1) \/ (x % 4 = 1 /\ f = x - 1)
        /\ g = y \/ (y % 4 = 3 /\ g = y + 1) \/ (y % 4 = 1 /\ g = y - 1)
    BY <1>3
  <2>2. CASE x = y
    BY <1>4, <2>2
  <2>3. CASE x # y /\ ~(f = x + 1 /\ g = y - 1)
    <3>. HIDE DEF f, g
    <3>1. f = x \/ f = x + 1 \/ f = x - 1
      BY <2>1
    <3>2. g = y \/ g = y + 1 \/ g = y - 1
      BY <2>1
    <3>3. f <= g
      BY <1>5, <2>3, <3>1, <3>2
    <3>. QED
      BY <3>3 DEF f, g
  <2>4. CASE x # y /\ f = x + 1 /\ g = y - 1
    <3>1. x % 4 = 3 /\ y % 4 = 1
      <4>1. x + 1 # x /\ x + 1 # x - 1 /\ y - 1 # y /\ y - 1 # y + 1
        OBVIOUS
      <4>. HIDE DEF f, g
      <4>. QED
        BY <2>1, <2>4, <4>1
    <3>2. y # x + 1
      BY <3>1
    <3>3. x + 1 <= y - 1
      BY <1>5, <2>4, <3>2
    <3>. QED
      BY <2>4, <3>3
  <2>. QED
    BY <2>2, <2>3, <2>4
<1>. QED
  BY <1>2, <1>4, <1>5

(* Two numbers compare as floats as they do exactly, or one is beyond      *)
(* Exact and the floats are equal though the numbers are not.              *)
LEMMA FloatsCompare ==
  ASSUME NEW symbol \in DOMAIN Alerts!LegacyToModern, NEW x \in Nat, NEW y \in Nat
  PROVE  LET fires == Alerts!Holds(symbol, Alerts!Float(x), Alerts!Float(y))
         IN \/ fires <=> Alerts!Holds(symbol, x, y)
            \/ x # y /\ (x > Exact \/ y > Exact) /\ (fires <=> Alerts!Holds(symbol, x, x))
<1>1. symbol \in {">", ">=", "<", "<=", "==", "=", "!="} /\ Exact \in Nat
  BY ServerAssumption DEF Alerts!LegacyToModern
<1>2. /\ Alerts!Float(x) \in Int /\ Alerts!Float(y) \in Int
      /\ x <= Exact => Alerts!Float(x) = x
      /\ y <= Exact => Alerts!Float(y) = y
      /\ x <= y => Alerts!Float(x) <= Alerts!Float(y)
      /\ y <= x => Alerts!Float(y) <= Alerts!Float(x)
  BY FloatMeant
<1>. HIDE DEF Alerts!Float
<1>3. CASE Alerts!Float(x) = Alerts!Float(y)
  <2>1. x # y => x > Exact \/ y > Exact
    BY <1>1, <1>2, <1>3
  <2>2. Alerts!Holds(symbol, Alerts!Float(x), Alerts!Float(y)) <=> Alerts!Holds(symbol, x, x)
    BY <1>1, <1>2, <1>3 DEF Alerts!Holds
  <2>. QED
    BY <2>1, <2>2
<1>4. CASE Alerts!Float(x) < Alerts!Float(y)
  <2>1. x < y
    BY <1>2, <1>4
  <2>. QED
    BY <1>1, <1>2, <1>4, <2>1 DEF Alerts!Holds
<1>5. CASE Alerts!Float(y) < Alerts!Float(x)
  <2>1. y < x
    BY <1>2, <1>5
  <2>. QED
    BY <1>1, <1>2, <1>5, <2>1 DEF Alerts!Holds
<1>. QED
  BY <1>2, <1>3, <1>4, <1>5

(* The judgement of an alert in the form its client wrote it.              *)
LEMMA JudgementMeant ==
  ASSUME NEW symbol \in DOMAIN Alerts!LegacyToModern, NEW condition, NEW observed,
         condition.op = Alerts!Translated(symbol), condition.empty = "UNKNOWN",
         condition.column # "none",
         Alerts!Judgement(condition, observed) \in {"OK", "TRIGGERED"}
  PROVE  /\ Alerts!Judgement(condition, observed) = "TRIGGERED" =>
              observed # Alerts!Null /\ condition.value # Alerts!NoValue
         /\ Alerts!Numeric(observed, condition.value) =>
              (Alerts!Judgement(condition, observed) = "TRIGGERED" <=>
                 Alerts!Holds(symbol, Alerts!Float(observed.n), Alerts!Float(condition.value.n)))
<1>1. Alerts!Translated(symbol) \notin {"none", "IS_NULL", "IS_NOT_NULL"}
  BY DEF Alerts!Translated, Alerts!LegacyToModern
<1>2. observed # Alerts!NoValue
  BY DEF Alerts!Judgement
<1>3. Alerts!Judgement(condition, observed) = "TRIGGERED" <=> Alerts!Triggered(condition, observed)
  BY <1>1, <1>2 DEF Alerts!Judgement
<1>4. Alerts!Triggered(condition, observed) <=>
        /\ observed # Alerts!Null /\ condition.value # Alerts!NoValue
        /\ Alerts!Compared(Alerts!Translated(symbol), observed, condition.value)
  BY <1>1 DEF Alerts!Triggered
<1>5. ASSUME Alerts!Numeric(observed, condition.value)
      PROVE  /\ observed # Alerts!Null /\ condition.value # Alerts!NoValue
             /\ Alerts!Compared(Alerts!Translated(symbol), observed, condition.value) =
                  Alerts!Holds(symbol, Alerts!Float(observed.n), Alerts!Float(condition.value.n))
  BY <1>5, SymbolMeant DEF Alerts!Null, Alerts!NoValue, Alerts!Numeric
<1>. QED
  BY <1>3, <1>4, <1>5

LEMMA JudgeSteps == JudgeInv /\ Alerts!Next => JudgeInv'
<1>. SUFFICES ASSUME JudgeInv, Alerts!Next PROVE JudgeInv'
  OBVIOUS
<1>1. ASSUME UNCHANGED <<scope, alerts>>, judged' = Alerts!NotJudged PROVE JudgeInv'
  BY <1>1 DEF JudgeInv, Alerts!AlertsJudged, Alerts!NotJudged, Alerts!LegacyToModern
<1>2. ASSUME NEW c \in Alerts!Conditions
      PROVE  c[2].op = Alerts!Translated(c[1]) /\ c[2].empty = "UNKNOWN" /\ c[2].value.n \in Nat
  BY <1>2, AlertsAssumption DEF JudgeInv, Alerts!Conditions, Alerts!Condition
<1>3. ASSUME NEW name, NEW query, NEW c \in Alerts!Conditions, NEW auto,
             Alerts!CreateAlert(name, query, c[1], c[2], auto)
      PROVE  JudgeInv'
  BY <1>2, <1>3 DEF Alerts!CreateAlert, Alerts!Added, Alerts!NewAlert, JudgeInv,
       Alerts!AlertsJudged, Alerts!NotJudged, Alerts!LegacyToModern
<1>4. ASSUME NEW i \in DOMAIN alerts, NEW mask, NEW name, NEW query, NEW c \in Alerts!Conditions,
             \/ \E auto \in BOOLEAN : Alerts!UpdateAlert(i, mask, name, query, c[1], c[2], auto)
             \/ Alerts!UpdateAlertLegacy(i, mask, name, query, c[1], c[2])
      PROVE  JudgeInv'
  <2>1. /\ DOMAIN alerts' = DOMAIN alerts /\ judged' = Alerts!NotJudged /\ UNCHANGED scope
        /\ \A j \in DOMAIN alerts : j # i => alerts'[j] = alerts[j]
        /\ alerts'[i].symbol = IF "condition" \in mask THEN c[1] ELSE alerts[i].symbol
        /\ alerts'[i].condition = IF "condition" \in mask THEN c[2] ELSE alerts[i].condition
    BY <1>4 DEF Alerts!UpdateAlert, Alerts!UpdateAlertLegacy
  <2>. QED
    BY <1>2, <2>1 DEF JudgeInv, Alerts!AlertsJudged, Alerts!NotJudged, Alerts!LegacyToModern
<1>5. ASSUME NEW i, Alerts!DeleteAlert(i) PROVE JudgeInv'
  <2>1. DOMAIN alerts' \subseteq DOMAIN alerts /\ \A j \in DOMAIN alerts' : alerts'[j] = alerts[j]
    BY <1>5 DEF Alerts!DeleteAlert, Alerts!Without, Alerts!Restrict
  <2>2. judged' = Alerts!NotJudged /\ UNCHANGED scope
    BY <1>5 DEF Alerts!DeleteAlert
  <2>. QED
    BY <2>1, <2>2 DEF JudgeInv, Alerts!AlertsJudged, Alerts!NotJudged, Alerts!LegacyToModern
<1>6. ASSUME NEW i, NEW observed \in Results, Alerts!EvaluateAlert(i, observed) PROVE JudgeInv'
  <2>. DEFINE condition == alerts[i].condition
  <2>1. /\ i \in DOMAIN alerts /\ UNCHANGED <<scope, alerts>>
        /\ judged'.state = Alerts!Judgement(condition, observed)
        /\ judged'.symbol = IF condition.column = "none" THEN "none" ELSE alerts[i].symbol
        /\ judged'.observed = observed /\ judged'.value = condition.value
    BY <1>6 DEF Alerts!EvaluateAlert
  <2>2. /\ condition.op = Alerts!Translated(alerts[i].symbol) /\ condition.empty = "UNKNOWN"
        /\ observed.n \in Nat /\ condition.value.n \in Nat
    BY <2>1, AlertsAssumption DEF JudgeInv
  <2>3. "none" \notin DOMAIN Alerts!LegacyToModern
    BY DEF Alerts!LegacyToModern
  <2>. HIDE DEF condition
  <2>4. Alerts!AlertsJudged'
    BY <2>1, <2>2, <2>3, JudgementMeant, FloatsCompare DEF Alerts!AlertsJudged
  <2>. QED
    BY <2>1, <2>4 DEF JudgeInv
<1>7. CASE Alerts!Reset
  <2>1. DOMAIN <<>> = {}
    OBVIOUS
  <2>. QED
    BY <1>7, <2>1 DEF Alerts!Reset, JudgeInv, Alerts!AlertsJudged, Alerts!NotJudged,
         Alerts!LegacyToModern
<1>8. ASSUME NEW i, NEW mask, NEW name, NEW text, NEW auto,
             \/ Alerts!CreateQuery(name, text, auto) \/ Alerts!UpdateQuery(i, mask, name, text, auto)
             \/ Alerts!UpdateQueryLegacy(i, mask, name, text)
             \/ Alerts!DeleteQuery(i) \/ Alerts!TrashQuery(i, auto)
      PROVE  JudgeInv'
  BY <1>1, <1>8 DEF Alerts!CreateQuery, Alerts!UpdateQuery, Alerts!UpdateQueryLegacy,
       Alerts!DeleteQuery, Alerts!TrashQuery
<1>. QED
  BY <1>3, <1>4, <1>5, <1>6, <1>7, <1>8 DEF Alerts!Next

(* For any alerts, symbols and results, an alert fires exactly when the    *)
(* comparison its client wrote holds of the number its query returned, but *)
(* that two numbers one of which is beyond 2^53 may pass for equal, and    *)
(* never for ordered the other way round (_LEGACY_TO_MODERN_OP of          *)
(* preview_sql.py, _coerce_for_compare and evaluate_alert of alerts.py).   *)
THEOREM AlertsStayJudged == Spec => []AlertsJudged
<1>. DEFINE Inv == service = "Alerts" => JudgeInv
<1>1. Init => Inv
  BY JudgeStarts DEF Init
<1>2. Inv /\ [Next]_vars => Inv'
  <2>1. Next => UNCHANGED service /\ (service = "Alerts" => Alerts!Next)
    BY DEF Next
  <2>2. UNCHANGED vars => UNCHANGED service /\ (JudgeInv => JudgeInv')
    BY DEF vars, alertsVars, JudgeInv, Alerts!AlertsJudged
  <2>. QED
    BY <2>1, <2>2, JudgeSteps
<1>3. Inv => AlertsJudged
  BY DEF JudgeInv, AlertsJudged
<1>. QED
  BY <1>1, <1>2, <1>3, PTL DEF Spec

----------------------------------------------------------------------------
(* seed_table.                                                             *)
Contents == [columns : Seeding!Columns, rows : Callers \cup {"before", "none"}]
NewTable(c) == [columns |-> request[c].columns, rows |-> "none"]
FitsItself(c) == request[c].columns \in request[c].fits

CallSound(c) ==
  LET asked == request[c]
  IN /\ at[c] \in {"list_warehouses", "create_warehouse", "catalog", "create_catalog", "schema",
                   "create_schema", "stage", "fill_stage", "clean_up", "unstage", "drop"} =>
          table = last.table
     /\ at[c] \in {"stage", "fill_stage", "clean_up", "unstage", "drop", "delete", "delete_physical"} =>
          asked.recreate
     /\ at[c] \in {"fill_stage", "unstage", "drop", "delete", "delete_physical"} =>
          asked.columns # "unsupported"
     /\ at[c] \in {"unstage", "drop", "delete", "delete_physical"} => FitsItself(c)
     /\ at[c] = "delete" => table = NoTable
     /\ at[c] = "delete_physical" => ~registered
     /\ at[c] = "create" =>
          IF asked.recreate
          THEN table = NoTable /\ ~registered /\ FitsItself(c) /\ asked.columns # "unsupported"
          ELSE table = last.table
     /\ at[c] = "create_physical" =>
          table = NoTable /\ IF asked.recreate THEN FitsItself(c) ELSE last.table = NoTable
     /\ at[c] = "refill" =>
          IF asked.recreate THEN FitsItself(c) /\ table = NewTable(c)
          ELSE table = last.table \/ (last.table = NoTable /\ table = NewTable(c))
     /\ at[c] = "ok" =>
          table # NoTable /\ table.rows = (IF asked.empty THEN "none" ELSE c)
     /\ at[c] = "failed" =>
          table = last.table \/ (last.table = NoTable /\ table.rows = "none")

SeedInv ==
  /\ request \in [Callers -> Seeding!Requests] /\ DOMAIN at = Callers
  /\ {table, last.table} \subseteq Contents \cup {NoTable}
  /\ table # NoTable =>
       \/ table.rows \in {"before", "none"}
       \/ /\ table.rows \in Callers /\ at[table.rows] # "idle"
          /\ table.columns \in request[table.rows].fits
  /\ ~overlapped =>
       /\ \A c \in Callers : Seeding!Under(c) => c = last.caller
       /\ last.caller \in Callers => CallSound(last.caller)

LEMMA SeedStarts == Seeding!Init => SeedInv
<1>. SUFFICES ASSUME Seeding!Init PROVE SeedInv
  OBVIOUS
<1>1. request \in [Callers -> Seeding!Requests] /\ DOMAIN at = Callers
  BY DEF Seeding!Init, Seeding!Requests, Seeding!Columns, Seeding!ColumnLists
<1>2. table \in {NoTable, Seeding!Before} /\ last.table = table /\ last.caller = NoTable
  BY DEF Seeding!Init
<1>3. Seeding!Before \in Contents /\ Seeding!Before.rows = "before"
  BY DEF Seeding!Before, Contents, Seeding!Columns
<1>4. \A c \in Callers : ~Seeding!Under(c)
  BY DEF Seeding!Init, Seeding!Under, Seeding!Over
<1>. QED
  BY <1>1, <1>2, <1>3, <1>4, SeedAssumption DEF SeedInv

(* What all the requests of a call under way have in common, and what is   *)
(* left to show of each.                                                   *)
Goes(c) ==
  /\ c \in Callers /\ Seeding!Under(c) /\ UNCHANGED <<request, overlapped, last>>
  /\ \E place : place # "idle" /\ at' = [at EXCEPT ![c] = place]

Fills(c) ==
  \/ UNCHANGED table \/ table' = NoTable
  \/ table' \in Contents /\ table'.rows = "none"
  \/ /\ table' \in Contents /\ table'.rows = c
     /\ table'.columns \in request[c].fits

LEMMA CallMoves ==
  ASSUME SeedInv, NEW c, Goes(c), Fills(c), CallSound(c) => CallSound(c)'
  PROVE  SeedInv'
<1>1. PICK place : place # "idle" /\ at' = [at EXCEPT ![c] = place]
  BY DEF Goes
<1>2. /\ c \in Callers /\ Seeding!Under(c) /\ UNCHANGED <<request, overlapped, last>>
      /\ DOMAIN at' = Callers /\ at'[c] # "idle"
      /\ \A d \in Callers : d # c => at'[d] = at[d]
  BY <1>1 DEF Goes, SeedInv
<1>3. {table', last'.table} \subseteq Contents \cup {NoTable}
  BY <1>2 DEF Fills, SeedInv
<1>4. table' # NoTable =>
        \/ table'.rows \in {"before", "none"}
        \/ /\ table'.rows \in Callers /\ at'[table'.rows] # "idle"
           /\ table'.columns \in request'[table'.rows].fits
  BY <1>2 DEF Fills, SeedInv
<1>5. ASSUME ~overlapped
      PROVE  /\ \A d \in Callers : Seeding!Under(d)' => d = last.caller
             /\ last.caller \in Callers => CallSound(last.caller)'
  <2>1. c = last.caller /\ CallSound(c)
    BY <1>2, <1>5 DEF SeedInv
  <2>2. \A d \in Callers : Seeding!Under(d)' => d = c
    BY <1>2, <2>1, <1>5 DEF SeedInv, Seeding!Under
  <2>. QED
    BY <1>2, <2>1, <2>2 DEF CallSound, NewTable, FitsItself
<1>. QED
  BY <1>2, <1>3, <1>4, <1>5 DEF SeedInv

LEMMA CallBegins ==
  ASSUME SeedInv, NEW c \in Callers, NEW r \in Seeding!Requests, Seeding!Call(c, r)
  PROVE  SeedInv'
<1>1. /\ at[c] = "idle" /\ at'[c] = "list_warehouses" /\ DOMAIN at' = Callers
      /\ request'[c] = r /\ request' \in [Callers -> Seeding!Requests]
      /\ \A d \in Callers : d # c => at'[d] = at[d] /\ request'[d] = request[d]
      /\ overlapped' = (overlapped \/ \E d \in Callers : Seeding!Under(d))
      /\ last' = IF overlapped' THEN Seeding!Nobody ELSE [caller |-> c, table |-> table]
      /\ UNCHANGED table
  BY DEF Seeding!Call, Seeding!Goes, SeedInv
<1>2. /\ last'.table \in Contents \cup {NoTable}
      /\ ~overlapped' => last'.caller = c /\ last'.table = table
  BY <1>1 DEF SeedInv, Seeding!Nobody
<1>3. ASSUME ~overlapped', NEW d \in Callers, Seeding!Under(d)' PROVE d = c
  BY <1>1, <1>3 DEF Seeding!Under
<1>4. table # NoTable =>
        \/ table.rows \in {"before", "none"}
        \/ /\ table.rows \in Callers /\ at'[table.rows] # "idle"
           /\ table.columns \in request'[table.rows].fits
  BY <1>1 DEF SeedInv
<1>5. ~overlapped' => CallSound(last.caller)'
  BY <1>1, <1>2 DEF CallSound, NewTable, FitsItself
<1>. QED
  BY <1>1, <1>2, <1>3, <1>4, <1>5 DEF SeedInv

(* A call that fills the table or fails does so in its last request.       *)
LEMMA RefillMoves == ASSUME SeedInv, NEW c \in Callers, Seeding!Refill(c) PROVE SeedInv'
<1>1. Goes(c)
  BY DEF Seeding!Refill, Seeding!Goes, Goes, Seeding!Under, Seeding!Over
<1>2. at[c] = "refill" /\ UNCHANGED <<request, last>> /\ c \in DOMAIN at
  BY DEF Seeding!Refill, Seeding!Goes, SeedInv
<1>3. CASE table = NoTable \/ ~Seeding!Inserts(c)
  <2>1. at'[c] = "failed" /\ UNCHANGED table
    BY <1>2, <1>3 DEF Seeding!Refill, Seeding!Goes, Seeding!RolledBack
  <2>2. CallSound(c) => table = last.table \/ (last.table = NoTable /\ table.rows = "none")
    BY <1>2, <1>3, SeedAssumption DEF CallSound, NewTable, FitsItself, Seeding!Inserts, SeedInv, Contents,
         Seeding!Requests
  <2>. QED
    BY <1>1, <1>2, <2>1, <2>2, CallMoves DEF Fills, CallSound
<1>4. CASE table # NoTable /\ Seeding!Inserts(c)
  <2>1. at'[c] = "ok" /\ table' = [table EXCEPT !.rows = IF request[c].empty THEN "none" ELSE c]
    BY <1>2, <1>4 DEF Seeding!Refill, Seeding!Goes, Seeding!Filled
  <2>2. table \in Contents
    BY <1>4 DEF SeedInv
  <2>3. /\ table' \in Contents /\ table'.columns = table.columns
        /\ table'.rows = IF request[c].empty THEN "none" ELSE c
    BY <2>1, <2>2 DEF Contents
  <2>4. table' # NoTable
    BY <2>3, SeedAssumption DEF Contents
  <2>5. Fills(c)
    BY <1>4, <2>3 DEF Fills, Seeding!Inserts
  <2>6. CallSound(c)'
    BY <1>2, <2>1, <2>3, <2>4 DEF CallSound
  <2>. QED
    BY <1>1, <2>5, <2>6, CallMoves
<1>. QED
  BY <1>3, <1>4

LEMMA SeedSteps == SeedInv /\ Seeding!Next => SeedInv'
<1>. SUFFICES ASSUME SeedInv, NEW c \in Callers, UNCHANGED <<request, last>>, c \in DOMAIN at,
                \/ Seeding!ListWarehouses(c) \/ Seeding!CreateWarehouse(c)
                \/ Seeding!GetParent(c) \/ Seeding!CreateParent(c)
                \/ Seeding!CreateStage(c) \/ Seeding!FillStage(c) \/ Seeding!DropStage(c)
                \/ Seeding!DropPhysical(c) \/ Seeding!Unregister(c) \/ Seeding!DeletePhysical(c)
                \/ Seeding!CreateChecks(c) \/ Seeding!CreatePhysical(c) \/ Seeding!Cancel(c)
              PROVE  SeedInv'
  <2>1. \A c \in Callers : Seeding!ListWarehouses(c) \/ Seeding!CreateWarehouse(c)
                \/ Seeding!GetParent(c) \/ Seeding!CreateParent(c)
                \/ Seeding!CreateStage(c) \/ Seeding!FillStage(c) \/ Seeding!DropStage(c)
                \/ Seeding!DropPhysical(c) \/ Seeding!Unregister(c) \/ Seeding!DeletePhysical(c)
                \/ Seeding!CreateChecks(c) \/ Seeding!CreatePhysical(c) \/ Seeding!Cancel(c)
                => UNCHANGED <<request, last>>
    BY DEF Seeding!ListWarehouses, Seeding!CreateWarehouse, Seeding!GetParent, Seeding!CreateParent,
           Seeding!CreateStage, Seeding!FillStage, Seeding!DropStage, Seeding!DropPhysical,
           Seeding!Unregister, Seeding!DeletePhysical, Seeding!CreateChecks, Seeding!CreatePhysical,
           Seeding!Cancel
  <2>. QED
    BY <2>1, CallBegins, RefillMoves DEF Seeding!Next, SeedInv
<1>. USE DEF Seeding!Goes, Seeding!Under, Seeding!Over, FitsItself
<1>1. CASE Seeding!ListWarehouses(c)
  BY <1>1, CallMoves DEF Seeding!ListWarehouses, Goes, Fills, CallSound
<1>2. CASE Seeding!CreateWarehouse(c)
  BY <1>2, CallMoves DEF Seeding!CreateWarehouse, Goes, Fills, CallSound
<1>3. CASE Seeding!GetParent(c)
  <2>1. Goes(c) /\ Fills(c)
    BY <1>3 DEF Seeding!GetParent, Seeding!AfterSchema, Goes, Fills
  <2>2. CallSound(c) => CallSound(c)'
    BY <1>3 DEF Seeding!GetParent, Seeding!AfterSchema, CallSound
  <2>. QED
    BY <2>1, <2>2, CallMoves
<1>4. CASE Seeding!CreateParent(c)
  <2>1. Goes(c) /\ Fills(c)
    BY <1>4 DEF Seeding!CreateParent, Seeding!AfterSchema, Goes, Fills
  <2>2. CallSound(c) => CallSound(c)'
    BY <1>4 DEF Seeding!CreateParent, Seeding!AfterSchema, CallSound
  <2>. QED
    BY <2>1, <2>2, CallMoves
<1>5. CASE Seeding!CreateStage(c)
  <2>1. Goes(c) /\ Fills(c)
    BY <1>5 DEF Seeding!CreateStage, Goes, Fills
  <2>2. CallSound(c) => CallSound(c)'
    <3>1. request[c].empty => FitsItself(c)
      BY DEF SeedInv, Seeding!Requests, Seeding!Columns, Seeding!ColumnLists, FitsItself
    <3>. QED
      BY <1>5, <3>1 DEF Seeding!CreateStage, CallSound, FitsItself
  <2>. QED
    BY <2>1, <2>2, CallMoves
<1>6. CASE Seeding!FillStage(c)
  BY <1>6, CallMoves DEF Seeding!FillStage, Goes, Fills, CallSound
<1>7. CASE Seeding!DropStage(c)
  <2>1. Goes(c) /\ Fills(c)
    BY <1>7 DEF Seeding!DropStage, Goes, Fills
  <2>2. CallSound(c) => CallSound(c)'
    BY <1>7 DEF Seeding!DropStage, CallSound
  <2>. QED
    BY <2>1, <2>2, CallMoves
<1>8. CASE Seeding!DropPhysical(c)
  BY <1>8, CallMoves DEF Seeding!DropPhysical, Goes, Fills, CallSound
<1>9. CASE Seeding!Unregister(c)
  BY <1>9, CallMoves DEF Seeding!Unregister, Goes, Fills, CallSound
<1>10. CASE Seeding!DeletePhysical(c)
  BY <1>10, CallMoves DEF Seeding!DeletePhysical, Goes, Fills, CallSound
<1>11. CASE Seeding!CreateChecks(c)
  <2>1. Goes(c) /\ Fills(c)
    BY <1>11 DEF Seeding!CreateChecks, Goes, Fills
  <2>2. CallSound(c) => CallSound(c)'
    BY <1>11 DEF Seeding!CreateChecks, CallSound
  <2>. QED
    BY <2>1, <2>2, CallMoves
<1>12. CASE Seeding!CreatePhysical(c)
  <2>1. Goes(c)
    BY <1>12 DEF Seeding!CreatePhysical, Goes
  <2>2. NewTable(c) \in Contents /\ NewTable(c).rows = "none"
    BY DEF NewTable, Contents, SeedInv, Seeding!Requests
  <2>3. Fills(c)
    BY <1>12, <2>2 DEF Seeding!CreatePhysical, Fills, NewTable
  <2>4. CallSound(c) => CallSound(c)'
    BY <1>12 DEF Seeding!CreatePhysical, CallSound, NewTable
  <2>. QED
    BY <2>1, <2>3, <2>4, CallMoves
<1>13. CASE Seeding!Cancel(c)
  BY <1>13, CallMoves DEF Seeding!Cancel, Goes, Fills, CallSound
<1>. QED
  BY <1>1, <1>2, <1>3, <1>4, <1>5, <1>6, <1>7, <1>8, <1>9, <1>10, <1>11, <1>12, <1>13

(* For any number of calls that seed one table, cancelled anywhere, the    *)
(* table holds the rows of one call or those it had, and a call that       *)
(* nothing overlapped and that fails on its own leaves it as it met it     *)
(* (seed_table of mcp/tools/composite.py).                                 *)
THEOREM SeedingKeepsData == Spec => []SeedKeepsData
<1>. DEFINE Inv == service = "Seeding" => SeedInv
<1>1. Init => Inv
  BY SeedStarts DEF Init
<1>2. Inv /\ [Next]_vars => Inv'
  <2>1. Next => UNCHANGED service /\ (service = "Seeding" => Seeding!Next)
    BY DEF Next
  <2>2. UNCHANGED vars => UNCHANGED service /\ (SeedInv => SeedInv')
    BY DEF vars, seedingVars, SeedInv, Seeding!Under, CallSound, NewTable, FitsItself
  <2>. QED
    BY <2>1, <2>2, SeedSteps
<1>3. SeedInv => Seeding!SeedKeepsData
  BY DEF SeedInv, CallSound, Seeding!SeedKeepsData
<1>4. Inv => SeedKeepsData
  BY <1>3 DEF SeedKeepsData
<1>. QED
  BY <1>1, <1>2, <1>4, PTL DEF Spec

----------------------------------------------------------------------------
(* The shared connection.                                                  *)
Connection == [space : SQL!Namespaces, tx : {"none", "open", "aborted"}, undo : SUBSET SQL!Namespaces]
ConnectionInv == conn \in Connection /\ existing \subseteq SQL!Namespaces

LEMMA ConnectionStarts == SQL!Init => ConnectionInv
  BY DEF SQL!Init, SQL!NewConnection, SQL!Namespaces, ConnectionInv, Connection

(* What a statement or the rollback after it leaves of the connection is   *)
(* not aborted, and only USE changes the namespace.                        *)
LEMMA EffectMeant ==
  ASSUME ConnectionInv, NEW c \in Connection, NEW sql, NEW goal \in Spaces, NEW effect,
         \/ effect = SQL!RolledBack(c)
         \/ effect = SQL!Effect(sql, goal, c) /\ SQL!Succeeds(sql, c)
  PROVE  /\ effect.c \in Connection /\ effect.e \subseteq SQL!Namespaces
         /\ effect.c.tx # "aborted"
         /\ sql # "use" => effect.c.space = c.space
<1>1. goal \in SQL!Namespaces
  BY DEF SQL!Namespaces
<1>2. CASE effect = SQL!Effect(sql, goal, c) /\ SQL!Succeeds(sql, c)
  BY <1>1, <1>2 DEF ConnectionInv, Connection, SQL!Effect, SQL!Succeeds
<1>3. CASE effect = SQL!RolledBack(c)
  BY <1>3 DEF ConnectionInv, Connection, SQL!RolledBack
<1>. QED
  BY <1>2, <1>3

(* The namespace a connection is in after _restore_default_namespace.      *)
LEMMA RestoredMeant ==
  ASSUME NEW c \in Connection, NEW space \in SQL!Namespaces, NEW there,
         NEW after \in SQL!Restored(c, space, there)
  PROVE  /\ after \in Connection /\ after.tx = c.tx
         /\ after.space = space \/ space \notin there \/ c.tx = "aborted"
  BY DEF SQL!Restored, SQL!Use, Connection

LEMMA ExecuteKeepsNamespace ==
  ASSUME ConnectionInv, NEW w \in 1..MaxWarehouses, NEW space \in SQL!Namespaces, NEW sql,
         NEW goal \in Spaces, SQL!Execute(w, space, sql, goal)
  PROVE  ConnectionInv' /\ SQL!KeepsNamespace
<1>. DEFINE c == SQL!Applied(space)
<1>1. c \in Connection /\ (space = Default => c = conn)
  BY DEF ConnectionInv, Connection, SQL!Applied
<1>2. CASE UNCHANGED <<conn, existing>>
  BY <1>2 DEF ConnectionInv, SQL!KeepsNamespace
<1>3. ASSUME NEW effect,
             \/ effect = SQL!RolledBack(c)
             \/ effect = SQL!Effect(sql, goal, c) /\ SQL!Succeeds(sql, c),
             SQL!Finish(space, effect)
      PROVE  ConnectionInv' /\ SQL!KeepsNamespace
  <2>. HIDE DEF c
  <2>1. /\ effect.c \in Connection /\ effect.e \subseteq SQL!Namespaces
        /\ effect.c.tx # "aborted"
        /\ sql # "use" => effect.c.space = c.space
    <3>1. c \in Connection
      BY <1>1
    <3>2. \/ effect = SQL!RolledBack(c)
          \/ effect = SQL!Effect(sql, goal, c) /\ SQL!Succeeds(sql, c)
      BY <1>3
    <3>. QED
      BY ZenonT(60), <3>1, <3>2, EffectMeant
  <2>2. existing' = effect.e
    BY <1>3 DEF SQL!Finish
  <2>3. CASE space = Default
    <3>1. conn' = effect.c
      BY <1>3, <2>3 DEF SQL!Finish
    <3>2. sql = "use" => SQL!Execute(w, Default, "use", goal)
      BY <2>3
    <3>. QED
      BY <1>1, <2>1, <2>2, <2>3, <3>1, <3>2 DEF ConnectionInv, SQL!KeepsNamespace
  <2>4. CASE space # Default
    <3>1. conn' \in SQL!Restored(effect.c, conn.space, effect.e)
      BY <1>3, <2>4 DEF SQL!Finish
    <3>2. conn.space \in SQL!Namespaces
      BY DEF ConnectionInv, Connection
    <3>3. /\ conn' \in Connection
          /\ conn'.space = conn.space \/ conn.space \notin effect.e
      BY <2>1, <3>1, <3>2, RestoredMeant
    <3>. QED
      BY <2>1, <2>2, <3>3 DEF ConnectionInv, SQL!KeepsNamespace
  <2>. QED
    BY <2>3, <2>4
<1>. QED
  BY <1>2, <1>3 DEF SQL!Execute

LEMMA DeltaWriteKeepsNamespace ==
  ASSUME ConnectionInv, NEW w, NEW space \in SQL!Namespaces, NEW prepared,
         SQL!DeltaWrite(w, space, prepared)
  PROVE  ConnectionInv' /\ SQL!KeepsNamespace
<1>. DEFINE broken == [SQL!Applied(space) EXCEPT !.tx = "aborted"]
<1>1. broken \in Connection /\ broken.tx = "aborted" /\ conn.space \in SQL!Namespaces
  BY DEF ConnectionInv, Connection, SQL!Applied
<1>2. UNCHANGED existing
  BY DEF SQL!DeltaWrite
<1>3. UNCHANGED conn \/ (conn.tx # "none" /\ conn' \in SQL!Restored(broken, conn.space, existing))
  BY DEF SQL!DeltaWrite
<1>. HIDE DEF broken
<1>4. UNCHANGED conn \/ (conn.tx # "none" /\ conn' \in Connection /\ conn'.tx = "aborted")
  BY <1>1, <1>3, RestoredMeant
<1>. QED
  BY <1>2, <1>4 DEF ConnectionInv, SQL!KeepsNamespace

LEMMA ConnectionSteps == ConnectionInv /\ SQL!Next => ConnectionInv' /\ SQL!KeepsNamespace
<1>. SUFFICES ASSUME ConnectionInv, SQL!Next PROVE ConnectionInv' /\ SQL!KeepsNamespace
  OBVIOUS
<1>1. CASE UNCHANGED <<conn, existing>>
  BY <1>1 DEF ConnectionInv, SQL!KeepsNamespace
<1>2. CASE SQL!HandlerFails
  BY <1>2 DEF SQL!HandlerFails, ConnectionInv, Connection, SQL!KeepsNamespace
<1>3. ASSUME NEW full, SQL!Reset(full) PROVE ConnectionInv' /\ SQL!KeepsNamespace
  BY <1>3, <1>1 DEF SQL!Reset, SQL!NewConnection, SQL!Namespaces, ConnectionInv, Connection,
       SQL!KeepsNamespace
<1>4. CASE SQL!Restart
  BY <1>4 DEF SQL!Restart, SQL!NewConnection, SQL!Namespaces, ConnectionInv, Connection, SQL!KeepsNamespace
<1>5. ASSUME NEW x, \/ SQL!FinishWrite(x) \/ SQL!CancelStatement(x) \/ SQL!OpenResult(x)
                    \/ SQL!GetChunk \/ SQL!ListHistory(x) \/ SQL!CreateWarehouse
                    \/ SQL!StartWarehouse(x) \/ SQL!StopWarehouse(x) \/ SQL!DeleteWarehouse(x)
      PROVE  UNCHANGED <<conn, existing>>
  BY <1>5 DEF SQL!FinishWrite, SQL!CancelStatement, SQL!OpenResult, SQL!GetChunk, SQL!ListHistory,
       SQL!CreateWarehouse, SQL!StartWarehouse, SQL!StopWarehouse, SQL!SetWarehouse, SQL!DeleteWarehouse
<1>. QED
  BY <1>1, <1>2, <1>3, <1>4, <1>5, ExecuteKeepsNamespace, DeltaWriteKeepsNamespace DEF SQL!Next

(* For any namespaces and statements, no request leaves the connection all *)
(* warehouses share in another namespace, but for a USE, a namespace that  *)
(* is gone, an aborted transaction and a reset (_apply_default_namespace   *)
(* and _restore_default_namespace of sql_statements.py).                   *)
THEOREM NamespaceStaysKept == Spec => NamespaceKept
<1>. DEFINE Inv == service = "SQL" => ConnectionInv
<1>1. Init => Inv
  BY ConnectionStarts DEF Init
<1>2. Inv /\ [Next]_vars => Inv' /\ [service = "SQL" => SQL!KeepsNamespace]_vars
  <2>1. Next => UNCHANGED service /\ (service = "SQL" => SQL!Next)
    BY DEF Next
  <2>2. UNCHANGED vars => UNCHANGED service /\ (ConnectionInv => ConnectionInv')
    BY DEF vars, sqlVars, ConnectionInv
  <2>. QED
    BY <2>1, <2>2, ConnectionSteps
<1>. QED
  BY <1>1, <1>2, PTL DEF Spec, NamespaceKept

----------------------------------------------------------------------------
(* Statements: a record is known by its id, also while it is yet to come.  *)
StatementRecord == [id : Nat \ {0}, status : SQL!Statuses, rows : Nat, warehouse : Nat]

CacheInv ==
  /\ statements \in Seq(StatementRecord)
  /\ issued \in [statements : Nat, warehouses : Nat]
  /\ \A i \in 1..Len(statements) : statements[i].id <= issued.statements
  /\ \A i, j \in 1..Len(statements) : statements[i].id = statements[j].id => i = j
  /\ \A x \in writes :
       /\ x.id \in 1..issued.statements /\ x.rows \in Nat /\ x.warehouse \in Nat
       /\ \A i \in 1..Len(statements) : statements[i].id # x.id
  /\ \A x, y \in writes : x.id = y.id => x = y

(* A reader has the rows of the chunks before the next one.                *)
ReaderInv ==
  /\ reader \in [id : Nat, total : Nat, next : Nat, rows : Seq(Nat), done : BOOLEAN]
  /\ reader.id <= issued.statements /\ \A x \in writes : x.id # reader.id
  /\ \A i \in 1..Len(statements) : statements[i].id = reader.id => statements[i].rows = reader.total
  /\ reader.done => reader.rows = [r \in 1..reader.total |-> r]
  /\ ~reader.done =>
       /\ reader.next * ChunkSize <= reader.total
       /\ reader.rows = [r \in 1..(reader.next * ChunkSize) |-> r]

(* What a pager has passed of the statements that were there at its start  *)
(* it has seen.                                                            *)
PagerInv ==
  /\ pager.active \in BOOLEAN /\ pager.done \in BOOLEAN /\ pager.offset \in Nat
  /\ ~pager.active => pager.begun = {} /\ pager.offset = 0
  /\ \A id \in pager.begun : id \in 1..issued.statements /\ \A x \in writes : x.id # id
  /\ pager.filter = SQL!Statuses =>
       \A i \in 1..Len(statements) :
         statements[i].id \in pager.begun /\ (pager.done \/ Len(statements) - i < pager.offset) =>
           statements[i].id \in pager.seen

SqlInv == CacheInv /\ ReaderInv /\ PagerInv

LEMMA SqlStarts == SQL!Init => SqlInv
<1>. SUFFICES ASSUME SQL!Init PROVE SqlInv
  OBVIOUS
<1>1. statements = <<>> /\ statements \in Seq(StatementRecord) /\ Len(statements) = 0
  BY DEF SQL!Init
<1>2. writes = {} /\ issued = [statements |-> 0, warehouses |-> 0]
  BY DEF SQL!Init
<1>3. CacheInv
  BY <1>1, <1>2 DEF CacheInv
<1>4. ReaderInv
  BY <1>1, <1>2, ServerAssumption DEF SQL!Init, SQL!NoReader, ReaderInv
<1>5. PagerInv
  BY <1>1, <1>2 DEF SQL!Init, SQL!NoPager, PagerInv
<1>. QED
  BY <1>3, <1>4, <1>5 DEF SqlInv

(* Recording a statement adds it behind the others and drops some of the   *)
(* oldest.                                                                 *)
Recorded(id, rows) ==
  /\ statements' \in Seq(StatementRecord)
  /\ \E k \in Nat :
       /\ Len(statements') = Len(statements) + 1 - k
       /\ \A j \in 1..Len(statements') :
            \/ j + k \in 1..Len(statements) /\ statements'[j] = statements[j + k]
            \/ /\ j + k = Len(statements) + 1
               /\ statements'[j].id = id /\ statements'[j].rows = rows

LEMMA RecordMeant ==
  ASSUME statements \in Seq(StatementRecord), NEW id \in Nat \ {0}, NEW w \in Nat,
         NEW status \in SQL!Statuses, NEW rows \in Nat, SQL!Record(id, w, status, rows)
  PROVE  Recorded(id, rows)
<1>. DEFINE new == [id |-> id, status |-> status, rows |-> rows, warehouse |-> w]
            list == Append(statements, new)
            limit == IF CacheSize < 1 THEN 1 ELSE CacheSize
            k == IF Len(list) > limit THEN Len(list) - limit ELSE 0
<1>1. new \in StatementRecord /\ new.id = id /\ new.rows = rows
  BY DEF StatementRecord
<1>. HIDE DEF new
<1>2. /\ list \in Seq(StatementRecord) /\ Len(list) = Len(statements) + 1
      /\ Len(statements) \in Nat
      /\ \A i \in 1..Len(statements) : list[i] = statements[i]
      /\ list[Len(statements) + 1] = new
  BY <1>1
<1>3. limit \in Nat /\ limit >= 1 /\ k \in Nat /\ k < Len(list)
  BY <1>2, ServerAssumption
<1>4. statements' = SubSeq(list, k + 1, Len(list))
  <2>1. k + 1 = IF Len(list) > limit THEN Len(list) - limit + 1 ELSE 1
    BY <1>2, <1>3
  <2>2. statements' = SQL!Kept(list)
    BY DEF SQL!Record, new
  <2>. QED
    BY <2>1, <2>2 DEF SQL!Kept
<1>. HIDE DEF list, limit, k
<1>5. /\ statements' \in Seq(StatementRecord)
      /\ Len(statements') = Len(statements) + 1 - k /\ Len(statements') \in Nat
      /\ \A j \in 1..Len(statements') : statements'[j] = list[j + k]
  <2>1. k + 1 \in 1..(Len(list) + 1) /\ Len(list) \in (k + 1 - 1)..Len(list)
    BY <1>2, <1>3
  <2>2. /\ statements' \in Seq(StatementRecord)
        /\ Len(statements') = IF k + 1 <= Len(list) THEN Len(list) - (k + 1) + 1 ELSE 0
        /\ \A j \in 1..(Len(list) - (k + 1) + 1) : statements'[j] = list[k + 1 + j - 1]
    BY SMTT(30), <1>2, <1>4, <2>1, SubSeqProperties
  <2>3. Len(statements') = Len(statements) + 1 - k /\ Len(list) - (k + 1) + 1 = Len(statements) + 1 - k
    BY <1>2, <1>3, <2>2
  <2>4. ASSUME NEW j \in 1..Len(statements') PROVE statements'[j] = list[j + k]
    <3>1. k + 1 + j - 1 = j + k /\ j \in 1..(Len(list) - (k + 1) + 1)
      BY <1>3, <2>3
    <3>. QED
      BY <2>2, <3>1
  <2>. QED
    BY <1>2, <1>3, <2>2, <2>3, <2>4
<1>6. ASSUME NEW j \in 1..Len(statements')
      PROVE  \/ j + k \in 1..Len(statements) /\ statements'[j] = statements[j + k]
             \/ /\ j + k = Len(statements) + 1
                /\ statements'[j].id = id /\ statements'[j].rows = rows
  BY <1>1, <1>2, <1>3, <1>5
<1>. QED
  BY <1>3, <1>5, <1>6 DEF Recorded

(* A record under a new id keeps the invariant.                            *)
LEMMA RecordKeeps ==
  ASSUME SqlInv, NEW id, NEW rows, Recorded(id, rows),
         id \in 1..issued'.statements, issued.statements <= issued'.statements,
         issued' \in [statements : Nat, warehouses : Nat],
         writes' \subseteq writes, \A x \in writes' : x.id # id,
         \A i \in 1..Len(statements) : statements[i].id # id,
         id # reader.id, id \notin pager.begun, UNCHANGED <<reader, pager>>
  PROVE  SqlInv'
<1>1. PICK k \in Nat :
        /\ Len(statements') = Len(statements) + 1 - k
        /\ \A j \in 1..Len(statements') :
             \/ j + k \in 1..Len(statements) /\ statements'[j] = statements[j + k]
             \/ /\ j + k = Len(statements) + 1
                /\ statements'[j].id = id /\ statements'[j].rows = rows
  BY DEF Recorded
<1>2. /\ statements' \in Seq(StatementRecord) /\ Len(statements) \in Nat /\ Len(statements') \in Nat
      /\ issued.statements \in Nat /\ issued'.statements \in Nat
  BY DEF Recorded, SqlInv, CacheInv
<1>3. CacheInv'
  <2>1. \A j \in 1..Len(statements') : statements'[j].id <= issued'.statements
    <3>. SUFFICES ASSUME NEW j \in 1..Len(statements') PROVE statements'[j].id <= issued'.statements
      OBVIOUS
    <3>1. CASE j + k \in 1..Len(statements) /\ statements'[j] = statements[j + k]
      <4>1. statements[j + k] \in StatementRecord /\ statements[j + k].id <= issued.statements
        BY <3>1 DEF SqlInv, CacheInv
      <4>2. statements[j + k].id \in Nat
        BY <4>1 DEF StatementRecord
      <4>. QED
        BY <1>2, <3>1, <4>1, <4>2
    <3>. QED
      BY <1>1, <1>2, <3>1
  <2>2. ASSUME NEW i \in 1..Len(statements'), NEW j \in 1..Len(statements'),
               statements'[i].id = statements'[j].id
        PROVE  i = j
    <3>1. CASE i + k \in 1..Len(statements) /\ j + k \in 1..Len(statements)
      <4>1. statements'[i] = statements[i + k] /\ statements'[j] = statements[j + k]
        BY SMTT(30), <1>1, <1>2, <3>1
      <4>2. i + k = j + k
        BY <2>2, <3>1, <4>1 DEF SqlInv, CacheInv
      <4>. QED
        BY <1>2, <4>2
    <3>2. CASE i + k \notin 1..Len(statements) \/ j + k \notin 1..Len(statements)
      <4>1. \A n \in {i, j} : n + k \in 1..Len(statements) => statements'[n].id # id
        <5>. SUFFICES ASSUME NEW n \in {i, j}, n + k \in 1..Len(statements)
                      PROVE  statements'[n].id # id
          OBVIOUS
        <5>1. n + k # Len(statements) + 1 /\ n \in 1..Len(statements')
          BY <1>2
        <5>2. statements'[n] = statements[n + k]
          BY <1>1, <5>1
        <5>. QED
          BY <5>2
      <4>2. \A n \in {i, j} : n + k \notin 1..Len(statements) =>
              n + k = Len(statements) + 1 /\ statements'[n].id = id
        BY <1>1
      <4>3. i + k = Len(statements) + 1 /\ j + k = Len(statements) + 1
        BY <2>2, <3>2, <4>1, <4>2
      <4>. QED
        BY <1>2, <4>3
    <3>. QED
      BY <3>1, <3>2
  <2>3. ASSUME NEW x \in writes'
        PROVE  /\ x.id \in 1..issued'.statements /\ x.rows \in Nat /\ x.warehouse \in Nat
               /\ \A j \in 1..Len(statements') : statements'[j].id # x.id
    <3>1. x \in writes /\ x.id # id
      BY <2>3
    <3>2. /\ x.id \in 1..issued.statements /\ x.rows \in Nat /\ x.warehouse \in Nat
          /\ \A i \in 1..Len(statements) : statements[i].id # x.id
      BY <3>1 DEF SqlInv, CacheInv
    <3>3. \A j \in 1..Len(statements') : statements'[j].id # x.id
      BY <1>1, <3>1, <3>2
    <3>4. x.id \in 1..issued'.statements
      BY <1>2, <3>2
    <3>. QED
      BY <3>2, <3>3, <3>4
  <2>. QED
    BY <1>2, <2>1, <2>2, <2>3 DEF SqlInv, CacheInv
<1>4. ReaderInv'
  <2>1. ASSUME NEW j \in 1..Len(statements'), statements'[j].id = reader.id
        PROVE  statements'[j].rows = reader.total
    <3>1. j + k \in 1..Len(statements) /\ statements'[j] = statements[j + k]
      BY <1>1, <2>1
    <3>2. statements[j + k].id = reader.id => statements[j + k].rows = reader.total
      BY <3>1 DEF SqlInv, ReaderInv
    <3>. QED
      BY <2>1, <3>1, <3>2
  <2>2. reader.id <= issued'.statements
    BY DEF SqlInv, ReaderInv, CacheInv
  <2>. QED
    BY <2>1, <2>2 DEF SqlInv, ReaderInv
<1>5. PagerInv'
  <2>1. \A b \in pager.begun : b \in 1..issued'.statements
    BY <1>2 DEF SqlInv, PagerInv
  <2>2. ASSUME pager.filter = SQL!Statuses, NEW j \in 1..Len(statements'),
               statements'[j].id \in pager.begun,
               pager.done \/ Len(statements') - j < pager.offset
        PROVE  statements'[j].id \in pager.seen
    <3>1. j + k \in 1..Len(statements) /\ statements'[j] = statements[j + k]
      BY <1>1, <2>2
    <3>2. pager.done \/ Len(statements) - (j + k) < pager.offset
      <4>1. pager.offset \in Nat
        BY DEF SqlInv, PagerInv
      <4>2. Len(statements) - (j + k) < Len(statements') - j
        BY <1>1, <1>2
      <4>. QED
        BY <1>2, <2>2, <4>1, <4>2
    <3>. QED
      BY <2>2, <3>1, <3>2 DEF SqlInv, PagerInv
  <2>. QED
    BY <2>1, <2>2 DEF SqlInv, PagerInv
<1>. QED
  BY <1>3, <1>4, <1>5 DEF SqlInv

(* So does a step that leaves the cache alone or changes statuses in it.   *)
LEMMA SameRecords ==
  ASSUME SqlInv, statements' \in Seq(StatementRecord), Len(statements') = Len(statements),
         \A i \in 1..Len(statements) :
           statements'[i].id = statements[i].id /\ statements'[i].rows = statements[i].rows,
         issued' \in [statements : Nat, warehouses : Nat], issued'.statements = issued.statements,
         UNCHANGED <<writes, reader, pager>>
  PROVE  SqlInv'
<1>1. CacheInv'
  BY SMTT(30) DEF SqlInv, CacheInv
<1>2. ReaderInv'
  BY DEF SqlInv, ReaderInv
<1>3. PagerInv'
  BY DEF SqlInv, PagerInv
<1>. QED
  BY <1>1, <1>2, <1>3 DEF SqlInv

LEMMA StatementSteps ==
  ASSUME SqlInv, NEW w \in 1..MaxWarehouses,
         \/ \E space, sql, goal : SQL!Execute(w, space, sql, goal)
         \/ \E space, prepared : SQL!DeltaWrite(w, space, prepared)
  PROVE  SqlInv'
<1>. DEFINE id == issued.statements + 1
<1>1. /\ issued' = [issued EXCEPT !.statements = id] /\ UNCHANGED <<reader, pager>>
      /\ id <= MaxStatements
  <2>1. issued.statements \in Nat /\ MaxStatements \in Nat
    BY ServerAssumption DEF SqlInv, CacheInv
  <2>2. issued.statements < MaxStatements /\ issued' = [issued EXCEPT !.statements = @ + 1]
        /\ UNCHANGED <<reader, pager>>
    BY DEF SQL!Execute, SQL!DeltaWrite, SQL!Issue
  <2>. QED
    BY <2>1, <2>2
<1>2. /\ issued.statements \in Nat /\ id \in Nat \ {0} /\ issued'.statements = id
      /\ issued' \in [statements : Nat, warehouses : Nat]
  BY <1>1 DEF SqlInv, CacheInv
<1>3. /\ \A x \in writes : x.id # id
      /\ \A i \in 1..Len(statements) : statements[i].id # id
      /\ id # reader.id /\ id \notin pager.begun
  <2>1. \A i \in 1..Len(statements) : statements[i].id \in Nat
    <3>. SUFFICES ASSUME NEW i \in 1..Len(statements) PROVE statements[i].id \in Nat
      OBVIOUS
    <3>1. statements[i] \in StatementRecord
      BY DEF SqlInv, CacheInv
    <3>. QED
      BY <3>1 DEF StatementRecord
  <2>2. \A b \in pager.begun : b \in 1..issued.statements
    BY DEF SqlInv, PagerInv
  <2>. QED
    BY <1>2, <2>1, <2>2 DEF SqlInv, CacheInv, ReaderInv
<1>4. ASSUME UNCHANGED writes, NEW status \in SQL!Statuses, NEW rows \in Nat,
             SQL!Record(id, w, status, rows)
      PROVE  SqlInv'
  <2>1. Recorded(id, rows)
    <3>1. statements \in Seq(StatementRecord) /\ w \in Nat /\ id \in Nat \ {0}
      BY <1>2, ServerAssumption DEF SqlInv, CacheInv
    <3>. HIDE DEF id
    <3>. QED
      BY <1>4, <3>1, RecordMeant
  <2>. HIDE DEF id
  <2>2. id \in 1..issued'.statements /\ issued.statements <= issued'.statements
    BY <1>2 DEF id
  <2>3. writes' \subseteq writes /\ \A x \in writes' : x.id # id
    BY <1>3, <1>4
  <2>. QED
    BY <1>1, <1>2, <1>3, <2>1, <2>2, <2>3, RecordKeeps
<1>5. ASSUME NEW space, NEW sql, NEW goal, SQL!Execute(w, space, sql, goal)
      PROVE  SqlInv'
  <2>1. RowsOf[id] \in Nat
    BY <1>1, <1>2, ServerAssumption
  <2>2. "SUCCEEDED" \in SQL!Statuses /\ "FAILED" \in SQL!Statuses
    BY DEF SQL!Statuses
  <2>3. \E status \in SQL!Statuses, rows \in Nat : SQL!Record(id, w, status, rows)
    BY <1>5, <2>1, <2>2 DEF SQL!Execute, SQL!RecordFailure
  <2>4. UNCHANGED writes
    BY <1>5 DEF SQL!Execute
  <2>. QED
    BY <1>4, <2>3, <2>4
<1>6. ASSUME NEW space, NEW prepared, SQL!DeltaWrite(w, space, prepared)
      PROVE  SqlInv'
  <2>1. CASE SQL!RecordFailure(id, w) /\ UNCHANGED writes
    <3>1. "FAILED" \in SQL!Statuses /\ SQL!Record(id, w, "FAILED", 0)
      BY <2>1 DEF SQL!Statuses, SQL!RecordFailure
    <3>. QED
      BY <1>4, <2>1, <3>1
  <2>2. ASSUME NEW x, x.id = id, x.rows \in Nat, x.warehouse = w,
               writes' = writes \cup {x}, UNCHANGED statements
        PROVE  SqlInv'
    <3>1. CacheInv'
      <4>1. w \in Nat
        BY ServerAssumption
      <4>. HIDE DEF id
      <4>2. \A i \in 1..Len(statements) : statements[i].id <= id
        <5>. SUFFICES ASSUME NEW i \in 1..Len(statements) PROVE statements[i].id <= id
          OBVIOUS
        <5>1. statements[i] \in StatementRecord /\ statements[i].id <= issued.statements
          BY DEF SqlInv, CacheInv
        <5>. QED
          BY <1>2, <5>1 DEF StatementRecord, id
      <4>3. \A y \in writes' :
              /\ y.id \in 1..issued'.statements /\ y.rows \in Nat /\ y.warehouse \in Nat
              /\ \A i \in 1..Len(statements) : statements[i].id # y.id
        <5>1. \A y \in writes : y.id \in 1..issued'.statements
          BY <1>2 DEF id, SqlInv, CacheInv
        <5>. QED
          BY <1>2, <1>3, <2>2, <4>1, <5>1 DEF SqlInv, CacheInv
      <4>4. \A y, z \in writes' : y.id = z.id => y = z
        BY <1>3, <2>2 DEF SqlInv, CacheInv
      <4>. QED
        BY <1>2, <2>2, <4>2, <4>3, <4>4 DEF SqlInv, CacheInv
    <3>2. ReaderInv'
      BY <1>1, <1>2, <1>3, <2>2 DEF SqlInv, ReaderInv
    <3>3. PagerInv'
      <4>1. ASSUME NEW b \in pager.begun PROVE b \in 1..issued'.statements /\ \A y \in writes' : y.id # b
        <5>1. b \in 1..issued.statements /\ \A y \in writes : y.id # b
          BY DEF SqlInv, PagerInv
        <5>. QED
          BY <1>2, <1>3, <2>2, <5>1
      <4>. QED
        BY <1>1, <2>2, <4>1 DEF SqlInv, PagerInv
    <3>. QED
      BY <3>1, <3>2, <3>3 DEF SqlInv
  <2>3. PICK rows \in {0, 1} :
          \/ SQL!RecordFailure(id, w) /\ UNCHANGED writes
          \/ /\ UNCHANGED statements
             /\ writes' = writes \cup {[id |-> id, warehouse |-> w, rows |-> rows]}
    BY <1>6 DEF SQL!DeltaWrite
  <2>4. CASE /\ UNCHANGED statements
             /\ writes' = writes \cup {[id |-> id, warehouse |-> w, rows |-> rows]}
    <3>. DEFINE x == [id |-> id, warehouse |-> w, rows |-> rows]
    <3>1. x.id = id /\ x.rows \in Nat /\ x.warehouse = w /\ writes' = writes \cup {x}
      BY <2>4
    <3>. HIDE DEF x
    <3>. QED
      BY <2>2, <2>4, <3>1
  <2>. QED
    BY <2>1, <2>3, <2>4
<1>. QED
  BY <1>5, <1>6

LEMMA FinishWriteKeeps ==
  ASSUME SqlInv, NEW x \in writes, SQL!FinishWrite(x)
  PROVE  SqlInv'
<1>1. /\ writes' = writes \ {x} /\ UNCHANGED <<issued, reader, pager>>
      /\ \E status \in SQL!Statuses, rows \in Nat : SQL!Record(x.id, x.warehouse, status, rows)
  BY DEF SQL!FinishWrite, SQL!RecordFailure, SQL!Statuses, SqlInv, CacheInv
<1>2. x.id \in Nat \ {0} /\ x.id \in 1..issued.statements /\ x.warehouse \in Nat
  BY DEF SqlInv, CacheInv
<1>3. PICK rows \in Nat : Recorded(x.id, rows)
  BY <1>1, <1>2, RecordMeant DEF SqlInv, CacheInv
<1>4. /\ \A y \in writes' : y.id # x.id
      /\ \A i \in 1..Len(statements) : statements[i].id # x.id
      /\ x.id # reader.id /\ x.id \notin pager.begun
  BY <1>1 DEF SqlInv, CacheInv, ReaderInv, PagerInv
<1>5. issued' \in [statements : Nat, warehouses : Nat] /\ issued.statements <= issued'.statements
  BY <1>1 DEF SqlInv, CacheInv
<1>. QED
  BY <1>1, <1>2, <1>3, <1>4, <1>5, RecordKeeps

(* How many chunks a result has, in terms of the rows before a chunk.      *)
LEMMA TimesMonotone ==
  ASSUME NEW a \in Nat, NEW b \in Nat, a <= b
  PROVE  a * ChunkSize <= b * ChunkSize
<1>1. PICK d \in Nat : b = a + d
  OBVIOUS
<1>2. b * ChunkSize = a * ChunkSize + d * ChunkSize /\ d * ChunkSize \in Nat
  BY <1>1, ServerAssumption
<1>. QED
  BY <1>2, ServerAssumption

LEMMA NextOffset ==
  ASSUME NEW k \in Nat
  PROVE  (k + 1) * ChunkSize = k * ChunkSize + ChunkSize /\ k * ChunkSize \in Nat
  BY ServerAssumption

LEMMA ChunksCover ==
  ASSUME NEW n \in Nat, NEW k \in Nat
  PROVE  /\ SQL!Chunks(n) \in Nat
         /\ k + 1 >= SQL!Chunks(n) => n <= (k + 1) * ChunkSize
         /\ k + 1 < SQL!Chunks(n) => (k + 1) * ChunkSize <= n
<1>0. ChunkSize \in Nat \ {0}
  BY ServerAssumption
<1>. DEFINE m == n + ChunkSize - 1
            q == m \div ChunkSize
<1>1. m \in Nat
  BY <1>0
<1>. HIDE DEF m
<1>2. q \in Nat /\ q * ChunkSize <= m /\ m < q * ChunkSize + ChunkSize
  BY <1>0, <1>1
<1>. HIDE DEF q
<1>3. CASE n = 0
  BY <1>0, <1>3, NextOffset DEF SQL!Chunks
<1>4. CASE n # 0
  <2>1. SQL!Chunks(n) = q
    BY <1>4 DEF SQL!Chunks, q, m
  <2>2. ASSUME k + 1 >= q PROVE n <= (k + 1) * ChunkSize
    <3>1. q * ChunkSize <= (k + 1) * ChunkSize
      BY <1>2, <2>2, TimesMonotone
    <3>. QED
      BY <1>0, <1>2, <3>1, NextOffset DEF m
  <2>3. ASSUME k + 1 < q PROVE (k + 1) * ChunkSize <= n
    <3>1. (k + 2) * ChunkSize <= q * ChunkSize
      BY <1>2, <2>3, TimesMonotone
    <3>2. (k + 2) * ChunkSize = (k + 1) * ChunkSize + ChunkSize
      BY <1>0
    <3>. QED
      BY <1>0, <1>2, <3>1, <3>2, NextOffset DEF m
  <2>. QED
    BY <1>2, <2>1, <2>2, <2>3
<1>. QED
  BY <1>3, <1>4

(* The rows up to the end of chunk k.                                      *)
Upto(n, k) == IF n <= (k + 1) * ChunkSize THEN n ELSE (k + 1) * ChunkSize

LEMMA RowsMeant ==
  ASSUME NEW n \in Nat, NEW k \in Nat, k * ChunkSize <= n
  PROVE  /\ [r \in 1..(k * ChunkSize) |-> r] \o SQL!RowsFrom(n, k) = [r \in 1..Upto(n, k) |-> r]
         /\ Upto(n, k) \in Nat
<1>. DEFINE before == k * ChunkSize
            count == IF n - before < ChunkSize THEN n - before ELSE ChunkSize
<1>1. before \in Nat /\ count \in Nat /\ Upto(n, k) = before + count
  <2>1. (k + 1) * ChunkSize = before + ChunkSize /\ before \in Nat /\ ChunkSize \in Nat
    BY NextOffset, ServerAssumption
  <2>2. Upto(n, k) = IF n <= before + ChunkSize THEN n ELSE before + ChunkSize
    BY <2>1 DEF Upto
  <2>3. before <= n
    OBVIOUS
  <2>. HIDE DEF before
  <2>. QED
    BY <2>1, <2>2, <2>3
<1>2. SQL!RowsFrom(n, k) = [i \in 1..count |-> before + i]
  BY DEF SQL!RowsFrom, SQL!Offset
<1>. HIDE DEF before, count
<1>3. [r \in 1..before |-> r] \o [i \in 1..count |-> before + i] = [r \in 1..(before + count) |-> r]
  <2>. DEFINE a == [r \in 1..before |-> r]
              b == [i \in 1..count |-> before + i]
  <2>1. /\ a \in Seq(Nat) /\ Len(a) = before /\ b \in Seq(Nat) /\ Len(b) = count
        /\ \A r \in 1..before : a[r] = r
        /\ \A i \in 1..count : b[i] = before + i
    BY <1>1
  <2>. HIDE DEF a, b
  <2>2. /\ a \o b \in Seq(Nat) /\ Len(a \o b) = before + count
        /\ \A r \in 1..(before + count) :
             (a \o b)[r] = IF r <= before THEN a[r] ELSE b[r - before]
    BY <2>1, ConcatProperties
  <2>3. ASSUME NEW r \in 1..(before + count) PROVE (a \o b)[r] = r
    <3>1. CASE r <= before
      BY <1>1, <2>1, <2>2, <3>1
    <3>2. CASE ~(r <= before)
      <4>1. r - before \in 1..count /\ before + (r - before) = r
        BY <1>1, <3>2
      <4>. QED
        BY <2>1, <2>2, <3>2, <4>1
    <3>. QED
      BY <3>1, <3>2
  <2>4. ASSUME NEW c \in Seq(Nat) PROVE c = [r \in 1..Len(c) |-> c[r]]
    OBVIOUS
  <2>5. a \o b = [r \in 1..(before + count) |-> (a \o b)[r]]
    BY <2>2, <2>4
  <2>. QED
    BY <2>3, <2>5 DEF a, b
<1>. QED
  BY <1>1, <1>2, <1>3 DEF before

(* The reader gets the chunks one by one.                                  *)
LEMMA ReaderSteps ==
  ASSUME SqlInv, \/ \E id \in SQL!StatementIds : SQL!OpenResult(id)
                 \/ SQL!GetChunk
  PROVE  SqlInv'
<1>1. UNCHANGED <<statements, issued, writes, pager>>
  BY DEF SQL!OpenResult, SQL!GetChunk
<1>2. ASSUME ReaderInv' PROVE SqlInv'
  BY <1>1, <1>2 DEF SqlInv, CacheInv, PagerInv
<1>3. \A i \in 1..Len(statements) :
        statements[i].id \in Nat /\ statements[i].id # 0 /\ statements[i].rows \in Nat
  <2>. SUFFICES ASSUME NEW i \in 1..Len(statements)
                PROVE  statements[i].id \in Nat /\ statements[i].id # 0 /\ statements[i].rows \in Nat
    OBVIOUS
  <2>1. statements[i] \in StatementRecord
    BY DEF SqlInv, CacheInv
  <2>. QED
    BY <2>1 DEF StatementRecord
<1>4. CASE reader' = SQL!NoReader
  BY SMTT(30), <1>1, <1>2, <1>3, <1>4, ServerAssumption
     DEF SQL!NoReader, ReaderInv, SqlInv, CacheInv
<1>5. ASSUME NEW i \in 1..Len(statements),
             reader' = [SQL!NoReader EXCEPT !.id = statements[i].id, !.total = statements[i].rows]
      PROVE  SqlInv'
  <2>1. /\ reader'.id = statements[i].id /\ reader'.total = statements[i].rows
        /\ reader'.next = 0 /\ reader'.rows = <<>> /\ reader'.done = FALSE
        /\ reader' \in [id : Nat, total : Nat, next : Nat, rows : Seq(Nat), done : BOOLEAN]
    <3>1. reader' = [id |-> statements[i].id, total |-> statements[i].rows, next |-> 0,
                     rows |-> <<>>, done |-> FALSE]
      BY <1>5 DEF SQL!NoReader
    <3>2. <<>> \in Seq(Nat)
      OBVIOUS
    <3>. QED
      BY <1>3, <3>1, <3>2
  <2>2. \A j \in 1..Len(statements) : statements[j].id = reader'.id => statements[j].rows = reader'.total
    BY <2>1 DEF SqlInv, CacheInv
  <2>3. reader'.id <= issued.statements /\ \A x \in writes : x.id # reader'.id
    BY <2>1 DEF SqlInv, CacheInv
  <2>4. /\ reader'.next * ChunkSize = 0
        /\ reader'.rows = [r \in 1..(reader'.next * ChunkSize) |-> r]
    BY <2>1, ServerAssumption
  <2>. QED
    BY SMTT(30), <1>1, <1>2, <1>3, <2>1, <2>2, <2>3, <2>4 DEF ReaderInv
<1>6. ASSUME NEW i \in 1..Len(statements), statements[i].id = reader.id, ~reader.done,
             reader' = [reader EXCEPT
               !.rows = @ \o SQL!RowsFrom(statements[i].rows, reader.next),
               !.next = @ + 1,
               !.done = reader.next + 1 >= SQL!Chunks(statements[i].rows)]
      PROVE  SqlInv'
  <2>. DEFINE n == reader.total
              k == reader.next
  <2>1. /\ n \in Nat /\ k \in Nat /\ k * ChunkSize <= n /\ statements[i].rows = n
        /\ reader.rows = [r \in 1..(k * ChunkSize) |-> r]
        /\ reader \in [id : Nat, total : Nat, next : Nat, rows : Seq(Nat), done : BOOLEAN]
    BY <1>6 DEF SqlInv, ReaderInv
  <2>2. /\ reader'.rows = reader.rows \o SQL!RowsFrom(n, k) /\ reader'.next = k + 1
        /\ reader'.done = (k + 1 >= SQL!Chunks(n)) /\ reader'.id = reader.id /\ reader'.total = n
        /\ DOMAIN reader' = DOMAIN reader
    BY <1>6, <2>1
  <2>. HIDE DEF n, k
  <2>3. reader'.rows = [r \in 1..Upto(n, k) |-> r] /\ Upto(n, k) \in Nat
    <3>1. /\ [r \in 1..(k * ChunkSize) |-> r] \o SQL!RowsFrom(n, k) = [r \in 1..Upto(n, k) |-> r]
          /\ Upto(n, k) \in Nat
      <4>. n \in Nat /\ k \in Nat /\ k * ChunkSize <= n
        BY <2>1
      <4>. QED
        BY RowsMeant
    <3>. QED
      BY <2>1, <2>2, <3>1
  <2>4. /\ SQL!Chunks(n) \in Nat /\ (k + 1) * ChunkSize \in Nat
        /\ k + 1 >= SQL!Chunks(n) => n <= (k + 1) * ChunkSize
        /\ k + 1 < SQL!Chunks(n) => (k + 1) * ChunkSize <= n
    BY <2>1, ChunksCover, NextOffset
  <2>5. reader'.done => Upto(n, k) = n
    BY <2>1, <2>2, <2>4 DEF Upto
  <2>6. ~reader'.done => Upto(n, k) = (k + 1) * ChunkSize /\ (k + 1) * ChunkSize <= n
    <3>1. ~reader'.done => k + 1 < SQL!Chunks(n)
      <4>1. ~reader'.done => ~(k + 1 >= SQL!Chunks(n))
        BY <2>2
      <4>. QED
        BY <2>1, <2>4, <4>1
    <3>. QED
      BY <2>1, <2>4, <3>1 DEF Upto
  <2>7. reader' \in [id : Nat, total : Nat, next : Nat, rows : Seq(Nat), done : BOOLEAN]
    <3>1. reader'.rows \in Seq(Nat)
      BY <2>3
    <3>4. reader'.id \in Nat /\ reader'.total \in Nat /\ reader'.next \in Nat
      BY <2>1, <2>2
    <3>2. reader'.done \in BOOLEAN
      BY <2>2
    <3>3. reader' = [id |-> reader'.id, total |-> reader'.total, next |-> reader'.next,
                     rows |-> reader'.rows, done |-> reader'.done]
      BY <1>6, <2>1
    <3>. QED
      BY <3>1, <3>2, <3>3, <3>4
  <2>8. ReaderInv'
    BY <1>1, <2>1, <2>2, <2>3, <2>5, <2>6, <2>7 DEF SqlInv, ReaderInv, n
  <2>. QED
    BY <1>2, <2>8
<1>7. CASE SQL!GetChunk
  BY <1>4, <1>6, <1>7 DEF SQL!GetChunk
<1>8. ASSUME NEW id, SQL!OpenResult(id) PROVE SqlInv'
  BY <1>5, <1>8 DEF SQL!OpenResult
<1>. QED
  BY <1>7, <1>8

LEMMA IntervalCounted ==
  ASSUME NEW a \in Int, NEW b \in Int, a <= b + 1
  PROVE  Cardinality(a..b) = b - a + 1
<1>1. Cardinality(a..b) = IF a > b THEN 0 ELSE b - a + 1
  BY FS_Interval
<1>2. CASE a > b
  <2>1. b - a + 1 = 0
    BY <1>2
  <2>. QED
    BY <1>1, <1>2, <2>1
<1>3. CASE ~(a > b)
  BY <1>1, <1>3
<1>. QED
  BY <1>2, <1>3

(* The pager passes the newest statements first.                           *)
LEMMA PlaceMeant ==
  ASSUME CacheInv
  PROVE  /\ SQL!Matching(SQL!Statuses) = 1..Len(statements)
         /\ SQL!Cardinality(SQL!Matching(SQL!Statuses)) = Len(statements)
         /\ \A i \in 1..Len(statements) :
              SQL!Place(SQL!Statuses, i) = Len(statements) - i + 1
<1>1. Len(statements) \in Nat
  BY DEF CacheInv
<1>2. SQL!Matching(SQL!Statuses) = 1..Len(statements)
  <2>. SUFFICES ASSUME NEW i \in 1..Len(statements) PROVE statements[i].status \in SQL!Statuses
    BY DEF SQL!Matching
  <2>1. statements[i] \in StatementRecord
    BY DEF CacheInv
  <2>. QED
    BY <2>1 DEF StatementRecord
<1>3. ASSUME NEW set PROVE SQL!Cardinality(set) = Cardinality(set)
  BY DEF SQL!Cardinality, Cardinality
<1>4. Cardinality(1..Len(statements)) = Len(statements)
  <2>1. 1 \in Int /\ Len(statements) \in Int /\ 1 <= Len(statements) + 1
        /\ Len(statements) - 1 + 1 = Len(statements)
    BY <1>1
  <2>2. Cardinality(1..Len(statements)) = Len(statements) - 1 + 1
    BY <2>1, IntervalCounted
  <2>. QED
    BY <2>1, <2>2
<1>5. ASSUME NEW i \in 1..Len(statements)
      PROVE  SQL!Place(SQL!Statuses, i) = Len(statements) - i + 1
  <2>1. {j \in SQL!Matching(SQL!Statuses) : j >= i} = i..Len(statements)
    BY <1>1, <1>2
  <2>2. i \in Int /\ Len(statements) \in Int /\ i <= Len(statements) + 1
    BY <1>1
  <2>3. Cardinality(i..Len(statements)) = Len(statements) - i + 1
    BY <2>2, IntervalCounted
  <2>. QED
    BY <1>3, <2>1, <2>3 DEF SQL!Place
<1>. QED
  BY <1>2, <1>3, <1>4, <1>5

LEMMA PagerSteps ==
  ASSUME SqlInv, NEW filter, SQL!ListHistory(filter)
  PROVE  SqlInv'
<1>. DEFINE n == Len(statements)
            more == pager.offset + PageSize < SQL!Cardinality(SQL!Matching(filter))
            page == {statements[i].id : i \in {j \in SQL!Matching(filter) :
                       SQL!Place(filter, j) > pager.offset /\ SQL!Place(filter, j) <= pager.offset + PageSize}}
<1>1. /\ UNCHANGED <<statements, issued, writes, reader>>
      /\ ~pager.done /\ (pager.active => filter = pager.filter)
      /\ pager'.active = TRUE /\ pager'.filter = filter /\ pager'.done = ~more
      /\ pager'.offset = IF more THEN pager.offset + PageSize ELSE 0
      /\ pager'.begun = IF pager.active THEN pager.begun ELSE SQL!History(filter)
      /\ pager'.seen = pager.seen \cup page
  BY DEF SQL!ListHistory
<1>2. /\ n \in Nat /\ PageSize \in Nat /\ pager.offset \in Nat /\ pager.active \in BOOLEAN
      /\ (~pager.active => pager.offset = 0)
      /\ more \in BOOLEAN
  BY ServerAssumption DEF SqlInv, CacheInv, PagerInv
<1>3. ASSUME NEW b \in pager'.begun
      PROVE  b \in 1..issued.statements /\ \A x \in writes : x.id # b
  <2>1. CASE pager.active
    BY <1>1, <1>3, <2>1 DEF SqlInv, PagerInv
  <2>2. CASE ~pager.active
    <3>1. PICK i \in 1..Len(statements) : b = statements[i].id
      BY <1>1, <1>3, <2>2 DEF SQL!History, SQL!Matching
    <3>2. statements[i] \in StatementRecord
      BY DEF SqlInv, CacheInv
    <3>3. b \in Nat \ {0} /\ b <= issued.statements /\ issued.statements \in Nat
      BY <3>1, <3>2 DEF StatementRecord, SqlInv, CacheInv
    <3>. QED
      BY <3>1, <3>3 DEF SqlInv, CacheInv
  <2>. QED
    BY <1>2, <2>1, <2>2
<1>4. ASSUME filter = SQL!Statuses, NEW i \in 1..n, statements[i].id \in pager'.begun,
             pager'.done \/ n - i < pager'.offset
      PROVE  statements[i].id \in pager'.seen
  <2>1. /\ SQL!Place(filter, i) = n - i + 1 /\ i \in SQL!Matching(filter)
        /\ SQL!Cardinality(SQL!Matching(filter)) = n
    BY <1>4, PlaceMeant DEF SqlInv
  <2>2. n - i + 1 <= pager.offset + PageSize
    <3>1. CASE more
      <4>1. n - i < pager.offset + PageSize
        BY <1>1, <1>4, <3>1
      <4>. QED
        BY <1>2, <4>1
    <3>2. CASE ~more
      <4>1. n <= pager.offset + PageSize
        BY <1>2, <2>1, <3>2
      <4>. QED
        BY <1>2, <4>1
    <3>. QED
      BY <3>1, <3>2
  <2>3. CASE n - i + 1 > pager.offset
    BY <1>1, <2>1, <2>2, <2>3
  <2>4. CASE n - i < pager.offset
    <3>1. pager.active /\ pager.filter = SQL!Statuses /\ statements[i].id \in pager.begun
      BY <1>1, <1>2, <1>4, <2>4
    <3>2. statements[i].id \in pager.seen
      BY <2>4, <3>1 DEF SqlInv, PagerInv
    <3>. QED
      BY <1>1, <3>2
  <2>. QED
    BY <1>2, <2>3, <2>4
<1>. HIDE DEF more, page
<1>5. pager'.offset \in Nat
  BY <1>1, <1>2
<1>6. PagerInv'
  BY <1>1, <1>2, <1>3, <1>4, <1>5 DEF PagerInv
<1>7. CacheInv' /\ ReaderInv'
  BY <1>1 DEF SqlInv, CacheInv, ReaderInv
<1>. QED
  BY <1>6, <1>7 DEF SqlInv

LEMMA SqlSteps == SqlInv /\ SQL!Next => SqlInv'
<1>. SUFFICES ASSUME SqlInv, SQL!Next PROVE SqlInv'
  OBVIOUS
<1>0. statements \in Seq(StatementRecord) /\ issued \in [statements : Nat, warehouses : Nat]
  BY DEF SqlInv, CacheInv
<1>1. CASE UNCHANGED <<statements, issued, writes, reader, pager>>
  BY <1>1, <1>0, SameRecords
<1>2. ASSUME NEW id, SQL!CancelStatement(id) PROVE SqlInv'
  <2>1. PICK i \in 1..Len(statements) : statements' = [statements EXCEPT ![i].status = "CANCELED"]
    BY <1>2 DEF SQL!CancelStatement
  <2>2. [statements[i] EXCEPT !.status = "CANCELED"] \in StatementRecord
    <3>1. statements[i] \in StatementRecord
      BY <1>0
    <3>. QED
      BY <3>1 DEF StatementRecord, SQL!Statuses
  <2>3. statements' \in Seq(StatementRecord) /\ Len(statements') = Len(statements)
    BY <1>0, <2>1, <2>2
  <2>4. ASSUME NEW j \in 1..Len(statements)
        PROVE  statements'[j].id = statements[j].id /\ statements'[j].rows = statements[j].rows
    BY <1>0, <2>1
  <2>5. UNCHANGED <<issued, writes, reader, pager>>
    BY <1>2 DEF SQL!CancelStatement
  <2>. QED
    BY <1>0, <2>3, <2>4, <2>5, SameRecords
<1>3. CASE SQL!CreateWarehouse
  <2>1. issued' = [issued EXCEPT !.warehouses = issued.warehouses + 1]
        /\ UNCHANGED <<statements, writes, reader, pager>>
    BY <1>3 DEF SQL!CreateWarehouse
  <2>2. issued' \in [statements : Nat, warehouses : Nat] /\ issued'.statements = issued.statements
    BY <1>0, <2>1
  <2>. QED
    BY <1>0, <2>1, <2>2, SameRecords
<1>4. ASSUME NEW full, SQL!Reset(full) PROVE SqlInv'
  <2>1. statements' = <<>> /\ UNCHANGED <<issued, writes, reader, pager>>
    BY <1>4 DEF SQL!Reset
  <2>2. statements' \in Seq(StatementRecord) /\ 1..Len(statements') = {}
    BY <2>1
  <2>. QED
    BY <2>1, <2>2 DEF SqlInv, CacheInv, ReaderInv, PagerInv
<1>5. CASE SQL!Restart
  <2>1. /\ writes' = {} /\ reader' = SQL!NoReader /\ pager' = SQL!NoPager
        /\ UNCHANGED <<statements, issued>>
    BY <1>5 DEF SQL!Restart
  <2>2. \A i \in 1..Len(statements) : statements[i].id # 0
    <3>. SUFFICES ASSUME NEW i \in 1..Len(statements) PROVE statements[i].id # 0
      OBVIOUS
    <3>1. statements[i] \in StatementRecord
      BY <1>0
    <3>. QED
      BY <3>1 DEF StatementRecord
  <2>3. CacheInv'
    BY <2>1 DEF SqlInv, CacheInv
  <2>4. ReaderInv'
    BY <1>0, <2>1, <2>2, ServerAssumption DEF SQL!NoReader, ReaderInv
  <2>5. PagerInv'
    BY <2>1 DEF SQL!NoPager, PagerInv
  <2>. QED
    BY <2>3, <2>4, <2>5 DEF SqlInv
<1>6. ASSUME NEW x, \/ SQL!HandlerFails \/ SQL!StartWarehouse(x)
                    \/ SQL!StopWarehouse(x) \/ SQL!DeleteWarehouse(x)
      PROVE  SqlInv'
  BY <1>1, <1>6 DEF SQL!HandlerFails, SQL!StartWarehouse, SQL!StopWarehouse, SQL!SetWarehouse,
       SQL!DeleteWarehouse
<1>. QED
  BY <1>2, <1>3, <1>4, <1>5, <1>6, StatementSteps, FinishWriteKeeps, ReaderSteps, PagerSteps
     DEF SQL!Next

LEMMA SqlHolds == Spec => [](service = "SQL" => SqlInv)
<1>. DEFINE Inv == service = "SQL" => SqlInv
<1>1. Init => Inv
  BY SqlStarts DEF Init
<1>2. Inv /\ [Next]_vars => Inv'
  <2>1. Next => UNCHANGED service /\ (service = "SQL" => SQL!Next)
    BY DEF Next
  <2>2. UNCHANGED vars => UNCHANGED service /\ (SqlInv => SqlInv')
    BY DEF vars, sqlVars, SqlInv, CacheInv, ReaderInv, PagerInv
  <2>. QED
    BY <2>1, <2>2, SqlSteps
<1>. QED
  BY <1>1, <1>2, PTL DEF Spec

(* For any chunk size and any results, a client that followed the links of *)
(* a result to the end has every row once and in order, whatever was       *)
(* evicted, cancelled or restored beside it (get_result_chunk of           *)
(* sql_statements.py).                                                     *)
THEOREM ReadersGetAll == Spec => []ReaderHasAll
<1>1. (service = "SQL" => SqlInv) => ReaderHasAll
  BY DEF SqlInv, ReaderInv, ReaderHasAll, SQL!ReaderHasAll
<1>. QED
  BY <1>1, SqlHolds, PTL

(* For any cache and page size, a client that followed the page tokens of  *)
(* the whole history has seen every statement that was there when it began *)
(* and still is (list_query_history of sql_statements.py).                 *)
THEOREM PagersSkipNone == Spec => []PagerSkipsNone
<1>1. (service = "SQL" => SqlInv) => PagerSkipsNone
  BY DEF SqlInv, PagerInv, PagerSkipsNone, SQL!PagerSkipsNone, SQL!History, SQL!Matching
<1>. QED
  BY <1>1, SqlHolds, PTL

=============================================================================
