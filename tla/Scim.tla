-------------------------------- MODULE Scim --------------------------------
(***************************************************************************)
(* services/scim.py: users, groups and service principals.  The three kinds*)
(* share their code, so a behaviour is about one of them.  A resource has  *)
(* an id, the name that must be unique (userName, displayName or           *)
(* applicationId), and members, which stands for every multi-valued        *)
(* attribute.  NoName stands for an attribute that is not there; a made-up *)
(* applicationId is <<id>>.  A refused request changes nothing, so only    *)
(* patches say what is refused: the others have it as their guard.         *)
(* Bounds: Ids, Names, Members, patches of at most two operations.         *)
(***************************************************************************)
EXTENDS Integers, Sequences, FiniteSets, SequencesExt

CONSTANTS Ids, Names, Members, UserId, UserName, NoName

VARIABLES
  kind,      \* the kind of resource this behaviour is about
  store,     \* _state[kind]: id -> resource
  renumbered \* a patch has changed an id

vars == <<kind, store, renumbered>>

Kinds == {"Users", "Groups", "ServicePrincipals"}
Resource(id, name, members) == [id |-> id, name |-> name, members |-> members]

(* _new_store and _seed_current_user *)
Fresh(k) == IF k = "Users" THEN [i \in {UserId} |-> Resource(UserId, UserName, {})] ELSE <<>>

Init ==
  /\ kind \in Kinds /\ store = Fresh(kind)
  /\ renumbered = FALSE

Stored(id, resource) == [i \in DOMAIN store \cup {id} |-> IF i = id THEN resource ELSE store[i]]

(* _unique_check: no other resource has the name; others are told apart by *)
(* the id that they hold.                                                  *)
Unique(name, except) ==
  name = NoName \/ \A i \in DOMAIN store : store[i].name = name => store[i].id \in except

Commit(new) == store' = new /\ UNCHANGED <<kind, renumbered>>

(* A service principal without an application id gets one.                 *)
Given(id, name) == IF kind = "ServicePrincipals" /\ name = NoName THEN <<id>> ELSE name

(* create: the client may choose the id, and so replace a resource.        *)
Create(id, name, members) ==
  Unique(Given(id, name), {}) /\ Commit(Stored(id, Resource(id, Given(id, name), members)))

Replace(id, name, members) ==
  /\ id \in DOMAIN store /\ Unique(name, {id})
  /\ Commit(Stored(id, Resource(id, name, members)))

Delete(id) ==
  id \in DOMAIN store /\ Commit([i \in DOMAIN store \ {id} |-> store[i]])

----------------------------------------------------------------------------
(* _apply_patch: the operations that clients send, one after the other, on *)
(* a copy.  "members[value eq m]" is the path "member"; an operation       *)
(* without a path merges, or takes away, the attributes of an object.      *)
Operations ==
  [op : {"replace"}, path : {"id"}, value : Ids]
    \cup [op : {"add", "replace"}, path : {"name", "object"}, value : Names]
    \cup [op : {"remove"}, path : {"name", "object", "members"}, value : {NoName}]
    \cup [op : {"add", "replace"}, path : {"members"}, value : {{m} : m \in Members}]
    \cup [op : {"add", "remove"}, path : {"member"}, value : Members]
    \cup [op : {"replace"}, path : {"malformed"}, value : {NoName}]

Malformed(o) == o.path = "malformed"

PatchedBy(r, o) ==
  CASE o.path = "id" -> [r EXCEPT !.id = o.value]
    [] o.path \in {"name", "object"} -> [r EXCEPT !.name = o.value]
    [] o.path = "members" /\ o.op = "add" -> [r EXCEPT !.members = @ \cup o.value]
    [] o.path = "members" /\ o.op = "replace" -> [r EXCEPT !.members = o.value]
    [] o.path = "members" /\ o.op = "remove" -> [r EXCEPT !.members = {}]
    [] o.path = "member" /\ o.op = "add" -> [r EXCEPT !.members = @ \cup {o.value}]
    [] o.path = "member" /\ o.op = "remove" -> [r EXCEPT !.members = @ \ {o.value}]
    [] OTHER -> r

Candidate(r, operations) == FoldLeft(PatchedBy, r, operations)

\* Mutant: the patch goes into the stored resource, errors come too late.
ApplicableInPlace(r, operations) == operations # <<>>

(* _patch_resource commits the copy when every operation has succeeded and *)
(* the name of the copy is free.                                           *)
Applicable(r, operations) ==
  /\ operations # <<>>
  /\ \A k \in DOMAIN operations : ~Malformed(operations[k])
  /\ Unique(Candidate(r, operations).name, {r.id})

PatchResource(id, operations) ==
  /\ id \in DOMAIN store
  /\ LET patched == IF Applicable(store[id], operations)
                    THEN Candidate(store[id], operations) ELSE store[id]
     IN /\ store' = Stored(id, patched)
        /\ renumbered' = (renumbered \/ patched.id # id)
  /\ kind' = kind

Reset == store' = Fresh(kind) /\ renumbered' = FALSE /\ kind' = kind

Next ==
  \/ \E id \in Ids, name \in Names \cup {NoName}, members \in SUBSET Members :
       Create(id, name, members) \/ Replace(id, name, members)
  \/ \E id \in Ids : Delete(id)
  \/ \E id \in Ids, operations \in SeqOf(Operations, 2) : PatchResource(id, operations)
  \/ Reset

Spec == Init /\ [][Next]_vars

----------------------------------------------------------------------------
(* Two resources of a kind never share a name, whatever was created,       *)
(* replaced and patched: the rule of _unique_check, as long as no patch    *)
(* has changed an id, by which the check tells a resource from the others. *)
NamesUnique ==
  ~renumbered =>
    \A i, j \in DOMAIN store : (store[i].name = store[j].name /\ store[i].name # NoName) => i = j
=============================================================================
