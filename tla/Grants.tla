------------------------------- MODULE Grants -------------------------------
(***************************************************************************)
(* Unity Catalog grants (services/grants.py): what is granted on each      *)
(* securable, what a securable inherits from the ones above it, and the    *)
(* cascade that Unity Catalog asks for when it deletes a catalog or a      *)
(* schema.  Grants are recorded and reported, never enforced.              *)
(*                                                                         *)
(* A dotted name is the sequence of its parts.  The nested dictionaries    *)
(* key -> principal -> privileges are a set of triples: an entry without   *)
(* privileges, which a rejected update can leave behind, reads as none.    *)
(***************************************************************************)
EXTENDS Naturals, Sequences

CONSTANTS
  NamePart,     \* the parts of dotted names
  Securable,    \* the (type, name) keys that requests name
  Principal,
  NoPrincipal,  \* the principal of a malformed change
  Privilege,
  ChangeList    \* the lists of changes that update requests carry

Change ==
  [who : Principal \cup {NoPrincipal}, add : SUBSET Privilege, remove : SUBSET Privilege]

ASSUME SecurableAssumption == Securable \subseteq [type : STRING, name : Seq(NamePart)]
ASSUME NoPrincipalAssumption == NoPrincipal \notin Principal
ASSUME ChangeListAssumption == ChangeList \subseteq Seq(Change)

VARIABLE grants   \* _state["grants"]

Grant == [on : Securable, who : Principal, what : Privilege]

\* _NESTED: the securable types that nest, with the number of parts of their names.
Depth == [CATALOG |-> 1, SCHEMA |-> 2, TABLE |-> 3, VOLUME |-> 3, FUNCTION |-> 3]
Nests(s) == s.type \in DOMAIN Depth

\* _validate: the name has as many parts as the type asks for.
WellNamed(s) == Nests(s) => Len(s.name) = Depth[s.type]

\* _METASTORE, the securable everything inherits from: it has no name.
Metastore == [type |-> "METASTORE", name |-> <<>>]

Parent(s, type) == [type |-> type, name |-> SubSeq(s.name, 1, Depth[type])]

\* Mutant: only the securable right above is looked at.
AncestorsOnlyNearest(s) ==
  {Parent(s, type) : type \in {x \in {"SCHEMA", "CATALOG"} : Nests(s) /\ Depth[x] = Depth[s.type] - 1}}
    \cup {Metastore}

\* _ancestors.
Ancestors(s) ==
  {Parent(s, type) : type \in {x \in {"SCHEMA", "CATALOG"} : Nests(s) /\ Depth[x] < Depth[s.type]}}
    \cup {Metastore}

\* Where a grant that is effective on s can come from, and how near to s that is: s itself,
\* then its schema, its catalog, and the metastore last.
Sources(s) == {s} \cup Ancestors(s)

Nearness(source, s) ==
  IF source = s THEN 4 ELSE IF source = Metastore THEN 0 ELSE Depth[source.type]

HeldAt(s, who, what) == [on |-> s, who |-> who, what |-> what] \in grants

\* get_effective_permissions: who holds what on s, and from where; the nearest source wins.
Effective(s) ==
  {e \in [who : Principal, what : Privilege, from : Sources(s)] :
     /\ HeldAt(e.from, e.who, e.what)
     /\ \A source \in Sources(s) :
          HeldAt(source, e.who, e.what) => Nearness(source, s) <= Nearness(e.from, s)}

Holds(s) == {<<e.who, e.what>> : e \in Effective(s)}

-----------------------------------------------------------------------------
\* The changes of a list before the first malformed one, at which the handler raises:
\* the earlier ones have been applied by then.
Applied(changes) == {i \in 1 .. Len(changes) : \A j \in 1 .. i : changes[j].who # NoPrincipal}

\* The changes applied to the privilege `what` of `who`, and the last of them.
Touching(changes, who, what) ==
  {i \in Applied(changes) : changes[i].who = who /\ what \in changes[i].add \cup changes[i].remove}

\* A privilege both added and removed by one change ends up removed.
HoldsAfter(changes, on, g) ==
  LET touching == Touching(changes, g.who, g.what)
  IN IF g.on # on \/ touching = {} THEN g \in grants
     ELSE \E i \in touching : (\A j \in touching : j <= i) /\ g.what \notin changes[i].remove

\* update_permissions.
UpdatePermissions(s, changes) ==
  /\ WellNamed(s)
  /\ grants' = {g \in Grant : HoldsAfter(changes, s, g)}

-----------------------------------------------------------------------------
\* s is nested below parent: a deeper type, and a name that continues the parent's.
Descends(s, parent) ==
  /\ Nests(s) /\ Nests(parent)
  /\ Depth[s.type] > Depth[parent.type]
  /\ \A i \in 1 .. Len(parent.name) : s.name[i] = parent.name[i]

\* Mutant: only the grants on the parent itself go.
GrantsWithoutParentOnly(parent) == {g \in grants : g.on # parent}

\* delete_grants_for_parent: the grants that stay.
GrantsWithout(parent) == {g \in grants : g.on # parent /\ ~Descends(g.on, parent)}

-----------------------------------------------------------------------------
\* The code's own words at _METASTORE (grants.py:45): a grant on the metastore is inherited
\* by every securable below it.
MetastoreInherited ==
  \A g \in grants : g.on.type = "METASTORE" =>
    \A s \in Securable : Nests(s) /\ WellNamed(s) => <<g.who, g.what>> \in Holds(s)

\* Whatever is effective on a securable is effective on everything below it, however the
\* grants were reached: what get_effective reports never shrinks on the way down.
InheritanceComplete ==
  \A s, t \in Securable :
    WellNamed(s) /\ WellNamed(t) /\ Descends(t, s) => Holds(s) \subseteq Holds(t)
=============================================================================
