----------------------------- MODULE MCCatalog ------------------------------
(* One catalog with a schema of each sort and one object of each kind, for TLC. *)
EXTENDS Catalog

CONSTANTS c1, n1, u1, nobody

MCObject ==
  {[kind |-> "TABLE", catalog |-> c1, schema |-> "default", name |-> n1],
   [kind |-> "VOLUME", catalog |-> c1, schema |-> "s", name |-> n1],
   [kind |-> "FUNCTION", catalog |-> c1, schema |-> "main", name |-> n1]}

MCNamePart == {c1, "s", n1, "minilake-metastore"}

MCSecurable ==
  {[type |-> "CATALOG", name |-> <<c1>>],
   [type |-> "VOLUME", name |-> <<c1, "s", n1>>]}

\* With the metastore, under the name that the metastore itself is reported with.
MCWithMetastore == MCSecurable \cup {[type |-> "METASTORE", name |-> <<"minilake-metastore">>]}

GrantsIt == [who |-> u1, add |-> {"SELECT"}, remove |-> {}]
RevokesIt == [who |-> u1, add |-> {}, remove |-> {"SELECT"}]
Malformed == [who |-> nobody, add |-> {"SELECT"}, remove |-> {}]

\* A grant, a revocation after a grant, and a list that is rejected half way.
MCChangeList == {<<GrantsIt>>, <<GrantsIt, RevokesIt>>, <<RevokesIt, Malformed, GrantsIt>>}
=============================================================================
