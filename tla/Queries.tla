------------------------------- MODULE Queries -------------------------------
(***************************************************************************)
(* services/saved_queries.py and services/alerts.py, with the legacy API   *)
(* of services/preview_sql.py, which works on the same two stores.         *)
(*                                                                         *)
(* A name is a sequence: <<"n">>, <<"n", 1>> for "n (1)", and <<>> for     *)
(* none.  Ids are counted in the order of creation.  Of a query's text only*)
(* whether there is any is kept; what a query returns is external.         *)
(* A value is a number, a text with a number in it ("numeral"), another    *)
(* text, a bool or null; n orders the values of a kind, and the texts      *)
(* beyond the numbers, as their first characters do.  Exact stands for     *)
(* 2^53, up to which a float holds every whole number.                     *)
(* Bounds: a scope says how many queries and alerts there can be, and with *)
(* which names, symbols and values; a behaviour has one of Scopes.  Values *)
(* and Results are not negative and at most 2 * Exact.                     *)
(***************************************************************************)
EXTENDS Integers, Sequences, FiniteSets, Functions

CONSTANTS Scopes, Results, Exact

VARIABLES
  scope,     \* the bounds of this behaviour
  queries,   \* id -> name, text, trashed
  alerts,    \* id -> name, query, condition, and the symbol its client asked for
  renamed,   \* queries and alerts whose name the legacy API has set unchecked
  judged     \* the last evaluation, right after it

vars == <<scope, queries, alerts, renamed, judged>>

NoValue == [kind |-> "none", n |-> 0]
Null == [kind |-> "null", n |-> 0]
NotJudged == [state |-> "none", symbol |-> "none", observed |-> NoValue, value |-> NoValue]

Init == scope \in Scopes /\ queries = <<>> /\ alerts = <<>> /\ renamed = {} /\ judged = NotJudged

----------------------------------------------------------------------------
(* Names: _display_name_taken and _resolve_display_name, once for each of  *)
(* the two stores.                                                         *)
Without(f, keys) == Restrict(f, DOMAIN f \ keys)
Taken(store, name) == name # <<>> /\ \E i \in DOMAIN store : store[i].name = name

Numbered(name, k) ==
  LET base == IF name = <<>> THEN <<"new">> ELSE name
  IN IF k = 0 THEN base ELSE Append(base, k)

\* Mutant: the number is how many objects there are.
ResolvedByCount(store, name) == Numbered(name, Cardinality(DOMAIN store))

Resolved(store, name) ==
  Numbered(name, CHOOSE k \in 0..Cardinality(DOMAIN store) :
                   /\ ~Taken(store, Numbered(name, k))
                   /\ \A j \in 0..(k - 1) : Taken(store, Numbered(name, j)))

(* The name a request ends up with, and when it is refused.                *)
NameFor(store, name, auto) == IF auto THEN Resolved(store, name) ELSE name
Nameable(store, name, auto) == auto \/ ~Taken(store, name)

(* Objects of the two stores are told apart in renamed.                    *)
Query(i) == <<"query", i>>
Alert(i) == <<"alert", i>>
New(store) == IF DOMAIN store = {} THEN 1 ELSE 1 + CHOOSE i \in DOMAIN store : \A j \in DOMAIN store : j <= i
Added(store, i, object) == [j \in DOMAIN store \cup {i} |-> IF j = i THEN object ELSE store[j]]

----------------------------------------------------------------------------
CreateQuery(name, text, auto) ==
  /\ New(queries) <= scope.queries
  /\ Nameable(queries, name, auto)
  /\ queries' = Added(queries, New(queries),
       [name |-> NameFor(queries, name, auto), text |-> text, trashed |-> FALSE])
  /\ renamed' = renamed \ {Query(New(queries))} /\ judged' = NotJudged
  /\ UNCHANGED <<scope, alerts>>

(* update_query: the mask says which of the attributes are taken over.     *)
UpdateQuery(i, mask, name, text, auto) ==
  LET others == Without(queries, {i})
      renames == "name" \in mask /\ name # <<>>
  IN /\ i \in DOMAIN queries /\ mask # {}
     /\ renames => Nameable(others, name, auto)
     /\ queries' = [queries EXCEPT
          ![i].name = IF renames THEN NameFor(others, name, auto) ELSE @,
          ![i].text = IF "text" \in mask THEN text ELSE @]
     /\ renamed' = IF renames THEN renamed \ {Query(i)} ELSE renamed
     /\ judged' = NotJudged /\ UNCHANGED <<scope, alerts>>

DeleteQuery(i) ==
  /\ i \in DOMAIN queries
  /\ queries' = Without(queries, {i})
  /\ judged' = NotJudged /\ UNCHANGED <<scope, alerts, renamed>>

(* The legacy update takes over whatever it is sent; the trash hides a     *)
(* query from the lists and from nothing else.                             *)
UpdateQueryLegacy(i, mask, name, text) ==
  /\ i \in DOMAIN queries
  /\ queries' = [queries EXCEPT
       ![i].name = IF "name" \in mask THEN name ELSE @,
       ![i].text = IF "text" \in mask THEN text ELSE @]
  /\ renamed' = IF "name" \in mask THEN renamed \cup {Query(i)} ELSE renamed
  /\ judged' = NotJudged /\ UNCHANGED <<scope, alerts>>

TrashQuery(i, trashed) ==
  /\ i \in DOMAIN queries
  /\ queries' = [queries EXCEPT ![i].trashed = trashed]
  /\ judged' = NotJudged /\ UNCHANGED <<scope, alerts, renamed>>

----------------------------------------------------------------------------
(* A condition as the modern API holds it, and the symbols of the legacy   *)
(* one; both maps of preview_sql.py.                                       *)
LegacyToModern ==
  [symbol \in {">", ">=", "<", "<=", "==", "=", "!="} |->
     CASE symbol = ">" -> "GREATER_THAN"
       [] symbol = ">=" -> "GREATER_THAN_OR_EQUAL"
       [] symbol = "<" -> "LESS_THAN"
       [] symbol = "<=" -> "LESS_THAN_OR_EQUAL"
       [] symbol \in {"==", "="} -> "EQUAL"
       [] symbol = "!=" -> "NOT_EQUAL"]

\* Mutant: one symbol is mapped to its neighbour, the others not at all.
TranslatedStrictly(symbol) == IF symbol = "<=" THEN "LESS_THAN" ELSE symbol

Translated(symbol) ==
  IF symbol \in DOMAIN LegacyToModern THEN LegacyToModern[symbol]
  ELSE CASE symbol = "is_null" -> "IS_NULL"
         [] symbol = "is_not_null" -> "IS_NOT_NULL"
         [] OTHER -> symbol

Condition(symbol, column, value, empty) ==
  [op |-> Translated(symbol), column |-> column, value |-> value, empty |-> empty]

NewAlert(name, query, symbol, condition) ==
  [name |-> name, query |-> query, symbol |-> symbol, condition |-> condition]

(* create_alert; create_alert_legacy always resolves the name.             *)
CreateAlert(name, query, symbol, condition, auto) ==
  /\ New(alerts) <= scope.alerts
  /\ Nameable(alerts, name, auto)
  /\ alerts' = Added(alerts, New(alerts),
       NewAlert(NameFor(alerts, name, auto), query, symbol, condition))
  /\ renamed' = renamed \ {Alert(New(alerts))} /\ judged' = NotJudged
  /\ UNCHANGED <<scope, queries>>

UpdateAlert(i, mask, name, query, symbol, condition, auto) ==
  LET others == Without(alerts, {i})
      renames == "name" \in mask /\ name # <<>>
  IN /\ i \in DOMAIN alerts /\ mask # {}
     /\ renames => Nameable(others, name, auto)
     /\ alerts' = [alerts EXCEPT ![i] = [
          name |-> IF renames THEN NameFor(others, name, auto) ELSE @.name,
          query |-> IF "query" \in mask THEN query ELSE @.query,
          symbol |-> IF "condition" \in mask THEN symbol ELSE @.symbol,
          condition |-> IF "condition" \in mask THEN condition ELSE @.condition]]
     /\ renamed' = IF renames THEN renamed \ {Alert(i)} ELSE renamed
     /\ judged' = NotJudged /\ UNCHANGED <<scope, queries>>

(* update_alert_legacy: a body with options replaces the whole condition.  *)
UpdateAlertLegacy(i, mask, name, query, symbol, condition) ==
  /\ i \in DOMAIN alerts
  /\ alerts' = [alerts EXCEPT ![i] = [
       name |-> IF "name" \in mask THEN name ELSE @.name,
       query |-> IF "query" \in mask THEN query ELSE @.query,
       symbol |-> IF "condition" \in mask THEN symbol ELSE @.symbol,
       condition |-> IF "condition" \in mask THEN condition ELSE @.condition]]
  /\ renamed' = IF "name" \in mask THEN renamed \cup {Alert(i)} ELSE renamed
  /\ judged' = NotJudged /\ UNCHANGED <<scope, queries>>

DeleteAlert(i) ==
  /\ i \in DOMAIN alerts
  /\ alerts' = Without(alerts, {i})
  /\ judged' = NotJudged /\ UNCHANGED <<scope, queries, renamed>>

----------------------------------------------------------------------------
(* float: every second number beyond Exact lies between two floats and     *)
(* becomes the one with the even significand.                              *)
Float(n) ==
  CASE n <= Exact \/ n % 2 = 0 -> n
    [] n > Exact /\ n % 4 = 1 -> n - 1
    [] n > Exact /\ n % 4 = 3 -> n + 1

(* _coerce_for_compare: two bools if one is, else two floats if both can   *)
(* be, else two texts; and _COMPARATORS.                                   *)
Truth(v) == IF v.kind \in {"number", "bool"} /\ v.n = 0 THEN 0 ELSE 1
Numeric(a, b) == {a.kind, b.kind} \subseteq {"number", "numeral"}
Coerced(a, b) ==
  IF "bool" \in {a.kind, b.kind} THEN Truth(a)
  ELSE IF Numeric(a, b) THEN Float(a.n) ELSE a.n

Ordered(op, x, y) ==
  CASE op = "EQUAL" -> x = y
    [] op = "NOT_EQUAL" -> x # y
    [] op = "GREATER_THAN" -> x > y
    [] op = "GREATER_THAN_OR_EQUAL" -> x >= y
    [] op = "LESS_THAN" -> x < y
    [] op = "LESS_THAN_OR_EQUAL" -> x <= y

Compared(op, a, b) == Ordered(op, Coerced(a, b), Coerced(b, a))

Comparators == {LegacyToModern[s] : s \in DOMAIN LegacyToModern}

Triggered(condition, observed) ==
  CASE condition.op = "IS_NULL" -> observed = Null
    [] condition.op = "IS_NOT_NULL" -> observed # Null
    [] OTHER -> observed # Null /\ condition.value # NoValue
                  /\ Compared(condition.op, observed, condition.value)

(* evaluate_alert: the query runs, its first row is judged; what cannot be *)
(* judged is an error, which records nothing.  A result is what the column *)
(* "c" holds in the first row, NoValue if there is no row.                 *)
Judgement(condition, result) ==
  IF result = NoValue THEN condition.empty
  ELSE IF condition.op = "none" \/ condition.column = "none" THEN "OK"
  ELSE IF Triggered(condition, result) THEN "TRIGGERED" ELSE "OK"

EvaluateAlert(i, result) ==
  LET alert == alerts[i]
      condition == alert.condition
  IN /\ i \in DOMAIN alerts
     /\ alert.query \in DOMAIN queries /\ queries[alert.query].text
     /\ (result # NoValue /\ condition.op # "none" /\ condition.column # "none") =>
          condition.column = "c" /\ condition.op \in Comparators \cup {"IS_NULL", "IS_NOT_NULL"}
     /\ judged' = [state |-> Judgement(condition, result),
                   symbol |-> IF condition.column = "none" THEN "none" ELSE alert.symbol,
                   observed |-> result, value |-> condition.value]
     /\ UNCHANGED <<scope, queries, alerts, renamed>>

(* The reset of both services.                                             *)
Reset == scope' = scope /\ queries' = <<>> /\ alerts' = <<>> /\ renamed' = {} /\ judged' = NotJudged

Conditions ==
  {<<symbol, Condition(symbol, column, value, "UNKNOWN")>> :
     symbol \in scope.symbols, column \in scope.columns, value \in scope.values}

Next ==
  \/ \E name \in scope.names, text \in BOOLEAN, auto \in BOOLEAN : CreateQuery(name, text, auto)
  \/ \E i \in DOMAIN queries, name \in scope.names, text \in BOOLEAN, mask \in SUBSET {"name", "text"} :
       \/ \E auto \in BOOLEAN : UpdateQuery(i, mask, name, text, auto)
       \/ UpdateQueryLegacy(i, mask, name, text)
  \/ \E i \in DOMAIN queries : DeleteQuery(i) \/ \E trashed \in BOOLEAN : TrashQuery(i, trashed)
  \/ \E name \in scope.names, query \in 1..scope.queries, c \in Conditions :
       \/ \E auto \in BOOLEAN : CreateAlert(name, query, c[1], c[2], auto)
       \/ \E i \in DOMAIN alerts, mask \in SUBSET {"name", "query", "condition"} :
            \/ \E auto \in BOOLEAN : UpdateAlert(i, mask, name, query, c[1], c[2], auto)
            \/ UpdateAlertLegacy(i, mask, name, query, c[1], c[2])
  \/ \E i \in DOMAIN alerts : DeleteAlert(i) \/ \E result \in Results : EvaluateAlert(i, result)
  \/ Reset

Spec == Init /\ [][Next]_vars

----------------------------------------------------------------------------
(* Names are unique in each store: creations and updates of the modern API,*)
(* whether or not they resolve conflicts, and creations of the legacy one  *)
(* never give out a name that is taken.  Only the legacy updates, which    *)
(* check nothing, may (_display_name_taken).                               *)
NamesUnique ==
  /\ \A i, j \in DOMAIN queries :
       (i # j /\ {Query(i), Query(j)} \cap renamed = {}) =>
         queries[i].name # queries[j].name \/ queries[i].name = <<>>
  /\ \A i, j \in DOMAIN alerts :
       (i # j /\ {Alert(i), Alert(j)} \cap renamed = {}) =>
         alerts[i].name # alerts[j].name \/ alerts[i].name = <<>>

Holds(symbol, x, y) ==
  CASE symbol = ">" -> x > y
    [] symbol = ">=" -> x >= y
    [] symbol = "<" -> x < y
    [] symbol = "<=" -> x <= y
    [] symbol \in {"=", "=="} -> x = y
    [] symbol = "!=" -> x # y

(* An alert fires when the comparison its client wrote holds of the number *)
(* that the query returned, also when one of the two sides is a text that  *)
(* holds a number, and never on null or without a threshold: the symbol of *)
(* the legacy API reaches the evaluation as what it means.  Beyond 2^53 it *)
(* may take two numbers for equal that are not, and never for ordered the  *)
(* other way round (_LEGACY_TO_MODERN_OP, _coerce_for_compare).            *)
AlertsJudged ==
  judged.symbol \in DOMAIN LegacyToModern /\ judged.state \in {"OK", "TRIGGERED"} =>
    LET fires == judged.state = "TRIGGERED"
        x == judged.observed.n
        y == judged.value.n
    IN /\ fires => judged.observed # Null /\ judged.value # NoValue
       /\ Numeric(judged.observed, judged.value) =>
            \/ fires <=> Holds(judged.symbol, x, y)
            \/ x # y /\ (x > Exact \/ y > Exact) /\ (fires <=> Holds(judged.symbol, x, x))
=============================================================================
