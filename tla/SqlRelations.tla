---------------------------- MODULE SqlRelations ----------------------------
(***************************************************************************)
(* The relation rewriting of services/sql_statements.py: in a statement,   *)
(* which three-part names stand where a relation stands, and are therefore *)
(* replaced by a scan of the Delta table registered under that name.       *)
(* A statement is the sequence of its tokens: a word, a symbol, "lit" for  *)
(* a string.  The parts of a name are written without blanks in between.   *)
(***************************************************************************)
EXTENDS Integers, Sequences, FiniteSets, SequencesExt

CONSTANT ExternalTables     \* names <<catalog, schema, table>> of Delta tables

SymbolTokens == {"(", ")", ",", ";", ".", "="}
IsWord(x) == x \notin SymbolTokens \cup {"lit"}

Modifiers == {"LATERAL", "ONLY"}
SetOperations == {"UNION", "INTERSECT", "EXCEPT"}
Pivots == {"PIVOT", "PIVOT_WIDER", "UNPIVOT"}
ClauseEnds == SetOperations \cup {"FETCH", "GROUP", "HAVING", "LIMIT", "OFFSET", "ORDER",
                                  "QUALIFY", "RETURNING", "VALUES", "WHERE", "WINDOW"}

(* What the rewriting knows of the query, or of the parentheses, it is in. *)
Scope == [inFrom: BOOLEAN, expectRelation: BOOLEAN, queryStarted: BOOLEAN,
          allowBareFrom: BOOLEAN, write: BOOLEAN, sourcePending: BOOLEAN]
Opened(relations, bareFrom) ==
  [inFrom |-> relations, expectRelation |-> relations, queryStarted |-> FALSE,
   allowBareFrom |-> bareFrom, write |-> FALSE, sourcePending |-> FALSE]
Fresh == Opened(FALSE, TRUE)

(* A name of exactly three parts starts at i.                              *)
NameAt(t, i) ==
  LET is(k, x) == k <= Len(t) /\ t[k] = x
      part(k) == k <= Len(t) /\ IsWord(t[k])
  IN part(i) /\ is(i + 1, ".") /\ part(i + 2) /\ is(i + 3, ".") /\ part(i + 4)
     /\ ~is(i + 5, ".")

\* Mutant: IS NOT DISTINCT FROM is forgotten.
DistinctFromPositive(t, i) ==
  /\ i > 2
  /\ t[i] = "FROM" /\ t[i - 1] = "DISTINCT" /\ t[i - 2] = "IS"

(* The FROM at i belongs to IS [NOT] DISTINCT FROM.                        *)
DistinctFrom(t, i) ==
  LET is(k, x) == k >= 1 /\ t[k] = x
  IN t[i] = "FROM" /\ is(i - 1, "DISTINCT")
     /\ (is(i - 2, "IS") \/ (is(i - 2, "NOT") /\ is(i - 3, "IS")))

(* The scope after the word at i, which is not part of a qualified name    *)
(* and not a relation.                                                     *)
AfterKeyword(t, i, sc) ==
  LET w == t[i]
      distinct == DistinctFrom(t, i)
      relations == [sc EXCEPT !.inFrom = TRUE, !.expectRelation = TRUE]
      noRelation == [sc EXCEPT !.expectRelation = FALSE]
  IN IF w = "SELECT"
     THEN [noRelation EXCEPT !.queryStarted = TRUE, !.allowBareFrom = FALSE, !.inFrom = FALSE]
     ELSE IF w \in {"FROM", "JOIN"}
     THEN IF w = "JOIN" \/ (~distinct /\ (sc.queryStarted \/ sc.allowBareFrom))
          THEN relations ELSE sc
     ELSE IF w \in Pivots /\ ~sc.queryStarted /\ (sc.inFrom => sc.expectRelation)
     THEN [relations EXCEPT !.queryStarted = TRUE, !.allowBareFrom = FALSE]
     ELSE IF w = "USING" /\ sc.sourcePending
     THEN [relations EXCEPT !.sourcePending = FALSE]
     ELSE IF w \in {"ON", "USING"}
     THEN noRelation
     ELSE IF w \in SetOperations
     THEN [noRelation EXCEPT !.inFrom = FALSE, !.queryStarted = FALSE, !.allowBareFrom = TRUE]
     ELSE IF w = "VALUES" /\ (IF sc.inFrom THEN ~sc.expectRelation ELSE ~sc.queryStarted)
     THEN sc
     ELSE IF w \in ClauseEnds
     THEN [noRelation EXCEPT !.inFrom = FALSE, !.allowBareFrom = FALSE]
     ELSE IF sc.expectRelation /\ w \in Modifiers
     THEN sc
     ELSE noRelation

(* DELETE and MERGE at the start of a statement may have a USING source.   *)
AtWrite(t, i, sc) ==
  IF t[i] \in {"DELETE", "MERGE"} /\ ~sc.write /\ ~sc.queryStarted /\ ~sc.inFrom
  THEN [sc EXCEPT !.write = TRUE, !.sourcePending = TRUE] ELSE sc

AfterWord(t, i, sc) ==
  IF i > 1 /\ t[i - 1] = "."
  THEN IF sc.expectRelation /\ t[i] \in Modifiers
       THEN sc ELSE [sc EXCEPT !.expectRelation = FALSE]
  ELSE AfterKeyword(t, i, AtWrite(t, i, sc))

(* One turn of the loop: m.at is the token it looks at, m.scopes the open  *)
(* parentheses, m.replaced the positions of the names it replaces.         *)
Turn(t, m) ==
  LET i == m.at
      sc == Last(m.scopes)
      with(new) == Append(Front(m.scopes), new)
      on(scopes) == [m EXCEPT !.at = i + 1, !.scopes = scopes]
      noRelation == [sc EXCEPT !.expectRelation = FALSE]
  IN CASE t[i] = "(" ->
            on(Append(with(noRelation),
                      Opened(sc.expectRelation,
                             i < Len(t) /\ t[i + 1] \in {"FROM", "WITH"})))
       [] t[i] = ")" ->
            on(IF Len(m.scopes) = 1 THEN m.scopes
               ELSE LET outer == Front(m.scopes)
                    IN [outer EXCEPT ![Len(outer)].expectRelation = FALSE])
       [] t[i] = "," -> on(with(IF sc.inFrom THEN [sc EXCEPT !.expectRelation = TRUE] ELSE sc))
       [] t[i] = ";" -> on(with(Fresh))
       [] t[i] \in {".", "="} -> on(m.scopes)
       [] t[i] = "lit" -> on(with(noRelation))
       [] IsWord(t[i]) /\ sc.expectRelation /\ NameAt(t, i) ->
            [at |-> i + 5, scopes |-> with(noRelation),
             replaced |-> m.replaced \cup
               (IF <<t[i], t[i + 2], t[i + 4]>> \in ExternalTables THEN {i} ELSE {})]
       [] IsWord(t[i]) /\ ~(sc.expectRelation /\ NameAt(t, i)) ->
            on(with(AfterWord(t, i, sc)))

Replaced(t) ==
  LET after[k \in Nat] ==
        IF k = 0 THEN [at |-> 1, scopes |-> <<Fresh>>, replaced |-> {}]
        ELSE LET m == after[k - 1] IN IF m.at > Len(t) THEN m ELSE Turn(t, m)
  IN after[Len(t)].replaced
=============================================================================
