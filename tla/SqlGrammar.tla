----------------------------- MODULE SqlGrammar -----------------------------
(***************************************************************************)
(* The statements a client may write, as far as services/sql_statements.py *)
(* interprets them: derivations of a small SQL grammar.  The derivation    *)
(* knows what the text passes have to find out: "@R" is a Delta table's    *)
(* name used as a relation, "@C" the same name used as a column, and       *)
(* "@TAIL" marks where the table-format tail of a CREATE TABLE begins.     *)
(***************************************************************************)
EXTENDS Integers, Sequences, FiniteSets, SequencesExt

Productions ==
  [Stmt |-> {<<"Query">>,
             <<"DELETE", "FROM", "l", "USING", "Rels", "WHERE", "Cond">>,
             <<"MERGE", "INTO", "l", "USING", "Rel", "ON", "Cond">>,
             <<"UPDATE", "l", "SET", "l", "=", "lit", "FROM", "Rels">>,
             <<"INSERT", "INTO", "l", "Query">>,
             <<"l", ";", "Query">>},
   Query |-> {<<"SELECT", "Item", "FROM", "Rels", "Tail">>,
              <<"FROM", "Rels", "Tail">>,
              <<"SELECT", "Item", ",", "Item">>,
              <<"SELECT", "Item", "UNION", "Query">>,
              <<"SELECT", "l", "FROM", "Rel", "EXCEPT", "Query">>,
              <<"WITH", "l", "AS", "(", "Query", ")", "Query">>,
              <<"PIVOT", "Rel", "ON", "l", "USING", "l", "(", "@C", ")">>},
   Item |-> {<<"@C">>, <<"lit">>, <<"(", "Query", ")">>,
             <<"@C", "IS", "DISTINCT", "FROM", "@C">>,
             <<"EXTRACT", "(", "l", "FROM", "@C", ")">>,
             <<"l", "(", "@C", ",", "@C", ")">>},
   Rels |-> {<<"Rel">>, <<"Rel", ",", "Rels">>},
   Rel |-> {<<"@R">>, <<"@R", "AS", "l">>, <<"(", "Query", ")">>, <<"(", "Rel", ")">>,
            <<"Rel", "JOIN", "Rel", "ON", "Cond">>,
            <<"Rel", "JOIN", "Rel", "USING", "(", "l", ")">>,
            <<"LATERAL", "(", "Query", ")">>,
            <<"(", "VALUES", "(", "lit", ",", "@C", ")", ")">>},
   Tail |-> {<<>>, <<"WHERE", "Cond">>, <<"GROUP", "BY", "@C", ",", "@C">>,
             <<"ORDER", "BY", "@C", ",", "@C">>},
   Cond |-> {<<"@C", "=", "@C">>, <<"@C", "IN", "(", "Query", ")">>,
             <<"@C", "IS", "NOT", "DISTINCT", "FROM", "@C">>,
             <<"l", "(", "@C", ",", "@C", ")", "=", "lit">>}]

Ddl ==
  [Script |-> {<<"Create">>, <<"Create", ";", "Create">>, <<"Select", ";", "Create">>,
               <<"Comment", "Create">>},
   Create |-> {<<"CREATE", "TABLE", "l", "(", "Columns", ")", "@TAIL", "USING", "DELTA">>,
               <<"CREATE", "OR", "REPLACE", "TABLE", "l", "(", "Columns", ")",
                 "@TAIL", "USING", "l", "l", "(", "@;", ")">>,
               <<"CREATE", "TEMP", "TABLE", "l", "(", "Columns", ")">>,
               <<"CREATE", "TABLE", "@X", "(", "Columns", ")", "USING", "DELTA", "l", "(", "l", ")",
                 "LOCATION", "Path">>,
               <<"CREATE", "TABLE", "l", "AS", "SELECT", "l", "(", "l", ")", "USING", "l">>},
   Columns |-> {<<"@N", "l">>, <<"@N", "DECIMAL", "(", "l", ",", "l", ")", "NOT NULL">>,
                <<"@N", "l", ",", "Columns">>},
   Comment |-> {<<"/*", "USING", "*/">>, <<"--", "CREATE", ";", "\n">>},
   Path |-> {<<"@p">>, <<"@q">>},
   Select |-> {<<"SELECT", "l", "FROM", "l", "JOIN", "l", "USING", "(", "l", ")">>,
               <<"SELECT", "@;">>}]

Types ==
  [Type |-> {<<"@long">>, <<"@string">>, <<"@array<", "Type", "@>array">>,
             <<"@map<", "Type", ",", "Type", "@>map">>, <<"@struct<", "Fields", "@>struct">>,
             <<"DECIMAL", "(", "10", ",", "2", ")">>, <<"CHAR", "(", "10", ")">>},
   Fields |-> {<<"@a", "Type">>, <<"@a", "Type", ",", "@b", "Type">>}]

(* A derived type in the spelling of Databricks, and in that of DuckDB.    *)
Databricks ==
  ("@long" :> <<"LONG">>) @@ ("@string" :> <<"STRING">>)
  @@ ("@array<" :> <<"ARRAY", "<">>) @@ ("@>array" :> <<">">>)
  @@ ("@map<" :> <<"MAP", "<">>) @@ ("@>map" :> <<">">>)
  @@ ("@struct<" :> <<"STRUCT", "<">>) @@ ("@>struct" :> <<">">>)
  @@ ("@a" :> <<"a", ":">>) @@ ("@b" :> <<" ", "b", ":">>)
DuckDB ==
  ("@long" :> <<"BIGINT">>) @@ ("@string" :> <<"VARCHAR">>)
  @@ ("@array<" :> <<>>) @@ ("@>array" :> <<"[]">>)
  @@ ("@map<" :> <<"MAP", "(">>) @@ ("@>map" :> <<")">>)
  @@ ("@struct<" :> <<"STRUCT", "(">>) @@ ("@>struct" :> <<")">>)
  @@ ("@a" :> <<"a", " ">>) @@ ("@b" :> <<" ", "b", " ">>)

(* A derived script of DDL, and a derived statement: the three-part name.  *)
Script ==
  ("@X" :> <<"c", ".", "s", ".", "t", " ">>) @@ ("@N" :> <<"n", " ">>) @@ ("@TAIL" :> <<>>)
  @@ ("@p" :> <<"quote", "p", "quote", " ">>) @@ ("@q" :> <<"quote", "q", "quote", " ">>)
  @@ ("@;" :> <<"quote", ";", "quote", " ">>)
Named == ("@R" :> <<"c", ".", "s", ".", "t">>) @@ ("@C" :> <<"c", ".", "s", ".", "t">>)

(* A derivation as a text, marks spelled as the table says and words kept  *)
(* apart by blanks where blanks is TRUE.                                   *)
Written(form, marks, blanks) ==
  FlattenSeq([i \in 1..Len(form) |->
    IF form[i] \in DOMAIN marks THEN marks[form[i]]
    ELSE IF blanks THEN <<form[i], " ">> ELSE <<form[i]>>])

(* The forms one step of a leftmost derivation leads to from form.         *)
Derived(rules, form) ==
  LET open == {i \in 1..Len(form) : form[i] \in DOMAIN rules}
      i == Min(open)
  IN IF open = {} THEN {}
     ELSE {SubSeq(form, 1, i - 1) \o body \o SubSeq(form, i + 1, Len(form)) :
             body \in rules[form[i]]}

Complete(rules, form) == \A i \in 1..Len(form) : form[i] \notin DOMAIN rules

(* Where the tokens of the form's mark begin in what is written of it.     *)
Places(form, marks, mark) ==
  {Len(Written(SubSeq(form, 1, i - 1), marks, FALSE)) + 1 :
     i \in {j \in 1..Len(form) : form[j] = mark}}
=============================================================================
