----------------------------- MODULE ColumnTypes -----------------------------
(***************************************************************************)
(* uc_types.py: the parser that understands a column type in Databricks'   *)
(* and in DuckDB's spelling.  A text is a sequence of words and of the     *)
(* symbols < > ( ) , : [] and blank.  The type_json of a column, which is  *)
(* built in step with its canonical text, is left out.                     *)
(***************************************************************************)
EXTENDS Integers, Sequences, FiniteSets, SequencesExt

(* What becomes of some scalar names: DuckDB's type, the name of the type  *)
(* and its canonical text.                                                 *)
Scalar(duckdb, name, canonical) == [duckdb |-> duckdb, name |-> name, canonical |-> canonical]
Scalars ==
  [STRING |-> Scalar("VARCHAR", "STRING", "string"),
   VARCHAR |-> Scalar("VARCHAR", "STRING", "string"),
   CHAR |-> Scalar("VARCHAR", "STRING", "string"),
   LONG |-> Scalar("BIGINT", "LONG", "bigint"),
   BIGINT |-> Scalar("BIGINT", "LONG", "bigint"),
   BYTE |-> Scalar("TINYINT", "BYTE", "tinyint"),
   TINYINT |-> Scalar("TINYINT", "BYTE", "tinyint"),
   NULL |-> Scalar("VARCHAR", "NULL", "void")]

(* Words are compared in upper case; the canonical text is in lower case.  *)
LowerCase == ("string" :> "STRING") @@ ("varchar" :> "VARCHAR") @@ ("char" :> "CHAR")
             @@ ("bigint" :> "BIGINT") @@ ("tinyint" :> "TINYINT") @@ ("void" :> "VOID")
             @@ ("array" :> "ARRAY") @@ ("map" :> "MAP") @@ ("struct" :> "STRUCT")
             @@ ("decimal" :> "DECIMAL")
Upper(x) == IF x \in DOMAIN LowerCase THEN LowerCase[x] ELSE x

Trim(s) ==
  LET full == {i \in 1..Len(s) : s[i] \notin {" ", "\n"}}
  IN IF full = {} THEN <<>> ELSE SubSeq(s, Min(full), Max(full))

(* The pieces of s between the positions in cuts.                          *)
Pieces(s, cuts) ==
  LET c == <<0>> \o SelectSeq([i \in 1..Len(s) |-> i], LAMBDA i : i \in cuts) \o <<Len(s) + 1>>
  IN [k \in 1..(Len(c) - 1) |-> SubSeq(s, c[k] + 1, c[k + 1] - 1)]

\* Mutant: commas within brackets split as well.
SplitEverywhere(s) == Pieces(s, {i \in 1..Len(s) : s[i] = ","})

(* Split on the commas that no bracket encloses; empty pieces disappear.   *)
SplitTopLevel(s) ==
  LET count(i, A) == Cardinality({k \in 1..i : s[k] \in A})
      cuts == {i \in 1..Len(s) : s[i] = "," /\ count(i, {"<", "("}) = count(i, {">", ")"})}
      trimmed == [k \in 1..Len(Pieces(s, cuts)) |-> Trim(Pieces(s, cuts)[k])]
  IN SelectSeq(trimmed, LAMBDA p : p # <<>>)

(* STRUCT<a:INT> or DECIMAL(10,2), split into its head and its arguments:  *)
(* a bracket < anywhere rules the round ones out.                          *)
HeadArgs(x) ==
  LET at(b) == {i \in 1..Len(x) : x[i] = b}
      split(open, close) ==
        IF Last(x) # close THEN [head |-> x, args |-> <<>>]
        ELSE [head |-> Trim(SubSeq(x, 1, Min(at(open)) - 1)),
              args |-> SplitTopLevel(SubSeq(x, Min(at(open)) + 1, Len(x) - 1))]
  IN IF at("<") # {} THEN split("<", ">")
     ELSE IF at("(") # {} THEN split("(", ")")
     ELSE [head |-> x, args |-> <<>>]

\* Mutant: a field is never written with a space.
FieldAtColon(arg) ==
  LET colon == {i \in 1..Len(arg) : arg[i] = ":"}
      cut == IF colon = {} THEN Len(arg) + 1 ELSE Min(colon)
  IN [name |-> Trim(SubSeq(arg, 1, cut - 1)), type |-> Trim(SubSeq(arg, cut + 1, Len(arg)))]

(* The name and the type of a STRUCT field, a:INT or, in DuckDB, a INT.    *)
FieldOf(arg) ==
  LET at(b) == {i \in 1..Len(arg) : arg[i] = b}
      colon == at(":") # {} /\ Min(at(":")) < Len(arg)
      cut == IF colon THEN Min(at(":"))
             ELSE IF at(" ") # {} THEN Min(at(" ")) ELSE Len(arg) + 1
  IN [name |-> Trim(SubSeq(arg, 1, cut - 1)), type |-> Trim(SubSeq(arg, cut + 1, Len(arg)))]

Bad == [ok |-> FALSE, name |-> "", duckdb |-> <<>>, canonical |-> <<>>]
Good(name, duckdb, canonical) ==
  [ok |-> TRUE, name |-> name, duckdb |-> duckdb, canonical |-> canonical]

Joined(parts) ==
  FlattenSeq([k \in 1..Len(parts) |-> IF k = 1 THEN parts[k] ELSE <<",">> \o parts[k]])

ArrayOf(e) ==
  IF ~e.ok THEN Bad
  ELSE Good("ARRAY", e.duckdb \o <<"[]">>, <<"array", "<">> \o e.canonical \o <<">">>)

MapOf(k, v) ==
  IF ~(k.ok /\ v.ok) THEN Bad
  ELSE Good("MAP", <<"MAP", "(">> \o Joined(<<k.duckdb, v.duckdb>>) \o <<")">>,
            <<"map", "<">> \o Joined(<<k.canonical, v.canonical>>) \o <<">">>)

StructOf(names, types) ==
  LET ddl(k) == names[k] \o <<" ">> \o types[k].duckdb
      text(k) == names[k] \o <<":">> \o types[k].canonical
  IN IF \/ names = <<>>
        \/ \E k \in DOMAIN names : names[k] = <<>> \/ ~types[k].ok
     THEN Bad
     ELSE Good("STRUCT",
               <<"STRUCT", "(">> \o Joined([k \in DOMAIN names |-> ddl(k)]) \o <<")">>,
               <<"struct", "<">> \o Joined([k \in DOMAIN names |-> text(k)]) \o <<">">>)

DecimalOf(args) ==
  LET precision == IF args = <<>> THEN <<"10">> ELSE args[1]
      scale == IF Len(args) > 1 THEN args[2] ELSE <<"0">>
      text == <<"(">> \o Joined(<<precision, scale>>) \o <<")">>
      integer(a) == a \in {<<"0">>, <<"2">>, <<"10">>}
  IN IF Len(args) > 2 \/ ~integer(precision) \/ ~integer(scale) THEN Bad
     ELSE Good("DECIMAL", <<"DECIMAL">> \o text, <<"decimal">> \o text)

ScalarOf(head, args) ==
  LET u == IF Len(head) = 1 THEN Upper(head[1]) ELSE ""
      lower == CHOOSE l \in DOMAIN LowerCase : LowerCase[l] = u
  IN IF u \notin DOMAIN Scalars THEN Bad
     ELSE Good(Scalars[u].name, <<Scalars[u].duckdb>>,
               IF args # <<>> /\ u \in {"CHAR", "VARCHAR"}
               THEN <<lower, "(">> \o args[1] \o <<")">> ELSE <<Scalars[u].canonical>>)

Parse(text) ==
  LET parse[t \in Seq(STRING)] ==
        LET raw == Trim(t)
            h == HeadArgs(raw)
            u == IF Len(h.head) = 1 THEN Upper(h.head[1]) ELSE ""
            fields == [k \in DOMAIN h.args |-> FieldOf(h.args[k])]
        IN IF raw = <<>> THEN Bad
           ELSE IF Last(raw) = "[]" THEN ArrayOf(parse[Front(raw)])
           ELSE IF u = "ARRAY"
                THEN IF Len(h.args) = 1 THEN ArrayOf(parse[h.args[1]]) ELSE Bad
           ELSE IF u = "MAP"
                THEN IF Len(h.args) = 2 THEN MapOf(parse[h.args[1]], parse[h.args[2]]) ELSE Bad
           ELSE IF u = "STRUCT"
                THEN StructOf([k \in DOMAIN fields |-> fields[k].name],
                              [k \in DOMAIN fields |-> parse[fields[k].type]])
           ELSE IF u \in {"DECIMAL", "NUMERIC"} THEN DecimalOf(h.args)
           ELSE ScalarOf(h.head, h.args)
  IN parse[text]
=============================================================================
