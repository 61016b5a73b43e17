--------------------------------- MODULE Sql ---------------------------------
(***************************************************************************)
(* The texts the passes of SqlText, SqlRelations and ColumnTypes work on,  *)
(* and what the passes must not get wrong.  A behaviour writes one text:   *)
(* arbitrary atoms after a seed, for the scanners, or a derivation of the  *)
(* grammar, for the passes that interpret statements and types.            *)
(***************************************************************************)
EXTENDS SqlText, SqlGrammar

CONSTANTS
  Atoms, Seeds, MaxAtoms,   \* the texts of the scanners: a seed and some atoms
  MaxStatement, MaxScript, MaxType   \* the longest derivations

ASSUME SeedsAssumption == Seeds \subseteq Seq(Atoms)

Relations == INSTANCE SqlRelations WITH ExternalTables <- {<<"c", "s", "t">>}

VARIABLES kind, text

vars == <<kind, text>>

Rules == [statement |-> Productions, script |-> Ddl, type |-> Types]
Longest == [statement |-> MaxStatement, script |-> MaxScript, type |-> MaxType]

Init == \/ kind \in Seeds /\ text = kind
        \/ kind = "statement" /\ text = <<"Stmt">>
        \/ kind = "script" /\ text = <<"Script">>
        \/ kind = "type" /\ text = <<"Type">>

Scanned == kind \in Seeds

Write ==
  /\ Scanned
  /\ Len(text) < Len(kind) + MaxAtoms
  /\ \E x \in Atoms : /\ (x = "*/" /\ text # <<>>) => Last(text) # "*/"
                    /\ text' = Append(text, x)
  /\ UNCHANGED kind

Derive ==
  /\ ~Scanned
  /\ \E form \in Derived(Rules[kind], text) : Len(form) <= Longest[kind] /\ text' = form
  /\ UNCHANGED kind

Next == Write \/ Derive

Spec == Init /\ [][Next]_vars

Is(k) == ~Scanned /\ kind = k /\ Complete(Rules[k], text)

\* The kinds that _sql_token_spans gives to the tokens of the relation rewriting.
SpanKinds(tokens) ==
  LET kinds == [literal |-> "string", quoted_identifier |-> "identifier",
                symbol |-> "punctuation", word |-> "word"]
  IN [k \in DOMAIN tokens |-> [tokens[k] EXCEPT !.kind = kinds[@]]]

(* The three scanners of sql_statements.py, copies of one another grown    *)
(* apart, cut every text into the same tokens: what the DDL passes take    *)
(* for a string or a comment is none the relation rewriting looks into.    *)
ScannersAgree == Scanned => Spans(text) = SpanKinds(RewriteTokens(text))

\* The spans follow one another in s, and everything between them is blank.
CoverAll(spans, s) ==
  /\ \A k \in DOMAIN spans : spans[k].start < spans[k].end /\ spans[k].end <= Len(s) + 1
  /\ \A j, k \in DOMAIN spans : j < k => spans[j].end <= spans[k].start
  /\ \A i \in DOMAIN s :
       s[i] \in Spaces \/ \E k \in DOMAIN spans : spans[k].start <= i /\ i < spans[k].end

(* No scanner runs over the end of a text or loses a part of it: tokens    *)
(* and comments (_sql_token_spans) are not empty, follow one another, and  *)
(* everything between them is blank.                                       *)
TextCovered == Scanned => CoverAll(SpansAndComments(text), text)

(* The identifier in a quoted token: doubled quotes stand for one.         *)
NameIn(token) ==
  LET q == token[1]
      repeated(k) == Cardinality({j \in 2..k : token[j] = q}) % 2 = 0
  IN SelectSeq([k \in 1..(Len(token) - 2) |->
                  IF token[k + 1] = q /\ repeated(k + 1) THEN "" ELSE token[k + 1]],
               LAMBDA x : x # "")

(* An identifier in backticks with a double quote directly beside it: in   *)
(* double quotes the two are one identifier to DuckDB's lexer.             *)
IdentifiersTouch(s) == \E i \in 1..(Len(s) - 1) : {s[i], s[i + 1]} = {"dquote", "backtick"}

(* A block comment after a string: without it the string may go on in      *)
(* another one.                                                            *)
CommentBehindString(s) ==
  \E i \in 1..Len(s) : s[i] = "quote" /\ \E j \in i..Len(s) : s[j] = "/*"

(* Two texts have the same tokens, an identifier in backticks in the one   *)
(* being the same identifier in double quotes in the other.                *)
SameTokens(s, old, plain, new) ==
  LET closedTick(t) == s[t.start] = "backtick" /\ QuoteEnd(s, t.start, "backtick", FALSE).closed
      same(k) == /\ old[k].kind = new[k].kind
                 /\ IF closedTick(old[k])
                    THEN /\ plain[new[k].start] = "dquote"
                         /\ NameIn(TextOf(plain, new[k])) = NameIn(TextOf(s, old[k]))
                    ELSE TextOf(plain, new[k]) = TextOf(s, old[k])
  IN Len(old) = Len(new) /\ \A k \in DOMAIN old : same(k)

(* Converting backticks (_debacktick_identifiers) keeps the tokens of      *)
(* every text as they are: nothing inside a string, a comment or another   *)
(* identifier is touched, and an identifier keeps its name.                *)
IdentifiersKept ==
  Scanned /\ ~IdentifiersTouch(text) =>
    \E plain \in {Debacktick(text)} : SameTokens(text, Spans(text), plain, Spans(plain))

(* Blanking comments (_sql_without_comments) moves no token: what follows  *)
(* a comment is cut as it was, where it was, and no mark inside a string   *)
(* or an identifier is taken for a comment.                                *)
CommentsBlanked ==
  Scanned /\ ~CommentBehindString(text) =>
    Spans(WithoutComments(text)) = Spans(text)

(* Where the tokens of a text lie is no matter of the scanner that looks:  *)
(* all cut the same ones, none is lost, and blanking comments moves none.  *)
TokensStand == ScannersAgree /\ TextCovered /\ CommentsBlanked

(* Of a script of several statements, the table-format tail of a CREATE    *)
(* TABLE goes (_strip_databricks_ddl_clauses) and nothing else: not the    *)
(* sampling clause of a CTAS, not a join condition, not a LOCATION that    *)
(* DuckDB has to reject, not what a comment or a string only mentions.     *)
TailsStripped ==
  LET script == Written(text, Script, TRUE)
      expected == Written(SelectSeq([i \in DOMAIN text |->
                    IF \E j \in 1..i : /\ text[j] = "@TAIL"
                                       /\ \A k \in j..i : text[k] # ";"
                    THEN "" ELSE text[i]], LAMBDA x : x # ""), Script, TRUE)
      words(s) == SelectSeq(WithoutComments(s), LAMBDA x : x \notin Spaces)
  IN Is("script") => words(StripClauses(script)) = words(expected)

(* A script that is one CREATE TABLE ... USING DELTA ... LOCATION is       *)
(* registered (_classify_create_external) under its name, at its own       *)
(* location, with one column for every column that it declares.            *)
ExternalRecognized ==
  LET columns == {i \in DOMAIN text : text[i] = "@N"}
      at == {i \in DOMAIN text : text[i] \in {"@p", "@q"}}
      single == \A i \in DOMAIN text : text[i] = ";" => text[1] = "--" /\ i < 5
  IN Is("script") /\ single =>
       \E table \in {ClassifyExternal(Written(text, Script, TRUE))} :
       IF at = {} THEN table = NoTable
       ELSE /\ table.name = <<"c", ".", "s", ".", "t">>
            /\ Len(table.columns) = Cardinality(columns)
            /\ \A k \in DOMAIN table.columns : /\ table.columns[k].name = <<"n">>
                                               /\ table.columns[k].type # <<>>
            /\ \A i \in at : table.location = Script[text[i]][2]

(* The relation rewriting replaces the name of a Delta table exactly where *)
(* the grammar has a relation, and never where it has a column: in nested  *)
(* queries, joins, set operations, IS DISTINCT FROM, EXTRACT and USING.    *)
RelationsFound ==
  Is("statement") => Relations!Replaced(Written(text, Named, FALSE))
                     = Places(text, Named, "@R")

(* A type means the same in Databricks' and in DuckDB's spelling, and what *)
(* a reader gets back as type_text, sent again, is the same type           *)
(* (uc_types.normalize_column_type).                                       *)
SpellingsAgree ==
  Is("type") => \E type \in {Parse(Written(text, Databricks, FALSE))} :
                  /\ type.ok
                  /\ Parse(Written(text, DuckDB, FALSE)) = type
                  /\ Parse(type.canonical) = type
==============================================================================
