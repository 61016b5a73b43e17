------------------------------ MODULE SqlText ------------------------------
(***************************************************************************)
(* The text passes of services/sql_statements.py that run before a         *)
(* statement reaches DuckDB: three hand-written scanners (the backtick     *)
(* conversion, the token spans of the DDL passes, the tokens of the        *)
(* relation rewriting), and the passes built on the spans.  A text is a    *)
(* sequence of atoms: a character the scanners tell apart, or a comment    *)
(* mark or a word taken whole.  Positions count from 1, and an end is the  *)
(* position after the last atom, so Len(s) + 1 is the end of the text.     *)
(* Texts hold no "*/" directly before another "*/": their characters would *)
(* form a comment mark that the atoms do not show.                         *)
(***************************************************************************)
EXTENDS ColumnTypes

Spaces == {" ", "\n"}
Quotes == {"quote", "dquote", "backtick"}
Symbols == {"(", ")", ",", ".", ";", "=", "backslash", "*/"}

IdentifierChar(x) == x \notin Spaces \cup Quotes \cup Symbols \cup {"--", "/*"}

Positions == Nat \ {0}

(* The first position from i on that holds an atom of A, or the end.       *)
FirstOf(s, i, A) ==
  LET at == {j \in i..Len(s) : s[j] \in A}
  IN IF at = {} THEN Len(s) + 1 ELSE Min(at)

(* A comment that starts at i.                                             *)
LineEnd(s, i) == FirstOf(s, i, {"\n"})

BlockEnd(s, i) ==
  LET marks(j, x) == Cardinality({k \in i..j : s[k] = x})
      balanced == {j \in i..Len(s) : marks(j, "/*") = marks(j, "*/")}
  IN IF balanced = {} THEN Len(s) + 1 ELSE Min(balanced) + 1

\* Mutant: what a backslash precedes is skipped, also where the text ends before it.
QuoteEndUnbounded(s, start, q, escapes) ==
  LET from[i \in Positions] ==
        CASE i > Len(s) -> [end |-> i, closed |-> FALSE]
          [] i <= Len(s) /\ escapes /\ s[i] = "backslash" -> from[i + 2]
          [] i <= Len(s) /\ ~(escapes /\ s[i] = "backslash") /\ s[i] # q -> from[i + 1]
          [] OTHER -> IF i < Len(s) /\ s[i + 1] = q
                      THEN from[i + 2] ELSE [end |-> i + 1, closed |-> TRUE]
  IN from[start + 1]

(* Where the token quoted by q at start ends, and whether it is closed: a  *)
(* doubled quote stays inside, and so does what a backslash precedes.      *)
QuoteEnd(s, start, q, escapes) ==
  LET from[i \in Positions] ==
        CASE i > Len(s) -> [end |-> Len(s) + 1, closed |-> FALSE]
          [] i <= Len(s) /\ escapes /\ s[i] = "backslash" -> from[i + 2]
          [] i <= Len(s) /\ ~(escapes /\ s[i] = "backslash") /\ s[i] # q -> from[i + 1]
          [] OTHER -> IF i < Len(s) /\ s[i + 1] = q
                      THEN from[i + 2] ELSE [end |-> i + 1, closed |-> TRUE]
  IN from[start + 1]

(* A quote at i opens an E-string: backslashes escape in it.               *)
EString(s, i) ==
  /\ s[i] = "quote"
  /\ i > 1
  /\ s[i - 1] = "e"
  /\ (i = 2 \/ ~IdentifierChar(s[i - 2]))

(* Where a string that stopped at i goes on: after blanks and line         *)
(* comments with a line break among them; 0 when it does not.              *)
Continuation(s, i) ==
  LET blanks[j \in Positions] ==
        IF j > Len(s) THEN j
        ELSE IF s[j] \in Spaces THEN blanks[j + 1]
        ELSE IF s[j] = "--" THEN blanks[LineEnd(s, j)] ELSE j
  IN IF \E k \in i..(blanks[i] - 1) : s[k] = "\n" THEN blanks[i] ELSE 0

(* The end of the string at i, with the segments that continue an E-string.*)
StringEnd(s, i) ==
  LET first == QuoteEnd(s, i, "quote", EString(s, i))
      more[j \in Positions] ==
        LET c == Continuation(s, j)
            next == QuoteEnd(s, c, "quote", TRUE)
        IN IF c = 0 \/ c > Len(s) THEN j
           ELSE IF s[c] # "quote" THEN j
           ELSE IF next.closed THEN more[next.end] ELSE next.end
  IN IF EString(s, i) /\ first.closed THEN more[first.end] ELSE first.end

(* The length of the dollar-string delimiter at i, 0 when there is none:   *)
(* a tag is empty, or letters and digits that start with a letter.         *)
DollarTag(s, i) ==
  LET close == FirstOf(s, i + 1, {"$"})
      tag == (i + 1)..(close - 1)
  IN IF \/ i > 1 /\ IdentifierChar(s[i - 1])
        \/ close > Len(s)
        \/ \E k \in tag : ~IdentifierChar(s[k])
        \/ close > i + 1 /\ s[i + 1] = "1"
     THEN 0 ELSE close - i + 1

DollarEnd(s, i) ==
  LET n == DollarTag(s, i)
      closings == {j \in (i + n)..(Len(s) - n + 1) :
                     SubSeq(s, j, j + n - 1) = SubSeq(s, i, i + n - 1)}
  IN IF closings = {} THEN Len(s) + 1 ELSE Min(closings) + n

----------------------------------------------------------------------------
\* Mutant: the name is copied as it stands.
RequotedVerbatim(name) == <<"dquote">> \o name \o <<"dquote">>

(* The name inside a closed backtick token, as a double-quoted identifier. *)
Requoted(name) ==
  LET ticks(k) == Cardinality({j \in 1..k : name[j] = "backtick"})
      atom(k) == IF name[k] = "dquote" THEN <<"dquote", "dquote">>
                 ELSE IF name[k] = "backtick" /\ ticks(k) % 2 = 1 THEN <<>> ELSE <<name[k]>>
  IN <<"dquote">> \o FlattenSeq([k \in 1..Len(name) |-> atom(k)]) \o <<"dquote">>

(* The first scanner: every token is copied, but for backtick identifiers. *)
Debacktick(s) ==
  LET copied(i, j) == SubSeq(s, i, j - 1)
      rest[i \in Positions] ==
        IF i > Len(s) THEN <<>>
        ELSE LET quoted == QuoteEnd(s, i, s[i], FALSE)
                 end == CASE s[i] = "--" -> LineEnd(s, i)
                          [] s[i] = "/*" -> BlockEnd(s, i)
                          [] s[i] = "$" /\ DollarTag(s, i) > 0 -> DollarEnd(s, i)
                          [] s[i] = "quote" -> StringEnd(s, i)
                          [] s[i] \in {"dquote", "backtick"} -> quoted.end
                          [] OTHER -> i + 1
             IN IF s[i] = "backtick" /\ quoted.closed
                THEN Requoted(SubSeq(s, i + 1, end - 2)) \o rest[end]
                ELSE copied(i, end) \o rest[end]
  IN rest[1]

(* The second scanner: the token, or the comment, that starts at i.        *)
Span(i, j, kind) == [start |-> i, end |-> j, kind |-> kind]

WordEnd(s, i) == FirstOf(s, i, {x \in ToSet(s) : ~IdentifierChar(x)})

SpanAt(s, i) ==
  CASE s[i] = "--" -> Span(i, LineEnd(s, i), "comment")
    [] s[i] = "/*" -> Span(i, BlockEnd(s, i), "comment")
    [] s[i] = "$" /\ DollarTag(s, i) > 0 -> Span(i, DollarEnd(s, i), "string")
    [] s[i] = "quote" -> Span(i, StringEnd(s, i), "string")
    [] s[i] \in {"dquote", "backtick"} ->
         Span(i, QuoteEnd(s, i, s[i], FALSE).end, "identifier")
    [] IdentifierChar(s[i]) /\ (s[i] = "$" => DollarTag(s, i) = 0) ->
         Span(i, WordEnd(s, i), "word")
    [] OTHER -> Span(i, i + 1, "punctuation")

(* The spans of the tokens, with or without those of the comments.         *)
TokenSpans(s, includeComments) ==
  LET rest[i \in Positions] ==
        IF i > Len(s) THEN <<>>
        ELSE IF s[i] \in Spaces THEN rest[i + 1]
        ELSE LET span == SpanAt(s, i)
             IN (IF includeComments \/ span.kind # "comment" THEN <<span>> ELSE <<>>)
                \o rest[span.end]
  IN rest[1]

SpansAndComments(s) == TokenSpans(s, TRUE)

Spans(s) == TokenSpans(s, FALSE)

TextOf(s, t) == SubSeq(s, t.start, t.end - 1)

\* Mutant: escapes and continuations of strings are not looked at.
RewriteStringEndPlain(s, i) == QuoteEnd(s, i, "quote", FALSE).end

(* The third scanner, inside the relation rewriting, has the strings too.  *)
RewriteStringEnd(s, i) == StringEnd(s, i)

RewriteTokens(s) ==
  LET rest[i \in Positions] ==
        IF i > Len(s) THEN <<>>
        ELSE LET token(end, kind) == <<Span(i, end, kind)>> \o rest[end]
             IN CASE s[i] \in Spaces -> rest[i + 1]
                  [] s[i] = "--" -> rest[LineEnd(s, i)]
                  [] s[i] = "/*" -> rest[BlockEnd(s, i)]
                  [] s[i] = "quote" -> token(RewriteStringEnd(s, i), "literal")
                  [] s[i] = "$" /\ DollarTag(s, i) > 0 -> token(DollarEnd(s, i), "literal")
                  [] s[i] \in {"dquote", "backtick"} ->
                       token(QuoteEnd(s, i, s[i], FALSE).end, "quoted_identifier")
                  [] IdentifierChar(s[i]) /\ (s[i] = "$" => DollarTag(s, i) = 0) ->
                       token(WordEnd(s, i), "word")
                  [] OTHER -> token(i + 1, "symbol")
  IN rest[1]

\* Mutant: "--" starts a comment in a string or an identifier too.
CommentsAnywhere(s) ==
  LET commented(i) == \E j \in 1..i : s[j] = "--" /\ i < LineEnd(s, j)
  IN [i \in 1..Len(s) |-> IF commented(i) THEN " " ELSE s[i]]

(* Comments become as many blanks, their line breaks stay.                 *)
WithoutComments(s) ==
  LET comments == {t \in ToSet(SpansAndComments(s)) : t.kind = "comment"}
      commented(i) == \E t \in comments : i \in t.start..(t.end - 1)
  IN [i \in 1..Len(s) |-> IF commented(i) /\ s[i] # "\n" THEN " " ELSE s[i]]

----------------------------------------------------------------------------
(* CREATE [OR REPLACE] [TEMP] TABLE ... ( ... ) USING format [...]: what   *)
(* follows the column list goes, unless a LOCATION is in it; t has the     *)
(* tokens of the statement s.                                              *)
WithoutTail(s, t) ==
  LET is(i, x) == i \in 1..Len(t) /\ TextOf(s, t[i]) = <<x>>
      or == IF is(2, "OR") THEN 2 ELSE 0
      temp == IF is(2 + or, "TEMP") THEN 1 ELSE 0
      table == 2 + or + temp
      opening == {j \in (table + 1)..Len(t) : is(j, "(")}
      open == Min(opening)
      depth(j) == Cardinality({k \in open..j : is(k, "(")})
                  - Cardinality({k \in open..j : is(k, ")")})
      closing == {j \in open..Len(t) : depth(j) = 0}
      close == Min(closing)
  IN IF /\ Len(t) >= 4 /\ is(1, "CREATE")
        /\ or > 0 => is(3, "REPLACE")
        /\ is(table, "TABLE")
        /\ opening # {}
        /\ \A j \in (table + 1)..(open - 1) : ~is(j, "AS")
        /\ closing # {}
        /\ close + 2 <= Len(t)
        /\ is(close + 1, "USING") /\ t[close + 2].kind = "word"
        /\ \A j \in (close + 3)..Len(t) : ~is(j, "LOCATION")
     THEN SubSeq(s, 1, t[close].end - 1) ELSE s

StripTail(s) == WithoutTail(s, Spans(s))

\* Mutant: a semicolon in a string ends a statement too.
StatementsAtEverySemicolon(s) == Pieces(s, {i \in 1..Len(s) : s[i] = ";"})

(* The pieces of a text between the semicolons that are tokens.            *)
Statements(s) == Pieces(s, {t.start : t \in {u \in ToSet(Spans(s)) : s[u.start] = ";"}})

StripClauses(s) ==
  LET stripped(k) == (IF k > 1 THEN <<";">> ELSE <<>>) \o StripTail(Statements(s)[k])
  IN FlattenSeq([k \in 1..Len(Statements(s)) |-> stripped(k)])

----------------------------------------------------------------------------
(* The columns of a column list: what stands before the first blank is the *)
(* name, the rest is the type, up to a constraint.                         *)
DdlColumns(list) ==
  LET parts == SplitTopLevel(list)
      name(p) == SubSeq(p, 1, FirstOf(p, 1, {" "}) - 1)
      rest(p) == Trim(SubSeq(p, FirstOf(p, 1, {" "}) + 1, Len(p)))
      kept(p) == Trim(SubSeq(p, 1, FirstOf(p, 1, {"NOT NULL", "COMMENT", "DEFAULT"}) - 1))
  IN [k \in DOMAIN parts |-> [name |-> name(parts[k]), type |-> kept(rest(parts[k]))]]

(* The table that CREATE TABLE name (columns) USING DELTA ... LOCATION     *)
(* 'path' registers; an empty name when the text is none.  The pattern is  *)
(* greedy: of several ") USING format" the last one ends the column list.  *)
(* w is the text without its comments.                                     *)
NoTable == [name |-> <<>>, columns |-> <<>>, location |-> ""]

Classified(w) ==
  LET next(i) == Min({j \in i..(Len(w) + 1) : j > Len(w) \/ w[j] \notin Spaces})
      is(i, x) == i <= Len(w) /\ w[i] = x
      open == FirstOf(w, 1, {"("})
      name == SelectSeq(SubSeq(w, 4, open - 1), LAMBDA x : x \notin Spaces)
      using(i) == next(i + 1)
      format(i) == next(using(i) + 1)
      closings == {i \in (open + 1)..Len(w) : is(i, ")") /\ is(using(i), "USING")
                     /\ format(i) <= Len(w) /\ IdentifierChar(w[format(i)])}
      close == Max(closings)
      locations == {i \in (format(close) + 1)..(Len(w) - 3) :
                      w[i] = "LOCATION" /\ is(next(i + 1), "quote")}
      path == next(Min(locations) + 1) + 1
  IN IF /\ is(1, "CREATE")
        /\ is(3, "TABLE")
        /\ \A k \in 1..Len(name) : (name[k] = ".") <=> (k % 2 = 0)
        /\ closings # {}
        /\ is(format(close), "DELTA")
        /\ locations # {}
        /\ Len(name) = 5
     THEN [name |-> name, columns |-> DdlColumns(SubSeq(w, open + 1, close - 1)),
           location |-> w[path]]
     ELSE NoTable

ClassifyExternal(s) == Classified(Trim(WithoutComments(s)))
============================================================================
