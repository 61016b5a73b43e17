------------------------------ MODULE MCServer ------------------------------
(* Instances of the services' modules, and inputs that are too large for a *)
(* configuration file.                                                     *)
EXTENDS Server, FiniteSets, TLC

(* Clients, Tasks and Callers are the same two values.                     *)
Alike == Permutations(Clients)

(* Results of a chunk and a half, of no row, and of one full chunk.        *)
MCRowsOf == [n \in 1..MaxStatements |-> CASE n = 1 -> 3 [] n = 2 -> 0 [] OTHER -> 2]

(* A directory beside a volume, and what an older release may have left.   *)
MCTreePaths == {<<"a">>, <<"volume">>, <<"volume", "f">>}

Tree(paths, dirs) ==
  [p \in paths \cup dirs |-> [dir |-> p \in dirs, by |-> IF p \in dirs THEN {} ELSE {"old"}]]

MCLayouts ==
  { Tree({}, {}),
    Tree({<<"legacy", "f">>, <<"legacy", "d", "f">>},
         {<<"volume">>, <<"legacy">>, <<"legacy", "d">>}),
    Tree({<<"legacy", "f">>, <<"volume", "f">>}, {<<"volume">>, <<"legacy">>}) }

(* A directory, a file in it, and an alias of the file: /d/../d//f.        *)
MCObjectPaths == {<<"d">>, <<"d", "f">>, <<"d", "..", "d", "", "f">>}

(* Names that conflict and are numbered, with two or three queries or with *)
(* two alerts; and every symbol, with one alert, a threshold that results  *)
(* are less than, equal to and greater than, and one at the bound up to    *)
(* which numbers are exact, to which the next larger one is rounded.       *)
V(type, n) == [kind |-> type, n |-> n]
NotGiven == V("none", 0)
MCNames == {<<"n">>, <<"n", 1>>}
AScope(nq, na, theirs, symbols, columns, values) ==
  [queries |-> nq, alerts |-> na, names |-> theirs, symbols |-> symbols, columns |-> columns,
   values |-> values]
Comparing(symbols) ==
  AScope(1, 1, {<<>>}, symbols, {"c"}, {NotGiven, V("number", 1), V("numeral", 4), V("bool", 1)})
MCScopes ==
  { AScope(3, 0, {<<"n">>}, {}, {}, {}),
    AScope(2, 0, MCNames, {}, {}, {}),
    AScope(1, 2, MCNames, {"none"}, {"c"}, {NotGiven}),
    Comparing({"none", ">"}),
    Comparing({">=", "like"}),
    Comparing({"<", "is_null"}),
    Comparing({"<=", "=="}),
    Comparing({"=", "is_not_null"}),
    Comparing({"!="}) }
MCResults ==
  {NotGiven, V("null", 0), V("number", 0), V("numeral", 1), V("number", 5), V("text", 10),
   V("bool", 0)}
=============================================================================
