----------------------------- MODULE SqlProofs -----------------------------
(***************************************************************************)
(* Proofs about the scanners of SqlText, for texts of any atoms and any    *)
(* length.  A scanner is a recursive function of a position, and every     *)
(* step of it goes forward, so what it computes is shown by induction from *)
(* the end of the text: FromTheEnd, which rests on every set of numbers    *)
(* having a least one.  A first part shows that the functions exist at all *)
(* and where each kind of token ends; a second one, that both scanners are *)
(* one scan (IsScan) whose spans the other only names otherwise; a third   *)
(* one, that this scan covers the text; the last one, that the scan of a   *)
(* text whose comments are blank finds the same tokens: what starts at a   *)
(* boundary between spans ends where it did (SpanStays).                   *)
(***************************************************************************)
EXTENDS Sql, TLAPS, WellFoundedInduction, FiniteSetTheorems, SequenceTheorems

-----------------------------------------------------------------------------
(* Induction over the positions of a text                                  *)

Below == {ss \in Nat \X Nat : ss[1] < ss[2]}

LEMMA LeastNumber ==
  ASSUME NEW T \in SUBSET Nat, T # {}
  PROVE  \E x \in T : \A y \in T : x <= y
<1>1. Below = OpToRel(<, Nat)
  BY DEF Below, OpToRel
<1>2. IsWellFoundedOn(Below, Nat)
  BY <1>1, NatLessThanWellFounded
<1>3. \E x \in T : \A y \in T : <<y, x>> \notin Below
  BY <1>2, WFMin
<1>4. PICK x \in T : \A y \in T : <<y, x>> \notin Below
  BY <1>3
<1>5. ASSUME NEW y \in T PROVE x <= y
  <2>1. <<y, x>> \in Nat \X Nat /\ <<y, x>> \notin Below
    BY <1>4
  <2>2. ~ (y < x)
    BY <2>1 DEF Below
  <2> QED
    BY <2>2
<1> QED
  BY <1>5

(* A property of positions that holds beyond n, and at i if it holds at all *)
(* later positions, holds everywhere.                                      *)
LEMMA FromTheEnd ==
  ASSUME NEW n \in Nat, NEW P,
         \A i \in Positions : i > n => i \in P,
         \A i \in Positions : i <= n /\ (\A j \in Positions : j > i => j \in P) => i \in P
  PROVE  Positions \subseteq P
<1> DEFINE T == {k \in Nat : \A i \in Positions : i > k => i \in P}
<1>1. n \in T
  OBVIOUS
<1>2. PICK k \in T : \A m \in T : k <= m
  BY <1>1, LeastNumber
<1>3. k = 0
  <2> SUFFICES ASSUME k > 0 PROVE FALSE
    BY <1>2
  <2>1. k <= n
    BY <1>1, <1>2
  <2>2. k \in Positions /\ \A j \in Positions : j > k => j \in P
    BY <1>2 DEF Positions
  <2>3. k \in P
    BY <2>1, <2>2
  <2>4. k - 1 \in T
    BY <2>2, <2>3 DEF Positions
  <2> QED
    BY <1>2, <2>4
<1> QED
  BY <1>2, <1>3 DEF Positions

(* A scan from position i of a text of n atoms gives base[i] beyond the    *)
(* end, and otherwise combines what it finds at i with what a scan from    *)
(* step[i] gives.  There is a function that does this, since every step    *)
(* goes forward.                                                           *)
Forward(step, n) ==
  /\ step \in [Positions -> Positions]
  /\ \A i \in Positions : i <= n => step[i] > i

Scans(f, n, base, step, G) ==
  \A i \in Positions : f[i] = IF i > n THEN base[i] ELSE G[<<i, f[step[i]]>>]

LEMMA ScanExists ==
  ASSUME NEW n \in Nat, NEW V, NEW base \in [Positions -> V], NEW step, Forward(step, n),
         NEW G \in [Positions \X V -> V]
  PROVE  \E f \in [Positions -> V] : Scans(f, n, base, step, G)
<1> USE DEF Forward
<1> DEFINE ScansAfter(f, k) ==
             \A i \in Positions : i > k =>
               f[i] = IF i > n THEN base[i] ELSE G[<<i, f[step[i]]>>]
           T == {k \in Nat : \E f \in [Positions -> V] : ScansAfter(f, k)}
<1>1. n \in T
  OBVIOUS
<1>2. PICK k \in T : \A m \in T : k <= m
  BY <1>1, LeastNumber
<1>3. PICK f \in [Positions -> V] : ScansAfter(f, k)
  BY <1>2
<1>4. k = 0
  <2> SUFFICES ASSUME k > 0 PROVE FALSE
    BY <1>2
  <2>1. k \in Positions /\ k <= n
    <3>1. k \in Nat /\ k <= n
      BY <1>1, <1>2
    <3> QED
      BY <3>1 DEF Positions
  <2>2. step[k] \in Positions /\ step[k] > k /\ f[step[k]] \in V
    BY <1>3, <2>1
  <2> DEFINE g == [f EXCEPT ![k] = G[<<k, f[step[k]]>>]]
  <2>3. g \in [Positions -> V] /\ g[k] = G[<<k, f[step[k]]>>]
        /\ \A i \in Positions : i # k => g[i] = f[i]
    BY <2>1, <2>2
  <2> HIDE DEF g
  <2>4. ASSUME NEW i \in Positions, i > k - 1
        PROVE  g[i] = IF i > n THEN base[i] ELSE G[<<i, g[step[i]]>>]
    <3>1. CASE i = k
      BY <2>1, <2>2, <2>3, <3>1 DEF Positions
    <3>2. CASE i # k
      <4>1. i > k /\ f[i] = IF i > n THEN base[i] ELSE G[<<i, f[step[i]]>>]
        BY <1>2, <1>3, <2>4, <3>2 DEF Positions
      <4>2. i <= n => step[i] \in Positions /\ step[i] # k
        BY <2>1, <4>1 DEF Positions
      <4> QED
        BY <2>3, <3>2, <4>1, <4>2 DEF Positions
    <3> QED
      BY <3>1, <3>2
  <2>5. k - 1 \in T
    BY <1>2, <2>1, <2>3, <2>4 DEF Positions
  <2> QED
    BY <1>2, <2>5
<1> QED
  BY <1>3, <1>4 DEF Positions, Scans

\* A scan that ends at the positions of Stop, or beyond the end.
Searches(f, n, result, Stop, step) ==
  \A i \in Positions : f[i] = IF i > n \/ i \in Stop THEN result[i] ELSE f[step[i]]

LEMMA SearchExists ==
  ASSUME NEW n \in Nat, NEW V, NEW result \in [Positions -> V], NEW Stop,
         NEW step, Forward(step, n)
  PROVE  \E f \in [Positions -> V] : Searches(f, n, result, Stop, step)
<1> DEFINE G == [p \in Positions \X V |-> IF p[1] \in Stop THEN result[p[1]] ELSE p[2]]
<1>1. G \in [Positions \X V -> V]
  OBVIOUS
<1>2. \A i \in Positions, v \in V : G[<<i, v>>] = IF i \in Stop THEN result[i] ELSE v
  OBVIOUS
<1> HIDE DEF G
<1>3. PICK f \in [Positions -> V] : Scans(f, n, result, step, G)
  BY <1>1, ScanExists
<1>4. \A i \in Positions : f[step[i]] \in V
  BY DEF Forward
<1>5. Searches(f, n, result, Stop, step)
  BY <1>2, <1>3, <1>4 DEF Scans, Searches
<1> QED
  BY <1>5

\* A scan that collects what it finds.
Collects(f, n, found, step) ==
  \A i \in Positions : f[i] = IF i > n THEN <<>> ELSE found[i] \o f[step[i]]

LEMMA CollectionExists ==
  ASSUME NEW n \in Nat, NEW V, NEW found \in [Positions -> Seq(V)],
         NEW step, Forward(step, n)
  PROVE  \E f \in [Positions -> Seq(V)] : Collects(f, n, found, step)
<1> DEFINE W == Seq(V)
           G == [p \in Positions \X W |-> found[p[1]] \o p[2]]
           base == [i \in Positions |-> <<>>]
<1>1. G \in [Positions \X W -> W] /\ base \in [Positions -> W] /\ found \in [Positions -> W]
  OBVIOUS
<1>2. /\ \A i \in Positions, v \in W : G[<<i, v>>] = found[i] \o v
      /\ \A i \in Positions : base[i] = <<>>
  OBVIOUS
<1>3. [Positions -> Seq(V)] = [Positions -> W]
  OBVIOUS
<1> HIDE DEF G, base, W
<1>4. PICK f \in [Positions -> W] : Scans(f, n, base, step, G)
  BY <1>1, ScanExists
<1>5. \A i \in Positions : f[step[i]] \in W
  BY DEF Forward
<1>6. Collects(f, n, found, step)
  BY <1>2, <1>4, <1>5 DEF Scans, Collects
<1> QED
  BY <1>3, <1>6

-----------------------------------------------------------------------------
(* Where tokens end                                                        *)

LEMMA LeastIsMin ==
  ASSUME NEW T \in SUBSET Nat, T # {}
  PROVE  Min(T) \in T /\ \A y \in T : Min(T) <= y
<1>1. \E x \in T : \A y \in T : x <= y
  BY LeastNumber
<1> QED
  BY <1>1, Zenon DEF Min

LEMMA FirstOfFacts ==
  ASSUME NEW X, NEW s \in Seq(X), NEW i \in Positions, NEW A
  PROVE  /\ FirstOf(s, i, A) \in Positions
         /\ FirstOf(s, i, A) <= Len(s) + 1
         /\ i <= Len(s) + 1 => FirstOf(s, i, A) >= i
         /\ \A j \in Positions : j >= i /\ j < FirstOf(s, i, A) => s[j] \notin A
         /\ FirstOf(s, i, A) <= Len(s) => s[FirstOf(s, i, A)] \in A
<1> DEFINE at == {j \in i..Len(s) : s[j] \in A}
<1>1. Len(s) \in Nat /\ at \in SUBSET Nat
  BY DEF Positions
<1>2. FirstOf(s, i, A) = IF at = {} THEN Len(s) + 1 ELSE Min(at)
  BY DEF FirstOf
<1>3. CASE at = {}
  <2>1. FirstOf(s, i, A) = Len(s) + 1
    BY <1>2, <1>3
  <2> QED
    BY <1>1, <1>3, <2>1 DEF Positions
<1>4. CASE at # {}
  <2>1. Min(at) \in at /\ \A j \in at : Min(at) <= j
    BY <1>1, <1>4, LeastIsMin
  <2>2. FirstOf(s, i, A) = Min(at)
    BY <1>2, <1>4
  <2> HIDE DEF at
  <2>3. FirstOf(s, i, A) \in at /\ \A j \in at : FirstOf(s, i, A) <= j
    BY <2>1, <2>2
  <2> QED
    BY <1>1, <2>3 DEF at, Positions
<1> QED
  BY <1>3, <1>4

LEMMA BlockEndFacts ==
  ASSUME NEW X, NEW s \in Seq(X), NEW i \in Positions, i <= Len(s)
  PROVE  BlockEnd(s, i) \in Positions /\ BlockEnd(s, i) > i /\ BlockEnd(s, i) <= Len(s) + 1
<1> DEFINE marks(j, x) == Cardinality({k \in i..j : s[k] = x})
           balanced == {j \in i..Len(s) : marks(j, "/*") = marks(j, "*/")}
<1>1. Len(s) \in Nat /\ balanced \in SUBSET Nat
  BY DEF Positions
<1>2. BlockEnd(s, i) = IF balanced = {} THEN Len(s) + 1 ELSE Min(balanced) + 1
  BY DEF BlockEnd
<1>3. CASE balanced = {}
  BY <1>1, <1>2, <1>3 DEF Positions
<1>4. CASE balanced # {}
  <2>1. Min(balanced) \in balanced
    BY <1>1, <1>4, LeastIsMin
  <2> DEFINE b == Min(balanced)
  <2>2. b \in i..Len(s) /\ BlockEnd(s, i) = b + 1
    BY <1>2, <1>4, <2>1
  <2> HIDE DEF b
  <2> QED
    BY <1>1, <2>2 DEF Positions
<1> QED
  BY <1>3, <1>4

(* _scan_quoted_token from i gives from[i].                                *)
IsQuoteScan(from, s, q, escapes) ==
  \A i \in Positions :
    from[i] = IF i > Len(s) THEN [end |-> Len(s) + 1, closed |-> FALSE]
              ELSE IF escapes /\ s[i] = "backslash" THEN from[i + 2]
              ELSE IF s[i] # q THEN from[i + 1]
              ELSE IF i < Len(s) /\ s[i + 1] = q THEN from[i + 2]
              ELSE [end |-> i + 1, closed |-> TRUE]

LEMMA QuoteScan ==
  ASSUME NEW X, NEW s \in Seq(X), NEW start \in Nat, NEW q, NEW escapes
  PROVE  \E from : /\ IsQuoteScan(from, s, q, escapes)
                   /\ QuoteEnd(s, start, q, escapes) = from[start + 1]
<1> DEFINE n == Len(s)
           Body(f, i) ==
             CASE i > Len(s) -> [end |-> Len(s) + 1, closed |-> FALSE]
               [] i <= Len(s) /\ escapes /\ s[i] = "backslash" -> f[i + 2]
               [] i <= Len(s) /\ ~(escapes /\ s[i] = "backslash") /\ s[i] # q -> f[i + 1]
               [] OTHER -> IF i < Len(s) /\ s[i + 1] = q
                           THEN f[i + 2] ELSE [end |-> i + 1, closed |-> TRUE]
           Recurs(f) == f = [i \in Positions |-> Body(f, i)]
           from == CHOOSE f : Recurs(f)
           V == [end : Positions, closed : BOOLEAN]
           result == [i \in Positions |-> IF i > n THEN [end |-> Len(s) + 1, closed |-> FALSE]
                                                  ELSE [end |-> i + 1, closed |-> TRUE]]
           escaped(i) == escapes /\ s[i] = "backslash"
           Stop == {i \in Positions : ~escaped(i) /\ s[i] = q /\ ~(i < n /\ s[i + 1] = q)}
           step == [i \in Positions |-> IF ~escaped(i) /\ s[i] # q THEN i + 1 ELSE i + 2]
<1>1. n \in Nat /\ result \in [Positions -> V] /\ Forward(step, n)
  BY DEF Positions, Forward
<1>2. PICK f \in [Positions -> V] : Searches(f, n, result, Stop, step)
  <2> HIDE DEF n, V, result, step, Stop
  <2> QED
    BY <1>1, SearchExists
<1>3. ASSUME NEW i \in Positions PROVE f[i] = Body(f, i)
  <2>1. i \in Nat
    BY DEF Positions
  <2>2. CASE i > n
    BY <1>1, <1>2, <2>1, <2>2 DEF Searches
  <2>3. CASE i <= n /\ i \in Stop
    BY <1>1, <1>2, <2>1, <2>3 DEF Searches
  <2>4. CASE i <= n /\ i \notin Stop
    <3>1. f[i] = f[step[i]] /\ step[i] = IF ~escaped(i) /\ s[i] # q THEN i + 1 ELSE i + 2
      BY <1>1, <1>2, <2>1, <2>4 DEF Searches, Forward
    <3>2. escaped(i) \/ s[i] # q \/ (i < n /\ s[i + 1] = q)
      BY <2>4
    <3> HIDE DEF step, Stop, result, V
    <3> QED
      BY <1>1, <2>1, <2>4, <3>1, <3>2
  <2> QED
    BY <1>1, <2>1, <2>2, <2>3, <2>4
<1>4. Recurs(f)
  <2> HIDE DEF Body
  <2> QED
    BY <1>2, <1>3
<1>5. Recurs(from)
  <2> HIDE DEF Recurs
  <2> QED
    BY <1>4, Zenon
<1>6. \A i \in Positions : from[i] = Body(from, i)
  <2> HIDE DEF Body, from
  <2> QED
    BY <1>5
<1>7. QuoteEnd(s, start, q, escapes) = from[start + 1]
  BY DEF QuoteEnd
<1> HIDE DEF from
<1>8. IsQuoteScan(from, s, q, escapes)
  <2> SUFFICES ASSUME NEW i \in Positions
               PROVE  from[i] = IF i > Len(s) THEN [end |-> Len(s) + 1, closed |-> FALSE]
                                ELSE IF escapes /\ s[i] = "backslash" THEN from[i + 2]
                                ELSE IF s[i] # q THEN from[i + 1]
                                ELSE IF i < Len(s) /\ s[i + 1] = q THEN from[i + 2]
                                ELSE [end |-> i + 1, closed |-> TRUE]
    BY DEF IsQuoteScan
  <2>1. i \in Nat /\ from[i] = Body(from, i)
    BY <1>6 DEF Positions
  <2> QED
    BY <1>1, <2>1
<1> QED
  BY <1>7, <1>8

LEMMA QuoteScanEnds ==
  ASSUME NEW X, NEW s \in Seq(X), NEW q, NEW escapes, NEW from, IsQuoteScan(from, s, q, escapes)
  PROVE  \A i \in Positions : /\ from[i].end \in Positions
                              /\ from[i].end <= Len(s) + 1
                              /\ from[i].end >= i \/ from[i].end = Len(s) + 1
<1> DEFINE n == Len(s)
           P == {i \in Positions : from[i].end \in Positions /\ from[i].end <= n + 1
                                  /\ (from[i].end >= i \/ from[i].end = n + 1)}
<1>1. n \in Nat
  OBVIOUS
<1>2. ASSUME NEW i \in Positions, i > n PROVE i \in P
  <2>1. i \in Nat /\ n + 1 \in Positions
    BY <1>1 DEF Positions
  <2>2. from[i] = [end |-> n + 1, closed |-> FALSE]
    BY <1>1, <1>2, <2>1 DEF IsQuoteScan
  <2>3. from[i].end = n + 1
    BY <2>2
  <2> QED
    BY <1>1, <1>2, <2>1, <2>3
<1>3. ASSUME NEW i \in Positions, i <= n, \A j \in Positions : j > i => j \in P PROVE i \in P
  <2> HIDE DEF P
  <2>1. i \in Nat /\ i + 1 \in Positions /\ i + 2 \in Positions /\ i + 1 > i /\ i + 2 > i
    BY DEF Positions
  <2>2. i + 1 \in P /\ i + 2 \in P
    BY <1>3, <2>1
  <2>3. \/ from[i] = from[i + 1]
        \/ from[i] = from[i + 2]
        \/ from[i] = [end |-> i + 1, closed |-> TRUE]
    BY <1>1, <1>3, <2>1 DEF IsQuoteScan
  <2>4. CASE from[i] = from[i + 1]
    BY <1>1, <1>3, <2>1, <2>2, <2>4 DEF P, Positions
  <2>5. CASE from[i] = from[i + 2]
    BY <1>1, <1>3, <2>1, <2>2, <2>5 DEF P, Positions
  <2>6. CASE from[i] = [end |-> i + 1, closed |-> TRUE]
    <3>1. from[i].end = i + 1
      BY <2>6
    <3> QED
      BY <1>1, <1>3, <2>1, <3>1 DEF P
  <2> QED
    BY <2>3, <2>4, <2>5, <2>6
<1>4. Positions \subseteq P
  <2> HIDE DEF P, n
  <2> QED
    BY <1>1, <1>2, <1>3, FromTheEnd
<1> QED
  BY <1>4

LEMMA QuoteEndFacts ==
  ASSUME NEW X, NEW s \in Seq(X), NEW start \in Nat, start <= Len(s), NEW q, NEW escapes
  PROVE  /\ QuoteEnd(s, start, q, escapes).end \in Positions
         /\ QuoteEnd(s, start, q, escapes).end > start
         /\ QuoteEnd(s, start, q, escapes).end <= Len(s) + 1
<1>1. PICK from : /\ IsQuoteScan(from, s, q, escapes)
                  /\ QuoteEnd(s, start, q, escapes) = from[start + 1]
  BY QuoteScan
<1> DEFINE e == from[start + 1].end
<1>2. start + 1 \in Positions /\ Len(s) \in Nat
  BY DEF Positions
<1>3. e \in Positions /\ e <= Len(s) + 1 /\ (e >= start + 1 \/ e = Len(s) + 1)
  BY <1>1, <1>2, QuoteScanEnds
<1> HIDE DEF e
<1>4. e > start
  BY <1>2, <1>3 DEF Positions
<1> QED
  BY <1>1, <1>3, <1>4 DEF e

LEMMA LineEndFacts ==
  ASSUME NEW X, NEW s \in Seq(X), NEW i \in Positions, i <= Len(s), s[i] = "--"
  PROVE  LineEnd(s, i) \in Positions /\ LineEnd(s, i) > i /\ LineEnd(s, i) <= Len(s) + 1
<1> DEFINE e == LineEnd(s, i)
<1>1. e = FirstOf(s, i, {"\n"}) /\ i <= Len(s) + 1
  BY DEF LineEnd, Positions
<1>2. /\ e \in Positions /\ e <= Len(s) + 1 /\ e >= i
      /\ e <= Len(s) => s[e] = "\n"
  BY <1>1, FirstOfFacts
<1> HIDE DEF e
<1>3. e # i
  BY <1>2
<1>4. e > i
  BY <1>2, <1>3 DEF Positions
<1> QED
  BY <1>2, <1>4 DEF e

LEMMA WordEndFacts ==
  ASSUME NEW X, NEW s \in Seq(X), NEW i \in Positions, i <= Len(s), IdentifierChar(s[i])
  PROVE  WordEnd(s, i) \in Positions /\ WordEnd(s, i) > i /\ WordEnd(s, i) <= Len(s) + 1
<1> DEFINE e == WordEnd(s, i)
           A == {x \in ToSet(s) : ~IdentifierChar(x)}
<1>1. e = FirstOf(s, i, A) /\ i <= Len(s) + 1
  BY DEF WordEnd, Positions
<1>2. /\ e \in Positions /\ e <= Len(s) + 1 /\ e >= i
      /\ e <= Len(s) => s[e] \in A
  <2> HIDE DEF A
  <2> QED
    BY <1>1, FirstOfFacts
<1>3. e # i
  <2> HIDE DEF e
  <2> QED
    BY <1>2
<1> HIDE DEF e, A
<1>4. e > i
  BY <1>2, <1>3 DEF Positions
<1> QED
  BY <1>2, <1>4 DEF e

(* The blanks and line comments from i on end at blanks[i].                *)
IsBlankScan(blanks, s) ==
  \A j \in Positions :
    blanks[j] = IF j > Len(s) THEN j
                ELSE IF s[j] \in Spaces THEN blanks[j + 1]
                ELSE IF s[j] = "--" THEN blanks[LineEnd(s, j)] ELSE j

LEMMA BlankScan ==
  ASSUME NEW X, NEW s \in Seq(X), NEW start
  PROVE  \E blanks : /\ IsBlankScan(blanks, s)
                     /\ Continuation(s, start) =
                          IF \E k \in start..(blanks[start] - 1) : s[k] = "\n"
                          THEN blanks[start] ELSE 0
<1> DEFINE n == Len(s)
           Body(f, j) == IF j > Len(s) THEN j
                         ELSE IF s[j] \in Spaces THEN f[j + 1]
                         ELSE IF s[j] = "--" THEN f[LineEnd(s, j)] ELSE j
           Recurs(f) == f = [j \in Positions |-> Body(f, j)]
           blanks == CHOOSE f : Recurs(f)
           result == [j \in Positions |-> j]
           Stop == {j \in Positions : s[j] \notin Spaces /\ s[j] # "--"}
           step == [j \in Positions |-> IF j <= n /\ s[j] = "--" THEN LineEnd(s, j) ELSE j + 1]
<1>1. n \in Nat /\ result \in [Positions -> Positions] /\ Forward(step, n)
  <2>1. ASSUME NEW j \in Positions PROVE step[j] \in Positions /\ (j <= n => step[j] > j)
    <3>1. CASE j <= n /\ s[j] = "--"
      BY <3>1, LineEndFacts
    <3>2. CASE ~(j <= n /\ s[j] = "--")
      BY <3>2 DEF Positions
    <3> QED
      BY <3>1, <3>2
  <2> QED
    BY <2>1 DEF Forward
<1>2. PICK f \in [Positions -> Positions] : Searches(f, n, result, Stop, step)
  <2> HIDE DEF n, result, step, Stop
  <2> QED
    BY <1>1, SearchExists
<1>3. ASSUME NEW j \in Positions PROVE f[j] = Body(f, j)
  <2>1. j \in Nat /\ "--" \notin Spaces
    BY DEF Positions, Spaces
  <2>2. f[j] = IF j > n \/ j \in Stop THEN j ELSE f[step[j]]
    BY <1>2 DEF Searches
  <2>3. CASE j > n \/ j \in Stop
    BY <2>1, <2>2, <2>3
  <2>4. CASE ~(j > n \/ j \in Stop)
    <3>1. f[j] = f[IF s[j] = "--" THEN LineEnd(s, j) ELSE j + 1] /\ j <= n
      BY <1>1, <2>1, <2>2, <2>4
    <3> HIDE DEF step, result
    <3> QED
      BY <1>1, <2>1, <2>4, <3>1
  <2> QED
    BY <2>3, <2>4
<1>4. Recurs(f)
  <2> HIDE DEF Body
  <2> QED
    BY <1>2, <1>3
<1>5. Recurs(blanks)
  <2> HIDE DEF Recurs
  <2> QED
    BY <1>4, Zenon
<1>6. \A j \in Positions : blanks[j] = Body(blanks, j)
  <2> HIDE DEF Body, blanks
  <2> QED
    BY <1>5
<1>7. Continuation(s, start) = IF \E k \in start..(blanks[start] - 1) : s[k] = "\n"
                               THEN blanks[start] ELSE 0
  BY DEF Continuation
<1> HIDE DEF blanks
<1>8. IsBlankScan(blanks, s)
  BY <1>6 DEF IsBlankScan
<1> QED
  BY <1>7, <1>8

LEMMA BlankScanEnds ==
  ASSUME NEW X, NEW s \in Seq(X), NEW blanks, IsBlankScan(blanks, s)
  PROVE  \A j \in Positions : /\ blanks[j] \in Positions
                              /\ blanks[j] >= j
                              /\ j <= Len(s) + 1 => blanks[j] <= Len(s) + 1
<1> DEFINE n == Len(s)
           P == {j \in Positions : blanks[j] \in Positions /\ blanks[j] >= j
                                  /\ (j <= n + 1 => blanks[j] <= n + 1)}
<1>1. n \in Nat
  OBVIOUS
<1>2. ASSUME NEW j \in Positions, j > n PROVE j \in P
  <2>1. blanks[j] = j
    BY <1>2 DEF IsBlankScan
  <2> QED
    BY <1>1, <1>2, <2>1 DEF Positions
<1>3. ASSUME NEW j \in Positions, j <= n, \A k \in Positions : k > j => k \in P PROVE j \in P
  <2> HIDE DEF P
  <2>1. CASE blanks[j] = j
    BY <1>1, <1>3, <2>1 DEF P, Positions
  <2>2. CASE blanks[j] = blanks[j + 1]
    BY <1>1, <1>3, <2>2 DEF P, Positions
  <2>3. CASE s[j] = "--" /\ blanks[j] = blanks[LineEnd(s, j)]
    <3> DEFINE e == LineEnd(s, j)
    <3>1. e \in Positions /\ e > j /\ e <= n + 1 /\ blanks[j] = blanks[e]
      BY <1>3, <2>3, LineEndFacts
    <3> HIDE DEF e
    <3> QED
      BY <1>1, <1>3, <3>1 DEF P, Positions
  <2>4. j \in Nat
    BY DEF Positions
  <2> QED
    BY <1>1, <1>3, <2>1, <2>2, <2>3, <2>4 DEF IsBlankScan
<1>4. Positions \subseteq P
  <2> HIDE DEF P, n
  <2> QED
    BY <1>1, <1>2, <1>3, FromTheEnd
<1> QED
  BY <1>4

LEMMA ContinuationFacts ==
  ASSUME NEW X, NEW s \in Seq(X), NEW start \in Positions
  PROVE  \/ Continuation(s, start) = 0
         \/ Continuation(s, start) \in Positions /\ Continuation(s, start) >= start
BY BlankScan, BlankScanEnds

\* The string that stopped at j goes on with another segment.
GoesOn(s, j) == /\ Continuation(s, j) # 0 /\ Continuation(s, j) <= Len(s)
                /\ s[Continuation(s, j)] = "quote"

NextSegment(s, j) == QuoteEnd(s, Continuation(s, j), "quote", TRUE)

LEMMA NextSegmentFacts ==
  ASSUME NEW X, NEW s \in Seq(X), NEW j \in Positions, GoesOn(s, j)
  PROVE  /\ Continuation(s, j) \in Positions /\ Continuation(s, j) >= j
         /\ NextSegment(s, j).end \in Positions
         /\ NextSegment(s, j).end > Continuation(s, j)
         /\ NextSegment(s, j).end > j
         /\ NextSegment(s, j).end <= Len(s) + 1
         /\ j <= Len(s)
<1> DEFINE c == Continuation(s, j)
           e == NextSegment(s, j).end
<1>1. c \in Positions /\ c >= j /\ c <= Len(s)
  BY ContinuationFacts DEF GoesOn
<1>2. e > c /\ e \in Positions /\ e <= Len(s) + 1
  <2>1. c \in Nat
    BY <1>1 DEF Positions
  <2> QED
    BY <1>1, <2>1, QuoteEndFacts DEF NextSegment
<1> HIDE DEF c, e
<1>3. e > j /\ j <= Len(s)
  BY <1>1, <1>2 DEF Positions
<1> QED
  BY <1>1, <1>2, <1>3 DEF c, e

(* The segments after one that stopped at j end at more[j].                *)
IsStringScan(more, s) ==
  \A j \in Positions : more[j] = IF ~GoesOn(s, j) THEN j
                                 ELSE IF NextSegment(s, j).closed THEN more[NextSegment(s, j).end]
                                 ELSE NextSegment(s, j).end

LEMMA StringScan ==
  ASSUME NEW X, NEW s \in Seq(X), NEW i
  PROVE  \E more : /\ IsStringScan(more, s)
                   /\ StringEnd(s, i) =
                        LET first == QuoteEnd(s, i, "quote", EString(s, i))
                        IN IF EString(s, i) /\ first.closed THEN more[first.end] ELSE first.end
<1> DEFINE n == Len(s)
           c(j) == Continuation(s, j)
           next(j) == QuoteEnd(s, c(j), "quote", TRUE)
           Body(f, j) == IF c(j) = 0 \/ c(j) > Len(s) THEN j
                         ELSE IF s[c(j)] # "quote" THEN j
                         ELSE IF next(j).closed THEN f[next(j).end] ELSE next(j).end
           Recurs(f) == f = [j \in Positions |-> Body(f, j)]
           more == CHOOSE f : Recurs(f)
           result == [j \in Positions |-> IF GoesOn(s, j) THEN next(j).end ELSE j]
           Stop == {j \in Positions : ~(GoesOn(s, j) /\ next(j).closed)}
           step == [j \in Positions |-> IF GoesOn(s, j) THEN next(j).end ELSE j + 1]
           first == QuoteEnd(s, i, "quote", EString(s, i))
<1>1. n \in Nat
  OBVIOUS
<1>2. ASSUME NEW j \in Positions, GoesOn(s, j)
      PROVE  next(j).end \in Positions /\ next(j).end > j /\ j <= n
  BY <1>2, NextSegmentFacts DEF NextSegment
<1>3. result \in [Positions -> Positions] /\ Forward(step, n)
  <2> HIDE DEF next, c
  <2>1. ASSUME NEW j \in Positions
        PROVE result[j] \in Positions /\ step[j] \in Positions /\ (j <= n => step[j] > j)
    BY <1>2 DEF Positions
  <2> QED
    BY <2>1 DEF Forward
<1>4. PICK f \in [Positions -> Positions] : Searches(f, n, result, Stop, step)
  <2> HIDE DEF n, result, step, Stop
  <2> QED
    BY <1>1, <1>3, SearchExists
<1>5. ASSUME NEW j \in Positions, NEW g
      PROVE  Body(g, j) = IF ~GoesOn(s, j) THEN j
                          ELSE IF next(j).closed THEN g[next(j).end] ELSE next(j).end
  <2>1. c(j) = 0 \/ c(j) \in Nat
    BY ContinuationFacts DEF Positions
  <2>2. GoesOn(s, j) <=> c(j) # 0 /\ c(j) <= n /\ s[c(j)] = "quote"
    BY DEF GoesOn
  <2> HIDE DEF c, next
  <2> QED
    BY <1>1, <2>1, <2>2
<1>6. ASSUME NEW j \in Positions PROVE f[j] = Body(f, j)
  <2> HIDE DEF Body, c, next
  <2>1. f[j] = IF j > n \/ j \in Stop THEN result[j] ELSE f[step[j]]
    BY <1>4 DEF Searches
  <2>2. GoesOn(s, j) => ~(j > n)
    BY <1>1, <1>2 DEF Positions
  <2> QED
    BY <1>5, <2>1, <2>2
<1>7. Recurs(f)
  <2> HIDE DEF Body
  <2> QED
    BY <1>4, <1>6
<1>8. Recurs(more)
  <2> HIDE DEF Recurs
  <2> QED
    BY <1>7, Zenon
<1>9. \A j \in Positions : more[j] = Body(more, j)
  <2> HIDE DEF Body, more
  <2> QED
    BY <1>8
<1>10. StringEnd(s, i) = IF EString(s, i) /\ first.closed THEN more[first.end] ELSE first.end
  BY DEF StringEnd
<1> HIDE DEF more, Body
<1>11. IsStringScan(more, s)
  BY <1>5, <1>9 DEF IsStringScan, NextSegment
<1> QED
  BY <1>10, <1>11

LEMMA StringScanEnds ==
  ASSUME NEW X, NEW s \in Seq(X), NEW more, IsStringScan(more, s)
  PROVE  \A j \in Positions : /\ more[j] \in Positions
                              /\ more[j] >= j
                              /\ j <= Len(s) + 1 => more[j] <= Len(s) + 1
<1> DEFINE n == Len(s)
           P == {j \in Positions : more[j] \in Positions /\ more[j] >= j
                                  /\ (j <= n + 1 => more[j] <= n + 1)}
<1>1. n \in Nat
  OBVIOUS
<1>2. ASSUME NEW j \in Positions, ~GoesOn(s, j) PROVE j \in P
  <2>1. more[j] = j
    BY <1>2 DEF IsStringScan
  <2> QED
    BY <2>1 DEF Positions
<1>3. ASSUME NEW j \in Positions, j <= n, \A k \in Positions : k > j => k \in P PROVE j \in P
  <2> DEFINE e == NextSegment(s, j).end
  <2>1. CASE GoesOn(s, j)
    <3> HIDE DEF P
    <3>1. e \in Positions /\ e > j /\ e <= n + 1
      BY <2>1, NextSegmentFacts
    <3>2. more[j] \in {e, more[e]}
      BY <2>1 DEF IsStringScan
    <3>3. e \in P
      BY <1>3, <3>1
    <3> HIDE DEF e, n
    <3> QED
      BY <1>1, <3>1, <3>2, <3>3 DEF P, Positions
  <2> QED
    BY <1>2, <2>1
<1>4. Positions \subseteq P
  <2>1. ASSUME NEW j \in Positions, j > n PROVE j \in P
    <3>1. ~GoesOn(s, j)
      <4>1. j \in Nat
        BY DEF Positions
      <4>2. GoesOn(s, j) => j <= n
        BY NextSegmentFacts
      <4> QED
        BY <1>1, <2>1, <4>1, <4>2
    <3> QED
      BY <1>2, <3>1
  <2> HIDE DEF P, n
  <2> QED
    BY <1>1, <1>3, <2>1, FromTheEnd
<1> QED
  BY <1>4

LEMMA StringEndFacts ==
  ASSUME NEW X, NEW s \in Seq(X), NEW i \in Positions, i <= Len(s)
  PROVE  StringEnd(s, i) \in Positions /\ StringEnd(s, i) > i /\ StringEnd(s, i) <= Len(s) + 1
<1> DEFINE first == QuoteEnd(s, i, "quote", EString(s, i))
           e == first.end
<1>1. PICK more : /\ IsStringScan(more, s)
                  /\ StringEnd(s, i) = IF EString(s, i) /\ first.closed THEN more[e] ELSE e
  BY StringScan
<1>2. e \in Positions /\ e > i /\ e <= Len(s) + 1
  <2>1. i \in Nat
    BY DEF Positions
  <2> QED
    BY <2>1, QuoteEndFacts
<1> HIDE DEF first, e
<1>3. more[e] \in Positions /\ more[e] >= e /\ more[e] <= Len(s) + 1
  BY <1>1, <1>2, StringScanEnds
<1>4. more[e] > i
  BY <1>2, <1>3 DEF Positions
<1> QED
  BY <1>1, <1>2, <1>3, <1>4

LEMMA DollarEndFacts ==
  ASSUME NEW X, NEW s \in Seq(X), NEW i \in Positions, i <= Len(s), DollarTag(s, i) > 0
  PROVE  DollarEnd(s, i) \in Positions /\ DollarEnd(s, i) > i /\ DollarEnd(s, i) <= Len(s) + 1
<1> DEFINE n == DollarTag(s, i)
           close == FirstOf(s, i + 1, {"$"})
           closings == {j \in (i + n)..(Len(s) - n + 1) :
                          SubSeq(s, j, j + n - 1) = SubSeq(s, i, i + n - 1)}
<1>1. Len(s) \in Nat /\ i \in Nat /\ i + 1 \in Positions
  BY DEF Positions
<1>2. close \in Positions
  BY <1>1, FirstOfFacts
<1>3. n \in Nat /\ n > 0
  <2> HIDE DEF close
  <2>1. n \in {0, close - i + 1}
    BY DEF DollarTag, close
  <2> HIDE DEF n
  <2>2. n \in Int /\ n > 0
    BY <1>1, <1>2, <2>1 DEF Positions, n
  <2> QED
    BY <2>2
<1>4. DollarEnd(s, i) = IF closings = {} THEN Len(s) + 1 ELSE Min(closings) + n
  BY DEF DollarEnd
<1> HIDE DEF n
<1>5. CASE closings = {}
  BY <1>1, <1>4, <1>5 DEF Positions
<1>6. CASE closings # {}
  <2>1. closings \in SUBSET Nat
    BY <1>1, <1>3
  <2>2. Min(closings) \in closings
    BY <1>6, <2>1, LeastIsMin
  <2> DEFINE b == Min(closings)
  <2>3. b \in (i + n)..(Len(s) - n + 1) /\ DollarEnd(s, i) = b + n
    BY <1>4, <1>6, <2>2
  <2> HIDE DEF b
  <2> QED
    BY <1>1, <1>3, <2>3 DEF Positions
<1> QED
  BY <1>5, <1>6

-----------------------------------------------------------------------------
(* The scanners                                                            *)

Kinds == {"comment", "string", "identifier", "word", "punctuation"}

SpanSet == [start : Positions, end : Positions, kind : Kinds]

LEMMA SpanAtFacts ==
  ASSUME NEW X, NEW s \in Seq(X), NEW i \in Positions, i <= Len(s)
  PROVE  /\ SpanAt(s, i) \in SpanSet
         /\ SpanAt(s, i).start = i
         /\ SpanAt(s, i).end > i
         /\ SpanAt(s, i).end <= Len(s) + 1
<1> DEFINE Fits(t) == /\ t \in SpanSet /\ t.start = i
                      /\ t.end > i /\ t.end <= Len(s) + 1
<1>1. ASSUME NEW e \in Positions, e > i, e <= Len(s) + 1, NEW k \in Kinds
      PROVE  Fits(Span(i, e, k))
  BY <1>1 DEF Span, SpanSet
<1>2. IdentifierChar(s[i]) => s[i] \notin {"--", "/*", "quote", "dquote", "backtick"}
  BY DEF IdentifierChar, Quotes
<1> SUFFICES Fits(SpanAt(s, i))
  OBVIOUS
<1> HIDE DEF Fits
<1>3. CASE s[i] = "--"
  <2>1. SpanAt(s, i) = Span(i, LineEnd(s, i), "comment")
    BY <1>2, <1>3 DEF SpanAt
  <2> QED
    BY <1>1, <1>3, <2>1, LineEndFacts DEF Kinds
<1>4. CASE s[i] = "/*"
  <2>1. SpanAt(s, i) = Span(i, BlockEnd(s, i), "comment")
    BY <1>2, <1>4 DEF SpanAt
  <2> QED
    BY <1>1, <2>1, BlockEndFacts DEF Kinds
<1>5. CASE s[i] = "$" /\ DollarTag(s, i) > 0
  <2>1. SpanAt(s, i) = Span(i, DollarEnd(s, i), "string")
    BY <1>5 DEF SpanAt
  <2> QED
    BY <1>1, <1>5, <2>1, DollarEndFacts DEF Kinds
<1>6. CASE s[i] = "quote"
  <2>1. SpanAt(s, i) = Span(i, StringEnd(s, i), "string")
    BY <1>2, <1>6 DEF SpanAt
  <2> QED
    BY <1>1, <2>1, StringEndFacts DEF Kinds
<1>7. CASE s[i] \in {"dquote", "backtick"}
  <2> DEFINE e == QuoteEnd(s, i, s[i], FALSE).end
  <2>1. SpanAt(s, i) = Span(i, e, "identifier")
    BY <1>2, <1>7 DEF SpanAt
  <2>2. i \in Nat
    BY DEF Positions
  <2>3. e \in Positions /\ e > i /\ e <= Len(s) + 1
    BY <2>2, QuoteEndFacts
  <2> HIDE DEF e
  <2> QED
    BY <1>1, <2>1, <2>3 DEF Kinds
<1>8. CASE IdentifierChar(s[i]) /\ (s[i] = "$" => DollarTag(s, i) = 0)
  <2>1. ~(s[i] = "$" /\ DollarTag(s, i) > 0)
    BY <1>8
  <2>2. SpanAt(s, i) = Span(i, WordEnd(s, i), "word")
    BY <1>2, <1>8, <2>1 DEF SpanAt
  <2> QED
    BY <1>1, <1>8, <2>2, WordEndFacts DEF Kinds
<1>9. CASE ~(\/ s[i] \in {"--", "/*", "quote", "dquote", "backtick"}
             \/ s[i] = "$" /\ DollarTag(s, i) > 0
             \/ IdentifierChar(s[i]) /\ (s[i] = "$" => DollarTag(s, i) = 0))
  <2>1. SpanAt(s, i) = Span(i, i + 1, "punctuation")
    BY <1>9 DEF SpanAt
  <2>2. i + 1 \in Positions /\ i + 1 > i /\ i + 1 <= Len(s) + 1
    BY DEF Positions
  <2> QED
    BY <1>1, <2>1, <2>2 DEF Kinds
<1> QED
  BY <1>3, <1>4, <1>5, <1>6, <1>7, <1>8, <1>9

\* The spans that a scan collects.
Found(comments) == {t \in SpanSet : comments \/ t.kind # "comment"}

(* What the scan of s from i yields, of which rest yields the remainder:   *)
(* blanks yield nothing, and comments yield themselves only if wanted.     *)
Yield(s, i, comments) ==
  IF s[i] \in Spaces \/ (~comments /\ SpanAt(s, i).kind = "comment") THEN <<>>
  ELSE <<SpanAt(s, i)>>

Following(s, i) == IF s[i] \in Spaces THEN i + 1 ELSE SpanAt(s, i).end

\* rest is the scan of s.
IsScan(rest, s, comments) ==
  \A i \in Positions : rest[i] = IF i > Len(s) THEN <<>>
                                 ELSE Yield(s, i, comments) \o rest[Following(s, i)]

LEMMA FollowingFacts ==
  ASSUME NEW X, NEW s \in Seq(X), NEW i \in Positions, i <= Len(s)
  PROVE  /\ Following(s, i) \in Positions
         /\ Following(s, i) > i
         /\ Following(s, i) <= Len(s) + 1
<1>1. CASE s[i] \in Spaces
  BY <1>1 DEF Following, Positions
<1>2. CASE s[i] \notin Spaces
  BY <1>2, SpanAtFacts DEF Following, SpanSet
<1> QED
  BY <1>1, <1>2

LEMMA YieldFacts ==
  ASSUME NEW X, NEW s \in Seq(X), NEW i \in Positions, i <= Len(s), NEW comments \in BOOLEAN
  PROVE  Yield(s, i, comments) \in Seq(Found(comments))
<1>1. SpanAt(s, i) \in SpanSet
  BY SpanAtFacts
<1>2. comments \/ SpanAt(s, i).kind # "comment" => SpanAt(s, i) \in Found(comments)
  BY <1>1 DEF Found
<1> QED
  BY <1>2 DEF Yield

LEMMA ScanTypes ==
  ASSUME NEW X, NEW s \in Seq(X), NEW comments \in BOOLEAN, NEW rest, IsScan(rest, s, comments)
  PROVE  \A i \in Positions : rest[i] \in Seq(Found(comments))
<1> DEFINE P == {i \in Positions : rest[i] \in Seq(Found(comments))}
<1>1. ASSUME NEW i \in Positions, i > Len(s) PROVE i \in P
  <2>1. rest[i] = <<>>
    BY <1>1 DEF IsScan
  <2>2. rest[i] \in Seq(Found(comments))
    BY <2>1
  <2> QED
    BY <2>2
<1>2. ASSUME NEW i \in Positions, i <= Len(s), \A j \in Positions : j > i => j \in P
      PROVE  i \in P
  <2>1. Following(s, i) \in P /\ Yield(s, i, comments) \in Seq(Found(comments))
    BY <1>2, FollowingFacts, YieldFacts
  <2>2. i \in Nat /\ Len(s) \in Nat
    BY DEF Positions
  <2>3. rest[i] = Yield(s, i, comments) \o rest[Following(s, i)]
    <3>1. rest[i] = IF i > Len(s) THEN <<>> ELSE Yield(s, i, comments) \o rest[Following(s, i)]
      BY DEF IsScan
    <3> QED
      BY <1>2, <2>2, <3>1
  <2>4. rest[Following(s, i)] \in Seq(Found(comments))
    BY <2>1
  <2>5. rest[i] \in Seq(Found(comments))
    BY <2>1, <2>3, <2>4
  <2> QED
    BY <2>5
<1>3. Positions \subseteq P
  <2> HIDE DEF P
  <2> QED
    BY <1>1, <1>2, FromTheEnd
<1> QED
  BY <1>3

LEMMA ScanIsDefined ==
  ASSUME NEW X, NEW s \in Seq(X), NEW comments \in BOOLEAN
  PROVE  \E f \in [Positions -> Seq(Found(comments))] : IsScan(f, s, comments)
<1> DEFINE n == Len(s)
           found == [i \in Positions |-> IF i <= n THEN Yield(s, i, comments) ELSE <<>>]
           step == [i \in Positions |-> IF i <= n THEN Following(s, i) ELSE i]
<1>1. n \in Nat
  OBVIOUS
<1>2. found \in [Positions -> Seq(Found(comments))]
  BY YieldFacts
<1>3. Forward(step, n)
  <2>1. ASSUME NEW i \in Positions PROVE step[i] \in Positions /\ (i <= n => step[i] > i)
    BY FollowingFacts
  <2> QED
    BY <2>1 DEF Forward
<1>4. PICK f \in [Positions -> Seq(Found(comments))] : Collects(f, n, found, step)
  <2> HIDE DEF n, found, step
  <2> QED
    BY <1>1, <1>2, <1>3, CollectionExists
<1>5. ASSUME NEW i \in Positions
      PROVE  f[i] = IF i > n THEN <<>> ELSE Yield(s, i, comments) \o f[Following(s, i)]
  <2>1. f[i] = IF i > n THEN <<>> ELSE found[i] \o f[step[i]]
    BY <1>4 DEF Collects
  <2>2. i \in Nat
    BY DEF Positions
  <2>3. ~(i > n) => found[i] = Yield(s, i, comments) /\ step[i] = Following(s, i)
    BY <1>1, <2>2
  <2> HIDE DEF n, found, step
  <2> QED
    BY <2>1, <2>3
<1> QED
  BY <1>5 DEF IsScan

(* _sql_token_spans scans the text.                                        *)
LEMMA TokenSpansScan ==
  ASSUME NEW X, NEW s \in Seq(X), NEW comments \in BOOLEAN
  PROVE  \E rest : IsScan(rest, s, comments) /\ TokenSpans(s, comments) = rest[1]
<1> DEFINE Body(f, i) ==
             IF i > Len(s) THEN <<>>
             ELSE IF s[i] \in Spaces THEN f[i + 1]
             ELSE LET span == SpanAt(s, i)
                  IN (IF comments \/ span.kind # "comment" THEN <<span>> ELSE <<>>)
                     \o f[span.end]
           Recurs(f) == f = [i \in Positions |-> Body(f, i)]
           rest == CHOOSE f : Recurs(f)
<1>1. PICK f \in [Positions -> Seq(Found(comments))] : IsScan(f, s, comments)
  BY ScanIsDefined
<1>2. ASSUME NEW i \in Positions, NEW g,
             i <= Len(s) /\ s[i] \in Spaces => g[i + 1] \in Seq(Found(comments))
      PROVE  Body(g, i) = IF i > Len(s) THEN <<>>
                          ELSE Yield(s, i, comments) \o g[Following(s, i)]
  <2>1. i \in Nat /\ Len(s) \in Nat
    BY DEF Positions
  <2>2. CASE i > Len(s)
    BY <2>2
  <2>3. CASE i <= Len(s) /\ s[i] \in Spaces
    <3>1. Body(g, i) = g[i + 1] /\ Yield(s, i, comments) = <<>> /\ Following(s, i) = i + 1
      BY <2>1, <2>3 DEF Yield, Following
    <3>2. <<>> \o g[i + 1] = g[i + 1]
      BY <1>2, <2>3
    <3> HIDE DEF Body
    <3> QED
      BY <2>1, <2>3, <3>1, <3>2
  <2>4. CASE i <= Len(s) /\ s[i] \notin Spaces
    <3>1. Following(s, i) = SpanAt(s, i).end
      BY <2>4 DEF Following
    <3>2. Yield(s, i, comments) =
            IF comments \/ SpanAt(s, i).kind # "comment" THEN <<SpanAt(s, i)>> ELSE <<>>
      BY <2>4 DEF Yield
    <3> QED
      BY <2>1, <2>4, <3>1, <3>2
  <2> QED
    BY <2>1, <2>2, <2>3, <2>4
<1>3. \A i \in Positions : f[i] = Body(f, i)
  <2>1. ASSUME NEW i \in Positions PROVE f[i] = Body(f, i)
    <3>1. f[i + 1] \in Seq(Found(comments))
      BY DEF Positions
    <3> HIDE DEF Body
    <3> QED
      BY <1>1, <1>2, <3>1 DEF IsScan
  <2> HIDE DEF Body
  <2> QED
    BY <2>1
<1>4. Recurs(f)
  <2> HIDE DEF Body
  <2> QED
    BY <1>1, <1>3
<1>5. Recurs(rest)
  <2> HIDE DEF Recurs
  <2> QED
    BY <1>4, Zenon
<1>6. \A i \in Positions : rest[i] = Body(rest, i)
  <2> HIDE DEF Body, rest
  <2> QED
    BY <1>5
<1>7. TokenSpans(s, comments) = rest[1]
  BY DEF TokenSpans
<1> HIDE DEF rest
<1> DEFINE P == {i \in Positions : rest[i] \in Seq(Found(comments))}
<1>8. ASSUME NEW i \in Positions, i > Len(s) PROVE i \in P
  <2>1. rest[i] = <<>>
    BY <1>6, <1>8
  <2>2. rest[i] \in Seq(Found(comments))
    BY <2>1
  <2> QED
    BY <2>2
<1>9. ASSUME NEW i \in Positions, i <= Len(s), \A j \in Positions : j > i => j \in P
      PROVE  i \in P
  <2>1. Following(s, i) \in P /\ Yield(s, i, comments) \in Seq(Found(comments))
    BY <1>9, FollowingFacts, YieldFacts
  <2>2. s[i] \in Spaces => rest[i + 1] \in Seq(Found(comments))
    BY <2>1 DEF Following
  <2>3. rest[i] = Body(rest, i)
    BY <1>6
  <2> HIDE DEF Body
  <2>4. rest[i] = Yield(s, i, comments) \o rest[Following(s, i)]
    BY <1>2, <1>9, <2>2, <2>3 DEF Positions
  <2>5. rest[Following(s, i)] \in Seq(Found(comments))
    BY <2>1
  <2>6. rest[i] \in Seq(Found(comments))
    BY <2>1, <2>4, <2>5
  <2> QED
    BY <2>6
<1>10. Positions \subseteq P
  <2> HIDE DEF P
  <2> QED
    BY <1>8, <1>9, FromTheEnd
<1>11. ASSUME NEW i \in Positions
       PROVE  rest[i] = IF i > Len(s) THEN <<>> ELSE Yield(s, i, comments) \o rest[Following(s, i)]
  <2>1. i + 1 \in P
    BY <1>10 DEF Positions
  <2> HIDE DEF Body
  <2> QED
    BY <1>2, <1>6, <2>1
<1> QED
  BY <1>7, <1>11 DEF IsScan

(* The kind that the relation rewriting gives a token.                     *)
RewriteKind == [string |-> "literal", identifier |-> "quoted_identifier",
                punctuation |-> "symbol", word |-> "word"]

Renamed(t) == [t EXCEPT !.kind = RewriteKind[@]]

AllRenamed(spans) == [k \in DOMAIN spans |-> Renamed(spans[k])]

LEMMA RenamedIsSequence ==
  ASSUME NEW T, NEW spans \in Seq(T)
  PROVE  /\ AllRenamed(spans) \in Seq({Renamed(t) : t \in T})
         /\ Len(AllRenamed(spans)) = Len(spans)
         /\ \A k \in 1..Len(spans) : AllRenamed(spans)[k] = Renamed(spans[k])
<1> DEFINE R == {Renamed(t) : t \in T}
<1>1. Len(spans) \in Nat /\ DOMAIN spans = 1..Len(spans)
  OBVIOUS
<1>2. \A k \in 1..Len(spans) : Renamed(spans[k]) \in R
  BY <1>1
<1> HIDE DEF R
<1>3. AllRenamed(spans) = [k \in 1..Len(spans) |-> Renamed(spans[k])]
  BY <1>1 DEF AllRenamed
<1>4. AllRenamed(spans) \in [1..Len(spans) -> R]
  BY <1>2, <1>3
<1>5. AllRenamed(spans) \in Seq(R) /\ Len(AllRenamed(spans)) = Len(spans)
  BY <1>1, <1>4
<1> QED
  BY <1>3, <1>5 DEF R

LEMMA RenamedInTurn ==
  ASSUME NEW t, NEW rest \in Seq(Found(FALSE))
  PROVE  AllRenamed(<<t>> \o rest) = <<Renamed(t)>> \o AllRenamed(rest)
<1> DEFINE T == {t} \cup Found(FALSE)
           R == {Renamed(u) : u \in T}
           a == <<t>> \o rest
           b == <<Renamed(t)>> \o AllRenamed(rest)
<1>1. rest \in Seq(T) /\ <<t>> \in Seq(T)
  <2> DEFINE F == Found(FALSE)
  <2>1. rest \in Seq(F) /\ F \subseteq T /\ t \in T
    OBVIOUS
  <2> HIDE DEF T, F
  <2>2. rest \in [1..Len(rest) -> T] /\ Len(rest) \in Nat
    BY <2>1
  <2>3. rest \in Seq(T)
    BY <2>1, <2>2
  <2> QED
    BY <2>1, <2>3
<1> HIDE DEF T
<1>2. a \in Seq(T) /\ Len(a) = Len(rest) + 1 /\ a[1] = t
      /\ \A k \in 2..Len(a) : a[k] = rest[k - 1]
  BY <1>1
<1>3. Renamed(t) \in R /\ AllRenamed(rest) \in Seq(R) /\ Len(AllRenamed(rest)) = Len(rest)
      /\ \A k \in 1..Len(rest) : AllRenamed(rest)[k] = Renamed(rest[k])
  BY <1>1, RenamedIsSequence DEF T
<1> HIDE DEF R
<1>4. b \in Seq(R) /\ Len(b) = Len(rest) + 1 /\ b[1] = Renamed(t)
      /\ \A k \in 2..Len(b) : b[k] = AllRenamed(rest)[k - 1]
  BY <1>1, <1>3
<1>5. /\ AllRenamed(a) \in Seq(R) /\ Len(AllRenamed(a)) = Len(a)
      /\ \A k \in 1..Len(a) : AllRenamed(a)[k] = Renamed(a[k])
  BY <1>2, RenamedIsSequence DEF R
<1> HIDE DEF a, b
<1>6. ASSUME NEW k \in 1..Len(a) PROVE AllRenamed(a)[k] = b[k]
  <2>1. CASE k = 1
    BY <1>2, <1>4, <1>5, <2>1
  <2>2. CASE k # 1
    <3>1. k \in 2..Len(a) /\ k \in 2..Len(b) /\ k - 1 \in 1..Len(rest)
      BY <1>1, <1>2, <1>4, <2>2
    <3> QED
      BY <1>2, <1>3, <1>4, <1>5, <3>1
  <2> QED
    BY <2>1, <2>2
<1>7. AllRenamed(a) = b
  BY <1>2, <1>4, <1>5, <1>6
<1> QED
  BY <1>7 DEF a, b

(* The relation rewriting scans the text too, and renames what it finds.   *)
LEMMA RewriteTokensScan ==
  ASSUME NEW X, NEW s \in Seq(X), NEW rest, IsScan(rest, s, FALSE)
  PROVE  RewriteTokens(s) = AllRenamed(rest[1])
<1> DEFINE Body(f, i) ==
             IF i > Len(s) THEN <<>>
             ELSE LET token(end, kinds) == <<Span(i, end, kinds)>> \o f[end]
                  IN CASE s[i] \in Spaces -> f[i + 1]
                       [] s[i] = "--" -> f[LineEnd(s, i)]
                       [] s[i] = "/*" -> f[BlockEnd(s, i)]
                       [] s[i] = "quote" -> token(RewriteStringEnd(s, i), "literal")
                       [] s[i] = "$" /\ DollarTag(s, i) > 0 -> token(DollarEnd(s, i), "literal")
                       [] s[i] \in {"dquote", "backtick"} ->
                            token(QuoteEnd(s, i, s[i], FALSE).end, "quoted_identifier")
                       [] IdentifierChar(s[i]) /\ (s[i] = "$" => DollarTag(s, i) = 0) ->
                            token(WordEnd(s, i), "word")
                       [] OTHER -> token(i + 1, "symbol")
           Recurs(f) == f = [i \in Positions |-> Body(f, i)]
           tokens == CHOOSE f : Recurs(f)
           Cut(f, i) == IF i > Len(s) THEN <<>>
                        ELSE IF Yield(s, i, FALSE) = <<>> THEN f[Following(s, i)]
                        ELSE <<Renamed(SpanAt(s, i))>> \o f[Following(s, i)]
           renamed == [i \in Positions |-> AllRenamed(rest[i])]
<1>1. RewriteTokens(s) = tokens[1]
  BY DEF RewriteTokens
<1>2. ASSUME NEW f, NEW i \in Positions
      PROVE  Body(f, i) = Cut(f, i)
  <2>1. CASE i > Len(s)
    BY <2>1
  <2>2. SUFFICES ASSUME ~(i > Len(s)) PROVE Body(f, i) = Cut(f, i)
    BY <2>1
  <2>3. CASE s[i] \in Spaces
    <3>1. Body(f, i) = f[i + 1]
      BY <2>2, <2>3 DEF Spaces, IdentifierChar
    <3>2. Cut(f, i) = f[i + 1]
      BY <2>2, <2>3 DEF Yield, Following
    <3> QED
      BY <3>1, <3>2
  <2>4. ASSUME NEW end, SpanAt(s, i) = Span(i, end, "comment"), s[i] \notin Spaces,
               Body(f, i) = f[end]
        PROVE  Body(f, i) = Cut(f, i)
    <3>1. SpanAt(s, i).kind = "comment" /\ SpanAt(s, i).end = end
      BY <2>4 DEF Span
    <3>2. Yield(s, i, FALSE) = <<>> /\ Following(s, i) = end
      BY <2>4, <3>1 DEF Yield, Following
    <3> HIDE DEF Body
    <3> QED
      BY <2>2, <2>4, <3>2
  <2>5. CASE s[i] = "--"
    <3>1. Body(f, i) = f[LineEnd(s, i)] /\ SpanAt(s, i) = Span(i, LineEnd(s, i), "comment")
          /\ s[i] \notin Spaces
      BY <2>2, <2>5 DEF Spaces, IdentifierChar, SpanAt
    <3> QED
      BY <2>4, <3>1
  <2>6. CASE s[i] = "/*"
    <3>1. Body(f, i) = f[BlockEnd(s, i)] /\ SpanAt(s, i) = Span(i, BlockEnd(s, i), "comment")
          /\ s[i] \notin Spaces
      BY <2>2, <2>6 DEF Spaces, IdentifierChar, SpanAt
    <3> QED
      BY <2>4, <3>1
  <2> DEFINE Yields(end, kinds, name) ==
               /\ SpanAt(s, i) = Span(i, end, kinds)
               /\ Body(f, i) = <<Span(i, end, name)>> \o f[end]
               /\ s[i] \notin Spaces
  <2>7. ASSUME NEW end, NEW kinds \in DOMAIN RewriteKind, Yields(end, kinds, RewriteKind[kinds])
        PROVE  Body(f, i) = Cut(f, i)
    <3>1. SpanAt(s, i).kind # "comment" /\ SpanAt(s, i).end = end /\ s[i] \notin Spaces
      BY <2>7 DEF Span, RewriteKind
    <3>2. Yield(s, i, FALSE) = <<SpanAt(s, i)>> /\ Following(s, i) = end
      BY <3>1 DEF Yield, Following
    <3>3. Renamed(SpanAt(s, i)) = Span(i, end, RewriteKind[kinds])
      BY <2>7 DEF Renamed, Span
    <3>4. <<SpanAt(s, i)>> # <<>>
      OBVIOUS
    <3>5. Body(f, i) = <<Span(i, end, RewriteKind[kinds])>> \o f[end]
      BY <2>7
    <3> HIDE DEF Body
    <3> QED
      BY <2>2, <3>2, <3>3, <3>4, <3>5
  <2>8. CASE s[i] = "quote"
    <3>1. Yields(StringEnd(s, i), "string", "literal")
      BY <2>2, <2>8 DEF Spaces, IdentifierChar, Quotes, SpanAt, RewriteStringEnd
    <3> HIDE DEF Yields
    <3> QED
      BY <2>7, <3>1 DEF RewriteKind
  <2>9. CASE s[i] = "$" /\ DollarTag(s, i) > 0
    <3>1. Yields(DollarEnd(s, i), "string", "literal")
      BY <2>2, <2>9 DEF Spaces, SpanAt
    <3> HIDE DEF Yields
    <3> QED
      BY <2>7, <3>1 DEF RewriteKind
  <2>10. CASE s[i] \in {"dquote", "backtick"}
    <3>1. Yields(QuoteEnd(s, i, s[i], FALSE).end, "identifier", "quoted_identifier")
      BY <2>2, <2>10 DEF Spaces, IdentifierChar, Quotes, SpanAt
    <3> HIDE DEF Yields
    <3> QED
      BY <2>7, <3>1 DEF RewriteKind
  <2>11. CASE IdentifierChar(s[i]) /\ (s[i] = "$" => DollarTag(s, i) = 0)
    <3>1. s[i] \notin Spaces \cup {"--", "/*", "quote", "dquote", "backtick"}
      BY <2>11 DEF Spaces, IdentifierChar, Quotes
    <3>2. ~(s[i] = "$" /\ DollarTag(s, i) > 0)
      BY <2>11
    <3>3. SpanAt(s, i) = Span(i, WordEnd(s, i), "word")
      BY <2>11, <3>1, <3>2 DEF SpanAt
    <3>4. Body(f, i) = <<Span(i, WordEnd(s, i), "word")>> \o f[WordEnd(s, i)]
      BY <2>2, <2>11, <3>1, <3>2
    <3>5. Yields(WordEnd(s, i), "word", "word")
      <4> HIDE DEF Body
      <4> QED
        BY <3>1, <3>3, <3>4
    <3> HIDE DEF Yields
    <3> QED
      BY <2>7, <3>5 DEF RewriteKind
  <2>12. CASE ~(\/ s[i] \in Spaces \cup {"--", "/*", "quote", "dquote", "backtick"}
                \/ s[i] = "$" /\ DollarTag(s, i) > 0
                \/ IdentifierChar(s[i]) /\ (s[i] = "$" => DollarTag(s, i) = 0))
    <3>1. Yields(i + 1, "punctuation", "symbol")
      BY <2>2, <2>12 DEF SpanAt
    <3> HIDE DEF Yields
    <3> QED
      BY <2>7, <3>1 DEF RewriteKind
  <2> HIDE DEF Body, Cut
  <2> QED
    BY <2>3, <2>5, <2>6, <2>8, <2>9, <2>10, <2>11, <2>12
<1> HIDE DEF Body
<1>3. \A i \in Positions : rest[i] \in Seq(Found(FALSE))
  BY ScanTypes
<1>4. ASSUME NEW i \in Positions PROVE renamed[i] = Cut(renamed, i)
  <2>1. rest[i] = IF i > Len(s) THEN <<>> ELSE Yield(s, i, FALSE) \o rest[Following(s, i)]
    BY DEF IsScan
  <2>2. CASE i > Len(s)
    BY <2>1, <2>2 DEF AllRenamed
  <2>3. CASE ~(i > Len(s))
    <3>1. i <= Len(s)
      BY <2>3 DEF Positions
    <3>2. Following(s, i) \in Positions
      BY <3>1, FollowingFacts
    <3> DEFINE r == rest[Following(s, i)]
    <3>3. r \in Seq(Found(FALSE)) /\ renamed[Following(s, i)] = AllRenamed(r)
          /\ rest[i] = Yield(s, i, FALSE) \o r /\ renamed[i] = AllRenamed(rest[i])
      BY <1>3, <2>1, <2>3, <3>2
    <3> HIDE DEF r, renamed
    <3>4. CASE Yield(s, i, FALSE) = <<>>
      <4>1. <<>> \o r = r
        BY <3>3
      <4> QED
        BY <2>3, <3>3, <3>4, <4>1
    <3>5. CASE Yield(s, i, FALSE) # <<>>
      <4>1. Yield(s, i, FALSE) = <<SpanAt(s, i)>>
        BY <3>5 DEF Yield
      <4>2. renamed[i] = <<Renamed(SpanAt(s, i))>> \o AllRenamed(r)
        BY <3>3, <4>1, RenamedInTurn
      <4> QED
        BY <2>3, <3>3, <3>5, <4>2
    <3> QED
      BY <3>4, <3>5
  <2> QED
    BY <2>2, <2>3
<1>5. \A i \in Positions : renamed[i] = Body(renamed, i)
  BY <1>2, <1>4
<1>6. Recurs(renamed)
  <2>1. renamed = [i \in Positions |-> renamed[i]]
    OBVIOUS
  <2> HIDE DEF renamed
  <2> QED
    BY <1>5, <2>1
<1>7. Recurs(tokens)
  <2> HIDE DEF Recurs, renamed
  <2> QED
    BY <1>6, Zenon
<1>8. \A i \in Positions : tokens[i] = Body(tokens, i)
  <2> HIDE DEF tokens
  <2> QED
    BY <1>7
<1> HIDE DEF tokens, renamed
<1>9. \A i \in Positions : tokens[i] = Cut(tokens, i)
  BY <1>2, <1>8
<1> DEFINE P == {i \in Positions : tokens[i] = renamed[i]}
<1>10. ASSUME NEW i \in Positions, i > Len(s) PROVE i \in P
  BY <1>4, <1>9, <1>10
<1>11. ASSUME NEW i \in Positions, i <= Len(s), \A j \in Positions : j > i => j \in P
       PROVE  i \in P
  <2>1. Following(s, i) \in P
    BY <1>11, FollowingFacts
  <2> QED
    BY <1>4, <1>9, <2>1
<1>12. Positions \subseteq P
  <2> HIDE DEF P
  <2> QED
    BY <1>10, <1>11, FromTheEnd
<1>13. tokens[1] = renamed[1] /\ 1 \in Positions
  BY <1>12 DEF Positions
<1> QED
  BY <1>1, <1>13 DEF renamed

-----------------------------------------------------------------------------
(* The scanners of every text agree                                        *)

LEMMA SpansAgree ==
  ASSUME NEW X, NEW s \in Seq(X)
  PROVE  /\ Spans(s) \in Seq(Found(FALSE))
         /\ RewriteTokens(s) = AllRenamed(Spans(s))
<1>1. PICK rest : IsScan(rest, s, FALSE) /\ TokenSpans(s, FALSE) = rest[1]
  BY TokenSpansScan
<1>2. Spans(s) = rest[1]
  BY <1>1 DEF Spans
<1>3. 1 \in Positions
  BY DEF Positions
<1> QED
  BY <1>1, <1>2, <1>3, ScanTypes, RewriteTokensScan

Texts == Seq(Atoms \cup {"Stmt", "Script", "Type"})

(* What is scanned consists of the atoms it was written with; the symbols  *)
(* of the grammar are there for seeds that happen to be equal to them.     *)
LEMMA ScannedIsText == Spec => [](Scanned => text \in Texts)
<1>1. Init => (Scanned => text \in Texts)
  <2> SUFFICES ASSUME Init, Scanned PROVE text \in Texts
    OBVIOUS
  <2> DEFINE A == Atoms \cup {"Stmt", "Script", "Type"}
  <2>1. CASE kind \in Seeds /\ text = kind
    <3>1. text \in Seq(Atoms)
      BY <2>1, SeedsAssumption
    <3> QED
      BY <3>1 DEF Texts
  <2>2. ASSUME NEW x \in A, text = <<x>> PROVE text \in Texts
    <3> HIDE DEF A
    <3>1. <<x>> \in Seq(A)
      OBVIOUS
    <3> QED
      BY <2>2, <3>1 DEF Texts, A
  <2> QED
    BY <2>1, <2>2 DEF Init
<1>2. (Scanned => text \in Texts) /\ [Next]_vars => (Scanned => text \in Texts)'
  BY DEF Next, Write, Derive, Scanned, Texts, vars
<1> QED
  BY <1>1, <1>2, PTL DEF Spec

(* The spans that the DDL passes work on (_sql_token_spans) are the tokens *)
(* that the relation rewriting of _rewrite_sql_for_duckdb cuts, whatever   *)
(* the text, its atoms and its length.                                     *)
THEOREM ScannersAlwaysAgree == Spec => []ScannersAgree
<1>1. (Scanned => text \in Texts) => ScannersAgree
  <2> SUFFICES ASSUME text \in Texts PROVE ScannersAgree
    BY DEF ScannersAgree
  <2> DEFINE kinds == [literal |-> "string", quoted_identifier |-> "identifier",
                       symbol |-> "punctuation", word |-> "word"]
             tokens == RewriteTokens(text)
             spans == Spans(text)
             F == Found(FALSE)
             n == Len(spans)
             back == [k \in DOMAIN tokens |-> [tokens[k] EXCEPT !.kind = kinds[@]]]
  <2>1. spans \in Seq(F) /\ tokens = AllRenamed(spans)
    BY SpansAgree DEF Texts
  <2> HIDE DEF spans, F
  <2>2. n \in Nat /\ DOMAIN spans = 1..n /\ \A k \in 1..n : spans[k] \in F
    BY <2>1
  <2>3. DOMAIN tokens = 1..n /\ \A k \in 1..n : tokens[k] = Renamed(spans[k])
    BY <2>1, <2>2 DEF AllRenamed
  <2>4. ASSUME NEW k \in 1..n PROVE [tokens[k] EXCEPT !.kind = kinds[@]] = spans[k]
    <3> DEFINE t == spans[k]
    <3>1. t \in SpanSet /\ t.kind \in {"string", "identifier", "word", "punctuation"}
      BY <2>2 DEF F, Found, SpanSet, Kinds
    <3> HIDE DEF t
    <3>2. kinds[RewriteKind[t.kind]] = t.kind
      BY <3>1 DEF RewriteKind
    <3>3. [Renamed(t) EXCEPT !.kind = kinds[@]] = [t EXCEPT !.kind = kinds[RewriteKind[t.kind]]]
      BY <3>1 DEF Renamed, SpanSet
    <3>4. [t EXCEPT !.kind = t.kind] = t
      BY <3>1 DEF SpanSet
    <3> HIDE DEF tokens, kinds
    <3> QED
      BY <2>3, <3>2, <3>3, <3>4 DEF t
  <2> HIDE DEF tokens
  <2>5. back = [k \in 1..n |-> spans[k]]
    BY <2>3, <2>4
  <2>6. spans = [k \in 1..n |-> spans[k]]
    BY <2>1, <2>2
  <2> QED
    BY <2>5, <2>6 DEF ScannersAgree, SpanKinds, tokens, spans
<1> QED
  BY <1>1, ScannedIsText, PTL

-----------------------------------------------------------------------------
(* The spans of a scan cover the text                                      *)

Inside(p, t) == t.start <= p /\ p < t.end

(* The spans are not empty, lie between position i and the end of the      *)
(* text, follow one another, and hold all there is that is not blank.      *)
Covers(spans, s, i) ==
  /\ \A k \in DOMAIN spans : /\ i <= spans[k].start
                             /\ spans[k].start < spans[k].end
                             /\ spans[k].end <= Len(s) + 1
  /\ \A j, k \in DOMAIN spans : j < k => spans[j].end <= spans[k].start
  /\ \A p \in Positions : i <= p /\ p <= Len(s) =>
       s[p] \in Spaces \/ \E k \in DOMAIN spans : Inside(p, spans[k])

LEMMA BlankBefore ==
  ASSUME NEW X, NEW s \in Seq(X), NEW i \in Positions, i <= Len(s), s[i] \in Spaces,
         NEW spans \in Seq(SpanSet), Covers(spans, s, i + 1)
  PROVE  Covers(spans, s, i)
<1>1. i \in Nat /\ DOMAIN spans = 1..Len(spans)
  BY DEF Positions
<1>2. \A k \in DOMAIN spans : spans[k].start \in Nat /\ spans[k].end \in Nat
  <2>1. \A k \in DOMAIN spans : spans[k] \in SpanSet
    OBVIOUS
  <2> QED
    BY <2>1 DEF SpanSet, Positions
<1>3. ASSUME NEW k \in DOMAIN spans PROVE i <= spans[k].start
  <2> DEFINE b == spans[k].start
  <2>1. i + 1 <= b /\ b \in Nat
    BY <1>2 DEF Covers
  <2> HIDE DEF b
  <2>2. i <= b
    BY <1>1, <2>1
  <2> QED
    BY <2>2 DEF b
<1>4. ASSUME NEW p \in Positions, i <= p, p <= Len(s)
      PROVE  s[p] \in Spaces \/ \E k \in DOMAIN spans : Inside(p, spans[k])
  <2>1. p = i \/ i + 1 <= p
    BY <1>1, <1>4 DEF Positions
  <2> QED
    BY <1>4, <2>1 DEF Covers
<1> QED
  BY <1>3, <1>4 DEF Covers

LEMMA SpanBefore ==
  ASSUME NEW X, NEW s \in Seq(X), NEW i \in Positions,
         NEW t \in SpanSet, t.start = i, t.end > i, t.end <= Len(s) + 1,
         NEW rest \in Seq(SpanSet), Covers(rest, s, t.end)
  PROVE  Covers(<<t>> \o rest, s, i)
<1> DEFINE spans == <<t>> \o rest
           e == t.end
<1>1. i \in Nat /\ e \in Nat /\ Len(s) \in Nat /\ Len(rest) \in Nat
      /\ e > i /\ e <= Len(s) + 1 /\ DOMAIN rest = 1..Len(rest)
  BY DEF Positions, SpanSet
<1>2. DOMAIN spans = 1..(Len(rest) + 1) /\ spans[1] = t
      /\ \A k \in 1..Len(rest) : spans[k + 1] = rest[k]
  OBVIOUS
<1>3. \A k \in 1..Len(rest) : /\ rest[k].start \in Nat /\ rest[k].end \in Nat
                              /\ e <= rest[k].start
                              /\ rest[k].start < rest[k].end
                              /\ rest[k].end <= Len(s) + 1
  <2>1. \A k \in 1..Len(rest) : rest[k] \in SpanSet
    OBVIOUS
  <2> QED
    BY <1>1, <2>1 DEF SpanSet, Positions, Covers
<1> HIDE DEF spans, e
<1>4. \A k \in DOMAIN spans : k = 1 \/ (k - 1 \in 1..Len(rest) /\ spans[k] = rest[k - 1])
  <2> TAKE k \in DOMAIN spans
  <2>1. k = 1 \/ k - 1 \in 1..Len(rest)
    BY <1>1, <1>2
  <2>2. k - 1 \in 1..Len(rest) => spans[(k - 1) + 1] = rest[k - 1]
    BY <1>2
  <2>3. (k - 1) + 1 = k
    BY <1>1, <1>2
  <2> QED
    BY <2>1, <2>2, <2>3
<1>5. ASSUME NEW k \in DOMAIN spans
      PROVE  /\ i <= spans[k].start
             /\ spans[k].start < spans[k].end
             /\ spans[k].end <= Len(s) + 1
  <2>1. CASE k = 1
    BY <1>1, <1>2, <2>1 DEF e
  <2>2. CASE k # 1
    <3> DEFINE u == rest[k - 1]
    <3>1. /\ u.start \in Nat /\ u.end \in Nat /\ e <= u.start
          /\ u.start < u.end /\ u.end <= Len(s) + 1 /\ spans[k] = u
      BY <1>3, <1>4, <2>2
    <3> HIDE DEF u
    <3>2. i <= u.start
      BY <1>1, <3>1
    <3> QED
      BY <3>1, <3>2
  <2> QED
    BY <2>1, <2>2
<1>6. ASSUME NEW j \in DOMAIN spans, NEW k \in DOMAIN spans, j < k
      PROVE  spans[j].end <= spans[k].start
  <2>1. j \in Nat /\ k \in Nat /\ j >= 1 /\ k # 1
    BY <1>1, <1>2, <1>6
  <2>2. k - 1 \in 1..Len(rest) /\ spans[k] = rest[k - 1]
    BY <1>4, <2>1
  <2>3. CASE j = 1
    BY <1>2, <1>3, <2>2, <2>3 DEF e
  <2>4. CASE j # 1
    <3>1. j - 1 \in 1..Len(rest) /\ spans[j] = rest[j - 1] /\ j - 1 < k - 1
      BY <1>4, <1>6, <2>1, <2>4
    <3>2. \A a, b \in DOMAIN rest : a < b => rest[a].end <= rest[b].start
      BY DEF Covers
    <3>3. rest[j - 1].end <= rest[k - 1].start
      BY <1>1, <2>2, <3>1, <3>2
    <3> QED
      BY <2>2, <3>1, <3>3
  <2> QED
    BY <2>3, <2>4
<1>7. ASSUME NEW p \in Positions, i <= p, p <= Len(s)
      PROVE  s[p] \in Spaces \/ \E k \in DOMAIN spans : Inside(p, spans[k])
  <2>1. CASE p < e
    <3>1. Inside(p, spans[1]) /\ 1 \in DOMAIN spans
      BY <1>1, <1>2, <1>7, <2>1 DEF Inside, e
    <3> QED
      BY <3>1
  <2>2. CASE ~(p < e)
    <3>1. e <= p
      BY <1>1, <2>2 DEF Positions
    <3>2. s[p] \in Spaces \/ \E k \in DOMAIN rest : Inside(p, rest[k])
      BY <1>7, <3>1 DEF Covers, e
    <3>3. ASSUME NEW k \in DOMAIN rest, Inside(p, rest[k])
          PROVE  \E m \in DOMAIN spans : Inside(p, spans[m])
      <4>1. k + 1 \in DOMAIN spans /\ spans[k + 1] = rest[k]
        BY <1>1, <1>2
      <4> QED
        BY <3>3, <4>1
    <3> QED
      BY <3>2, <3>3
  <2> QED
    BY <2>1, <2>2
<1>8. Covers(spans, s, i)
  BY <1>5, <1>6, <1>7 DEF Covers
<1> QED
  BY <1>8 DEF spans

LEMMA ScanCovers ==
  ASSUME NEW X, NEW s \in Seq(X), NEW rest, IsScan(rest, s, TRUE)
  PROVE  Covers(rest[1], s, 1)
<1>1. \A i \in Positions : rest[i] \in Seq(SpanSet)
  <2>1. Found(TRUE) = SpanSet
    BY DEF Found
  <2>2. \A i \in Positions : rest[i] \in Seq(Found(TRUE))
    BY ScanTypes
  <2> QED
    BY <2>1, <2>2
<1> DEFINE P == {i \in Positions : Covers(rest[i], s, i)}
<1>2. ASSUME NEW i \in Positions, i > Len(s) PROVE i \in P
  <2>1. rest[i] = <<>>
    BY <1>2 DEF IsScan
  <2>2. DOMAIN rest[i] = {}
    BY <2>1
  <2>3. \A p \in Positions : ~(i <= p /\ p <= Len(s))
    BY <1>2 DEF Positions
  <2> QED
    BY <2>2, <2>3 DEF Covers
<1>3. ASSUME NEW i \in Positions, i <= Len(s), \A j \in Positions : j > i => j \in P
      PROVE  i \in P
  <2>1. Following(s, i) \in P /\ Following(s, i) \in Positions
    BY <1>3, FollowingFacts
  <2>2. rest[i] = Yield(s, i, TRUE) \o rest[Following(s, i)]
    <3>1. rest[i] = IF i > Len(s) THEN <<>> ELSE Yield(s, i, TRUE) \o rest[Following(s, i)]
      BY DEF IsScan
    <3>2. ~(i > Len(s))
      <4>1. i \in Nat /\ Len(s) \in Nat
        BY DEF Positions
      <4> QED
        BY <1>3, <4>1
    <3> HIDE DEF P
    <3> QED
      BY <3>1, <3>2, Zenon
  <2> DEFINE r == rest[Following(s, i)]
  <2>3. r \in Seq(SpanSet) /\ Covers(r, s, Following(s, i)) /\ rest[i] = Yield(s, i, TRUE) \o r
    BY <1>1, <2>1, <2>2
  <2> HIDE DEF r
  <2>4. CASE s[i] \in Spaces
    <3>1. Following(s, i) = i + 1 /\ Yield(s, i, TRUE) = <<>>
      BY <2>4 DEF Following, Yield
    <3>2. rest[i] = r
      <4>1. <<>> \o r = r
        BY <2>3
      <4> QED
        BY <2>3, <3>1, <4>1
    <3>3. Covers(r, s, i)
      BY <1>3, <2>3, <2>4, <3>1, BlankBefore
    <3> QED
      BY <3>2, <3>3
  <2>5. CASE s[i] \notin Spaces
    <3> DEFINE t == SpanAt(s, i)
    <3>1. Following(s, i) = t.end /\ Yield(s, i, TRUE) = <<t>>
      BY <2>5 DEF Following, Yield
    <3>2. t \in SpanSet /\ t.start = i /\ t.end > i /\ t.end <= Len(s) + 1
      BY <1>3, SpanAtFacts
    <3> HIDE DEF t
    <3>3. Covers(<<t>> \o r, s, i)
      BY <2>3, <3>1, <3>2, SpanBefore
    <3> QED
      BY <2>3, <3>1, <3>3
  <2> QED
    BY <2>4, <2>5
<1>4. Positions \subseteq P
  <2> HIDE DEF P
  <2> QED
    BY <1>2, <1>3, FromTheEnd
<1> QED
  BY <1>4 DEF Positions

(* No text is too strange for _sql_token_spans: whatever quotes, escapes   *)
(* and comment marks it leaves open, every token ends inside the text and  *)
(* after its start, and what lies in no token and in no comment is blank.  *)
THEOREM NoTextIsLost == Spec => []TextCovered
<1>1. (Scanned => text \in Texts) => TextCovered
  <2> SUFFICES ASSUME text \in Texts PROVE TextCovered
    BY DEF TextCovered
  <2>1. PICK rest : IsScan(rest, text, TRUE) /\ TokenSpans(text, TRUE) = rest[1]
    BY TokenSpansScan DEF Texts
  <2> DEFINE spans == SpansAndComments(text)
  <2>2. Covers(spans, text, 1)
    BY <2>1, ScanCovers DEF SpansAndComments, Texts
  <2>3. \A p \in DOMAIN text : p \in Positions /\ 1 <= p /\ p <= Len(text)
    BY DEF Texts, Positions
  <2> HIDE DEF spans
  <2>4. \A p \in DOMAIN text : text[p] \in Spaces
                               \/ \E k \in DOMAIN spans : Inside(p, spans[k])
    BY <2>2, <2>3 DEF Covers
  <2>5. /\ \A k \in DOMAIN spans : /\ spans[k].start < spans[k].end
                                   /\ spans[k].end <= Len(text) + 1
        /\ \A j, k \in DOMAIN spans : j < k => spans[j].end <= spans[k].start
    BY <2>2 DEF Covers
  <2> QED
    BY <2>4, <2>5 DEF TextCovered, CoverAll, Inside, spans
<1> QED
  BY <1>1, ScannedIsText, PTL

-----------------------------------------------------------------------------
(* Blanking the comments of a text                                         *)

\* The spans are what starts at their positions, and that is not blank.
StartInText(spans, s) ==
  \A k \in DOMAIN spans : /\ spans[k].start <= Len(s)
                          /\ s[spans[k].start] \notin Spaces
                          /\ spans[k] = SpanAt(s, spans[k].start)

LEMMA SpansStartInText ==
  ASSUME NEW X, NEW s \in Seq(X)
  PROVE  /\ SpansAndComments(s) \in Seq(SpanSet)
         /\ Covers(SpansAndComments(s), s, 1)
         /\ StartInText(SpansAndComments(s), s)
<1>1. PICK rest : IsScan(rest, s, TRUE) /\ SpansAndComments(s) = rest[1]
  BY TokenSpansScan DEF SpansAndComments
<1>2. \A i \in Positions : rest[i] \in Seq(SpanSet)
  <2>1. Found(TRUE) = SpanSet
    BY DEF Found
  <2>2. \A i \in Positions : rest[i] \in Seq(Found(TRUE))
    BY <1>1, ScanTypes
  <2> QED
    BY <2>1, <2>2
<1> DEFINE P == {i \in Positions : StartInText(rest[i], s)}
<1>3. ASSUME NEW i \in Positions, i > Len(s) PROVE i \in P
  <2>1. rest[i] = <<>>
    BY <1>1, <1>3 DEF IsScan
  <2>2. DOMAIN rest[i] = {}
    BY <2>1
  <2> QED
    BY <2>2 DEF StartInText
<1>4. ASSUME NEW i \in Positions, i <= Len(s), \A j \in Positions : j > i => j \in P
      PROVE  i \in P
  <2>1. Following(s, i) \in P /\ Following(s, i) \in Positions
    BY <1>4, FollowingFacts
  <2>2. rest[i] = Yield(s, i, TRUE) \o rest[Following(s, i)]
    <3>1. rest[i] = IF i > Len(s) THEN <<>> ELSE Yield(s, i, TRUE) \o rest[Following(s, i)]
      BY <1>1 DEF IsScan
    <3>2. ~(i > Len(s))
      <4>1. i \in Nat /\ Len(s) \in Nat
        BY DEF Positions
      <4> QED
        BY <1>4, <4>1
    <3> HIDE DEF P
    <3> QED
      BY <3>1, <3>2, Zenon
  <2> DEFINE r == rest[Following(s, i)]
  <2>3. r \in Seq(SpanSet) /\ StartInText(r, s) /\ rest[i] = Yield(s, i, TRUE) \o r
    BY <1>2, <2>1, <2>2
  <2> HIDE DEF r
  <2>4. CASE s[i] \in Spaces
    <3>1. Yield(s, i, TRUE) = <<>> /\ <<>> \o r = r
      BY <2>3, <2>4 DEF Yield
    <3> QED
      BY <2>3, <3>1
  <2>5. CASE s[i] \notin Spaces
    <3> DEFINE t == SpanAt(s, i)
    <3>1. Yield(s, i, TRUE) = <<t>>
      BY <2>5 DEF Yield
    <3>2. t \in SpanSet /\ t.start = i
      BY <1>4, SpanAtFacts
    <3>3. t.start <= Len(s) /\ s[t.start] \notin Spaces /\ t = SpanAt(s, t.start)
      BY <1>4, <2>5, <3>2
    <3> HIDE DEF t
    <3> DEFINE spans == <<t>> \o r
    <3>4. DOMAIN spans = 1..(Len(r) + 1) /\ spans[1] = t
          /\ \A k \in 1..Len(r) : spans[k + 1] = r[k]
      BY <2>3, <3>2
    <3> HIDE DEF spans
    <3>5. ASSUME NEW k \in DOMAIN spans, k # 1 PROVE k - 1 \in DOMAIN r /\ spans[k] = r[k - 1]
      <4>1. k - 1 \in 1..Len(r) /\ (k - 1) + 1 = k /\ DOMAIN r = 1..Len(r)
        BY <2>3, <3>4, <3>5
      <4> QED
        BY <3>4, <4>1
    <3>6. \A k \in DOMAIN spans : spans[k] = t \/ \E m \in DOMAIN r : spans[k] = r[m]
      BY <3>4, <3>5
    <3>7. StartInText(spans, s)
      BY <2>3, <3>3, <3>6 DEF StartInText
    <3> QED
      BY <2>3, <3>1, <3>7 DEF spans
  <2> QED
    BY <2>4, <2>5
<1>5. Positions \subseteq P
  <2> HIDE DEF P
  <2> QED
    BY <1>3, <1>4, FromTheEnd
<1>6. 1 \in P /\ 1 \in Positions
  BY <1>5 DEF Positions
<1> QED
  BY <1>1, <1>2, <1>6, ScanCovers

\* No token and no comment goes over position i.
Boundary(s, i) ==
  LET spans == SpansAndComments(s)
  IN \A k \in DOMAIN spans : ~(spans[k].start < i /\ i < spans[k].end)

LEMMA SpanAtBoundary ==
  ASSUME NEW X, NEW s \in Seq(X), NEW i \in Positions, i <= Len(s), s[i] \notin Spaces,
         Boundary(s, i)
  PROVE  \E k \in DOMAIN SpansAndComments(s) : SpansAndComments(s)[k] = SpanAt(s, i)
<1> DEFINE spans == SpansAndComments(s)
<1>1. spans \in Seq(SpanSet) /\ Covers(spans, s, 1) /\ StartInText(spans, s)
  BY SpansStartInText
<1>2. Boundary(s, i) <=> \A k \in DOMAIN spans : ~(spans[k].start < i /\ i < spans[k].end)
  BY DEF Boundary
<1> HIDE DEF spans
<1>3. 1 <= i
  BY DEF Positions
<1>4. PICK k \in DOMAIN spans : spans[k].start <= i /\ i < spans[k].end
  BY <1>1, <1>3 DEF Covers, Inside
<1>5. spans[k].start = i
  <2> DEFINE b == spans[k].start
  <2>1. spans[k] \in SpanSet
    BY <1>1
  <2>2. b \in Nat /\ i \in Nat
    BY <2>1 DEF SpanSet, Positions
  <2>3. ~(b < i) /\ b <= i
    BY <1>2, <1>4
  <2> HIDE DEF b
  <2>4. b = i
    BY <2>2, <2>3
  <2> QED
    BY <2>4 DEF b
<1>6. spans[k] = SpanAt(s, i)
  BY <1>1, <1>5 DEF StartInText
<1> QED
  BY <1>6 DEF spans

LEMMA SpansApart ==
  ASSUME NEW X, NEW s \in Seq(X),
         NEW j \in DOMAIN SpansAndComments(s), NEW k \in DOMAIN SpansAndComments(s)
  PROVE  LET t == SpansAndComments(s)[j]
             u == SpansAndComments(s)[k]
         IN /\ t \in SpanSet /\ u \in SpanSet
            /\ t = u \/ t.end <= u.start \/ u.end <= t.start
<1> DEFINE spans == SpansAndComments(s)
<1>1. spans \in Seq(SpanSet) /\ Covers(spans, s, 1)
  BY SpansStartInText
<1> HIDE DEF spans
<1>2. \A a, b \in DOMAIN spans : a < b => spans[a].end <= spans[b].start
  BY <1>1 DEF Covers
<1>3. j \in DOMAIN spans /\ k \in DOMAIN spans
  BY DEF spans
<1>4. j \in Nat /\ k \in Nat /\ spans[j] \in SpanSet /\ spans[k] \in SpanSet
  BY <1>1, <1>3
<1>5. j < k \/ j = k \/ k < j
  BY <1>4
<1>6. spans[j] = spans[k] \/ spans[j].end <= spans[k].start \/ spans[k].end <= spans[j].start
  BY <1>2, <1>3, <1>5
<1> QED
  BY <1>4, <1>6 DEF spans

LEMMA FollowingIsBoundary ==
  ASSUME NEW X, NEW s \in Seq(X), NEW i \in Positions, i <= Len(s), Boundary(s, i)
  PROVE  Boundary(s, Following(s, i))
<1> DEFINE spans == SpansAndComments(s)
           f == Following(s, i)
<1>1. spans \in Seq(SpanSet) /\ StartInText(spans, s)
  BY SpansStartInText
<1>2. \A p : Boundary(s, p) <=> \A k \in DOMAIN spans : ~(spans[k].start < p /\ p < spans[k].end)
  BY DEF Boundary
<1>3. SUFFICES ASSUME NEW k \in DOMAIN spans PROVE ~(spans[k].start < f /\ f < spans[k].end)
  BY <1>2
<1> DEFINE u == spans[k]
<1>4. u \in SpanSet /\ f \in Positions /\ ~(u.start < i /\ i < u.end)
  BY <1>1, <1>2, FollowingFacts
<1>5. CASE s[i] \in Spaces
  <2>1. f = i + 1
    BY <1>5 DEF Following
  <2>2. u.start # i
    BY <1>1, <1>5 DEF StartInText
  <2> HIDE DEF u, f
  <2>3. ~(u.start < f /\ f < u.end)
    BY <1>4, <2>1, <2>2 DEF SpanSet, Positions
  <2> QED
    BY <2>3 DEF u
<1>6. CASE s[i] \notin Spaces
  <2> DEFINE t == SpanAt(s, i)
  <2>1. f = t.end /\ t \in SpanSet /\ t.start = i /\ t.end > i
    BY <1>6, SpanAtFacts DEF Following
  <2>2. PICK j \in DOMAIN spans : spans[j] = t
    BY <1>6, SpanAtBoundary
  <2>3. t = u \/ t.end <= u.start \/ u.end <= t.start
    BY <2>2, SpansApart
  <2> HIDE DEF t, u, f
  <2>4. ~(u.start < f /\ f < u.end)
    BY <1>4, <2>1, <2>3 DEF SpanSet, Positions
  <2> QED
    BY <2>4 DEF u
<1> QED
  BY <1>5, <1>6

\* Position p lies in a comment of s.
Commented(s, p) ==
  \E t \in ToSet(SpansAndComments(s)) : t.kind = "comment" /\ p \in t.start..(t.end - 1)

LEMMA CommentedIsInside ==
  ASSUME NEW X, NEW s \in Seq(X), NEW p \in Positions
  PROVE  Commented(s, p) <=> \E k \in DOMAIN SpansAndComments(s) :
                                /\ SpansAndComments(s)[k].kind = "comment"
                                /\ Inside(p, SpansAndComments(s)[k])
<1> DEFINE spans == SpansAndComments(s)
<1>1. spans \in Seq(SpanSet)
  BY SpansStartInText
<1>2. ToSet(spans) = {spans[k] : k \in DOMAIN spans}
  BY DEF ToSet
<1>3. Commented(s, p) <=> \E t \in ToSet(spans) : t.kind = "comment" /\ p \in t.start..(t.end - 1)
  BY DEF Commented
<1> HIDE DEF spans
<1>4. ASSUME NEW k \in DOMAIN spans
      PROVE  p \in spans[k].start..(spans[k].end - 1) <=> Inside(p, spans[k])
  <2>1. spans[k] \in SpanSet
    BY <1>1
  <2> DEFINE b == spans[k].start
             e == spans[k].end
  <2>2. b \in Int /\ e \in Int /\ p \in Int
    BY <2>1 DEF SpanSet, Positions
  <2> HIDE DEF b, e
  <2>3. p \in b..(e - 1) <=> b <= p /\ p < e
    BY <2>2
  <2> QED
    BY <2>3 DEF Inside, b, e
<1>5. Commented(s, p) <=> \E k \in DOMAIN spans : spans[k].kind = "comment" /\ Inside(p, spans[k])
  BY <1>2, <1>3, <1>4
<1> QED
  BY <1>5 DEF spans

(* What starts at a boundary is a comment as a whole or not at all.        *)
LEMMA CommentedWithin ==
  ASSUME NEW X, NEW s \in Seq(X), NEW i \in Positions, i <= Len(s), s[i] \notin Spaces,
         Boundary(s, i), NEW p \in Positions, Inside(p, SpanAt(s, i))
  PROVE  Commented(s, p) <=> SpanAt(s, i).kind = "comment"
<1> DEFINE spans == SpansAndComments(s)
           t == SpanAt(s, i)
<1>1. PICK j \in DOMAIN spans : spans[j] = t
  BY SpanAtBoundary
<1>2. \A k \in DOMAIN spans : Inside(p, spans[k]) => spans[k] = t
  <2> SUFFICES ASSUME NEW k \in DOMAIN spans, Inside(p, spans[k]) PROVE spans[k] = t
    OBVIOUS
  <2> DEFINE u == spans[k]
  <2>1. t \in SpanSet /\ u \in SpanSet /\ (t = u \/ t.end <= u.start \/ u.end <= t.start)
    BY <1>1, SpansApart
  <2>2. Inside(p, u) /\ Inside(p, t)
    OBVIOUS
  <2> HIDE DEF t, u
  <2>3. t = u
    BY <2>1, <2>2 DEF Inside, SpanSet, Positions
  <2> QED
    BY <2>3 DEF u
<1>3. Commented(s, p) <=> \E k \in DOMAIN spans : spans[k].kind = "comment" /\ Inside(p, spans[k])
  BY CommentedIsInside
<1> HIDE DEF spans, t
<1>4. Inside(p, t)
  BY DEF t
<1>5. Commented(s, p) <=> t.kind = "comment"
  BY <1>1, <1>2, <1>3, <1>4
<1> QED
  BY <1>5 DEF t

(* A comment ends with its mark or before a line break, so what stands to  *)
(* the left of a token never reads on as a part of it.                     *)
LEMMA FirstMeeting ==
  ASSUME NEW i \in Nat, NEW b \in Nat, i <= b,
         NEW opened \in [i..b -> Nat], NEW ended \in [i..b -> Nat],
         opened[i] > ended[i], opened[b] = ended[b],
         \A j \in i..b : j < b => opened[j] # ended[j],
         \A j \in i..b : j > i => opened[j] >= opened[j - 1] /\ ended[j] <= ended[j - 1] + 1
  PROVE  b > i /\ ended[b - 1] < ended[b]
<1> DEFINE T == {j \in i..b : opened[j] < ended[j]}
<1>1. T = {}
  <2> SUFFICES ASSUME T # {} PROVE FALSE
    OBVIOUS
  <2>1. PICK j \in T : \A y \in T : j <= y
    <3>1. T \in SUBSET Nat
      OBVIOUS
    <3> QED
      BY <3>1, LeastNumber
  <2>2. j \in i..b /\ opened[j] < ended[j] /\ j > i
    BY <2>1
  <2>3. j - 1 \in i..b /\ j - 1 < b /\ j - 1 \notin T
    BY <2>1, <2>2
  <2>4. opened[j - 1] # ended[j - 1] /\ ~(opened[j - 1] < ended[j - 1])
    BY <2>3
  <2> DEFINE o == opened[j]
             e == ended[j]
             o0 == opened[j - 1]
             e0 == ended[j - 1]
  <2>5. o \in Nat /\ e \in Nat /\ o0 \in Nat /\ e0 \in Nat /\ o >= o0 /\ e <= e0 + 1 /\ o < e
        /\ o0 # e0 /\ ~(o0 < e0)
    BY <2>2, <2>3, <2>4
  <2> HIDE DEF o, e, o0, e0
  <2> QED
    BY <2>5
<1>2. b > i
  OBVIOUS
<1>3. b - 1 \in i..b /\ b - 1 < b /\ b \in i..b
  BY <1>2
<1>4. opened[b - 1] # ended[b - 1] /\ ~(opened[b - 1] < ended[b - 1])
  BY <1>1, <1>3
<1> QED
  BY <1>2, <1>3, <1>4

\* How often x is in the text s from i to j.
Marks(s, i, j, x) == Cardinality({k \in i..j : s[k] = x})

LEMMA MarksInTurn ==
  ASSUME NEW X, NEW s \in Seq(X), NEW i \in Positions, NEW j \in i..Len(s), NEW x
  PROVE  /\ Marks(s, i, j, x) \in Nat
         /\ j = i => Marks(s, i, j, x) = IF s[j] = x THEN 1 ELSE 0
         /\ j > i => Marks(s, i, j, x) = IF s[j] = x THEN Marks(s, i, j - 1, x) + 1
                                                     ELSE Marks(s, i, j - 1, x)
<1> DEFINE M(m) == {k \in i..m : s[k] = x}
<1>1. i \in Nat /\ Len(s) \in Nat /\ j \in Nat
  BY DEF Positions
<1>2. ASSUME NEW m \in Int PROVE IsFiniteSet(M(m)) /\ Cardinality(M(m)) \in Nat
  <2>1. IsFiniteSet(i..m)
    BY <1>1, FS_Interval
  <2>2. IsFiniteSet(M(m))
    BY <2>1, FS_Subset
  <2> QED
    BY <2>2, FS_CardinalityType
<1>3. CASE j = i
  <2>1. M(j) = IF s[j] = x THEN {j} ELSE {}
    BY <1>1, <1>3
  <2>2. Cardinality({j}) = 1 /\ Cardinality({}) = 0
    BY FS_EmptySet, FS_Singleton
  <2> HIDE DEF M
  <2>3. Cardinality(M(j)) = IF s[j] = x THEN 1 ELSE 0
    BY <2>1, <2>2
  <2> QED
    BY <1>1, <1>2, <1>3, <2>3 DEF Marks, M
<1>4. CASE j > i
  <2>1. M(j) = IF s[j] = x THEN M(j - 1) \cup {j} ELSE M(j - 1)
    BY <1>1, <1>4
  <2>2. IsFiniteSet(M(j - 1)) /\ Cardinality(M(j - 1)) \in Nat /\ j \notin M(j - 1)
    <3>1. j - 1 \in Int /\ j \notin i..(j - 1)
      BY <1>1
    <3>2. IsFiniteSet(M(j - 1)) /\ Cardinality(M(j - 1)) \in Nat
      <4> HIDE DEF M
      <4> QED
        BY <1>2, <3>1
    <3> QED
      BY <3>1, <3>2
  <2> HIDE DEF M
  <2>3. Cardinality(M(j)) \in Nat
    BY <1>1, <1>2
  <2>4. Cardinality(M(j - 1) \cup {j}) = Cardinality(M(j - 1)) + 1
    BY <2>2, FS_AddElement
  <2>5. Cardinality(M(j)) = IF s[j] = x THEN Cardinality(M(j - 1)) + 1 ELSE Cardinality(M(j - 1))
    BY <2>1, <2>4
  <2> QED
    BY <1>4, <2>3, <2>5 DEF Marks, M
<1> QED
  BY <1>1, <1>3, <1>4

LEMMA BlockEndsWithMark ==
  ASSUME NEW X, NEW s \in Seq(X), NEW i \in Positions, i <= Len(s), s[i] = "/*",
         BlockEnd(s, i) <= Len(s)
  PROVE  s[BlockEnd(s, i) - 1] = "*/"
<1> DEFINE balanced == {j \in i..Len(s) : Marks(s, i, j, "/*") = Marks(s, i, j, "*/")}
           b == Min(balanced)
<1>1. Len(s) \in Nat /\ i \in Nat /\ balanced \in SUBSET Nat
  BY DEF Positions
<1>2. BlockEnd(s, i) = IF balanced = {} THEN Len(s) + 1 ELSE b + 1
  BY DEF BlockEnd, Marks
<1>3. balanced # {}
  <2> SUFFICES ASSUME balanced = {} PROVE FALSE
    OBVIOUS
  <2>1. BlockEnd(s, i) = Len(s) + 1
    BY <1>2
  <2> QED
    BY <1>1, <2>1
<1>4. b \in balanced /\ (\A y \in balanced : b <= y) /\ BlockEnd(s, i) = b + 1
  BY <1>1, <1>2, <1>3, LeastIsMin
<1> HIDE DEF b
<1>5. b \in Nat /\ b \in i..Len(s) /\ i <= b /\ \A j \in i..b : j \in i..Len(s)
  BY <1>1, <1>4
<1> DEFINE opened == [j \in i..b |-> Marks(s, i, j, "/*")]
           ended == [j \in i..b |-> Marks(s, i, j, "*/")]
<1>6. opened \in [i..b -> Nat] /\ ended \in [i..b -> Nat]
  BY <1>5, MarksInTurn
<1>7. opened[i] > ended[i]
  <2>1. i \in i..b /\ i \in i..Len(s)
    BY <1>1, <1>5
  <2>2. Marks(s, i, i, "/*") = 1
    BY <2>1, MarksInTurn
  <2>3. Marks(s, i, i, "*/") = 0
    BY <2>1, MarksInTurn
  <2> QED
    BY <2>1, <2>2, <2>3
<1>8. opened[b] = ended[b] /\ b \in i..b
  BY <1>1, <1>4, <1>5
<1>9. \A j \in i..b : j < b => opened[j] # ended[j]
  <2> SUFFICES ASSUME NEW j \in i..b, j < b PROVE opened[j] # ended[j]
    OBVIOUS
  <2>1. j \notin balanced /\ j \in i..Len(s)
    BY <1>1, <1>4, <1>5
  <2> QED
    BY <2>1
<1>10. ASSUME NEW j \in i..b, j > i
       PROVE  /\ opened[j] >= opened[j - 1] /\ ended[j] <= ended[j - 1] + 1
              /\ s[j] # "*/" => ended[j] = ended[j - 1]
  <2>1. j - 1 \in i..b /\ j \in i..Len(s) /\ j - 1 \in i..Len(s)
    BY <1>1, <1>5, <1>10
  <2>2. Marks(s, i, j, "/*") >= Marks(s, i, j - 1, "/*")
    <3>1. Marks(s, i, j - 1, "/*") \in Nat
      BY <2>1, MarksInTurn
    <3>2. Marks(s, i, j, "/*") = IF s[j] = "/*" THEN Marks(s, i, j - 1, "/*") + 1
                                                ELSE Marks(s, i, j - 1, "/*")
      BY <1>10, <2>1, MarksInTurn
    <3> QED
      BY <3>1, <3>2
  <2>3. /\ Marks(s, i, j, "*/") <= Marks(s, i, j - 1, "*/") + 1
        /\ s[j] # "*/" => Marks(s, i, j, "*/") = Marks(s, i, j - 1, "*/")
    <3>1. Marks(s, i, j - 1, "*/") \in Nat
      BY <2>1, MarksInTurn
    <3>2. Marks(s, i, j, "*/") = IF s[j] = "*/" THEN Marks(s, i, j - 1, "*/") + 1
                                                ELSE Marks(s, i, j - 1, "*/")
      BY <1>10, <2>1, MarksInTurn
    <3> QED
      BY <3>1, <3>2
  <2> QED
    BY <2>1, <2>2, <2>3
<1> HIDE DEF opened, ended, balanced
<1>11. b > i /\ ended[b - 1] < ended[b]
  BY <1>1, <1>5, <1>6, <1>7, <1>8, <1>9, <1>10, FirstMeeting
<1>12. ended[b] # ended[b - 1]
  <2>1. b - 1 \in i..b
    BY <1>1, <1>5, <1>11
  <2>2. ended[b] \in Nat /\ ended[b - 1] \in Nat
    BY <1>6, <1>8, <2>1
  <2> QED
    BY <1>11, <2>2
<1>13. s[b] = "*/"
  BY <1>8, <1>10, <1>11, <1>12
<1>14. BlockEnd(s, i) - 1 = b
  BY <1>4, <1>5
<1> QED
  BY <1>13, <1>14

LEMMA CommentKind ==
  ASSUME NEW X, NEW s \in Seq(X), NEW i \in Positions, SpanAt(s, i).kind = "comment"
  PROVE  \/ s[i] = "--" /\ SpanAt(s, i).end = LineEnd(s, i)
         \/ s[i] = "/*" /\ SpanAt(s, i).end = BlockEnd(s, i)
<1>1. \A e : Span(i, e, "comment").end = e /\ Span(i, e, "comment").kind = "comment"
             /\ Span(i, e, "string").kind # "comment"
             /\ Span(i, e, "identifier").kind # "comment"
             /\ Span(i, e, "word").kind # "comment"
             /\ Span(i, e, "punctuation").kind # "comment"
  BY DEF Span
<1>2. CASE s[i] = "--" \/ s[i] = "/*"
  <2>1. /\ ~(s[i] = "quote") /\ ~(s[i] \in {"dquote", "backtick"})
        /\ s[i] # "$" /\ ~IdentifierChar(s[i])
    BY <1>2 DEF IdentifierChar
  <2> QED
    BY <1>1, <1>2, <2>1 DEF SpanAt
<1>3. CASE ~(s[i] = "--" \/ s[i] = "/*")
  BY <1>1, <1>3 DEF SpanAt
<1> QED
  BY <1>2, <1>3

LEMMA CommentsEndPlainly ==
  ASSUME NEW X, NEW s \in Seq(X), NEW p \in Positions, p < Len(s),
         Commented(s, p), ~Commented(s, p + 1)
  PROVE  s[p] = "*/" \/ s[p + 1] = "\n"
<1> DEFINE spans == SpansAndComments(s)
<1>1. spans \in Seq(SpanSet) /\ Covers(spans, s, 1) /\ StartInText(spans, s)
  BY SpansStartInText
<1>2. p + 1 \in Positions /\ p \in Nat
  BY DEF Positions
<1>3. PICK k \in DOMAIN spans : spans[k].kind = "comment" /\ Inside(p, spans[k])
  BY CommentedIsInside
<1>4. ~Inside(p + 1, spans[k])
  BY <1>2, <1>3, CommentedIsInside
<1> DEFINE t == spans[k]
           i == t.start
<1>5. t \in SpanSet /\ i <= Len(s) /\ s[i] \notin Spaces /\ t = SpanAt(s, i)
  BY <1>1 DEF StartInText
<1>6. i \in Positions /\ SpanAt(s, i).kind = "comment" /\ SpanAt(s, i).end = p + 1
  <2>1. Inside(p, t) /\ ~Inside(p + 1, t) /\ t.kind = "comment"
    BY <1>3, <1>4
  <2> HIDE DEF t
  <2>2. t.end = p + 1
    BY <1>2, <1>5, <2>1 DEF Inside, SpanSet, Positions
  <2> QED
    BY <1>5, <2>1, <2>2 DEF SpanSet
<1> HIDE DEF t, i
<1>7. CASE s[i] = "--" /\ SpanAt(s, i).end = LineEnd(s, i)
  <2>1. FirstOf(s, i, {"\n"}) = p + 1
    BY <1>6, <1>7 DEF LineEnd
  <2>2. p + 1 <= Len(s)
    BY <1>2
  <2> QED
    BY <1>6, <2>1, <2>2, FirstOfFacts
<1>8. CASE s[i] = "/*" /\ SpanAt(s, i).end = BlockEnd(s, i)
  <2>1. BlockEnd(s, i) = p + 1 /\ p + 1 <= Len(s) /\ (p + 1) - 1 = p
    BY <1>2, <1>6, <1>8
  <2>2. s[BlockEnd(s, i) - 1] = "*/"
    BY <1>5, <1>6, <1>8, <2>1, BlockEndsWithMark
  <2> QED
    BY <2>1, <2>2
<1> QED
  BY <1>6, <1>7, <1>8, CommentKind

\* A blank, as an atom of its own name.
Blank == " "

LEMMA BlankAtom ==
  /\ Blank \in Spaces /\ "\n" \in Spaces /\ ~IdentifierChar(Blank)
  /\ Blank \notin {"\n", "e", "--", "quote", "dquote", "backtick", "$"}
BY Zenon DEF Blank, Spaces, IdentifierChar

(* The text w is the text s with its comments blanked.                     *)
Blanked(w, s) ==
  /\ Len(w) = Len(s)
  /\ \A p \in Positions : p <= Len(s) =>
       w[p] = IF Commented(s, p) /\ s[p] # "\n" THEN Blank ELSE s[p]

LEMMA WithoutCommentsBlanks ==
  ASSUME NEW X, Blank \in X, NEW s \in Seq(X)
  PROVE  WithoutComments(s) \in Seq(X) /\ Blanked(WithoutComments(s), s)
<1> DEFINE atom(i) == IF Commented(s, i) /\ s[i] # "\n" THEN Blank ELSE s[i]
           n == Len(s)
           w == [i \in 1..n |-> atom(i)]
<1>1. WithoutComments(s) = w
  BY Zenon DEF WithoutComments, Commented, Blank
<1>2. n \in Nat /\ \A i \in 1..n : atom(i) \in X
  OBVIOUS
<1> HIDE DEF atom, n
<1>3. w \in [1..n -> X]
  BY <1>2
<1>4. w \in Seq(X) /\ Len(w) = n
  BY <1>2, <1>3
<1>5. \A p \in Positions : p <= n => w[p] = atom(p)
  BY <1>2 DEF Positions
<1> HIDE DEF w
<1>6. Blanked(w, s)
  BY <1>4, <1>5 DEF Blanked, atom, n
<1> QED
  BY <1>1, <1>4, <1>6

LEMMA BlankedFacts ==
  ASSUME NEW X, NEW s \in Seq(X), NEW w \in Seq(X), Blanked(w, s),
         NEW p \in Positions, p <= Len(s)
  PROVE  /\ w[p] \in {s[p], Blank}
         /\ w[p] = "\n" <=> s[p] = "\n"
         /\ ~Commented(s, p) => w[p] = s[p]
         /\ Commented(s, p) => w[p] \in Spaces
BY BlankAtom DEF Blanked

\* What stands to the left of position i is part of a word in both or in none.
SameLeft(w, s, i) == i > 1 => (IdentifierChar(w[i - 1]) <=> IdentifierChar(s[i - 1]))

LEMMA LeftStays ==
  ASSUME NEW X, NEW s \in Seq(X), NEW w \in Seq(X), Blanked(w, s),
         NEW i \in Positions, i <= Len(s), ~Commented(s, i), s[i] # "\n"
  PROVE  /\ i > 1 /\ Commented(s, i - 1) => w[i - 1] = Blank /\ s[i - 1] = "*/"
         /\ SameLeft(w, s, i)
<1>1. CASE i > 1 /\ Commented(s, i - 1)
  <2>1. i - 1 \in Positions /\ i - 1 < Len(s) /\ (i - 1) + 1 = i /\ i - 1 <= Len(s)
    BY <1>1 DEF Positions
  <2>2. s[i - 1] = "*/"
    BY <1>1, <2>1, CommentsEndPlainly
  <2>3. w[i - 1] = Blank
    BY <1>1, <2>1, <2>2 DEF Blanked
  <2>4. ~IdentifierChar("*/")
    BY DEF IdentifierChar, Symbols
  <2> QED
    BY <2>2, <2>3, <2>4, BlankAtom DEF SameLeft
<1>2. CASE i > 1 /\ ~Commented(s, i - 1)
  <2>1. i - 1 \in Positions /\ i - 1 <= Len(s)
    BY <1>2 DEF Positions
  <2>2. w[i - 1] = s[i - 1]
    BY <1>2, <2>1, BlankedFacts
  <2> QED
    BY <1>2, <2>2 DEF SameLeft
<1>3. CASE ~(i > 1)
  BY <1>3 DEF SameLeft
<1> QED
  BY <1>1, <1>2, <1>3

LEMMA EStringStays ==
  ASSUME NEW X, NEW s \in Seq(X), NEW w \in Seq(X), Blanked(w, s),
         NEW i \in Positions, i <= Len(s), ~Commented(s, i), s[i] = "quote"
  PROVE  EString(w, i) = EString(s, i)
<1>1. w[i] = "quote" /\ i \in Nat
  BY BlankedFacts DEF Positions
<1>2. CASE ~(i > 1)
  BY <1>2 DEF EString
<1>3. CASE i > 1 /\ Commented(s, i - 1)
  <2>1. w[i - 1] = Blank /\ s[i - 1] = "*/"
    BY <1>3, LeftStays
  <2> QED
    BY <2>1, BlankAtom DEF EString
<1>4. CASE i > 1 /\ ~Commented(s, i - 1)
  <2>1. i - 1 \in Positions /\ i - 1 <= Len(s)
    BY <1>1, <1>4 DEF Positions
  <2>2. w[i - 1] = s[i - 1]
    <3> DEFINE p == i - 1
    <3>1. p \in Positions /\ p <= Len(s) /\ ~Commented(s, p)
      BY <1>4, <2>1
    <3> HIDE DEF p
    <3>2. w[p] = s[p]
      BY <3>1, BlankedFacts
    <3> QED
      BY <3>2 DEF p
  <2>3. s[i - 1] = "e" => SameLeft(w, s, i - 1)
    BY <1>4, <2>1, LeftStays
  <2>4. s[i - 1] = "e" /\ i # 2 => (IdentifierChar(w[i - 2]) <=> IdentifierChar(s[i - 2]))
    <3>1. i # 2 => i - 1 > 1 /\ (i - 1) - 1 = i - 2
      BY <1>1, <1>4
    <3> QED
      BY <2>3, <3>1 DEF SameLeft
  <2> HIDE DEF EString
  <2>5. EString(s, i) <=> s[i - 1] = "e" /\ (i = 2 \/ ~IdentifierChar(s[i - 2]))
    BY <1>4 DEF EString
  <2>6. EString(w, i) <=> s[i - 1] = "e" /\ (i = 2 \/ ~IdentifierChar(w[i - 2]))
    BY <1>1, <1>4, <2>2 DEF EString
  <2>7. EString(s, i) \in BOOLEAN /\ EString(w, i) \in BOOLEAN
    BY DEF EString
  <2> QED
    BY <2>4, <2>5, <2>6, <2>7
<1> QED
  BY <1>2, <1>3, <1>4

(* Where a token ends does not change if what follows it is blanked.  In   *)
(* the lemmas below w is as long as s, the same up to the end of a token   *)
(* of s, and after that the same or blank.                                 *)
SameUntil(w, s, i, e) ==
  /\ Len(w) = Len(s)
  /\ \A p \in Positions : i <= p /\ p < e => w[p] = s[p]
  /\ e <= Len(s) => w[e] \in {s[e], Blank}

LEMMA QuoteEndStays ==
  ASSUME NEW X, NEW s \in Seq(X), NEW w \in Seq(X),
         NEW start \in Positions, start <= Len(s), NEW q, q # Blank, NEW escapes,
         SameUntil(w, s, start, QuoteEnd(s, start, q, escapes).end)
  PROVE  QuoteEnd(w, start, q, escapes) = QuoteEnd(s, start, q, escapes)
<1> DEFINE n == Len(s)
           found == QuoteEnd(s, start, q, escapes)
           e == found.end
<1>1. n \in Nat /\ Len(w) = n /\ start \in Nat /\ start + 1 \in Positions
  BY DEF SameUntil, Positions
<1>2. PICK fs : IsQuoteScan(fs, s, q, escapes) /\ QuoteEnd(s, start, q, escapes) = fs[start + 1]
  BY <1>1, QuoteScan
<1>3. PICK fw : IsQuoteScan(fw, w, q, escapes) /\ QuoteEnd(w, start, q, escapes) = fw[start + 1]
  BY <1>1, QuoteScan
<1>4. \A i \in Positions : fs[i].end \in Positions /\ (fs[i].end >= i \/ fs[i].end = n + 1)
  BY <1>2, QuoteScanEnds
<1>5. e \in Nat /\ e <= n + 1
  <2>1. e \in Positions /\ e <= n + 1
    BY <1>1, QuoteEndFacts
  <2> HIDE DEF e
  <2> QED
    BY <2>1 DEF Positions
<1>6. /\ \A p \in Positions : start < p /\ p < e => w[p] = s[p]
      /\ e <= n => w[e] \in {s[e], Blank}
  <2>1. \A p \in Positions : start < p => start <= p
    BY DEF Positions
  <2> QED
    BY <2>1 DEF SameUntil
<1>7. fs[start + 1] = found
  BY <1>2
<1> HIDE DEF n, found
<1> DEFINE P == {i \in Positions : i > start /\ fs[i] = found => fw[i] = found}
<1>8. ASSUME NEW i \in Positions, i > n PROVE i \in P
  <2>1. i > Len(s) /\ i > Len(w)
    BY <1>1, <1>8 DEF n
  <2>2. fs[i] = fw[i]
    BY <1>1, <1>2, <1>3, <2>1 DEF IsQuoteScan, n
  <2> QED
    BY <2>2
<1>9. ASSUME NEW i \in Positions, i <= n, \A j \in Positions : j > i => j \in P PROVE i \in P
  <2> SUFFICES ASSUME i > start, fs[i] = found PROVE fw[i] = found
    OBVIOUS
  <2>1. i \in Nat /\ i + 1 \in Positions /\ i + 2 \in Positions /\ i + 1 > i /\ i + 2 > i
        /\ i + 1 > start /\ i + 2 > start
    BY <1>1 DEF Positions
  <2>2. i + 1 \in P /\ i + 2 \in P
    BY <1>9, <2>1
  <2> DEFINE Steps(f, t) == f[i] = IF escapes /\ t[i] = "backslash" THEN f[i + 2]
                                   ELSE IF t[i] # q THEN f[i + 1]
                                   ELSE IF i < n /\ t[i + 1] = q THEN f[i + 2]
                                   ELSE [end |-> i + 1, closed |-> TRUE]
  <2>3. Steps(fs, s) /\ Steps(fw, w)
    <3>1. ~(i > Len(s)) /\ ~(i > Len(w)) /\ Len(s) = n /\ Len(w) = n
      BY <1>1, <1>9, <2>1 DEF n
    <3> QED
      BY <1>2, <1>3, <3>1 DEF IsQuoteScan
  <2> HIDE DEF P
  <2>4. ASSUME i < e PROVE w[i] = s[i]
    BY <1>6, <2>4
  <2>5. CASE escapes /\ s[i] = "backslash"
    <3>1. fs[i + 2] = found
      BY <2>3, <2>5
    <3>2. e >= i + 2 \/ e = n + 1
      BY <1>4, <2>1, <3>1
    <3>3. w[i] = s[i]
      BY <1>1, <1>5, <1>9, <2>1, <2>4, <3>2
    <3>4. fw[i] = fw[i + 2]
      BY <2>3, <2>5, <3>3
    <3> QED
      BY <2>1, <2>2, <3>1, <3>4 DEF P
  <2>6. CASE ~(escapes /\ s[i] = "backslash") /\ s[i] # q
    <3>1. fs[i + 1] = found
      BY <2>3, <2>6
    <3>2. e >= i + 1 \/ e = n + 1
      BY <1>4, <2>1, <3>1
    <3>3. w[i] = s[i]
      BY <1>1, <1>5, <1>9, <2>1, <2>4, <3>2
    <3>4. fw[i] = fw[i + 1]
      BY <2>3, <2>6, <3>3
    <3> QED
      BY <2>1, <2>2, <3>1, <3>4 DEF P
  <2>7. CASE ~(escapes /\ s[i] = "backslash") /\ s[i] = q /\ i < n /\ s[i + 1] = q
    <3>1. fs[i + 2] = found
      BY <2>3, <2>7
    <3>2. e >= i + 2 \/ e = n + 1
      BY <1>4, <2>1, <3>1
    <3>3. w[i] = s[i] /\ w[i + 1] = s[i + 1]
      <4>1. i < e /\ i + 1 < e /\ start < i + 1
        BY <1>1, <1>5, <1>9, <2>1, <2>7, <3>2
      <4> QED
        BY <1>6, <2>1, <2>4, <4>1
    <3>4. fw[i] = fw[i + 2]
      BY <2>3, <2>7, <3>3
    <3> QED
      BY <2>1, <2>2, <3>1, <3>4 DEF P
  <2>8. CASE ~(escapes /\ s[i] = "backslash") /\ s[i] = q /\ ~(i < n /\ s[i + 1] = q)
    <3>1. found = [end |-> i + 1, closed |-> TRUE]
      BY <2>3, <2>8
    <3>2. e = i + 1
      BY <3>1
    <3>3. w[i] = s[i]
      BY <2>1, <2>4, <3>2
    <3>4. ~(i < n /\ w[i + 1] = q)
      BY <1>1, <1>6, <2>1, <2>8, <3>2
    <3>5. fw[i] = [end |-> i + 1, closed |-> TRUE]
      BY <2>3, <2>8, <3>3, <3>4
    <3> QED
      BY <3>1, <3>5
  <2> QED
    BY <2>5, <2>6, <2>7, <2>8
<1>10. Positions \subseteq P
  <2> HIDE DEF P
  <2> QED
    BY <1>1, <1>8, <1>9, FromTheEnd
<1>11. start + 1 \in P /\ start + 1 > start
  BY <1>1, <1>10
<1>12. fw[start + 1] = found
  BY <1>7, <1>11
<1> QED
  BY <1>3, <1>12 DEF found

LEMMA FirstOfIs ==
  ASSUME NEW X, NEW s \in Seq(X), NEW i \in Positions, NEW A, NEW e \in Positions,
         e >= i, e <= Len(s), s[e] \in A, \A j \in Positions : j >= i /\ j < e => s[j] \notin A
  PROVE  FirstOf(s, i, A) = e
<1> DEFINE f == FirstOf(s, i, A)
<1>1. i <= Len(s) /\ i \in Nat /\ e \in Nat /\ Len(s) \in Nat
  BY DEF Positions
<1>2. /\ f \in Positions /\ f >= i /\ f <= Len(s) + 1
      /\ \A j \in Positions : j >= i /\ j < f => s[j] \notin A
      /\ f <= Len(s) => s[f] \in A
  BY <1>1, FirstOfFacts
<1> HIDE DEF f
<1>3. f \in Nat
  BY <1>2 DEF Positions
<1>4. ~(e < f)
  BY <1>2
<1>5. ~(f < e)
  BY <1>1, <1>2, <1>3
<1>6. f = e
  BY <1>1, <1>3, <1>4, <1>5
<1> QED
  BY <1>6 DEF f

LEMMA WordEndStays ==
  ASSUME NEW X, NEW s \in Seq(X), NEW w \in Seq(X), NEW i \in Positions, i <= Len(s),
         IdentifierChar(s[i]), SameUntil(w, s, i, WordEnd(s, i))
  PROVE  WordEnd(w, i) = WordEnd(s, i)
<1> DEFINE e == WordEnd(s, i)
           notWord(t) == {x \in ToSet(t) : ~IdentifierChar(x)}
<1>1. \A t : WordEnd(t, i) = FirstOf(t, i, notWord(t))
  BY DEF WordEnd
<1>2. ASSUME NEW t \in Seq(X), NEW p \in Positions, p <= Len(t)
      PROVE  t[p] \in notWord(t) <=> ~IdentifierChar(t[p])
  <2>1. p \in 1..Len(t) /\ DOMAIN t = 1..Len(t)
    BY <1>2 DEF Positions
  <2>2. t[p] \in ToSet(t)
    BY <2>1 DEF ToSet
  <2> QED
    BY <2>2
<1>3. e \in Positions /\ e > i /\ e <= Len(s) + 1
  BY WordEndFacts
<1>4. i \in Nat /\ e \in Nat /\ Len(s) \in Nat /\ Len(w) = Len(s)
  BY <1>3 DEF Positions, SameUntil
<1>5. ASSUME NEW j \in Positions, j >= i, j < e PROVE w[j] \notin notWord(w) /\ j <= Len(w)
  <2>1. j <= Len(s)
    BY <1>3, <1>4, <1>5 DEF Positions
  <2>2. s[j] \notin notWord(s)
    <3> HIDE DEF notWord
    <3> QED
      BY <1>1, <1>5, FirstOfFacts
  <2>3. w[j] = s[j]
    <3>1. i <= j
      BY <1>5 DEF Positions
    <3> QED
      BY <1>5, <3>1 DEF SameUntil
  <2> HIDE DEF notWord
  <2> QED
    BY <1>2, <1>4, <2>1, <2>2, <2>3
<1>6. CASE e <= Len(s)
  <2>1. s[e] \in notWord(s)
    <3> HIDE DEF notWord
    <3> QED
      BY <1>1, <1>6, FirstOfFacts
  <2>2. w[e] \in {s[e], Blank}
    BY <1>6 DEF SameUntil
  <2> HIDE DEF e, notWord
  <2>3. ~IdentifierChar(w[e])
    BY <1>2, <1>3, <1>6, <2>1, <2>2, BlankAtom
  <2>4. w[e] \in notWord(w)
    BY <1>2, <1>3, <1>4, <1>6, <2>3
  <2>5. FirstOf(w, i, notWord(w)) = e
    BY <1>3, <1>4, <1>5, <1>6, <2>4, FirstOfIs
  <2> QED
    BY <1>1, <2>5 DEF e
<1>7. CASE e = Len(s) + 1
  <2> DEFINE f == FirstOf(w, i, notWord(w))
  <2>1. f \in Positions /\ f >= i /\ f <= Len(w) + 1 /\ (f <= Len(w) => w[f] \in notWord(w))
    <3> HIDE DEF notWord
    <3>1. i <= Len(w) + 1
      BY <1>4
    <3> QED
      BY <3>1, FirstOfFacts
  <2> HIDE DEF e, f, notWord
  <2>2. f = e
    BY <1>4, <1>5, <1>7, <2>1 DEF Positions
  <2> QED
    BY <1>1, <2>2 DEF e, f
<1> QED
  <2> HIDE DEF e
  <2> QED
    BY <1>3, <1>4, <1>6, <1>7

\* A delimiter of a dollar string starts at i.
Tagged(s, i) ==
  LET close == FirstOf(s, i + 1, {"$"})
  IN /\ ~(i > 1 /\ IdentifierChar(s[i - 1]))
     /\ close <= Len(s)
     /\ \A k \in (i + 1)..(close - 1) : IdentifierChar(s[k])
     /\ ~(close > i + 1 /\ s[i + 1] = "1")

LEMMA DollarTagFacts ==
  ASSUME NEW X, NEW s \in Seq(X), NEW i \in Positions, i <= Len(s)
  PROVE  LET close == FirstOf(s, i + 1, {"$"})
         IN /\ close \in Positions /\ close >= i + 1 /\ close <= Len(s) + 1
            /\ DollarTag(s, i) = IF Tagged(s, i) THEN close - i + 1 ELSE 0
            /\ DollarTag(s, i) > 0 <=> Tagged(s, i)
            /\ DollarTag(s, i) = 0 <=> ~Tagged(s, i)
<1> DEFINE close == FirstOf(s, i + 1, {"$"})
<1>1. Len(s) \in Nat /\ i \in Nat /\ i + 1 \in Positions /\ i + 1 <= Len(s) + 1
  BY DEF Positions
<1>2. close \in Positions /\ close >= i + 1 /\ close <= Len(s) + 1
  BY <1>1, FirstOfFacts
<1>3. DollarTag(s, i) = IF \/ i > 1 /\ IdentifierChar(s[i - 1])
                           \/ close > Len(s)
                           \/ \E k \in (i + 1)..(close - 1) : ~IdentifierChar(s[k])
                           \/ close > i + 1 /\ s[i + 1] = "1"
                        THEN 0 ELSE close - i + 1
  BY DEF DollarTag
<1>4. Tagged(s, i) <=> /\ ~(i > 1 /\ IdentifierChar(s[i - 1]))
                       /\ close <= Len(s)
                       /\ \A k \in (i + 1)..(close - 1) : IdentifierChar(s[k])
                       /\ ~(close > i + 1 /\ s[i + 1] = "1")
  BY DEF Tagged
<1> HIDE DEF close
<1>5. close \in Nat
  BY <1>2 DEF Positions
<1>6. close <= Len(s) <=> ~(close > Len(s))
  BY <1>1, <1>5
<1>7. DollarTag(s, i) = IF Tagged(s, i) THEN close - i + 1 ELSE 0
  BY <1>3, <1>4, <1>6
<1>8. close - i + 1 > 0 /\ close - i + 1 \in Nat
  BY <1>1, <1>2, <1>5
<1> QED
  BY <1>2, <1>7, <1>8 DEF close

LEMMA TagStays ==
  ASSUME NEW X, NEW s \in Seq(X), NEW w \in Seq(X), NEW i \in Positions, i <= Len(s),
         Len(w) = Len(s), SameLeft(w, s, i),
         \A p \in Positions : p <= Len(s) => w[p] \in {s[p], Blank},
         Tagged(s, i) => \A p \in Positions : i <= p /\ p <= FirstOf(s, i + 1, {"$"}) =>
                           w[p] = s[p]
  PROVE  DollarTag(w, i) = DollarTag(s, i)
<1> DEFINE close(t) == FirstOf(t, i + 1, {"$"})
<1>1. Len(s) \in Nat /\ i \in Nat /\ i + 1 \in Positions /\ i + 1 <= Len(s) + 1
  BY DEF Positions
<1>2. \A t : Tagged(t, i) <=> /\ ~(i > 1 /\ IdentifierChar(t[i - 1]))
                              /\ close(t) <= Len(t)
                              /\ \A k \in (i + 1)..(close(t) - 1) : IdentifierChar(t[k])
                              /\ ~(close(t) > i + 1 /\ t[i + 1] = "1")
  BY DEF Tagged
<1>3. ~(i > 1 /\ IdentifierChar(s[i - 1])) <=> ~(i > 1 /\ IdentifierChar(w[i - 1]))
  BY DEF SameLeft
<1>4. ASSUME NEW t \in Seq(X), NEW u \in Seq(X), Len(u) = Len(s), Len(t) = Len(s), Tagged(t, i),
             \A p \in Positions : i <= p /\ p <= close(t) => u[p] = t[p],
             ~(i > 1 /\ IdentifierChar(u[i - 1]))
      PROVE  Tagged(u, i) /\ close(u) = close(t)
  <2> DEFINE c == close(t)
  <2>1. c \in Positions /\ c >= i + 1 /\ c <= Len(t)
        /\ (\A j \in Positions : j >= i + 1 /\ j < c => t[j] \notin {"$"})
        /\ t[c] \in {"$"}
    BY <1>1, <1>2, <1>4, FirstOfFacts
  <2>2. (\A k \in (i + 1)..(c - 1) : IdentifierChar(t[k])) /\ ~(c > i + 1 /\ t[i + 1] = "1")
    BY <1>2, <1>4
  <2>3. \A p \in Positions : i <= p /\ p <= c => u[p] = t[p]
    BY <1>4
  <2> HIDE DEF c
  <2>4. c \in Nat /\ c > i
    BY <1>1, <2>1 DEF Positions
  <2>5. u[c] \in {"$"} /\ c <= Len(u)
    BY <1>1, <1>4, <2>1, <2>3, <2>4
  <2>6. ASSUME NEW j \in Positions, j >= i + 1, j < c PROVE u[j] \notin {"$"}
    <3>1. i <= j /\ j <= c
      BY <1>1, <2>4, <2>6 DEF Positions
    <3> QED
      BY <2>1, <2>3, <2>6, <3>1
  <2>7. close(u) = c
    BY <1>1, <2>1, <2>5, <2>6, FirstOfIs
  <2>8. ASSUME NEW k \in (i + 1)..(c - 1) PROVE IdentifierChar(u[k])
    <3>1. k \in Positions /\ i <= k /\ k <= c
      BY <1>1, <2>4 DEF Positions
    <3> QED
      BY <2>2, <2>3, <3>1
  <2>9. ~(c > i + 1 /\ u[i + 1] = "1")
    <3>1. i <= i + 1 /\ i + 1 <= c
      BY <1>1, <2>1
    <3> QED
      BY <1>1, <2>2, <2>3, <3>1
  <2> HIDE DEF close
  <2> QED
    BY <1>2, <1>4, <2>5, <2>7, <2>8, <2>9 DEF c
<1>5. CASE Tagged(s, i)
  <2>1. ~(i > 1 /\ IdentifierChar(w[i - 1]))
    BY <1>2, <1>3, <1>5
  <2>2. Tagged(w, i) /\ close(w) = close(s)
    BY <1>4, <1>5, <2>1
  <2> QED
    BY <1>5, <2>2, DollarTagFacts
<1>6. CASE Tagged(w, i)
  <2> DEFINE c == close(w)
  <2>1. c \in Positions /\ c >= i + 1 /\ c <= Len(s)
        /\ (\A k \in (i + 1)..(c - 1) : IdentifierChar(w[k]))
    BY <1>1, <1>2, <1>6, FirstOfFacts
  <2>2. w[c] = "$"
    BY <1>1, <1>2, <1>6, FirstOfFacts
  <2>3. ~(i > 1 /\ IdentifierChar(s[i - 1]))
    BY <1>2, <1>3, <1>6
  <2> HIDE DEF c
  <2>4. c \in Nat
    BY <2>1 DEF Positions
  <2>5. \A p \in Positions : i + 1 <= p /\ p <= c => s[p] = w[p]
    <3> SUFFICES ASSUME NEW p \in Positions, i + 1 <= p, p <= c PROVE s[p] = w[p]
      OBVIOUS
    <3>1. p <= Len(s) /\ (p = c \/ p \in (i + 1)..(c - 1))
      BY <1>1, <2>1, <2>4 DEF Positions
    <3>2. w[p] # Blank
      BY <2>1, <2>2, <3>1, BlankAtom
    <3> QED
      BY <3>1, <3>2
  <2>6. FirstOf(s, i + 1, {"$"}) = c
    <3>1. s[c] \in {"$"}
      BY <2>1, <2>2, <2>4, <2>5
    <3>2. ASSUME NEW j \in Positions, j >= i + 1, j < c PROVE s[j] \notin {"$"}
      <4>1. w[j] \notin {"$"}
        BY <1>1, <3>2, FirstOfFacts DEF c
      <4>2. s[j] = w[j]
        BY <1>1, <2>4, <2>5, <3>2 DEF Positions
      <4> QED
        BY <4>1, <4>2
    <3> QED
      BY <1>1, <2>1, <3>1, <3>2, FirstOfIs
  <2>7. \A k \in (i + 1)..(c - 1) : IdentifierChar(s[k])
    <3> SUFFICES ASSUME NEW k \in (i + 1)..(c - 1) PROVE IdentifierChar(s[k])
      OBVIOUS
    <3>1. k \in Positions /\ i + 1 <= k /\ k <= c
      BY <1>1, <2>4 DEF Positions
    <3> QED
      BY <2>1, <2>5, <3>1
  <2>8. ~(c > i + 1 /\ s[i + 1] = "1")
    <3>1. s[i + 1] = w[i + 1]
      BY <1>1, <2>1, <2>5
    <3> QED
      BY <1>2, <1>6, <3>1 DEF c
  <2>9. Tagged(s, i)
    BY <1>2, <2>1, <2>3, <2>6, <2>7, <2>8
  <2> QED
    BY <1>5, <2>9
<1>7. CASE ~Tagged(s, i) /\ ~Tagged(w, i)
  BY <1>7, DollarTagFacts
<1> QED
  BY <1>5, <1>6, <1>7

LEMMA SubSeqStays ==
  ASSUME NEW X, NEW s \in Seq(X), NEW w \in Seq(X), Len(w) = Len(s),
         NEW a \in Positions, NEW b \in Nat, b <= Len(s),
         \A p \in Positions : a <= p /\ p <= b => w[p] = s[p]
  PROVE  SubSeq(w, a, b) = SubSeq(s, a, b)
<1> DEFINE u == SubSeq(w, a, b)
           v == SubSeq(s, a, b)
<1>1. a \in Int /\ b \in Int /\ \A p \in a..b : p \in Positions /\ a <= p /\ p <= b
  BY DEF Positions
<1>2. \A p \in a..b : s[p] \in X /\ w[p] \in X /\ w[p] = s[p]
  BY <1>1 DEF Positions
<1>3. /\ v \in Seq(X) /\ Len(v) = IF a <= b THEN b - a + 1 ELSE 0
      /\ \A k \in 1..(b - a + 1) : v[k] = s[a + k - 1]
  BY <1>1, <1>2, SubSeqProperties
<1>4. /\ u \in Seq(X) /\ Len(u) = IF a <= b THEN b - a + 1 ELSE 0
      /\ \A k \in 1..(b - a + 1) : u[k] = w[a + k - 1]
  BY <1>1, <1>2, SubSeqProperties
<1> HIDE DEF u, v
<1>5. ASSUME NEW k \in 1..Len(u) PROVE u[k] = v[k]
  <2>1. k \in 1..(b - a + 1) /\ a + k - 1 \in a..b
    BY <1>1, <1>4
  <2> QED
    BY <1>2, <1>3, <1>4, <2>1
<1>6. u = v
  BY <1>3, <1>4, <1>5, SeqEqual
<1> QED
  BY <1>6 DEF u, v

LEMMA DollarEndStays ==
  ASSUME NEW X, NEW s \in Seq(X), NEW w \in Seq(X), NEW i \in Positions, i <= Len(s),
         DollarTag(s, i) > 0, DollarTag(w, i) = DollarTag(s, i),
         SameUntil(w, s, i, DollarEnd(s, i))
  PROVE  DollarEnd(w, i) = DollarEnd(s, i)
<1> DEFINE n == DollarTag(s, i)
           e == DollarEnd(s, i)
           last == Len(s) - n + 1
           closings(t) == {j \in (i + n)..last : SubSeq(t, j, j + n - 1) = SubSeq(t, i, i + n - 1)}
<1>1. Len(s) \in Nat /\ i \in Nat /\ Len(w) = Len(s)
  BY DEF Positions, SameUntil
<1>2. n \in Nat /\ n > 0 /\ i + n - 1 <= Len(s)
  <2> DEFINE close == FirstOf(s, i + 1, {"$"})
  <2>1. close \in Positions /\ close >= i + 1 /\ n = close - i + 1 /\ Tagged(s, i)
    BY DollarTagFacts
  <2>2. close <= Len(s)
    BY <2>1 DEF Tagged
  <2> HIDE DEF close, n
  <2> QED
    BY <1>1, <2>1, <2>2 DEF Positions
<1>3. /\ e = IF closings(s) = {} THEN Len(s) + 1 ELSE Min(closings(s)) + n
      /\ DollarEnd(w, i) = IF closings(w) = {} THEN Len(s) + 1 ELSE Min(closings(w)) + n
  BY <1>1 DEF DollarEnd
<1>4. \A p \in Positions : i <= p /\ p < e => w[p] = s[p]
  BY DEF SameUntil
<1>5. closings(s) \in SUBSET Nat /\ closings(w) \in SUBSET Nat
  <2> HIDE DEF n
  <2> QED
    BY <1>1, <1>2
<1> HIDE DEF n, e
<1>6. ASSUME NEW a \in Positions, i <= a, a + n <= e, e \in Nat, e <= Len(s) + 1
      PROVE  SubSeq(w, a, a + n - 1) = SubSeq(s, a, a + n - 1)
  <2>1. a + n - 1 \in Nat /\ a + n - 1 <= Len(s)
    BY <1>1, <1>2, <1>6 DEF Positions
  <2>2. \A p \in Positions : a <= p /\ p <= a + n - 1 => w[p] = s[p]
    <3> SUFFICES ASSUME NEW p \in Positions, a <= p, p <= a + n - 1 PROVE w[p] = s[p]
      OBVIOUS
    <3>1. i <= p /\ p < e
      BY <1>1, <1>2, <1>6 DEF Positions
    <3> QED
      BY <1>4, <3>1
  <2> QED
    BY <1>1, <2>1, <2>2, SubSeqStays
<1>7. ASSUME NEW j \in (i + n)..last, j + n <= e, e \in Nat, e <= Len(s) + 1
      PROVE  j \in closings(s) <=> j \in closings(w)
  <2>1. j \in Positions /\ i <= j /\ i + n <= e
    BY <1>1, <1>2, <1>7 DEF Positions
  <2>2. SubSeq(w, j, j + n - 1) = SubSeq(s, j, j + n - 1)
    BY <1>6, <1>7, <2>1
  <2>3. SubSeq(w, i, i + n - 1) = SubSeq(s, i, i + n - 1)
    <3>1. i <= i
      BY <1>1
    <3> QED
      BY <1>6, <1>7, <2>1, <3>1
  <2> QED
    BY <2>2, <2>3
<1>8. \A j \in (i + n)..last : j \in Nat /\ j + n <= Len(s) + 1 /\ last \in Int
  BY <1>1, <1>2
<1>9. \A t : closings(t) \subseteq (i + n)..last
  OBVIOUS
<1> HIDE DEF closings
<1>10. CASE closings(s) = {}
  <2>1. e = Len(s) + 1 /\ e \in Nat
    BY <1>1, <1>3, <1>10
  <2>2. closings(w) = {}
    BY <1>1, <1>7, <1>8, <1>9, <1>10, <2>1
  <2> QED
    BY <1>3, <2>1, <2>2 DEF e
<1>11. CASE closings(s) # {}
  <2> DEFINE b == Min(closings(s))
             c == Min(closings(w))
  <2>1. b \in closings(s) /\ (\A y \in closings(s) : b <= y) /\ e = b + n
    BY <1>3, <1>5, <1>11, LeastIsMin
  <2> HIDE DEF b
  <2>2. b \in (i + n)..last /\ b \in Nat /\ e \in Nat /\ e <= Len(s) + 1 /\ b + n <= e
    <3>1. b \in (i + n)..last
      BY <1>9, <2>1
    <3> QED
      BY <1>1, <1>2, <1>8, <2>1, <3>1
  <2>3. b \in closings(w)
    BY <1>7, <2>1, <2>2
  <2>4. c \in closings(w) /\ \A y \in closings(w) : c <= y
    BY <1>5, <2>3, LeastIsMin
  <2> HIDE DEF c
  <2>5. c <= b /\ c \in (i + n)..last /\ c \in Nat
    BY <1>8, <1>9, <2>3, <2>4
  <2>6. c + n <= e
    BY <1>2, <2>1, <2>2, <2>5
  <2>7. b <= c
    BY <1>7, <2>1, <2>2, <2>4, <2>5, <2>6
  <2>8. b = c
    BY <2>2, <2>5, <2>7
  <2>9. DollarEnd(w, i) = c + n
    BY <1>3, <2>3 DEF c
  <2> QED
    BY <2>1, <2>8, <2>9 DEF e
<1> QED
  BY <1>10, <1>11

\* The two texts have the same line breaks.
SameBreaks(w, s) ==
  /\ Len(w) = Len(s)
  /\ \A p \in Positions : p <= Len(s) => (w[p] = "\n" <=> s[p] = "\n")

LEMMA LineEndStays ==
  ASSUME NEW X, NEW s \in Seq(X), NEW w \in Seq(X), SameBreaks(w, s), NEW i \in Positions
  PROVE  LineEnd(w, i) = LineEnd(s, i)
<1> DEFINE at(t) == {j \in i..Len(t) : t[j] \in {"\n"}}
<1>1. \A j \in i..Len(s) : j \in Positions /\ j <= Len(s)
  BY DEF Positions
<1>2. at(w) = at(s)
  BY <1>1 DEF SameBreaks
<1>3. \A t : LineEnd(t, i) = IF at(t) = {} THEN Len(t) + 1 ELSE Min(at(t))
  BY DEF LineEnd, FirstOf
<1> HIDE DEF at
<1> QED
  BY <1>2, <1>3 DEF SameBreaks

(* Where the blanks and line comments from j on end decides where a string *)
(* goes on.                                                                *)
LEMMA SameContinuation ==
  ASSUME NEW X, NEW s \in Seq(X), NEW w \in Seq(X), SameBreaks(w, s),
         NEW j \in Positions, j <= Len(s) + 1,
         \A bs, bw : IsBlankScan(bs, s) /\ IsBlankScan(bw, w) => bw[j] = bs[j]
  PROVE  Continuation(w, j) = Continuation(s, j)
<1>1. PICK bs : /\ IsBlankScan(bs, s)
                /\ Continuation(s, j) = IF \E k \in j..(bs[j] - 1) : s[k] = "\n"
                                        THEN bs[j] ELSE 0
  BY BlankScan
<1>2. PICK bw : /\ IsBlankScan(bw, w)
                /\ Continuation(w, j) = IF \E k \in j..(bw[j] - 1) : w[k] = "\n"
                                        THEN bw[j] ELSE 0
  BY BlankScan
<1>3. bw[j] = bs[j]
  BY <1>1, <1>2
<1>4. bs[j] \in Positions /\ bs[j] <= Len(s) + 1
  BY <1>1, BlankScanEnds
<1>5. \A k \in j..(bs[j] - 1) : s[k] = "\n" <=> w[k] = "\n"
  <2> DEFINE b == bs[j]
  <2>1. b \in Positions /\ b <= Len(s) + 1
    BY <1>4
  <2> HIDE DEF b
  <2>2. \A k \in j..(b - 1) : k \in Positions /\ k <= Len(s)
    BY <2>1 DEF Positions
  <2>3. \A k \in j..(b - 1) : s[k] = "\n" <=> w[k] = "\n"
    BY <2>2 DEF SameBreaks
  <2> QED
    BY <2>3 DEF b
<1>6. (\E k \in j..(bs[j] - 1) : s[k] = "\n") <=> (\E k \in j..(bw[j] - 1) : w[k] = "\n")
  BY <1>3, <1>5
<1> QED
  BY <1>1, <1>2, <1>3, <1>6

(* A string goes on in both texts if nothing up to there was blanked.      *)
LEMMA ContinuationInside ==
  ASSUME NEW X, NEW s \in Seq(X), NEW w \in Seq(X), SameBreaks(w, s),
         NEW j \in Positions, j <= Len(s) + 1, Continuation(s, j) # 0,
         \A p \in Positions : j <= p /\ p <= Continuation(s, j) /\ p <= Len(s) => w[p] = s[p]
  PROVE  Continuation(w, j) = Continuation(s, j)
<1> DEFINE n == Len(s)
           c == Continuation(s, j)
<1>1. n \in Nat /\ Len(w) = n /\ j \in Nat
  BY DEF SameBreaks, Positions
<1> SUFFICES ASSUME NEW bs, NEW bw, IsBlankScan(bs, s), IsBlankScan(bw, w) PROVE bw[j] = bs[j]
  BY SameContinuation
<1>2. c \in Nat /\ c >= j
  <2>1. c \in Positions /\ c >= j
    BY ContinuationFacts
  <2> QED
    BY <2>1 DEF Positions
<1>3. c = bs[j] \/ bs[j] # c
  OBVIOUS
<1>4. PICK b0 : /\ IsBlankScan(b0, s)
                /\ c = IF \E k \in j..(b0[j] - 1) : s[k] = "\n" THEN b0[j] ELSE 0
  BY BlankScan
<1>5. b0[j] = c
  BY <1>4
<1>6. \A p \in Positions : j <= p /\ p <= c /\ p <= n => w[p] = s[p]
  OBVIOUS
<1> HIDE DEF c, n
<1>7. \A i \in Positions : b0[i] \in Positions /\ b0[i] >= i
  BY <1>4, BlankScanEnds
<1> DEFINE P == {i \in Positions : /\ bs[i] = b0[i]
                                   /\ j <= i /\ b0[i] = c => bw[i] = c}
<1>8. ASSUME NEW i \in Positions, i > n PROVE i \in P
  <2>1. i > Len(s) /\ i > Len(w)
    BY <1>1, <1>8 DEF n
  <2>2. bs[i] = i /\ b0[i] = i /\ bw[i] = i
    BY <1>4, <2>1 DEF IsBlankScan
  <2> QED
    BY <2>2
<1>9. ASSUME NEW i \in Positions, i <= n, \A k \in Positions : k > i => k \in P PROVE i \in P
  <2> DEFINE Steps(b, t) == b[i] = IF t[i] \in Spaces THEN b[i + 1]
                                   ELSE IF t[i] = "--" THEN b[LineEnd(t, i)] ELSE i
  <2>1. i \in Nat /\ i + 1 \in P /\ i + 1 \in Positions /\ ~(i > Len(s)) /\ ~(i > Len(w))
        /\ i <= Len(s)
    <3>1. i \in Nat /\ i + 1 \in Positions /\ i + 1 > i
      BY DEF Positions
    <3>2. i + 1 \in P
      BY <1>9, <3>1
    <3> HIDE DEF P
    <3> QED
      BY <1>1, <1>9, <3>1, <3>2 DEF n
  <2>2. Steps(bs, s) /\ Steps(b0, s) /\ Steps(bw, w)
    BY <1>4, <2>1 DEF IsBlankScan
  <2>3. s[i] = "--" => LineEnd(s, i) \in P /\ LineEnd(s, i) \in Positions /\ LineEnd(s, i) > i
    <3> HIDE DEF P
    <3> QED
      BY <1>9, <2>1, LineEndFacts
  <2>4. LineEnd(w, i) = LineEnd(s, i)
    BY LineEndStays
  <2>5. bs[i] = b0[i]
    BY <2>1, <2>2, <2>3
  <2>6. ASSUME j <= i, b0[i] = c PROVE bw[i] = c
    <3>1. w[i] = s[i]
      <4>1. i <= c
        BY <1>7, <2>1, <2>6
      <4> QED
        BY <1>6, <1>9, <2>6, <4>1
    <3>2. CASE s[i] \in Spaces
      <4>1. b0[i + 1] = c /\ bw[i] = bw[i + 1] /\ j <= i + 1
        BY <1>1, <2>1, <2>2, <2>6, <3>1, <3>2
      <4> QED
        BY <2>1, <4>1
    <3>3. CASE s[i] \notin Spaces /\ s[i] = "--"
      <4> DEFINE e == LineEnd(s, i)
      <4>1. b0[e] = c /\ bw[i] = bw[e]
        BY <2>2, <2>4, <2>6, <3>1, <3>3
      <4>2. e \in P /\ e \in Positions /\ e > i
        BY <2>3, <3>3
      <4> HIDE DEF e
      <4>3. j <= e
        BY <1>1, <2>1, <2>6, <4>2 DEF Positions
      <4> QED
        BY <4>1, <4>2, <4>3
    <3>4. CASE s[i] \notin Spaces /\ s[i] # "--"
      BY <2>2, <2>6, <3>1, <3>4
    <3> QED
      BY <3>2, <3>3, <3>4
  <2> QED
    BY <2>5, <2>6
<1>10. Positions \subseteq P
  <2> HIDE DEF P
  <2> QED
    BY <1>1, <1>8, <1>9, FromTheEnd
<1>11. j \in P /\ j <= j
  BY <1>1, <1>10
<1> QED
  BY <1>5, <1>11

\* No block comment starts at or after position j.
NoBlockFrom(s, j) == \A p \in Positions : j <= p /\ p <= Len(s) => s[p] # "/*"

LEMMA BlankedBreaks ==
  ASSUME NEW X, NEW s \in Seq(X), NEW w \in Seq(X), Blanked(w, s)
  PROVE  SameBreaks(w, s)
<1>1. Len(w) = Len(s)
  BY DEF Blanked
<1>2. ASSUME NEW p \in Positions, p <= Len(s) PROVE w[p] = "\n" <=> s[p] = "\n"
  BY <1>2, BlankedFacts
<1> QED
  BY <1>1, <1>2 DEF SameBreaks

(* After a token, the blanks and line comments of s are all blank in w.    *)
LEMMA BlankTail ==
  ASSUME NEW X, NEW s \in Seq(X), NEW w \in Seq(X), Blanked(w, s), NEW j \in Positions,
         NoBlockFrom(s, j), NEW bs, IsBlankScan(bs, s)
  PROVE  \A i \in Positions : j <= i /\ i <= Len(s) + 1 /\ Boundary(s, i) =>
           /\ \A p \in Positions : i <= p /\ p < bs[i] => w[p] \in Spaces
           /\ bs[i] <= Len(s) => /\ w[bs[i]] = s[bs[i]]
                                 /\ s[bs[i]] \notin Spaces /\ s[bs[i]] # "--"
<1> DEFINE n == Len(s)
           Clear(i) == /\ \A p \in Positions : i <= p /\ p < bs[i] => w[p] \in Spaces
                       /\ bs[i] <= n => /\ w[bs[i]] = s[bs[i]]
                                        /\ s[bs[i]] \notin Spaces /\ s[bs[i]] # "--"
           P == {i \in Positions : j <= i /\ i <= n + 1 /\ Boundary(s, i) => Clear(i)}
<1>1. n \in Nat /\ j \in Nat
  BY DEF Positions
<1>2. ASSUME NEW i \in Positions, i > n PROVE i \in P
  <2>1. bs[i] = i
    BY <1>2 DEF IsBlankScan
  <2>2. i \in Nat
    BY DEF Positions
  <2>3. ~(bs[i] <= n)
    BY <1>1, <1>2, <2>1, <2>2
  <2>4. \A p \in Positions : ~(i <= p /\ p < bs[i])
    BY <2>1, <2>2 DEF Positions
  <2> QED
    BY <2>3, <2>4
<1>3. ASSUME NEW i \in Positions, i <= n, \A k \in Positions : k > i => k \in P PROVE i \in P
  <2> SUFFICES ASSUME j <= i, i <= n + 1, Boundary(s, i) PROVE Clear(i)
    OBVIOUS
  <2>1. i \in Nat /\ i + 1 \in Positions /\ ~(i > n)
    BY <1>1, <1>3 DEF Positions
  <2>2. bs[i] = IF s[i] \in Spaces THEN bs[i + 1]
                ELSE IF s[i] = "--" THEN bs[LineEnd(s, i)] ELSE i
    BY <2>1 DEF IsBlankScan
  <2> DEFINE f == Following(s, i)
  <2>3. f \in Positions /\ f > i /\ f <= n + 1 /\ Boundary(s, f)
    BY <1>3, FollowingFacts, FollowingIsBoundary
  <2>4. Clear(f)
    <3> HIDE DEF Clear, f
    <3>1. j <= f
      BY <1>1, <2>1, <2>3 DEF Positions
    <3> QED
      BY <1>3, <2>3, <3>1
  <2>5. ASSUME bs[i] = bs[f],
               \A p \in Positions : i <= p /\ p < f => w[p] \in Spaces
        PROVE  Clear(i)
    <3> HIDE DEF f
    <3>1. \A p \in Positions : i <= p => p < f \/ f <= p
      BY <2>3 DEF Positions
    <3> DEFINE b == bs[f]
    <3>2. /\ \A p \in Positions : f <= p /\ p < b => w[p] \in Spaces
          /\ b <= n => w[b] = s[b] /\ s[b] \notin Spaces /\ s[b] # "--"
      BY <2>4
    <3> HIDE DEF b
    <3>3. \A p \in Positions : i <= p /\ p < b => w[p] \in Spaces
      BY <2>5, <3>1, <3>2
    <3>4. bs[i] = b
      BY <2>5 DEF b
    <3> QED
      BY <3>2, <3>3, <3>4
  <2>6. CASE s[i] \in Spaces
    <3>1. f = i + 1
      BY <2>6 DEF Following
    <3>2. w[i] \in Spaces
      BY <1>3, <2>6, BlankedFacts, BlankAtom
    <3>3. \A p \in Positions : i <= p /\ p < i + 1 => p = i
      BY <2>1 DEF Positions
    <3> HIDE DEF Clear, f
    <3> QED
      BY <2>2, <2>5, <2>6, <3>1, <3>2, <3>3
  <2> DEFINE t == SpanAt(s, i)
  <2>7. CASE s[i] \notin Spaces /\ s[i] = "--"
    <3>1. t = Span(i, LineEnd(s, i), "comment")
      BY <2>7 DEF SpanAt, IdentifierChar
    <3>2. t.kind = "comment" /\ t.end = LineEnd(s, i) /\ t.start = i
      BY <3>1 DEF Span
    <3>3. f = LineEnd(s, i)
      BY <2>7, <3>2 DEF Following
    <3>4. ASSUME NEW p \in Positions, i <= p, p < f PROVE w[p] \in Spaces
      <4>1. Inside(p, t)
        BY <3>2, <3>3, <3>4 DEF Inside
      <4>2. Commented(s, p)
        BY <1>3, <2>7, <3>2, <4>1, CommentedWithin
      <4>3. p <= Len(s)
        <5> HIDE DEF f
        <5> QED
          BY <1>1, <2>3, <3>4 DEF Positions
      <4> QED
        BY <4>2, <4>3, BlankedFacts
    <3>5. bs[i] = bs[f]
      BY <2>2, <2>7, <3>3
    <3> HIDE DEF Clear, f
    <3> QED
      BY <2>5, <3>4, <3>5
  <2>8. CASE s[i] \notin Spaces /\ s[i] # "--"
    <3>1. bs[i] = i
      BY <2>2, <2>8
    <3>2. t.kind # "comment"
      <4>1. s[i] # "/*"
        BY <1>3 DEF NoBlockFrom
      <4> QED
        BY <2>8, <4>1, CommentKind
    <3>3. Inside(i, t)
      <4>1. t.start = i /\ t.end > i /\ t \in SpanSet
        BY <1>3, SpanAtFacts
      <4> HIDE DEF t
      <4> QED
        BY <2>1, <4>1 DEF Inside, SpanSet, Positions
    <3>4. ~Commented(s, i)
      BY <1>3, <2>8, <3>2, <3>3, CommentedWithin
    <3>5. w[i] = s[i]
      BY <1>3, <3>4, BlankedFacts
    <3>6. \A p \in Positions : ~(i <= p /\ p < i)
      BY DEF Positions
    <3> HIDE DEF t, f
    <3> QED
      BY <2>8, <3>1, <3>5, <3>6
  <2> HIDE DEF Clear
  <2> QED
    BY <2>6, <2>7, <2>8
<1>4. Positions \subseteq P
  <2> HIDE DEF P
  <2> QED
    BY <1>1, <1>2, <1>3, FromTheEnd
<1>5. SUFFICES ASSUME NEW i \in Positions, j <= i, i <= n + 1, Boundary(s, i) PROVE Clear(i)
  OBVIOUS
<1>6. i \in P
  BY <1>4
<1> HIDE DEF Clear
<1> QED
  BY <1>5, <1>6

(* Blanks up to c, and no comment at c: the scan of w stops at c.          *)
LEMMA BlanksToHere ==
  ASSUME NEW X, NEW w \in Seq(X), NEW bw, IsBlankScan(bw, w), NEW j \in Positions,
         NEW c \in Positions, j <= c, c <= Len(w) + 1,
         \A p \in Positions : j <= p /\ p < c => w[p] \in Spaces,
         c <= Len(w) => w[c] \notin Spaces /\ w[c] # "--"
  PROVE  bw[j] = c
<1> DEFINE n == Len(w)
           P == {i \in Positions : j <= i /\ i <= c => bw[i] = c}
<1>1. n \in Nat /\ j \in Nat /\ c \in Nat
  BY DEF Positions
<1>2. ASSUME NEW i \in Positions, i > n PROVE i \in P
  <2>1. bw[i] = i
    BY <1>2 DEF IsBlankScan
  <2> QED
    BY <1>1, <1>2, <2>1 DEF Positions
<1>3. ASSUME NEW i \in Positions, i <= n, \A k \in Positions : k > i => k \in P PROVE i \in P
  <2> SUFFICES ASSUME j <= i, i <= c PROVE bw[i] = c
    OBVIOUS
  <2>1. i \in Nat /\ ~(i > Len(w)) /\ i + 1 \in Positions /\ i + 1 > i
    BY <1>1, <1>3 DEF Positions
  <2>2. bw[i] = IF w[i] \in Spaces THEN bw[i + 1]
                ELSE IF w[i] = "--" THEN bw[LineEnd(w, i)] ELSE i
    BY <2>1 DEF IsBlankScan
  <2>3. CASE i = c
    BY <1>3, <2>2, <2>3
  <2>4. CASE i # c
    <3>1. i < c /\ i + 1 <= c /\ j <= i + 1
      BY <1>1, <2>1, <2>4
    <3>2. bw[i] = bw[i + 1]
      BY <2>2, <3>1
    <3>3. i + 1 \in P
      BY <1>3, <2>1
    <3> QED
      BY <2>1, <3>1, <3>2, <3>3
  <2> QED
    BY <2>3, <2>4
<1>4. Positions \subseteq P
  <2> HIDE DEF P
  <2> QED
    BY <1>1, <1>2, <1>3, FromTheEnd
<1>5. j \in P /\ j <= j
  BY <1>1, <1>4
<1> QED
  BY <1>5

LEMMA ContinuationBeyond ==
  ASSUME NEW X, NEW s \in Seq(X), NEW w \in Seq(X), Blanked(w, s),
         NEW j \in Positions, j <= Len(s) + 1, Boundary(s, j), NoBlockFrom(s, j)
  PROVE  Continuation(w, j) = Continuation(s, j) /\ (GoesOn(w, j) <=> GoesOn(s, j))
<1>1. SameBreaks(w, s) /\ Len(w) = Len(s) /\ j \in Nat
  BY BlankedBreaks DEF Blanked, Positions
<1>2. ASSUME NEW bs, IsBlankScan(bs, s)
      PROVE  /\ bs[j] \in Positions /\ j <= bs[j] /\ bs[j] <= Len(s) + 1
             /\ \A p \in Positions : j <= p /\ p < bs[j] => w[p] \in Spaces
             /\ bs[j] <= Len(s) => /\ w[bs[j]] = s[bs[j]]
                                   /\ s[bs[j]] \notin Spaces /\ s[bs[j]] # "--"
  <2>1. /\ \A p \in Positions : j <= p /\ p < bs[j] => w[p] \in Spaces
        /\ bs[j] <= Len(s) => /\ w[bs[j]] = s[bs[j]]
                              /\ s[bs[j]] \notin Spaces /\ s[bs[j]] # "--"
    <3>1. j <= j
      BY <1>1
    <3> QED
      BY <1>2, <3>1, BlankTail
  <2>2. bs[j] \in Positions /\ bs[j] >= j /\ bs[j] <= Len(s) + 1
    BY <1>2, BlankScanEnds
  <2> DEFINE b == bs[j]
  <2>3. j <= b
    <3>1. b \in Positions /\ b >= j
      BY <2>2
    <3> HIDE DEF b
    <3> QED
      BY <1>1, <3>1 DEF Positions
  <2> QED
    BY <2>1, <2>2, <2>3
<1>3. ASSUME NEW bs, NEW bw, IsBlankScan(bs, s), IsBlankScan(bw, w) PROVE bw[j] = bs[j]
  <2> DEFINE c == bs[j]
  <2>1. /\ c \in Positions /\ j <= c /\ c <= Len(w) + 1
        /\ \A p \in Positions : j <= p /\ p < c => w[p] \in Spaces
        /\ c <= Len(w) => w[c] \notin Spaces /\ w[c] # "--"
    BY <1>1, <1>2, <1>3
  <2> HIDE DEF c
  <2>2. bw[j] = c
    BY <1>3, <2>1, BlanksToHere
  <2> QED
    BY <2>2 DEF c
<1>4. Continuation(w, j) = Continuation(s, j)
  BY <1>1, <1>3, SameContinuation
<1>5. PICK bs : /\ IsBlankScan(bs, s)
                /\ Continuation(s, j) = IF \E k \in j..(bs[j] - 1) : s[k] = "\n"
                                        THEN bs[j] ELSE 0
  BY BlankScan
<1>6. Continuation(s, j) # 0 /\ Continuation(s, j) <= Len(s) =>
        w[Continuation(s, j)] = s[Continuation(s, j)]
  BY <1>2, <1>5
<1>7. GoesOn(w, j) <=> GoesOn(s, j)
  BY <1>1, <1>4, <1>6 DEF GoesOn
<1> QED
  BY <1>4, <1>7

LEMMA SameUntilWithin ==
  ASSUME NEW X, NEW s \in Seq(X), NEW w, NEW i \in Positions, NEW e \in Positions,
         SameUntil(w, s, i, e), NEW j \in Positions, i <= j,
         NEW f \in Positions, j <= f, f <= e
  PROVE  SameUntil(w, s, j, f)
<1>1. i \in Nat /\ e \in Nat /\ j \in Nat /\ f \in Nat /\ Len(s) \in Nat
  BY DEF Positions
<1>2. \A p \in Positions : j <= p /\ p < f => i <= p /\ p < e
  BY <1>1 DEF Positions
<1>3. f = e \/ (i <= f /\ f < e)
  BY <1>1
<1> QED
  BY <1>2, <1>3 DEF SameUntil

LEMMA StringEndStays ==
  ASSUME NEW X, NEW s \in Seq(X), NEW w \in Seq(X), SameBreaks(w, s),
         NEW i \in Positions, i <= Len(s), EString(w, i) = EString(s, i),
         SameUntil(w, s, i, StringEnd(s, i)),
         GoesOn(w, StringEnd(s, i)) <=> GoesOn(s, StringEnd(s, i))
  PROVE  StringEnd(w, i) = StringEnd(s, i)
<1> DEFINE n == Len(s)
           E == StringEnd(s, i)
           first == QuoteEnd(s, i, "quote", EString(s, i))
           e1 == first.end
<1>1. n \in Nat /\ Len(w) = n /\ i \in Nat
  BY DEF SameBreaks, Positions
<1>2. PICK ms : /\ IsStringScan(ms, s)
                /\ E = IF EString(s, i) /\ first.closed THEN ms[e1] ELSE e1
  BY StringScan
<1>3. PICK mw : /\ IsStringScan(mw, w)
                /\ StringEnd(w, i) =
                     LET f == QuoteEnd(w, i, "quote", EString(w, i))
                     IN IF EString(w, i) /\ f.closed THEN mw[f.end] ELSE f.end
  BY StringScan
<1>4. e1 \in Positions /\ e1 > i /\ e1 <= n + 1
  BY <1>1, QuoteEndFacts
<1>5. E \in Positions /\ E <= n + 1
  BY StringEndFacts
<1>6. SameUntil(w, s, i, E) /\ (GoesOn(w, E) <=> GoesOn(s, E))
  OBVIOUS
<1>7. \A j \in Positions : ms[j] \in Positions /\ ms[j] >= j
  BY <1>2, StringScanEnds
<1> HIDE DEF E, n
<1>8. i <= e1 /\ e1 <= E
  <2> HIDE DEF e1, first
  <2>1. i <= e1
    BY <1>1, <1>4 DEF Positions
  <2>2. CASE E = e1
    BY <1>5, <2>1, <2>2 DEF Positions
  <2>3. CASE E = ms[e1]
    <3>1. ms[e1] \in Positions /\ ms[e1] >= e1
      BY <1>4, <1>7
    <3> QED
      BY <1>4, <2>1, <2>3, <3>1 DEF Positions
  <2> QED
    BY <1>2, <2>2, <2>3
<1>9. QuoteEnd(w, i, "quote", EString(w, i)) = first
  <2>1. i <= i
    BY <1>1
  <2>2. SameUntil(w, s, i, e1)
    <3> HIDE DEF e1, first
    <3> QED
      BY <1>4, <1>5, <1>6, <1>8, <2>1, SameUntilWithin
  <2> QED
    BY <2>2, BlankAtom, QuoteEndStays
<1>10. CASE ~(EString(s, i) /\ first.closed)
  <2> HIDE DEF first
  <2> QED
    BY <1>2, <1>3, <1>9, <1>10 DEF E
<1>11. CASE EString(s, i) /\ first.closed
  <2> DEFINE P == {j \in Positions : i <= j /\ ms[j] = E => mw[j] = E}
  <2>1. ASSUME NEW j \in Positions, j > n PROVE j \in P
    <3>1. ~(j <= Len(s)) /\ ~(j <= Len(w))
      <4>1. j \in Nat
        BY DEF Positions
      <4> QED
        BY <1>1, <2>1, <4>1 DEF n
    <3>2. ~GoesOn(s, j) /\ ~GoesOn(w, j)
      BY <3>1, NextSegmentFacts
    <3>3. ms[j] = j /\ mw[j] = j
      BY <1>2, <1>3, <3>2 DEF IsStringScan
    <3> QED
      BY <3>3
  <2>2. ASSUME NEW j \in Positions, j <= n, \A k \in Positions : k > j => k \in P PROVE j \in P
    <3> SUFFICES ASSUME i <= j, ms[j] = E PROVE mw[j] = E
      OBVIOUS
    <3>1. CASE ~GoesOn(s, j)
      <4>1. j = E
        BY <1>2, <3>1 DEF IsStringScan
      <4>2. ~GoesOn(w, j)
        BY <1>6, <3>1, <4>1
      <4>3. mw[j] = j
        BY <1>3, <4>2 DEF IsStringScan
      <4> QED
        BY <4>1, <4>3
    <3>2. CASE GoesOn(s, j)
      <4> DEFINE c == Continuation(s, j)
                 seg == NextSegment(s, j)
                 f == seg.end
      <4>1. c \in Positions /\ c >= j /\ f \in Positions /\ f > c /\ f > j /\ j <= Len(s) /\ c # 0
            /\ c <= Len(s) /\ s[c] = "quote" /\ seg = QuoteEnd(s, c, "quote", TRUE)
        BY <3>2, NextSegmentFacts DEF GoesOn, NextSegment
      <4>2. ms[j] = IF seg.closed THEN ms[f] ELSE f
        BY <1>2, <3>2 DEF IsStringScan
      <4>3. f <= E
        <5> HIDE DEF seg, c, f
        <5>1. ms[f] \in Positions /\ ms[f] >= f
          BY <1>7, <4>1
        <5>2. f \in Nat /\ E \in Nat
          BY <1>5, <4>1 DEF Positions
        <5>3. CASE seg.closed
          BY <4>2, <5>1, <5>2, <5>3
        <5>4. CASE ~seg.closed
          BY <4>2, <5>2, <5>4
        <5> QED
          BY <5>3, <5>4
      <4>4. i <= c /\ c <= f /\ i <= f /\ c < E
        <5> HIDE DEF seg, c, f
        <5> QED
          BY <1>1, <1>5, <4>1, <4>3 DEF Positions
      <4>5. \A p \in Positions : j <= p /\ p <= c /\ p <= Len(s) => w[p] = s[p]
        <5> HIDE DEF seg, c, f
        <5>1. \A p \in Positions : j <= p /\ p <= c => i <= p /\ p < E
          BY <1>1, <1>5, <4>1, <4>4 DEF Positions
        <5> QED
          BY <1>6, <5>1 DEF SameUntil
      <4>6. Continuation(w, j) = c
        <5>1. j <= Len(s) + 1
          BY <4>1 DEF Positions
        <5> QED
          BY <4>1, <4>5, <5>1, ContinuationInside
      <4> HIDE DEF c
      <4>7. w[c] = s[c]
        <5>1. j <= c
          BY <4>1 DEF Positions
        <5>2. c <= c
          BY <4>1 DEF Positions
        <5> QED
          BY <4>1, <4>5, <5>1, <5>2
      <4>8. GoesOn(w, j)
        BY <1>1, <4>1, <4>6, <4>7 DEF GoesOn, n
      <4>9. SameUntil(w, s, c, f)
        <5> HIDE DEF seg, f
        <5> QED
          BY <1>5, <1>6, <4>1, <4>3, <4>4, SameUntilWithin
      <4>10. QuoteEnd(w, c, "quote", TRUE) = QuoteEnd(s, c, "quote", TRUE)
        <5>1. c \in Positions /\ c <= Len(s) /\ "quote" # Blank
          BY <4>1, BlankAtom
        <5>2. SameUntil(w, s, c, QuoteEnd(s, c, "quote", TRUE).end)
          BY <4>1, <4>9
        <5> DEFINE quote == "quote"
                   yes == TRUE
        <5>3. /\ quote # Blank
              /\ SameUntil(w, s, c, QuoteEnd(s, c, quote, yes).end)
          BY <5>1, <5>2
        <5> HIDE DEF seg, quote, yes, P
        <5>4. QuoteEnd(w, c, quote, yes) = QuoteEnd(s, c, quote, yes)
          BY <5>1, <5>3, QuoteEndStays
        <5> QED
          BY <5>4 DEF quote, yes
      <4>11. NextSegment(w, j) = seg
        BY <4>1, <4>6, <4>10 DEF NextSegment
      <4> HIDE DEF seg
      <4>12. mw[j] = IF seg.closed THEN mw[f] ELSE f
        BY <1>3, <4>8, <4>11 DEF IsStringScan
      <4>13. f \in P
        <5> HIDE DEF P, f
        <5> QED
          BY <2>2, <4>1
      <4>14. seg.closed => mw[f] = E
        BY <4>2, <4>4, <4>13
      <4> QED
        BY <4>2, <4>12, <4>14
    <3> QED
      BY <3>1, <3>2
  <2>3. Positions \subseteq P
    <3> HIDE DEF P
    <3> QED
      BY <1>1, <2>1, <2>2, FromTheEnd
  <2>4. ms[e1] = E
    BY <1>2, <1>11
  <2>5. mw[e1] = E
    <3> HIDE DEF e1
    <3> QED
      BY <1>4, <1>8, <2>3, <2>4
  <2>6. StringEnd(w, i) = mw[e1]
    BY <1>3, <1>9, <1>11
  <2> QED
    BY <2>5, <2>6 DEF E
<1> QED
  BY <1>10, <1>11

LEMMA DollarEndBeyondTag ==
  ASSUME NEW X, NEW s \in Seq(X), NEW i \in Positions, i <= Len(s), Tagged(s, i)
  PROVE  DollarEnd(s, i) > FirstOf(s, i + 1, {"$"})
<1> DEFINE close == FirstOf(s, i + 1, {"$"})
           n == DollarTag(s, i)
           closings == {j \in (i + n)..(Len(s) - n + 1) :
                          SubSeq(s, j, j + n - 1) = SubSeq(s, i, i + n - 1)}
<1>1. close \in Positions /\ close >= i + 1 /\ close <= Len(s) + 1 /\ n = close - i + 1
  BY DollarTagFacts
<1>2. close <= Len(s)
  BY DEF Tagged
<1>3. DollarEnd(s, i) = IF closings = {} THEN Len(s) + 1 ELSE Min(closings) + n
  BY DEF DollarEnd
<1> HIDE DEF close, n
<1>4. close \in Nat /\ i \in Nat /\ Len(s) \in Nat /\ n \in Nat /\ n > 1 /\ i + n = close + 1
  BY <1>1 DEF Positions
<1>5. CASE closings = {}
  BY <1>2, <1>3, <1>4, <1>5 DEF close
<1>6. CASE closings # {}
  <2>1. closings \in SUBSET Nat
    BY <1>4
  <2>2. Min(closings) \in closings
    BY <1>6, <2>1, LeastIsMin
  <2> DEFINE b == Min(closings)
  <2>3. b \in (i + n)..(Len(s) - n + 1) /\ DollarEnd(s, i) = b + n
    BY <1>3, <1>6, <2>2
  <2> HIDE DEF b
  <2>4. DollarEnd(s, i) > close
    BY <1>4, <2>3
  <2> QED
    BY <2>4 DEF close
<1> QED
  BY <1>5, <1>6

(* What SpanAt finds, case by case.                                        *)
LEMMA SpanForms ==
  ASSUME NEW s, NEW i
  PROVE  /\ s[i] = "$" /\ DollarTag(s, i) > 0 => SpanAt(s, i) = Span(i, DollarEnd(s, i), "string")
         /\ s[i] = "quote" => SpanAt(s, i) = Span(i, StringEnd(s, i), "string")
         /\ s[i] \in {"dquote", "backtick"} =>
              SpanAt(s, i) = Span(i, QuoteEnd(s, i, s[i], FALSE).end, "identifier")
         /\ s[i] = "--" => SpanAt(s, i) = Span(i, LineEnd(s, i), "comment")
         /\ s[i] = "/*" => SpanAt(s, i) = Span(i, BlockEnd(s, i), "comment")
         /\ IdentifierChar(s[i]) /\ s[i] # "$" => SpanAt(s, i) = Span(i, WordEnd(s, i), "word")
         /\ s[i] = "$" /\ DollarTag(s, i) = 0 => SpanAt(s, i) = Span(i, WordEnd(s, i), "word")
         /\ ~IdentifierChar(s[i]) /\ s[i] \notin {"--", "/*", "quote", "dquote", "backtick"} =>
              SpanAt(s, i) = Span(i, i + 1, "punctuation")
<1>1. IdentifierChar(s[i]) => s[i] \notin {"--", "/*", "quote", "dquote", "backtick"}
  BY DEF IdentifierChar, Quotes
<1>2. s[i] = "$" => IdentifierChar(s[i])
  BY DEF IdentifierChar, Spaces, Quotes, Symbols
<1>3. CASE s[i] = "$"
  BY <1>1, <1>2, <1>3 DEF SpanAt
<1>4. CASE s[i] # "$" /\ IdentifierChar(s[i])
  BY <1>1, <1>4 DEF SpanAt
<1>5. CASE ~IdentifierChar(s[i])
  BY <1>2, <1>5 DEF SpanAt
<1> QED
  BY <1>3, <1>4, <1>5

(* A token of s is a token of w, where it was.                             *)
LEMMA SpanStays ==
  ASSUME NEW X, NEW s \in Seq(X), NEW w \in Seq(X), Blanked(w, s),
         NEW i \in Positions, i <= Len(s), s[i] \notin Spaces, Boundary(s, i),
         SpanAt(s, i).kind # "comment", s[i] = "quote" => NoBlockFrom(s, i)
  PROVE  w[i] = s[i] /\ SpanAt(w, i) = SpanAt(s, i)
<1> DEFINE t == SpanAt(s, i)
           e == t.end
           n == Len(s)
<1>1. n \in Nat /\ Len(w) = n /\ i \in Nat /\ SameBreaks(w, s) /\ i <= Len(w)
  BY BlankedBreaks DEF Positions, SameBreaks
<1>2. t \in SpanSet /\ t.start = i /\ e \in Positions /\ e > i /\ e <= n + 1
  BY SpanAtFacts DEF SpanSet
<1>3. ASSUME NEW p \in Positions, i <= p, p < e PROVE ~Commented(s, p) /\ w[p] = s[p]
  <2>1. Inside(p, t)
    BY <1>2, <1>3 DEF Inside
  <2>2. ~Commented(s, p)
    BY <2>1, CommentedWithin
  <2>3. p <= Len(s)
    <3> HIDE DEF e
    <3> QED
      BY <1>1, <1>2, <1>3 DEF Positions
  <2> HIDE DEF e, t
  <2> QED
    BY <2>2, <2>3, BlankedFacts
<1>4. ~Commented(s, i) /\ w[i] = s[i]
  <2>1. i <= i /\ i < e
    <3> HIDE DEF e
    <3> QED
      BY <1>1, <1>2 DEF Positions
  <2> QED
    BY <1>3, <2>1
<1>5. SameUntil(w, s, i, e)
  <2>1. e <= Len(s) => w[e] \in {s[e], Blank}
    <3> HIDE DEF e
    <3> QED
      BY <1>2, BlankedFacts
  <2> HIDE DEF e
  <2> QED
    BY <1>1, <1>3, <2>1 DEF SameUntil
<1>6. SameLeft(w, s, i)
  <2>1. s[i] # "\n"
    BY BlankAtom
  <2> QED
    BY <1>4, <2>1, LeftStays
<1>7. Boundary(s, e)
  <2>1. Following(s, i) = e
    BY DEF Following
  <2> QED
    BY <2>1, FollowingIsBoundary
<1>8. \A E, k : Span(i, E, k).end = E
  BY DEF Span
<1>9. CASE s[i] = "$"
  <2>1. Tagged(s, i) => \A p \in Positions : i <= p /\ p <= FirstOf(s, i + 1, {"$"}) =>
                          w[p] = s[p]
    <3> SUFFICES ASSUME Tagged(s, i), NEW p \in Positions,
                        i <= p, p <= FirstOf(s, i + 1, {"$"})
                 PROVE  w[p] = s[p]
      OBVIOUS
    <3> DEFINE close == FirstOf(s, i + 1, {"$"})
    <3>1. DollarTag(s, i) > 0 /\ close \in Positions
      BY DollarTagFacts
    <3>2. e = DollarEnd(s, i)
      <4>1. t = Span(i, DollarEnd(s, i), "string")
        <5> HIDE DEF close
        <5> QED
          BY <1>9, <3>1, SpanForms
      <4> QED
        BY <1>8, <4>1
    <3>3. e > close
      BY <3>2, DollarEndBeyondTag
    <3>4. p <= close
      OBVIOUS
    <3> HIDE DEF e, close
    <3>5. p < e
      BY <1>2, <3>1, <3>3, <3>4 DEF Positions
    <3> QED
      BY <1>3, <3>5
  <2>2. \A p \in Positions : p <= Len(s) => w[p] \in {s[p], Blank}
    BY BlankedFacts
  <2>3. DollarTag(w, i) = DollarTag(s, i)
    <3> HIDE DEF e, t, n
    <3> QED
      BY <1>1, <1>6, <2>1, <2>2, TagStays DEF n
  <2>4. CASE DollarTag(s, i) > 0
    <3>1. t = Span(i, DollarEnd(s, i), "string")
          /\ SpanAt(w, i) = Span(i, DollarEnd(w, i), "string")
      BY <1>4, <1>9, <2>3, <2>4, SpanForms
    <3>2. SameUntil(w, s, i, DollarEnd(s, i))
      BY <1>5, <1>8, <3>1
    <3>3. DollarEnd(w, i) = DollarEnd(s, i)
      BY <2>3, <2>4, <3>2, DollarEndStays
    <3> QED
      BY <1>4, <3>1, <3>3
  <2>5. CASE DollarTag(s, i) = 0
    <3>1. t = Span(i, WordEnd(s, i), "word") /\ SpanAt(w, i) = Span(i, WordEnd(w, i), "word")
      BY <1>4, <1>9, <2>3, <2>5, SpanForms
    <3>2. SameUntil(w, s, i, WordEnd(s, i))
      BY <1>5, <1>8, <3>1
    <3>3. IdentifierChar(s[i])
      BY <1>9 DEF IdentifierChar, Spaces, Quotes, Symbols
    <3>4. WordEnd(w, i) = WordEnd(s, i)
      BY <3>2, <3>3, WordEndStays
    <3> QED
      BY <1>4, <3>1, <3>4
  <2>6. DollarTag(s, i) > 0 \/ DollarTag(s, i) = 0
    BY DollarTagFacts
  <2> QED
    BY <2>4, <2>5, <2>6
<1>10. CASE s[i] = "quote"
  <2>1. t = Span(i, StringEnd(s, i), "string") /\ SpanAt(w, i) = Span(i, StringEnd(w, i), "string")
    BY <1>4, <1>10, SpanForms
  <2>2. SameUntil(w, s, i, StringEnd(s, i)) /\ e = StringEnd(s, i)
    BY <1>5, <1>8, <2>1
  <2>3. EString(w, i) = EString(s, i)
    BY <1>4, <1>10, EStringStays
  <2>4. GoesOn(w, e) <=> GoesOn(s, e)
    <3>1. NoBlockFrom(s, e)
      <4> HIDE DEF e
      <4>1. \A p \in Positions : e <= p => i <= p
        BY <1>1, <1>2 DEF Positions
      <4>2. NoBlockFrom(s, i)
        BY <1>10
      <4> QED
        BY <4>1, <4>2 DEF NoBlockFrom
    <3> HIDE DEF e
    <3> QED
      BY <1>2, <1>7, <3>1, ContinuationBeyond
  <2>5. StringEnd(w, i) = StringEnd(s, i)
    <3>1. GoesOn(w, StringEnd(s, i)) <=> GoesOn(s, StringEnd(s, i))
      BY <2>2, <2>4
    <3> HIDE DEF e, t, n
    <3> QED
      BY <1>1, <2>2, <2>3, <3>1, StringEndStays
  <2> QED
    BY <1>4, <2>1, <2>5
<1>11. CASE s[i] \in {"dquote", "backtick"}
  <2> DEFINE q == s[i]
             no == FALSE
  <2>1. t = Span(i, QuoteEnd(s, i, q, no).end, "identifier")
        /\ SpanAt(w, i) = Span(i, QuoteEnd(w, i, q, no).end, "identifier")
    BY <1>4, <1>11, SpanForms
  <2>2. SameUntil(w, s, i, QuoteEnd(s, i, q, no).end)
    BY <1>5, <1>8, <2>1
  <2>3. q # Blank
    BY <1>11, BlankAtom
  <2>4. QuoteEnd(w, i, q, no) = QuoteEnd(s, i, q, no)
    <3> HIDE DEF q, no, e, t, n
    <3> QED
      BY <2>2, <2>3, QuoteEndStays
  <2> HIDE DEF q, no
  <2> QED
    BY <1>4, <2>1, <2>4
<1>12. CASE IdentifierChar(s[i]) /\ s[i] # "$"
  <2>1. t = Span(i, WordEnd(s, i), "word") /\ SpanAt(w, i) = Span(i, WordEnd(w, i), "word")
    BY <1>4, <1>12, SpanForms
  <2>2. SameUntil(w, s, i, WordEnd(s, i))
    BY <1>5, <1>8, <2>1
  <2>3. WordEnd(w, i) = WordEnd(s, i)
    BY <1>12, <2>2, WordEndStays
  <2> QED
    BY <1>4, <2>1, <2>3
<1>13. CASE ~IdentifierChar(s[i]) /\ s[i] \notin {"--", "/*", "quote", "dquote", "backtick"}
  BY <1>4, <1>13, SpanForms
<1>14. s[i] \notin {"--", "/*"}
  <2>1. \A E : Span(i, E, "comment").kind = "comment"
    BY DEF Span
  <2> QED
    BY <2>1, SpanForms
<1> QED
  BY <1>9, <1>10, <1>11, <1>12, <1>13, <1>14

(* A scan passes over blanks.                                              *)
LEMMA BlanksArePassed ==
  ASSUME NEW X, NEW w \in Seq(X), NEW rw, IsScan(rw, w, FALSE),
         NEW i \in Positions, NEW e \in Positions, i <= e, e <= Len(w) + 1,
         \A p \in Positions : i <= p /\ p < e => w[p] \in Spaces
  PROVE  rw[i] = rw[e]
<1> DEFINE n == Len(w)
           P == {k \in Positions : i <= k /\ k <= e => rw[k] = rw[e]}
<1>1. n \in Nat /\ i \in Nat /\ e \in Nat
  BY DEF Positions
<1>2. ASSUME NEW k \in Positions, k > n PROVE k \in P
  <2>1. k <= e => k = e
    BY <1>1, <1>2 DEF Positions
  <2> QED
    BY <2>1
<1>3. ASSUME NEW k \in Positions, k <= n, \A j \in Positions : j > k => j \in P PROVE k \in P
  <2> SUFFICES ASSUME i <= k, k <= e, k # e PROVE rw[k] = rw[e]
    OBVIOUS
  <2>1. k \in Nat /\ ~(k > Len(w)) /\ k < e /\ k + 1 \in Positions /\ k + 1 > k
        /\ i <= k + 1 /\ k + 1 <= e
    BY <1>1, <1>3 DEF Positions
  <2>2. w[k] \in Spaces
    BY <2>1
  <2>3. Yield(w, k, FALSE) = <<>> /\ Following(w, k) = k + 1
    BY <2>2 DEF Yield, Following
  <2>4. rw[k] = <<>> \o rw[k + 1]
    BY <2>1, <2>3 DEF IsScan
  <2>5. rw[k + 1] \in Seq(Found(FALSE))
    BY <2>1, ScanTypes
  <2>6. <<>> \o rw[k + 1] = rw[k + 1]
    BY <2>5
  <2>7. rw[k + 1] = rw[e]
    BY <1>3, <2>1
  <2> QED
    BY <2>4, <2>6, <2>7
<1>4. Positions \subseteq P
  <2> HIDE DEF P
  <2> QED
    BY <1>1, <1>2, <1>3, FromTheEnd
<1> QED
  BY <1>1, <1>4

LEMMA SpansStay ==
  ASSUME NEW X, NEW s \in Seq(X), NEW w \in Seq(X), Blanked(w, s),
         \A i \in Positions : i <= Len(s) /\ s[i] = "quote" => NoBlockFrom(s, i)
  PROVE  Spans(w) = Spans(s)
<1>1. PICK rs : IsScan(rs, s, FALSE) /\ TokenSpans(s, FALSE) = rs[1]
  BY TokenSpansScan
<1>2. PICK rw : IsScan(rw, w, FALSE) /\ TokenSpans(w, FALSE) = rw[1]
  BY TokenSpansScan
<1> DEFINE n == Len(s)
           P == {i \in Positions : Boundary(s, i) => rw[i] = rs[i]}
<1>3. n \in Nat /\ Len(w) = n
  BY DEF Blanked
<1>4. ASSUME NEW i \in Positions, i > n PROVE i \in P
  BY <1>1, <1>2, <1>3, <1>4 DEF IsScan
<1>5. ASSUME NEW i \in Positions, i <= n, \A j \in Positions : j > i => j \in P PROVE i \in P
  <2> SUFFICES ASSUME Boundary(s, i) PROVE rw[i] = rs[i]
    OBVIOUS
  <2> DEFINE f == Following(s, i)
  <2>1. ~(i > Len(s)) /\ ~(i > Len(w)) /\ i \in Nat
    BY <1>3, <1>5 DEF Positions
  <2>2. rs[i] = Yield(s, i, FALSE) \o rs[f]
    BY <1>1, <2>1 DEF IsScan
  <2>3. f \in Positions /\ f > i /\ f <= n + 1 /\ Boundary(s, f)
    BY <1>5, FollowingFacts, FollowingIsBoundary
  <2>4. rw[f] = rs[f] /\ rs[f] \in Seq(Found(FALSE))
    <3> HIDE DEF f
    <3>1. rs[f] \in Seq(Found(FALSE))
      BY <1>1, <2>3, ScanTypes
    <3> QED
      BY <1>5, <2>3, <3>1
  <2>5. <<>> \o rs[f] = rs[f]
    BY <2>4
  <2>6. ASSUME Yield(s, i, FALSE) = <<>>,
               \A p \in Positions : i <= p /\ p < f => w[p] \in Spaces
        PROVE  rw[i] = rs[i]
    <3>1. rs[i] = rs[f]
      BY <2>2, <2>5, <2>6
    <3>2. rw[i] = rw[f]
      <4> HIDE DEF f
      <4>1. i <= f /\ f <= Len(w) + 1
        BY <1>3, <2>1, <2>3 DEF Positions
      <4>2. f \in Positions /\ \A p \in Positions : i <= p /\ p < f => w[p] \in Spaces
        BY <2>3, <2>6
      <4>3. IsScan(rw, w, FALSE) /\ w \in Seq(X) /\ i \in Positions
        BY <1>2
      <4> HIDE DEF P, n
      <4> QED
        BY <4>1, <4>2, <4>3, BlanksArePassed, Zenon
    <3> QED
      BY <2>4, <3>1, <3>2
  <2>7. CASE s[i] \in Spaces
    <3>1. f = i + 1 /\ Yield(s, i, FALSE) = <<>>
      BY <2>7 DEF Following, Yield
    <3>2. w[i] \in Spaces
      BY <1>5, <2>7, BlankedFacts, BlankAtom
    <3>3. \A p \in Positions : i <= p /\ p < i + 1 => p = i
      BY <2>1 DEF Positions
    <3> HIDE DEF f
    <3> QED
      BY <2>6, <3>1, <3>2, <3>3
  <2> DEFINE t == SpanAt(s, i)
  <2>8. CASE s[i] \notin Spaces /\ t.kind = "comment"
    <3>1. f = t.end /\ Yield(s, i, FALSE) = <<>>
      BY <2>8 DEF Following, Yield
    <3>2. t.start = i
      BY <1>5, SpanAtFacts
    <3>3. ASSUME NEW p \in Positions, i <= p, p < f PROVE w[p] \in Spaces
      <4>1. Inside(p, t)
        BY <3>1, <3>2, <3>3 DEF Inside
      <4>2. Commented(s, p)
        BY <1>5, <2>8, <4>1, CommentedWithin
      <4>3. p <= Len(s)
        <5> HIDE DEF f
        <5> QED
          BY <1>3, <2>3, <3>3 DEF Positions
      <4> QED
        BY <4>2, <4>3, BlankedFacts
    <3> HIDE DEF f, t
    <3> QED
      BY <2>6, <3>1, <3>3
  <2>9. CASE s[i] \notin Spaces /\ t.kind # "comment"
    <3>1. w[i] = s[i] /\ SpanAt(w, i) = SpanAt(s, i)
      BY <1>5, <2>9, SpanStays
    <3>2. Yield(w, i, FALSE) = Yield(s, i, FALSE) /\ Following(w, i) = f
      BY <3>1 DEF Yield, Following
    <3>3. rw[i] = Yield(w, i, FALSE) \o rw[Following(w, i)]
      BY <1>2, <2>1 DEF IsScan
    <3> HIDE DEF f, t
    <3> QED
      BY <2>2, <2>4, <3>2, <3>3
  <2> HIDE DEF t, f
  <2> QED
    BY <2>7, <2>8, <2>9
<1>6. Positions \subseteq P
  <2> HIDE DEF P
  <2> QED
    BY <1>3, <1>4, <1>5, FromTheEnd
<1>7. 1 \in Positions
  BY DEF Positions
<1>8. Boundary(s, 1)
  <2> DEFINE spans == SpansAndComments(s)
  <2>1. spans \in Seq(SpanSet)
    BY SpansStartInText
  <2> HIDE DEF spans
  <2>2. \A k \in DOMAIN spans : ~(spans[k].start < 1)
    <3> TAKE k \in DOMAIN spans
    <3>1. spans[k] \in SpanSet
      BY <2>1
    <3> QED
      BY <3>1 DEF SpanSet, Positions
  <2> QED
    BY <2>2 DEF Boundary, spans
<1>9. rw[1] = rs[1]
  BY <1>6, <1>7, <1>8
<1> QED
  BY <1>1, <1>2, <1>9 DEF Spans

(* Blanking the comments of a statement (_sql_without_comments) takes no   *)
(* token away, adds none and moves none, whatever quotes and comments the  *)
(* text opens and leaves open, but for a block comment behind a string:    *)
(* what the passes cut out of the blanked text lies at the same place in   *)
(* the statement itself.                                                   *)
THEOREM CommentsStayBlank == Spec => []CommentsBlanked
<1>1. (Scanned => text \in Texts) => CommentsBlanked
  <2> SUFFICES ASSUME text \in Texts, ~CommentBehindString(text)
               PROVE  Spans(WithoutComments(text)) = Spans(text)
    BY DEF CommentsBlanked
  <2> DEFINE A == Atoms \cup {"Stmt", "Script", "Type"}
             X == A \cup {Blank}
             w == WithoutComments(text)
  <2>1. text \in Seq(X)
    <3>1. text \in Seq(A) /\ A \subseteq X
      BY DEF Texts
    <3> HIDE DEF A, X
    <3>2. text \in [1..Len(text) -> X] /\ Len(text) \in Nat
      BY <3>1
    <3> QED
      BY <3>2
  <2>2. Blank \in X
    OBVIOUS
  <2> HIDE DEF X
  <2>3. w \in Seq(X) /\ Blanked(w, text)
    BY <2>1, <2>2, WithoutCommentsBlanks
  <2>4. ASSUME NEW i \in Positions, i <= Len(text), text[i] = "quote",
               NEW j \in Positions, i <= j, j <= Len(text)
        PROVE  text[j] # "/*"
    <3>1. i \in Nat /\ j \in Nat /\ Len(text) \in Nat /\ i >= 1
      BY <2>1 DEF Positions
    <3>2. i \in 1..Len(text) /\ j \in i..Len(text)
      BY <2>4, <3>1
    <3> QED
      BY <2>4, <3>2 DEF CommentBehindString
  <2>5. \A i \in Positions : i <= Len(text) /\ text[i] = "quote" => NoBlockFrom(text, i)
    BY <2>4 DEF NoBlockFrom
  <2> HIDE DEF w
  <2>6. Spans(w) = Spans(text)
    BY <2>1, <2>3, <2>5, SpansStay
  <2> QED
    BY <2>6 DEF w
<1> QED
  BY <1>1, ScannedIsText, PTL

(* The three together (TokensStand): where the tokens of a text lie, and   *)
(* so what is a string, an identifier or a comment, depends neither on the *)
(* scanner nor on whether comments were blanked before it looks.           *)
THEOREM TokensAlwaysStand == Spec => []TokensStand
  BY ScannersAlwaysAgree, NoTextIsLost, CommentsStayBlank, PTL DEF TokensStand
=============================================================================
