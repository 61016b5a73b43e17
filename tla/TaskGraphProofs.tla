-------------------------- MODULE TaskGraphProofs --------------------------
(***************************************************************************)
(* The verdict of _task_graph_error is right for every task list, of any   *)
(* length and over any finite set of keys.  The peeling loop is proved     *)
(* from an invariant that says what has been peeled so far (Popped), that  *)
(* the remaining dependencies are the original ones minus the peeled ones, *)
(* and that the peeled part is free of cycles.                             *)
(***************************************************************************)
EXTENDS TaskGraph, FiniteSetTheorems, TLAPS

-----------------------------------------------------------------------------
(* Facts about task lists                                                  *)

LEMMA TaskListFacts ==
  ASSUME NEW ts \in TaskLists
  PROVE  /\ Len(ts) \in 0..MaxTasks
         /\ DOMAIN ts = 1..Len(ts)
         /\ \A i \in DOMAIN ts : ts[i].key \in Key /\ ts[i].deps \subseteq Key
         /\ Keys(ts) \subseteq Key
         /\ DOMAIN DependsOn(ts) = Keys(ts)
         /\ \A k \in Keys(ts) : DependsOn(ts)[k] \subseteq Key
  <1>1. PICK n \in 0..MaxTasks : ts \in [1..n -> TaskRec]
    BY DEF TaskLists
  <1>2. n \in Nat
    BY MaxTasksAssumption
  <1>3. Len(ts) = n /\ DOMAIN ts = 1..n
    BY <1>1, <1>2
  <1>4. \A i \in DOMAIN ts : ts[i].key \in Key /\ ts[i].deps \subseteq Key
    BY <1>1, <1>3 DEF TaskRec
  <1> QED
    BY <1>3, <1>4 DEF Keys, DependsOn

\* With known dependencies a task only waits for tasks of the list.
LEMMA KnownDepsFact ==
  ASSUME NEW ts \in TaskLists, KnownDeps(ts)
  PROVE  \A k \in Keys(ts) : DependsOn(ts)[k] \subseteq Keys(ts)
  BY DEF KnownDeps, DependsOn, Keys

LEMMA KeysFinite ==
  ASSUME NEW ts \in TaskLists
  PROVE  IsFiniteSet(Keys(ts))
  BY TaskListFacts, KeyAssumption, FS_Subset

\* len(tasks) counts the keys when no key is repeated.
LEMMA KeysCounted ==
  ASSUME NEW ts \in TaskLists, UniqueKeys(ts)
  PROVE  Cardinality(Keys(ts)) = Len(ts)
  <1> DEFINE f == [i \in 1..Len(ts) |-> ts[i].key]
  <1>1. Len(ts) \in Nat /\ DOMAIN ts = 1..Len(ts)
    BY TaskListFacts, MaxTasksAssumption
  <1>2. f \in Bijection(1..Len(ts), Keys(ts))
    BY <1>1 DEF Bijection, Injection, IsInjective, Surjection, Keys, UniqueKeys
  <1>3. ExistsBijection(1..Len(ts), Keys(ts))
    BY <1>2 DEF ExistsBijection
  <1> QED
    BY <1>1, <1>3, FS_CountingElements

-----------------------------------------------------------------------------
(* The inductive invariant                                                 *)

\* The keys popped from the queue so far.
Popped == {k \in Keys(tasks) : remaining[k] = {} /\ k \notin ready}

PeelInv ==
  /\ DOMAIN remaining = Keys(tasks)
  /\ ready \subseteq Keys(tasks)
  /\ \A k \in ready : remaining[k] = {}
  /\ \A k \in Keys(tasks) : remaining[k] = DependsOn(tasks)[k] \ Popped
  /\ visited = Cardinality(Popped)
  /\ \A S \in SUBSET Popped : S # {} => \E k \in S : DependsOn(tasks)[k] \cap S = {}

IInv ==
  /\ TypeOK
  /\ pc \in {"keys", "deps", "peel"} => error = "none"
  /\ pc \in {"keys", "deps"} => visited = 0
  /\ pc \in {"deps", "peel"} => UniqueKeys(tasks)
  /\ pc = "peel" => KnownDeps(tasks) /\ PeelInv
  /\ VerdictCorrect

-----------------------------------------------------------------------------
LEMMA InitIInv == Init => IInv
  BY DEF Init, IInv, TypeOK, VerdictCorrect

LEMMA CheckKeysIInv == IInv /\ CheckKeys => IInv'
  BY DEF CheckKeys, IInv, TypeOK, VerdictCorrect, Return

LEMMA CheckDepsIInv == IInv /\ CheckDeps => IInv'
  <1> SUFFICES ASSUME IInv, CheckDeps PROVE IInv'
    OBVIOUS
  <1> USE DEF IInv, CheckDeps
  <1>1. CASE ~KnownDeps(tasks)
    BY <1>1 DEF TypeOK, VerdictCorrect, Return
  <1>2. CASE KnownDeps(tasks)
    <2>1. /\ tasks' = tasks /\ pc = "deps" /\ pc' = "peel" /\ visited' = 0 /\ error' = "none"
          /\ remaining' = DependsOn(tasks)
          /\ ready' = {k \in Keys(tasks) : DependsOn(tasks)[k] = {}}
          /\ tasks \in TaskLists
          /\ UniqueKeys(tasks)
      BY <1>2 DEF TypeOK
    <2>2. TypeOK'
      BY <2>1, TaskListFacts DEF TypeOK
    <2>3. Popped' = {}
      BY <2>1 DEF Popped
    <2>4. PeelInv'
      BY <2>1, <2>3, TaskListFacts, FS_EmptySet DEF PeelInv
    <2> QED
      BY <2>1, <2>2, <2>4, <1>2 DEF VerdictCorrect
  <1> QED
    BY <1>1, <1>2

\* A turn of the while loop pops one key, and pops it for the first time.
LEMMA PeelPops ==
  ASSUME IInv, NEW k \in Key, Peel(k)
  PROVE  /\ k \in Keys(tasks) /\ k \notin Popped
         /\ DependsOn(tasks)[k] \subseteq Popped /\ k \notin DependsOn(tasks)[k]
         /\ DOMAIN remaining' = Keys(tasks)
         /\ \A d \in Keys(tasks) : remaining'[d] = remaining[d] \ {k}
         /\ ready' = (ready \ {k})
                       \cup {d \in Keys(tasks) : k \in DependsOn(tasks)[d] /\ remaining'[d] = {}}
         /\ Popped' = Popped \cup {k}
  <1> DEFINE deps == DependsOn(tasks)
  <1>1. /\ tasks' = tasks /\ tasks \in TaskLists /\ KnownDeps(tasks) /\ PeelInv
        /\ k \in ready /\ k \in Keys(tasks)
    BY DEF IInv, TypeOK, Peel, PeelInv
  <1>3. k \notin Popped /\ deps[k] \subseteq Popped /\ k \notin deps[k]
    BY <1>1 DEF PeelInv, Popped
  <1>4. DOMAIN remaining' = Keys(tasks)
    BY <1>1 DEF Peel, PeelInv
  <1>5. \A d \in Keys(tasks) : remaining'[d] = remaining[d] \ {k}
    BY <1>1 DEF Peel, PeelInv, Dependents
  <1>6. ready' = (ready \ {k}) \cup {d \in Keys(tasks) : k \in deps[d] /\ remaining'[d] = {}}
    BY <1>1 DEF Peel, Dependents
  <1>7. Popped' = Popped \cup {k}
    <2>1. \A x \in Keys(tasks) : x \in Popped' <=> remaining'[x] = {} /\ x \notin ready'
      BY <1>1 DEF Popped
    <2>2. Popped' \subseteq Keys(tasks) /\ Popped \subseteq Keys(tasks)
      BY <1>1 DEF Popped
    <2>3. k \in Popped'
      BY <2>1, <1>1, <1>3, <1>5, <1>6 DEF PeelInv
    <2>4. ASSUME NEW x \in Keys(tasks), x # k
          PROVE  x \in Popped' <=> x \in Popped
      <3>1. CASE k \in deps[x]
        BY <3>1, <2>1, <2>4, <1>1, <1>3, <1>5, <1>6 DEF PeelInv, Popped
      <3>2. CASE k \notin deps[x]
        BY <3>2, <2>1, <2>4, <1>1, <1>5, <1>6 DEF PeelInv, Popped
      <3> QED BY <3>1, <3>2
    <2> QED
      BY <2>2, <2>3, <2>4
  <1> QED
    BY <1>1, <1>3, <1>4, <1>5, <1>6, <1>7

LEMMA PeelIInv == ASSUME NEW k \in Key PROVE IInv /\ Peel(k) => IInv'
  <1> SUFFICES ASSUME IInv, Peel(k) PROVE IInv'
    OBVIOUS
  <1> DEFINE deps == DependsOn(tasks)
  <1>1. /\ tasks' = tasks /\ pc = "peel" /\ pc' = "peel" /\ error = "none" /\ error' = "none"
        /\ tasks \in TaskLists /\ visited \in Nat
        /\ UniqueKeys(tasks) /\ KnownDeps(tasks) /\ PeelInv
        /\ visited' = visited + 1
    BY DEF IInv, TypeOK, Peel, PeelInv
  <1>3. k \notin Popped /\ deps[k] \subseteq Popped /\ k \notin deps[k]
    BY PeelPops
  <1>4. DOMAIN remaining' = Keys(tasks)
    BY PeelPops
  <1>5. \A d \in Keys(tasks) : remaining'[d] = remaining[d] \ {k}
    BY PeelPops
  <1>6. ready' = (ready \ {k}) \cup {d \in Keys(tasks) : k \in deps[d] /\ remaining'[d] = {}}
    BY PeelPops
  <1>7. Popped' = Popped \cup {k}
    BY PeelPops
  <1>8. PeelInv'
    <2>1. ready' \subseteq Keys(tasks) /\ \A d \in ready' : remaining'[d] = {}
      BY <1>1, <1>5, <1>6 DEF PeelInv
    <2>2. \A d \in Keys(tasks) : remaining'[d] = deps[d] \ Popped'
      BY <1>1, <1>5, <1>7 DEF PeelInv
    <2>3. visited' = Cardinality(Popped')
      <3>1. IsFiniteSet(Popped)
        BY <1>1, KeysFinite, FS_Subset DEF Popped
      <3> QED
        BY <3>1, <1>1, <1>3, <1>7, FS_AddElement DEF PeelInv
    <2>4. ASSUME NEW S \in SUBSET Popped', S # {}
          PROVE  \E x \in S : deps[x] \cap S = {}
      <3>1. CASE k \notin S
        <4>1. S \in SUBSET Popped
          BY <3>1, <1>7
        <4> QED
          BY <4>1, <2>4, <1>1 DEF PeelInv
      <3>2. CASE S = {k}
        BY <3>2, <1>3
      <3>3. CASE k \in S /\ S # {k}
        <4>1. S \ {k} \in SUBSET Popped /\ S \ {k} # {}
          BY <3>3, <1>7
        <4>2. PICK x \in S \ {k} : deps[x] \cap (S \ {k}) = {}
          BY <4>1, <1>1 DEF PeelInv
        <4>3. deps[x] \subseteq Popped
          BY <4>1, <4>2, <1>1 DEF PeelInv, Popped
        <4> QED
          BY <4>2, <4>3, <1>3
      <3> QED
        BY <3>1, <3>2, <3>3
    <2> QED
      BY <2>1, <2>2, <2>3, <2>4, <1>1, <1>4 DEF PeelInv
  <1>9. TypeOK'
    BY <1>1, <1>4, <1>5, <1>8, TaskListFacts DEF TypeOK, PeelInv, IInv
  <1> QED
    BY <1>1, <1>8, <1>9 DEF IInv, VerdictCorrect

LEMMA ConcludeIInv == IInv /\ Conclude => IInv'
  <1> SUFFICES ASSUME IInv, Conclude PROVE IInv'
    OBVIOUS
  <1> DEFINE deps == DependsOn(tasks)
  <1>1. /\ tasks' = tasks /\ pc = "peel" /\ pc' = "done"
        /\ ready = {} /\ tasks \in TaskLists
        /\ UniqueKeys(tasks) /\ KnownDeps(tasks) /\ PeelInv
        /\ error' = IF visited # Len(tasks) THEN "cycle" ELSE "none"
    BY DEF IInv, TypeOK, Conclude, Return
  <1>2. Popped \subseteq Keys(tasks) /\ DOMAIN deps = Keys(tasks)
    BY <1>1, TaskListFacts DEF Popped
  <1>3. visited = Len(tasks) <=> Popped = Keys(tasks)
    BY <1>1, <1>2, KeysFinite, KeysCounted, FS_Subset DEF PeelInv
  <1>4. CASE Popped = Keys(tasks)
    <2>1. Acyclic(deps)
      BY <1>1, <1>2, <1>4 DEF Acyclic, PeelInv
    <2> QED
      BY <2>1, <1>1, <1>3, <1>4 DEF IInv, TypeOK, VerdictCorrect, Conclude
  <1>5. CASE Popped # Keys(tasks)
    <2> DEFINE S == Keys(tasks) \ Popped
    <2>1. S # {} /\ S \in SUBSET DOMAIN deps
      BY <1>2, <1>5
    <2>2. \A x \in S : deps[x] \cap S # {}
      BY <1>1, <1>2, KnownDepsFact DEF PeelInv, Popped
    <2>3. ~Acyclic(deps)
      BY <2>1, <2>2 DEF Acyclic
    <2> QED
      BY <2>3, <1>1, <1>3, <1>5 DEF IInv, TypeOK, VerdictCorrect, Conclude
  <1> QED
    BY <1>4, <1>5

LEMMA InductiveIInv == IInv /\ [Next]_vars => IInv'
  <1>1. CASE UNCHANGED vars
    BY <1>1 DEF vars, IInv, TypeOK, VerdictCorrect, PeelInv, Popped
  <1> QED
    BY <1>1, CheckKeysIInv, CheckDepsIInv, PeelIInv, ConcludeIInv DEF Next

-----------------------------------------------------------------------------
\* _task_graph_error accepts exactly the schedulable lists and otherwise names the first
\* complaint that applies, for every list and every finite set of keys.
THEOREM VerdictIsCorrect == Spec => []VerdictCorrect
  <1>1. IInv => VerdictCorrect
    BY DEF IInv
  <1> QED
    BY <1>1, InitIInv, InductiveIInv, PTL DEF Spec

\* The peeling loop never removes a key that is not there.
THEOREM PeelingNeverRaises == Spec => []NoKeyError
  <1>1. IInv => NoKeyError
    BY DEF IInv, NoKeyError, PeelInv, Popped, Dependents
  <1> QED
    BY <1>1, InitIInv, InductiveIInv, PTL DEF Spec

\* The peeling loop ends for every list (EachTurnPops): each turn pops a key that was not
\* popped before, and there are finitely many.
THEOREM PeelingEnds == Spec => EachTurnPops
  <1>1. IInv /\ pc = "peel" => Unpopped = Keys(tasks) \ Popped
    BY DEF IInv, PeelInv, Unpopped, Popped
  <1>2. ASSUME NEW k \in Key, IInv, Peel(k)
        PROVE  pc' = pc /\ Unpopped' \subseteq Unpopped /\ Unpopped' # Unpopped
    <2>1. IInv' /\ pc = "peel" /\ pc' = pc /\ tasks' = tasks
      BY <1>2, PeelIInv DEF Peel
    <2>2. Unpopped = Keys(tasks) \ Popped
      BY <1>1, <1>2, <2>1
    <2>3. Unpopped' = Keys(tasks) \ Popped'
      BY <2>1 DEF IInv, PeelInv, Unpopped, Popped
    <2>4. k \in Keys(tasks) /\ k \notin Popped /\ Popped' = Popped \cup {k}
      BY <1>2, PeelPops
    <2> QED
      BY <2>1, <2>2, <2>3, <2>4
  <1>3. CheckKeys \/ CheckDeps \/ Conclude => LoopsLeft[pc'] < LoopsLeft[pc]
    BY DEF CheckKeys, CheckDeps, Conclude, Return, LoopsLeft
  <1>4. IInv /\ [Next]_vars => [TakesOneMore]_vars
    BY <1>2, <1>3 DEF Next, TakesOneMore
  <1> QED
    BY <1>4, InitIInv, InductiveIInv, PTL DEF Spec, EachTurnPops

\* The peeling loop takes each key once (PeelsOnce), for every list: it never looks for a key
\* that is gone, and never turns without taking one.
THEOREM EachKeyIsPeeledOnce == Spec => PeelsOnce
  BY PeelingNeverRaises, PeelingEnds, PTL DEF PeelsOnce, EachTurnPops
=============================================================================
