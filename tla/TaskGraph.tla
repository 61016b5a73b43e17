----------------------------- MODULE TaskGraph -----------------------------
(***************************************************************************)
(* The check that a job's task list can be scheduled: _task_graph_error    *)
(* of services/jobs.py, run by create, update, reset, run-now, submit and  *)
(* once more by the scheduler itself.                                      *)
(*                                                                         *)
(* A task list is a sequence of [key, deps] records (deps is the set of    *)
(* keys of depends_on: the code puts them into a Python set).  The code    *)
(* looks for a repeated key, then for a dependency that names no task,     *)
(* then peels the graph (Kahn's algorithm) and compares the number of      *)
(* peeled tasks with the length of the list.  Each loop is one or more     *)
(* actions, so that its outcome can be proved from an invariant.           *)
(***************************************************************************)
EXTENDS Integers, FiniteSets, Sequences, Tasks

CONSTANTS
  Key,        \* task keys a client may use
  MaxTasks    \* longest task list

ASSUME KeyAssumption == IsFiniteSet(Key)
ASSUME MaxTasksAssumption == MaxTasks \in Nat

VARIABLES
  tasks,      \* the argument of _task_graph_error
  pc,         \* "keys", "deps", "peel" or "done"
  remaining,  \* dependencies_by_key
  ready,      \* the deque of peelable keys; its order does not matter
  visited,    \* number of keys popped
  error       \* the message returned, by its kind; "none" is Python's None

vars == <<tasks, pc, remaining, ready, visited, error>>

-----------------------------------------------------------------------------
(* Vocabulary of task lists                                                *)

TaskRec == [key : Key, deps : SUBSET Key]

TaskLists == UNION {[1..n -> TaskRec] : n \in 0..MaxTasks}

\* The keys of a task list (task_keys).
Keys(ts) == {ts[i].key : i \in DOMAIN ts}

\* dependencies_by_key as it stands after the second loop.
DependsOn(ts) ==
  [k \in Keys(ts) |-> UNION {ts[i].deps : i \in {j \in DOMAIN ts : ts[j].key = k}}]

\* What makes a list schedulable, said without an algorithm.
UniqueKeys(ts) == \A i, j \in DOMAIN ts : ts[i].key = ts[j].key => i = j
KnownDeps(ts) == \A i \in DOMAIN ts : ts[i].deps \subseteq Keys(ts)

-----------------------------------------------------------------------------
Init ==
  /\ tasks \in TaskLists
  /\ pc = "keys"
  /\ remaining = <<>>
  /\ ready = {}
  /\ visited = 0
  /\ error = "none"

Return(e) == pc' = "done" /\ error' = e

\* First loop: a key seen twice is refused.
CheckKeys ==
  /\ pc = "keys"
  /\ IF UniqueKeys(tasks)
     THEN pc' = "deps" /\ UNCHANGED error
     ELSE Return("duplicate")
  /\ UNCHANGED <<tasks, remaining, ready, visited>>

\* Second loop: an unknown dependency is refused; the tasks without dependencies are ready.
CheckDeps ==
  /\ pc = "deps"
  /\ IF KnownDeps(tasks)
     THEN /\ pc' = "peel"
          /\ remaining' = DependsOn(tasks)
          /\ ready' = {k \in Keys(tasks) : DependsOn(tasks)[k] = {}}
          /\ UNCHANGED error
     ELSE Return("unknown") /\ UNCHANGED <<remaining, ready>>
  /\ UNCHANGED <<tasks, visited>>

\* dependents_by_key[k]: built before the peeling starts and never changed.
Dependents(k) == {d \in Keys(tasks) : k \in DependsOn(tasks)[d]}

\* Mutant: every dependent is queued, not only the ones with nothing left to wait for.
PeelQueuesEarly(k) ==
  /\ pc = "peel"
  /\ k \in ready
  /\ visited' = visited + 1
  /\ remaining' = [d \in DOMAIN remaining |->
                     IF d \in Dependents(k) THEN remaining[d] \ {k} ELSE remaining[d]]
  /\ ready' = (ready \ {k}) \cup Dependents(k)
  /\ UNCHANGED <<tasks, pc, error>>

\* Mutant: a popped key goes back to the queue.
PeelForgetsToPop(k) ==
  /\ pc = "peel"
  /\ k \in ready
  /\ visited < MaxTasks + 1
  /\ visited' = visited + 1
  /\ remaining' = [d \in DOMAIN remaining |->
                     IF d \in Dependents(k) THEN remaining[d] \ {k} ELSE remaining[d]]
  /\ ready' = ready \cup {d \in Dependents(k) : remaining'[d] = {}}
  /\ UNCHANGED <<tasks, pc, error>>

\* One turn of the while loop.  dependencies.remove raises KeyError when k is not there:
\* NoKeyError below says that never happens.
Peel(k) ==
  /\ pc = "peel"
  /\ k \in ready
  /\ visited' = visited + 1
  /\ remaining' = [d \in DOMAIN remaining |->
                     IF d \in Dependents(k) THEN remaining[d] \ {k} ELSE remaining[d]]
  /\ ready' = (ready \ {k}) \cup {d \in Dependents(k) : remaining'[d] = {}}
  /\ UNCHANGED <<tasks, pc, error>>

\* Mutant: the comparison is off by one.
ConcludeOffByOne ==
  /\ pc = "peel"
  /\ ready = {}
  /\ Return(IF visited + 1 < Len(tasks) THEN "cycle" ELSE "none")
  /\ UNCHANGED <<tasks, remaining, ready, visited>>

\* The queue is empty: everything was peeled, or what is left waits in a circle.
Conclude ==
  /\ pc = "peel"
  /\ ready = {}
  /\ Return(IF visited # Len(tasks) THEN "cycle" ELSE "none")
  /\ UNCHANGED <<tasks, remaining, ready, visited>>

Next == CheckKeys \/ CheckDeps \/ (\E k \in Key : Peel(k)) \/ Conclude

\* The function has no await in it: once called it runs to its end.
Spec == Init /\ [][Next]_vars /\ WF_vars(Next)

-----------------------------------------------------------------------------
TypeOK ==
  /\ tasks \in TaskLists
  /\ pc \in {"keys", "deps", "peel", "done"}
  /\ DOMAIN remaining \subseteq Keys(tasks)
  /\ \A k \in DOMAIN remaining : remaining[k] \subseteq Key
  /\ ready \subseteq Keys(tasks)
  /\ visited \in Nat
  /\ error \in {"none", "duplicate", "unknown", "cycle"}

(***************************************************************************)
(* The verdict of _task_graph_error is right, and is the first of the      *)
(* three complaints that applies: a list is accepted exactly when its keys *)
(* are unique, its dependencies known, and no set of its tasks waits in a  *)
(* circle.                                                                 *)
(***************************************************************************)
VerdictCorrect ==
  pc = "done" =>
    /\ error = "duplicate" <=> ~UniqueKeys(tasks)
    /\ error = "unknown" <=> UniqueKeys(tasks) /\ ~KnownDeps(tasks)
    /\ error = "cycle" <=> /\ UniqueKeys(tasks)
                          /\ KnownDeps(tasks)
                          /\ ~Acyclic(DependsOn(tasks))

(***************************************************************************)
(* dependencies.remove(task_key) finds the key it removes: a task that     *)
(* depends on a queued key still lists that key.  In Python a missing key  *)
(* would raise KeyError out of the handler as an internal error.           *)
(***************************************************************************)
NoKeyError ==
  pc = "peel" => \A k \in ready : \A d \in Dependents(k) : k \in remaining[d]

\* What is left to do: the loops, and the keys that the last of them has not popped.
LoopsLeft == [keys |-> 3, deps |-> 2, peel |-> 1, done |-> 0]
Unpopped == {k \in DOMAIN remaining : remaining[k] # {} \/ k \in ready}

\* A step that leaves less to do.
TakesOneMore ==
  \/ LoopsLeft[pc'] < LoopsLeft[pc]
  \/ pc' = pc /\ Unpopped' \subseteq Unpopped /\ Unpopped' # Unpopped

(***************************************************************************)
(* Why the function ends: every step finishes a loop, or is a turn of the  *)
(* while loop that pops a key for the first and only time.  No step queues *)
(* a key again or goes back to a loop.                                     *)
(***************************************************************************)
EachTurnPops == [][TakesOneMore]_vars

(***************************************************************************)
(* The while loop takes each key out of the graph once: never one that is  *)
(* not there, never one that it took before, and one in every turn.        *)
(***************************************************************************)
PeelsOnce == [][NoKeyError' /\ TakesOneMore]_vars

\* The while loop ends: every call of _task_graph_error returns a verdict.
Returns == <>(pc = "done")
=============================================================================
