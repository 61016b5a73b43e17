------------------------- MODULE JobsOutcomeProofs -------------------------
(***************************************************************************)
(* Proofs about what the runs of Jobs do and end with, for any task lists, *)
(* tokens and bounds.                                                      *)
(*                                                                         *)
(* What the registry says of a run needs RInv, JobsProofs' invariant and   *)
(* two facts of its own, and survives restarts: ResultAccounted,           *)
(* OutputsBelongToTheirRun and (in one life) NoOrphanTask.  The first fact *)
(* is local to a coroutine and its run: only tasks of the wave are busy,   *)
(* none of them has an outcome yet, and the dependencies of a wave had all *)
(* ended before it began, so that no outcome a decision was based on       *)
(* changes later.  The second is about all of them together: the id        *)
(* counter never names a run or a task that already has a name, and so an  *)
(* output, once stored, is never overwritten by another owner's.           *)
(*                                                                         *)
(* What a coroutine does needs only the first fact, stated of its own      *)
(* record (LInv), and survives resets as well: OutcomesJustified,          *)
(* AlwaysSchedulable, NoStartAfterCancel and RunsProgress.                 *)
(***************************************************************************)
EXTENDS JobsProofs, FiniteSetTheorems

-----------------------------------------------------------------------------
(* The inductive invariant.  k is a coroutine's record and d the dict of   *)
(* its run.                                                                *)

\* The tasks that the coroutine record k says _execute_task was called for.
StartedIn(k) == {t \in Key : k.running[t] # 0} \cup k.raised \cup {t \in Key : k.results[t].id # 0}

LEMMA StartedIsStartedIn ==
  \A c : Started(c) = StartedIn(co[c]) /\ Started(c)' = StartedIn(co'[c])
  BY DEF Started, StartedIn, Running

\* Where the tasks of a coroutine may be, by its stage.
TasksInStage(k) ==
  /\ k.pc = "scheduled" => k.results = NoResults /\ k.raised = {}
  /\ k.pc = "wave" =>
       /\ k.raised \subseteq k.wave
       /\ \A t \in k.wave : k.graph[t].deps \subseteq Done(k.results)
  /\ \A t \in Key : k.running[t] # 0 =>
       k.pc = "wave" /\ t \in k.wave /\ t \notin Done(k.results) \cup k.raised
  /\ k.raised \cap Done(k.results) = {}

\* What the outcomes of the dependencies of task t say about running it.
MayRun(k, t) ==
  RunIfMeans(k.graph[t].run_if, [x \in k.graph[t].deps |-> k.results[x].status])

\* OutcomesJustified of one coroutine, whose run was or was not canceled.
JustifiedTask(k, canceled, t) ==
  LET status == k.results[t].status
      settled == k.graph[t].deps \subseteq Done(k.results)
  IN IF t \in StartedIn(k)
     THEN settled /\ MayRun(k, t) /\ status # "CANCELED"
     ELSE \/ status = "CANCELED" /\ canceled
          \/ status = "SKIPPED" /\ settled /\ ~MayRun(k, t)

Justified(k, canceled) ==
  \A t \in StartedIn(k) \cup Done(k.results) : JustifiedTask(k, canceled, t)

\* What a run's dict says of the tasks, before and after its end.
DictAccounted(k, d) ==
  /\ d.tasks \in {NoResults, k.results}
  /\ d.life # "TERMINATED" => d.tasks = NoResults
  /\ d.life = "TERMINATED" =>
       /\ d.result # "NONE"
       /\ d.result = "SUCCESS" =>
            \A t \in Done(d.tasks) : d.tasks[t].status \in {"SUCCESS", "SKIPPED"}
       /\ d.result = "CANCELED" => d.cancel

Work(k, d) == TasksInStage(k) /\ Justified(k, d.cancel) /\ DictAccounted(k, d)

WorkAccounted == \A c \in DOMAIN co : Work(co[c], run[c])

\* A run that FAILED without a failed task left its diagnostic under its own id.
Diagnosed ==
  \A c \in DOMAIN run :
    run[c].life = "TERMINATED" /\ run[c].result = "FAILED" =>
      \/ \E t \in Key : run[c].tasks[t].status \in Failed
      \/ c[2] \in DOMAIN taskOutputs

\* Id i names x of run c, whose coroutine record is k: the run itself or one of its tasks.
Names(k, c, x, i) ==
  \/ x = NoKey /\ i = c[2]
  \/ x \in Key /\ i # 0 /\ (k.running[x] = i \/ k.results[x].id = i)

Owner == Key \cup {NoKey}

\* An id that was given out names one thing, and the output under it was written by that.
IdsName ==
  /\ \A i \in DOMAIN taskOutputs : 0 < i /\ i < nextRunId
  /\ \A c \in DOMAIN co : \A x \in Owner : \A i \in Nat : Names(co[c], c, x, i) =>
       /\ 0 < i /\ i < nextRunId
       /\ i \in DOMAIN taskOutputs => taskOutputs[i] = <<c, x>>
  /\ \A c1, c2 \in DOMAIN co : \A x1, x2 \in Owner : \A i \in Nat :
       Names(co[c1], c1, x1, i) /\ Names(co[c2], c2, x2, i) => c1 = c2 /\ x1 = x2

RInv == IInv /\ WorkAccounted /\ Diagnosed /\ IdsName

-----------------------------------------------------------------------------
(* The run_if conditions                                                   *)

(***************************************************************************)
(* Counting the dependencies whose outcome is in S, as _run_if_satisfied   *)
(* does, against saying "all", "some" or "none".                           *)
(***************************************************************************)
LEMMA CountMeans ==
  ASSUME NEW status, IsFiniteSet(DOMAIN status), NEW S
  PROVE  /\ Count(status, S) = Cardinality(DOMAIN status) <=> \A x \in DOMAIN status : status[x] \in S
         /\ Count(status, S) = 0 <=> \A x \in DOMAIN status : status[x] \notin S
         /\ Count(status, S) \in Nat
<1> DEFINE D == {x \in DOMAIN status : status[x] \in S}
<1>1. /\ IsFiniteSet(D) /\ Cardinality(D) \in Nat
      /\ Cardinality(DOMAIN status) = Cardinality(D) => DOMAIN status = D
      /\ Cardinality(D) = 0 <=> D = {}
  <2>1. D \in SUBSET DOMAIN status
    OBVIOUS
  <2> HIDE DEF D
  <2>2. IsFiniteSet(D) /\ (Cardinality(DOMAIN status) = Cardinality(D) => DOMAIN status = D)
    BY <2>1, FS_Subset
  <2> QED BY <2>2, FS_CardinalityType, FS_EmptySet
<1>2. (\A x \in DOMAIN status : status[x] \in S) => D = DOMAIN status
  OBVIOUS
<1> QED BY <1>1, <1>2 DEF Count

(***************************************************************************)
(* _run_if_satisfied means what the names of the conditions say, for any   *)
(* number of dependencies that have all ended.                             *)
(***************************************************************************)
LEMMA RunIfIsItsMeaning ==
  ASSUME NEW status, IsFiniteSet(DOMAIN status),
         \A x \in DOMAIN status : status[x] \in TaskStatus, NEW runIf
  PROVE  RunIfSatisfied(runIf, status) <=> RunIfMeans(runIf, status)
<1>1. Cardinality(DOMAIN status) = 0 <=> DOMAIN status = {}
  BY FS_EmptySet
<1>2. Count(status, TaskStatus) = Cardinality(DOMAIN status)
  BY CountMeans
<1>3. /\ Count(status, {"SUCCESS"}) >= 1 <=> \E x \in DOMAIN status : status[x] = "SUCCESS"
      /\ Count(status, {"SUCCESS"}) = Cardinality(DOMAIN status)
           <=> \A x \in DOMAIN status : status[x] = "SUCCESS"
  <2> DEFINE n == Count(status, {"SUCCESS"})
  <2>1. /\ n = Cardinality(DOMAIN status) <=> \A x \in DOMAIN status : status[x] \in {"SUCCESS"}
        /\ n = 0 <=> \A x \in DOMAIN status : status[x] \notin {"SUCCESS"}
        /\ n \in Nat
    BY CountMeans
  <2> HIDE DEF n
  <2>2. n >= 1 <=> n # 0
    BY <2>1
  <2> QED BY <2>1, <2>2 DEF n
<1>4. /\ Count(status, Failed) >= 1 <=> \E x \in DOMAIN status : status[x] \in Failed
      /\ Count(status, Failed) = 0 <=> \A x \in DOMAIN status : status[x] \notin Failed
      /\ Count(status, Failed) = Cardinality(DOMAIN status)
           <=> \A x \in DOMAIN status : status[x] \in Failed
  <2> DEFINE n == Count(status, Failed)
  <2>1. /\ n = Cardinality(DOMAIN status) <=> \A x \in DOMAIN status : status[x] \in Failed
        /\ n = 0 <=> \A x \in DOMAIN status : status[x] \notin Failed
        /\ n \in Nat
    BY CountMeans
  <2> HIDE DEF n
  <2>2. n >= 1 <=> n # 0
    BY <2>1
  <2> QED BY <2>1, <2>2 DEF n
<1> QED BY <1>1, <1>2, <1>3, <1>4, Zenon DEF RunIfSatisfied, RunIfMeans

\* What run_one decides about a task of the wave, whose dependencies have all ended.
LEMMA AllowedMeans ==
  ASSUME NEW c, co[c] \in Coroutine, OfItsList(co[c]), TasksInStage(co[c]), Valid(co[c].graph),
         co[c].pc = "wave", NEW t \in co[c].wave
  PROVE  /\ t \in Key /\ co[c].graph[t].deps \subseteq Done(co[c].results)
         /\ Allowed(c, t) <=> MayRun(co[c], t)
<1> DEFINE g == co[c].graph
           status == DepStatus(c, t)
<1>1. /\ co[c] \in Coroutine /\ g \in TaskLists /\ Valid(g) /\ t \in DOMAIN g /\ t \in Key
      /\ co[c].results \in [Key -> TaskResult]
  BY DEF Coroutine, OfItsList
<1>2. IsFiniteSet(DOMAIN g)
  BY <1>1, GraphsAssumption, FS_EmptySet DEF TaskLists, EmptyGraph
<1>3. g[t].deps \subseteq DOMAIN g
  BY <1>1 DEF Valid
<1>4. IsFiniteSet(DOMAIN status)
  <2>1. DOMAIN status = g[t].deps
    BY DEF DepStatus
  <2> HIDE DEF g, status
  <2> QED BY <1>2, <1>3, <2>1, FS_Subset
<1>5. g[t].deps \subseteq Done(co[c].results)
  BY DEF TasksInStage
<1>6. \A x \in DOMAIN status : status[x] \in TaskStatus
  BY <1>1, <1>5 DEF DepStatus, Done, TaskResult
<1>7. RunIfSatisfied(g[t].run_if, status) <=> RunIfMeans(g[t].run_if, status)
  <2> HIDE DEF g, status
  <2> QED BY <1>4, <1>6, RunIfIsItsMeaning
<1> QED BY <1>1, <1>5, <1>7 DEF Allowed, MayRun, DepStatus

-----------------------------------------------------------------------------
(* Steps of one coroutine                                                  *)

\* The outcomes a decision was based on decide it.
LEMMA SameDecision ==
  ASSUME NEW k, NEW k1, NEW t, k1.graph = k.graph,
         \A x \in k.graph[t].deps : k1.results[x].status = k.results[x].status
  PROVE  MayRun(k1, t) <=> MayRun(k, t)
<1>1. [x \in k1.graph[t].deps |-> k1.results[x].status] = [x \in k.graph[t].deps |-> k.results[x].status]
  OBVIOUS
<1> QED BY <1>1, Zenon DEF MayRun

\* Task t of the wave has no outcome yet.
Undecided(k, t) == k.pc = "wave" /\ t \in k.wave /\ t \notin Done(k.results) \cup k.raised

\* The record k becomes k1 by a step of run_one for task t, which starts it or ends it, under
\* the given id if any.
Moves(k, k1, t, id, canceled) ==
  /\ k1.pc = k.pc /\ k1.graph = k.graph /\ k1.wave = k.wave
  /\ \A u \in Key \ {t} : /\ k1.results[u] = k.results[u] /\ k1.running[u] = k.running[u]
                          /\ u \in k1.raised <=> u \in k.raised
  /\ k1.running[t] # 0 => t \notin Done(k1.results) \cup k1.raised
  /\ t \notin k1.raised \cap Done(k1.results)
  /\ IF t \in StartedIn(k1) THEN MayRun(k, t) /\ k1.results[t].status # "CANCELED"
     ELSE t \in Done(k1.results) =>
            \/ k1.results[t].status = "CANCELED" /\ canceled
            \/ k1.results[t].status = "SKIPPED" /\ ~MayRun(k, t)
  /\ k1.running[t] \in {0, id, k.running[t]}
  /\ k1.results[t].id \in {0, id, k.results[t].id}

(***************************************************************************)
(* Such a step touches no other task, and no task that was decided before  *)
(* depends on t, because t had no outcome.                                 *)
(***************************************************************************)
LEMMA TaskMoves ==
  ASSUME NEW k \in Coroutine, NEW k1 \in Coroutine, NEW canceled, NEW t, NEW id,
         TasksInStage(k), Justified(k, canceled), Undecided(k, t), Moves(k, k1, t, id, canceled)
  PROVE  TasksInStage(k1) /\ Justified(k1, canceled)
<1>0. /\ k.pc = "wave" /\ t \in k.wave /\ t \notin Done(k.results) \cup k.raised
      /\ k1.pc = "wave" /\ k1.graph = k.graph /\ k1.wave = k.wave
      /\ \A u \in Key \ {t} : /\ k1.results[u] = k.results[u] /\ k1.running[u] = k.running[u]
                              /\ u \in k1.raised <=> u \in k.raised
      /\ k1.running[t] # 0 => t \notin Done(k1.results) \cup k1.raised
      /\ t \notin k1.raised \cap Done(k1.results)
      /\ IF t \in StartedIn(k1) THEN MayRun(k, t) /\ k1.results[t].status # "CANCELED"
         ELSE t \in Done(k1.results) =>
                \/ k1.results[t].status = "CANCELED" /\ canceled
                \/ k1.results[t].status = "SKIPPED" /\ ~MayRun(k, t)
  BY Zenon DEF Undecided, Moves
<1>1. t \in Key /\ k.wave \subseteq Key /\ k1.raised \subseteq Key /\ k.raised \subseteq Key
  BY <1>0 DEF Coroutine
<1>2. Done(k.results) \subseteq Done(k1.results)
  BY <1>0 DEF Done
<1>3. \A u \in Key \ {t} : u \in Done(k1.results) <=> u \in Done(k.results)
  BY <1>0 DEF Done
<1>4. TasksInStage(k1)
  <2>1. \A u \in k1.wave : k1.graph[u].deps \subseteq Done(k1.results)
    BY <1>0, <1>2 DEF TasksInStage
  <2>2. k1.raised \subseteq k1.wave
    BY <1>0, <1>1 DEF TasksInStage
  <2>3. \A u \in Key : k1.running[u] # 0 => u \in k1.wave /\ u \notin Done(k1.results) \cup k1.raised
    BY <1>0, <1>1, <1>3 DEF TasksInStage
  <2>4. k1.raised \cap Done(k1.results) = {}
    BY <1>0, <1>1, <1>3 DEF TasksInStage
  <2> QED BY <1>0, <2>1, <2>2, <2>3, <2>4 DEF TasksInStage
<1>5. ASSUME NEW u \in Key, k.graph[u].deps \subseteq Done(k.results)
      PROVE  /\ k1.graph[u].deps \subseteq Done(k1.results)
             /\ MayRun(k1, u) <=> MayRun(k, u)
  <2>1. \A x \in k.graph[u].deps : k1.results[x].status = k.results[x].status
    BY <1>0, <1>5 DEF Done
  <2> QED BY <1>0, <1>2, <1>5, <2>1, SameDecision
<1>6. Justified(k1, canceled)
  <2> SUFFICES ASSUME NEW u \in StartedIn(k1) \cup Done(k1.results)
               PROVE  JustifiedTask(k1, canceled, u)
    BY <1>0 DEF Justified
  <2>1. u \in Key
    BY <1>0, <1>1 DEF StartedIn, Done
  <2>2. CASE u = t
    <3>1. k.graph[t].deps \subseteq Done(k.results)
      BY <1>0 DEF TasksInStage
    <3> QED BY <1>0, <1>1, <1>5, <2>2, <3>1 DEF JustifiedTask
  <2>3. CASE u # t
    <3>1. u \in StartedIn(k1) <=> u \in StartedIn(k)
      BY <1>0, <2>1, <2>3 DEF StartedIn
    <3>2. u \in StartedIn(k) \cup Done(k.results) /\ JustifiedTask(k, canceled, u)
      BY <1>0, <1>3, <2>1, <2>3, <3>1 DEF Justified
    <3>3. k1.results[u].status = k.results[u].status
      BY <1>0, <2>1, <2>3
    <3> QED BY <1>0, <1>5, <2>1, <3>1, <3>2, <3>3 DEF JustifiedTask
  <2> QED BY <1>0, <2>2, <2>3
<1> QED BY <1>4, <1>6

(***************************************************************************)
(* The head of the while loop, when no task of the run is busy: the next   *)
(* wave depends on outcomes only, or every task has one and the result of  *)
(* the run is drawn from them.  Nothing is ever left over.                 *)
(***************************************************************************)
LEMMA ProceedKeepsWork ==
  ASSUME IInv, WorkAccounted, NEW c \in DOMAIN co,
         NEW d \in Dict, d.life = "RUNNING", d.cancel = run[c].cancel, d.tasks = NoResults,
         NEW g \in TaskLists, Valid(g), g = co[c].graph \/ co[c].results = NoResults,
         co[c].raised = {}, \A t \in Key : co[c].running[t] = 0,
         Proceed(c, c, d, g, co[c].results)
  PROVE  /\ DOMAIN co' = DOMAIN co /\ \A x \in DOMAIN co : x # c => co'[x] = co[x]
         /\ DOMAIN run' = DOMAIN run /\ \A x \in DOMAIN run : x # c => run'[x] = run[x]
         /\ Work(co'[c], run'[c])
         /\ co'[c].results = co[c].results /\ co'[c].running = co[c].running
         /\ run'[c].life = "TERMINATED" /\ run'[c].result = "FAILED" =>
              \E t \in Key : run'[c].tasks[t].status \in Failed
<1> DEFINE k == co[c]
           results == k.results
           ready == Ready(g, results)
           left == DOMAIN g \ Done(results)
           kw == [k EXCEPT !.pc = "wave", !.on = c, !.graph = g, !.results = results, !.wave = ready]
           kd == [k EXCEPT !.pc = "done", !.on = c, !.graph = g,
                           !.results = WithSkipped(results, left), !.wave = {}]
           dd == Terminated(d, FinalResult(d, results, left # {}), WithSkipped(results, left))
<1>1. /\ k \in Coroutine /\ c \in DOMAIN run /\ c \in DOMAIN co /\ run[c] \in Dict
      /\ results \in [Key -> TaskResult]
      /\ TasksInStage(k) /\ Justified(k, d.cancel)
  BY CoroutineFacts DEF Coroutine, WorkAccounted, Work
<1>2. Proceed(c, c, d, g, results)
  OBVIOUS
<1>3. ASSUME NEW k1, k1.graph = g, k1.results = results, k1.running = k.running, k1.raised = k.raised
      PROVE  Justified(k1, d.cancel)
  <2>0. StartedIn(k1) = StartedIn(k)
    BY <1>3 DEF StartedIn
  <2>1. CASE g = k.graph
    <3> SUFFICES ASSUME NEW t \in StartedIn(k) \cup Done(results) PROVE JustifiedTask(k1, d.cancel, t)
      BY <1>3, <2>0 DEF Justified
    <3>1. JustifiedTask(k, d.cancel, t)
      BY <1>1 DEF Justified
    <3>2. MayRun(k1, t) <=> MayRun(k, t)
      BY <1>3, <2>1, SameDecision
    <3> QED BY <1>3, <2>0, <2>1, <3>1, <3>2 DEF JustifiedTask
  <2>2. CASE results = NoResults
    <3>1. StartedIn(k) \cup Done(results) = {}
      BY <2>2 DEF StartedIn, Done, NoResults
    <3> QED BY <1>3, <2>0, <3>1 DEF Justified
  <2> QED BY <2>1, <2>2
<1>4. CASE ready # {}
  <2>1. /\ kw.pc = "wave" /\ kw.graph = g /\ kw.results = results /\ kw.wave = ready
        /\ kw.running = k.running /\ kw.raised = k.raised
    BY <1>1 DEF Coroutine
  <2>2. co' = [co EXCEPT ![c] = kw] /\ run' = [run EXCEPT ![c] = d]
    BY <1>2, <1>4 DEF Proceed
  <2> HIDE DEF kw
  <2>3. TasksInStage(kw)
    BY <1>1, <2>1 DEF TasksInStage, Ready
  <2>4. Justified(kw, d.cancel)
    BY <1>3, <2>1
  <2>5. DictAccounted(kw, d)
    BY DEF DictAccounted
  <2> QED BY <1>1, <2>1, <2>2, <2>3, <2>4, <2>5 DEF Work
<1>5. CASE ready = {}
  <2>1. left = {}
    <3>1. left # {} => \E t \in left : g[t].deps \subseteq DOMAIN g \ left
      <4>1. left \in SUBSET DOMAIN g
        OBVIOUS
      <4> HIDE DEF left
      <4> QED BY <4>1, RestHasReadyTask
    <3>2. \A t \in left : g[t].deps \subseteq DOMAIN g \ left => t \in ready
      <4>1. DOMAIN g \subseteq Key
        BY GraphsAssumption DEF TaskLists, EmptyGraph
      <4> QED BY <4>1 DEF Ready
    <3> QED BY <1>5, <3>1, <3>2
  <2>2. WithSkipped(results, {}) = results
    BY <1>1 DEF WithSkipped
  <2> DEFINE fin == FinalResult(d, results, FALSE)
             kk == [k EXCEPT !.pc = "done", !.on = c, !.graph = g, !.results = results, !.wave = {}]
             d1 == Terminated(d, fin, results)
  <2>3. WithSkipped(results, left) = results /\ FinalResult(d, results, left # {}) = fin
    BY <2>1, <2>2 DEF FinalResult
  <2>4. co' = [co EXCEPT ![c] = kk] /\ run' = [run EXCEPT ![c] = d1]
    <3>1. co' = [co EXCEPT ![c] = kd] /\ run' = [run EXCEPT ![c] = dd]
      BY <1>2, <1>5 DEF Proceed
    <3>2. kd = kk /\ dd = d1
      <4> HIDE DEF fin, left, results
      <4> QED BY <2>3, Zenon
    <3> HIDE DEF kd, dd, kk, d1
    <3> QED BY <3>1, <3>2
  <2>5. /\ kk.pc = "done" /\ kk.graph = g /\ kk.results = results /\ kk.wave = {}
        /\ kk.running = k.running /\ kk.raised = k.raised
    BY <1>1 DEF Coroutine
  <2>6. /\ d1.life = "TERMINATED" /\ d1.result = fin /\ d1.tasks = results /\ d1.cancel = d.cancel
    <3>1. \A x : Terminated(d, x, results).tasks = results /\ Terminated(d, x, results).result = x
      BY DEF Terminated, Dict
    <3> HIDE DEF fin
    <3> QED BY <3>1 DEF Terminated, Dict
  <2> HIDE DEF kk, d1
  <2>7. TasksInStage(kk)
    BY <1>1, <2>5 DEF TasksInStage
  <2>8. Justified(kk, d.cancel)
    BY <1>3, <2>5
  <2>9. DictAccounted(kk, d1)
    <3>1. fin = "SUCCESS" => \A t \in Done(results) : results[t].status \in {"SUCCESS", "SKIPPED"}
      <4> SUFFICES ASSUME fin = "SUCCESS", NEW t \in Done(results)
                   PROVE  results[t].status \in {"SUCCESS", "SKIPPED"}
        OBVIOUS
      <4>1. ~d.cancel /\ results[t].status \notin Failed /\ t \in Key
        BY DEF FinalResult, Done
      <4>2. results[t].status # "CANCELED"
        BY <1>1, <4>1 DEF Justified, JustifiedTask
      <4>3. results[t].status \in TaskStatus
        BY <1>1, <4>1 DEF Done, TaskResult
      <4> QED BY <4>1, <4>2, <4>3 DEF TaskStatus, Failed
    <3>2. fin # "NONE" /\ (fin = "CANCELED" => d.cancel)
      BY DEF FinalResult
    <3> HIDE DEF fin
    <3> QED BY <2>5, <2>6, <3>1, <3>2 DEF DictAccounted
  <2>10. fin = "FAILED" => \E t \in Key : results[t].status \in Failed
    BY DEF FinalResult
  <2> HIDE DEF fin
  <2> QED BY <1>1, <2>4, <2>5, <2>6, <2>7, <2>8, <2>9, <2>10 DEF Work
<1> QED BY <1>4, <1>5

LEMMA OneCoroutineWorks ==
  ASSUME WorkAccounted, DOMAIN run = DOMAIN co, NEW c \in DOMAIN co,
         DOMAIN co' = DOMAIN co, \A x \in DOMAIN co : x # c => co'[x] = co[x] /\ run'[x] = run[x],
         Work(co'[c], run'[c])
  PROVE  WorkAccounted'
<1>1. \A x \in DOMAIN co' : Work(co'[x], run'[x])
  BY DEF WorkAccounted
<1> QED BY <1>1 DEF WorkAccounted, Work, TasksInStage, Justified, JustifiedTask, MayRun, StartedIn,
                    DictAccounted

-----------------------------------------------------------------------------
(* Ids and outputs                                                         *)

(***************************************************************************)
(* A step of coroutine c that names at most one thing y of its run by the  *)
(* next id, and stores at most one output of y, under an id that names y.  *)
(***************************************************************************)
LEMMA CoroutineKeepsNames ==
  ASSUME IInv, IdsName, NEW c \in DOMAIN co, NEW y \in Owner,
         DOMAIN co' = DOMAIN co, \A x \in DOMAIN co : x # c => co'[x] = co[x],
         nextRunId' \in {nextRunId, nextRunId + 1},
         \A x \in Owner : \A i \in Nat : Names(co'[c], c, x, i) =>
           \/ Names(co[c], c, x, i)
           \/ x = y /\ i = nextRunId /\ nextRunId' = nextRunId + 1,
         \/ taskOutputs' = taskOutputs
         \/ \E i \in Nat :
              /\ Names(co[c], c, y, i) \/ (i = nextRunId /\ nextRunId' = nextRunId + 1)
              /\ taskOutputs' = Put(taskOutputs, i, <<c, y>>)
  PROVE  IdsName' /\ DOMAIN taskOutputs \subseteq DOMAIN taskOutputs'
<1> DEFINE Fresh(i) == i = nextRunId /\ nextRunId' = nextRunId + 1
<1>1. nextRunId \in Nat \ {0} /\ DOMAIN taskOutputs \subseteq Nat
  BY DEF IInv, TypeOK
<1>2. ASSUME NEW b \in DOMAIN co, NEW x \in Owner, NEW i \in Nat, Names(co'[b], b, x, i)
      PROVE  Names(co[b], b, x, i) \/ (b = c /\ x = y /\ Fresh(i))
  BY <1>2
<1>3. ASSUME NEW b \in DOMAIN co, NEW x \in Owner, NEW i \in Nat, Names(co[b], b, x, i)
      PROVE  /\ 0 < i /\ i < nextRunId
             /\ i \in DOMAIN taskOutputs => taskOutputs[i] = <<b, x>>
  BY <1>3 DEF IdsName
<1>4. ASSUME NEW b1 \in DOMAIN co, NEW b2 \in DOMAIN co, NEW x1 \in Owner, NEW x2 \in Owner,
             NEW i \in Nat, Names(co'[b1], b1, x1, i), Names(co'[b2], b2, x2, i)
      PROVE  b1 = b2 /\ x1 = x2
  <2>1. CASE Names(co[b1], b1, x1, i) /\ Names(co[b2], b2, x2, i)
    BY <2>1 DEF IdsName
  <2>2. CASE ~Names(co[b1], b1, x1, i)
    <3>1. b1 = c /\ x1 = y /\ i = nextRunId
      BY <1>2, <1>4, <2>2
    <3>2. ~Names(co[b2], b2, x2, i)
      BY <1>1, <1>3, <3>1
    <3> QED BY <1>2, <1>4, <3>1, <3>2
  <2>3. CASE ~Names(co[b2], b2, x2, i)
    <3>1. b2 = c /\ x2 = y /\ i = nextRunId
      BY <1>2, <1>4, <2>3
    <3>2. ~Names(co[b1], b1, x1, i)
      BY <1>1, <1>3, <3>1
    <3> QED BY <1>2, <1>4, <3>1, <3>2
  <2> QED BY <2>1, <2>2, <2>3
<1>5. ASSUME NEW j \in Nat, Names(co[c], c, y, j) \/ Fresh(j),
             taskOutputs' = Put(taskOutputs, j, <<c, y>>)
      PROVE  /\ \A i \in DOMAIN taskOutputs' : 0 < i /\ i < nextRunId'
             /\ \A b \in DOMAIN co : \A x \in Owner : \A i \in Nat : Names(co'[b], b, x, i) =>
                  (i \in DOMAIN taskOutputs' => taskOutputs'[i] = <<b, x>>)
  <2>1. 0 < j /\ j < nextRunId'
    BY <1>1, <1>3, <1>5
  <2>2. \A i \in DOMAIN taskOutputs' : 0 < i /\ i < nextRunId'
    BY <1>1, <1>5, <2>1 DEF IdsName, Put
  <2>3. ASSUME NEW b \in DOMAIN co, NEW x \in Owner, NEW i \in Nat, Names(co'[b], b, x, i),
               i \in DOMAIN taskOutputs'
        PROVE  taskOutputs'[i] = <<b, x>>
    <3>1. CASE i = j
      <4>1. b = c /\ x = y
        <5>1. CASE Names(co[c], c, y, j) /\ Names(co[b], b, x, j)
          BY <5>1 DEF IdsName
        <5>2. CASE ~Names(co[b], b, x, j)
          BY <1>2, <2>3, <3>1, <5>2
        <5>3. CASE ~Names(co[c], c, y, j) /\ Names(co[b], b, x, j)
          BY <1>1, <1>3, <1>5, <5>3
        <5> QED BY <5>1, <5>2, <5>3
      <4> QED BY <1>5, <2>3, <3>1, <4>1 DEF Put
    <3>2. CASE i # j
      <4>1. i \in DOMAIN taskOutputs /\ taskOutputs'[i] = taskOutputs[i]
        BY <1>5, <2>3, <3>2 DEF Put
      <4>2. i < nextRunId
        BY <4>1 DEF IdsName
      <4> QED BY <1>1, <1>2, <1>3, <2>3, <4>1, <4>2
    <3> QED BY <3>1, <3>2
  <2> QED BY <2>2, <2>3
<1>6. ASSUME taskOutputs' = taskOutputs
      PROVE  /\ \A i \in DOMAIN taskOutputs' : 0 < i /\ i < nextRunId'
             /\ \A b \in DOMAIN co : \A x \in Owner : \A i \in Nat : Names(co'[b], b, x, i) =>
                  (i \in DOMAIN taskOutputs' => taskOutputs'[i] = <<b, x>>)
  <2>1. \A i \in DOMAIN taskOutputs : i \in Nat /\ 0 < i /\ i < nextRunId
    BY <1>1 DEF IdsName
  <2>2. \A i \in DOMAIN taskOutputs' : 0 < i /\ i < nextRunId'
    BY <1>1, <1>6, <2>1
  <2>3. ASSUME NEW b \in DOMAIN co, NEW x \in Owner, NEW i \in Nat, Names(co'[b], b, x, i),
               i \in DOMAIN taskOutputs'
        PROVE  taskOutputs'[i] = <<b, x>>
    BY <1>1, <1>2, <1>3, <1>6, <2>1, <2>3
  <2> QED BY <2>2, <2>3
<1>7. ASSUME NEW b \in DOMAIN co, NEW x \in Owner, NEW i \in Nat, Names(co'[b], b, x, i)
      PROVE  0 < i /\ i < nextRunId'
  BY <1>1, <1>2, <1>3, <1>7
<1>8. DOMAIN taskOutputs \subseteq DOMAIN taskOutputs'
  BY DEF Put
<1>9. /\ \A i \in DOMAIN taskOutputs' : 0 < i /\ i < nextRunId'
      /\ \A b \in DOMAIN co : \A x \in Owner : \A i \in Nat : Names(co'[b], b, x, i) =>
           (i \in DOMAIN taskOutputs' => taskOutputs'[i] = <<b, x>>)
  BY <1>5, <1>6
<1>10. IdsName'
  <2>1. \A b \in DOMAIN co' : \A x \in Owner : \A i \in Nat : Names(co'[b], b, x, i) =>
          /\ 0 < i /\ i < nextRunId'
          /\ i \in DOMAIN taskOutputs' => taskOutputs'[i] = <<b, x>>
    BY <1>7, <1>9
  <2>2. \A b1, b2 \in DOMAIN co' : \A x1, x2 \in Owner : \A i \in Nat :
          Names(co'[b1], b1, x1, i) /\ Names(co'[b2], b2, x2, i) => b1 = b2 /\ x1 = x2
    BY <1>4
  <2> QED BY <1>9, <2>1, <2>2 DEF IdsName, Names
<1> QED BY <1>8, <1>10

-----------------------------------------------------------------------------
(* The steps of a coroutine                                                *)

LEMMA RunsAreTheirCoroutines == ASSUME IInv PROVE DOMAIN run = DOMAIN co
  BY DEF IInv, TypeOK

LEMMA OneRunDiagnosed ==
  ASSUME Diagnosed, NEW c \in DOMAIN run, DOMAIN run' = DOMAIN run,
         \A x \in DOMAIN run : x # c => run'[x] = run[x],
         DOMAIN taskOutputs \subseteq DOMAIN taskOutputs',
         run'[c].life = "TERMINATED" /\ run'[c].result = "FAILED" =>
           \/ \E t \in Key : run'[c].tasks[t].status \in Failed
           \/ c[2] \in DOMAIN taskOutputs'
  PROVE  Diagnosed'
  BY DEF Diagnosed

\* The id a task runs under: the one it was given, or the next one.
Given(k, t, id) ==
  id \in {0, k.running[t]} \/ (id = nextRunId /\ nextRunId' = nextRunId + 1)

\* At most the output of task t of run c is stored, under the id t runs under.
Stores(c, t, id) ==
  taskOutputs' = taskOutputs \/ (id # 0 /\ taskOutputs' = Put(taskOutputs, id, <<c, t>>))

(***************************************************************************)
(* A step of run_one for task t of the wave, seen from all three parts of  *)
(* the invariant.                                                          *)
(***************************************************************************)
LEMMA TaskStepKeepsOutcomes ==
  ASSUME RInv, NEW c \in DOMAIN co, NEW t, Undecided(co[c], t),
         NEW k1 \in Coroutine, co' = [co EXCEPT ![c] = k1], run' = run,
         NEW id \in Nat, Moves(co[c], k1, t, id, run[c].cancel), Given(co[c], t, id),
         Stores(c, t, id), nextRunId' \in {nextRunId, nextRunId + 1}
  PROVE  WorkAccounted' /\ Diagnosed' /\ IdsName'
<1>1. /\ IInv /\ co[c] \in Coroutine /\ DOMAIN run = DOMAIN co /\ t \in Key /\ t \in Owner
      /\ Work(co[c], run[c]) /\ co'[c] = k1 /\ run[c].life = "RUNNING"
  BY CoroutineFacts, RunsAreTheirCoroutines
  DEF RInv, WorkAccounted, Coroutine, Owner, IInv, DrivesItsRun, Match, Undecided
<1>2. TasksInStage(k1) /\ Justified(k1, run[c].cancel)
  BY <1>1, TaskMoves DEF Work
<1>3. DictAccounted(k1, run[c])
  BY <1>1 DEF Work, DictAccounted
<1>4. WorkAccounted'
  <2>1. Work(co'[c], run'[c])
    BY <1>1, <1>2, <1>3 DEF Work
  <2> QED BY <1>1, <2>1, OneCoroutineWorks DEF RInv
<1>5. \A x \in Owner : \A i \in Nat : Names(k1, c, x, i) =>
        \/ Names(co[c], c, x, i)
        \/ x = t /\ i = nextRunId /\ nextRunId' = nextRunId + 1
  <2> SUFFICES ASSUME NEW x \in Owner, NEW i \in Nat, Names(k1, c, x, i)
               PROVE  \/ Names(co[c], c, x, i)
                      \/ x = t /\ i = nextRunId /\ nextRunId' = nextRunId + 1
    OBVIOUS
  <2>1. CASE x = NoKey
    BY <2>1, NoKeyAssumption DEF Names
  <2>2. CASE x \in Key /\ x # t
    BY <2>2, NoKeyAssumption DEF Names, Moves
  <2>3. CASE x = t
    BY <1>1, <2>3, NoKeyAssumption DEF Names, Moves, Given
  <2> QED BY <2>1, <2>2, <2>3 DEF Owner
<1>6. \/ taskOutputs' = taskOutputs
      \/ \E i \in Nat :
           /\ Names(co[c], c, t, i) \/ (i = nextRunId /\ nextRunId' = nextRunId + 1)
           /\ taskOutputs' = Put(taskOutputs, i, <<c, t>>)
  BY <1>1 DEF Names, Given, Stores
<1>7. IdsName' /\ DOMAIN taskOutputs \subseteq DOMAIN taskOutputs'
  <2>1. DOMAIN co' = DOMAIN co /\ \A x \in DOMAIN co : x # c => co'[x] = co[x]
    OBVIOUS
  <2> QED BY <1>1, <1>5, <1>6, <2>1, CoroutineKeepsNames DEF RInv
<1>8. Diagnosed'
  BY <1>7 DEF RInv, Diagnosed
<1> QED BY <1>4, <1>7, <1>8

\* A task that ends with a status, under its id or under none.
LEMMA RecordedMoves ==
  ASSUME NEW c \in DOMAIN co, co[c] \in Coroutine, NEW t, Undecided(co[c], t),
         NEW status \in TaskStatus, NEW id \in Nat, co' = Recorded(c, t, status, id),
         NEW canceled,
         IF id # 0 THEN MayRun(co[c], t) /\ status # "CANCELED"
         ELSE \/ status = "CANCELED" /\ canceled
              \/ status = "SKIPPED" /\ ~MayRun(co[c], t)
  PROVE  \E r \in Coroutine :
           /\ co' = [co EXCEPT ![c] = r] /\ r.on = co[c].on
           /\ Moves(co[c], r, t, id, canceled)
           /\ t \in Done(r.results) /\ (t \in StartedIn(r) <=> id # 0)
<1> DEFINE k == co[c]
           r == [k EXCEPT !.results = [@ EXCEPT ![t] = [status |-> status, id |-> id]],
                          !.running = [@ EXCEPT ![t] = 0]]
<1>1. k \in Coroutine /\ t \in Key
  BY DEF Coroutine, Undecided
<1>2. /\ r.pc = k.pc /\ r.on = k.on /\ r.graph = k.graph /\ r.wave = k.wave /\ r.raised = k.raised
      /\ r.results = [k.results EXCEPT ![t] = [status |-> status, id |-> id]]
      /\ r.running = [k.running EXCEPT ![t] = 0]
  BY <1>1 DEF Coroutine
<1>3. r \in Coroutine
  <2>1. /\ [k.results EXCEPT ![t] = [status |-> status, id |-> id]] \in [Key -> TaskResult]
        /\ [k.running EXCEPT ![t] = 0] \in [Key -> Nat]
    BY <1>1, ResultTypes DEF Coroutine
  <2> QED BY <1>1, <2>1 DEF Coroutine
<1>4. co' = [co EXCEPT ![c] = r]
  BY DEF Recorded
<1> HIDE DEF r
<1>5. /\ r.results[t] = [status |-> status, id |-> id] /\ r.running[t] = 0
      /\ \A u \in Key \ {t} : r.results[u] = k.results[u] /\ r.running[u] = k.running[u]
  BY <1>1, <1>2 DEF Coroutine
<1>6. t \in StartedIn(r) <=> id # 0
  BY <1>1, <1>2, <1>5 DEF StartedIn, Undecided
<1>7. Moves(k, r, t, id, canceled)
  BY <1>1, <1>2, <1>5, <1>6 DEF Moves, Undecided
<1>8. t \in Done(r.results)
  BY <1>1, <1>5 DEF Done, TaskStatus
<1> QED BY <1>2, <1>3, <1>4, <1>6, <1>7, <1>8

\* A task that ends with what _execute_task returned or raised.
LEMMA SettleMoves ==
  ASSUME NEW c \in DOMAIN co, co[c] \in Coroutine, NEW t, Undecided(co[c], t), MayRun(co[c], t),
         NEW id \in Nat, id # 0,
         NEW o, o.status \in (TaskStatus \ {"CANCELED"}) \cup {"RAISED"},
         Settle(c, t, id, o), NEW canceled
  PROVE  \E r \in Coroutine :
           /\ co' = [co EXCEPT ![c] = r] /\ r.on = co[c].on
           /\ Moves(co[c], r, t, id, canceled)
           /\ t \in Done(r.results) \cup r.raised
<1> DEFINE k == co[c]
<1>1. k \in Coroutine /\ t \in Key
  BY DEF Coroutine, Undecided
<1>2. CASE o.status # "RAISED"
  <2>1. co' = Recorded(c, t, o.status, id) /\ o.status \in TaskStatus /\ o.status # "CANCELED"
    BY <1>2 DEF Settle
  <2> DEFINE status == o.status
  <2> HIDE DEF status
  <2>2. co' = Recorded(c, t, status, id) /\ status \in TaskStatus /\ status # "CANCELED"
    BY <2>1 DEF status
  <2>3. \E r \in Coroutine :
           /\ co' = [co EXCEPT ![c] = r] /\ r.on = co[c].on
           /\ Moves(co[c], r, t, id, canceled)
           /\ t \in Done(r.results) /\ (t \in StartedIn(r) <=> id # 0)
    BY <2>2, RecordedMoves
  <2> QED BY <2>3
<1>3. CASE o.status = "RAISED"
  <2> DEFINE r == [k EXCEPT !.raised = @ \cup {t}, !.running = [@ EXCEPT ![t] = 0]]
  <2>1. /\ r.pc = k.pc /\ r.on = k.on /\ r.graph = k.graph /\ r.wave = k.wave
        /\ r.raised = k.raised \cup {t} /\ r.results = k.results
        /\ r.running = [k.running EXCEPT ![t] = 0]
    BY <1>1 DEF Coroutine
  <2>2. r \in Coroutine
    <3>1. [k.running EXCEPT ![t] = 0] \in [Key -> Nat] /\ k.raised \cup {t} \subseteq Key
      BY <1>1 DEF Coroutine
    <3> QED BY <1>1, <3>1 DEF Coroutine
  <2>3. co' = [co EXCEPT ![c] = r]
    BY <1>3 DEF Settle
  <2> HIDE DEF r
  <2>4. /\ r.results[t] = k.results[t] /\ r.running[t] = 0 /\ t \in r.raised
        /\ \A u \in Key \ {t} : /\ r.results[u] = k.results[u] /\ r.running[u] = k.running[u]
                                /\ u \in r.raised <=> u \in k.raised
    BY <1>1, <2>1 DEF Coroutine
  <2>5. t \in StartedIn(r) /\ r.results[t].status # "CANCELED" /\ t \notin Done(r.results)
    BY <1>1, <2>4 DEF StartedIn, Done, Undecided
  <2>6. Moves(k, r, t, id, canceled)
    BY <2>1, <2>4, <2>5 DEF Moves
  <2> QED BY <2>1, <2>2, <2>3, <2>4, <2>6
<1> QED BY <1>2, <1>3

\* A task that starts to wait for its container, its subprocess or its Delta write.
LEMMA WaitMoves ==
  ASSUME NEW k \in Coroutine, NEW t, Undecided(k, t), MayRun(k, t), NEW id \in Nat, id # 0,
         NEW r, r = [k EXCEPT !.running = [@ EXCEPT ![t] = id]], NEW canceled
  PROVE  r \in Coroutine /\ r.on = k.on /\ Moves(k, r, t, id, canceled)
<1>1. t \in Key
  BY DEF Coroutine, Undecided
<1>2. /\ r.pc = k.pc /\ r.on = k.on /\ r.graph = k.graph /\ r.wave = k.wave
      /\ r.raised = k.raised
      /\ r.results = k.results /\ r.running = [k.running EXCEPT ![t] = id]
  BY <1>1 DEF Coroutine
<1>3. r \in Coroutine
  <2>1. [k.running EXCEPT ![t] = id] \in [Key -> Nat]
    BY <1>1 DEF Coroutine
  <2> QED BY <1>1, <2>1 DEF Coroutine
<1>4. /\ r.running[t] = id /\ r.results[t].status = "NONE" /\ t \in StartedIn(r)
      /\ \A u \in Key \ {t} : r.running[u] = k.running[u]
  BY <1>1, <1>2 DEF Coroutine, Done, StartedIn, Undecided
<1>5. Moves(k, r, t, id, canceled)
  BY <1>1, <1>2, <1>4 DEF Moves, Undecided
<1> QED BY <1>2, <1>3, <1>4, <1>5

LEMMA SettleKeepsOutcomes ==
  ASSUME RInv, NEW c \in DOMAIN co, NEW t, Undecided(co[c], t), MayRun(co[c], t),
         NEW id \in Nat, id # 0, Given(co[c], t, id),
         nextRunId' \in {nextRunId, nextRunId + 1},
         NEW o, o.status \in (TaskStatus \ {"CANCELED"}) \cup {"RAISED"},
         Settle(c, t, id, o), run' = run
  PROVE  WorkAccounted' /\ Diagnosed' /\ IdsName'
<1>1. co[c] \in Coroutine /\ co[c].on = c
  BY CoroutineFacts DEF RInv
<1>2. Stores(c, t, id)
  BY <1>1 DEF Settle, Stores
<1>3. PICK r \in Coroutine :
        co' = [co EXCEPT ![c] = r] /\ Moves(co[c], r, t, id, run[c].cancel)
  BY <1>1, SettleMoves
<1> QED BY <1>2, <1>3, TaskStepKeepsOutcomes

LEMMA RunOneEndsKeepsOutcomes ==
  ASSUME RInv, NEW c \in Refs, NEW t \in Key, RunOneCanceled(c, t) \/ RunOneSkipped(c, t)
  PROVE  WorkAccounted' /\ Diagnosed' /\ IdsName'
<1>1. c \in DOMAIN co /\ Undecided(co[c], t)
  BY DEF RunOneCanceled, RunOneSkipped, NotStarted, Undecided
<1>2. co[c].on = c /\ (Allowed(c, t) <=> MayRun(co[c], t))
  <2>1. /\ co[c] \in Coroutine /\ co[c].on = c /\ OfItsList(co[c]) /\ TasksInStage(co[c])
        /\ Valid(co[c].graph)
    BY <1>1, CoroutineFacts DEF RInv, IInv, ListsValid, WorkAccounted, Work, Undecided
  <2> QED BY <1>1, <2>1, AllowedMeans DEF Undecided
<1>3. run' = run /\ nextRunId' = nextRunId /\ Stores(c, t, 0) /\ Given(co[c], t, 0)
  BY DEF RunOneCanceled, RunOneSkipped, stateVars, Stores, Given
<1>4. PICK status \in TaskStatus :
        /\ co' = Recorded(c, t, status, 0)
        /\ \/ status = "CANCELED" /\ run[c].cancel
           \/ status = "SKIPPED" /\ ~MayRun(co[c], t)
  BY <1>2 DEF RunOneCanceled, RunOneSkipped, Canceled, TaskStatus
<1>5. PICK r \in Coroutine :
        co' = [co EXCEPT ![c] = r] /\ Moves(co[c], r, t, 0, run[c].cancel)
  <2>1. co[c] \in Coroutine
    BY <1>1, CoroutineFacts DEF RInv
  <2> QED BY <1>1, <1>4, <2>1, RecordedMoves
<1> QED BY <1>1, <1>3, <1>5, TaskStepKeepsOutcomes

\* _execute_task never ends as CANCELED.
LEMMA OutcomesNotCanceled ==
  ASSUME NEW kind \in Kinds
  PROVE  \A o \in InlineOutcomes[kind] \cup LateOutcomes[kind] :
           o.status \in (TaskStatus \ {"CANCELED"}) \cup {"RAISED"}
<1>1. CASE kind = "python"
  BY <1>1 DEF InlineOutcomes, LateOutcomes, Outcome, TaskStatus
<1>2. CASE kind = "sql"
  BY <1>2 DEF InlineOutcomes, LateOutcomes, Outcome, TaskStatus
<1>3. CASE kind = "other"
  BY <1>3 DEF InlineOutcomes, LateOutcomes, Outcome, TaskStatus
<1> QED BY <1>1, <1>2, <1>3 DEF Kinds

LEMMA RunOneExecuteKeepsOutcomes ==
  ASSUME RInv, NEW c \in Refs, NEW t \in Key, RunOneExecute(c, t)
  PROVE  WorkAccounted' /\ Diagnosed' /\ IdsName'
<1> DEFINE k == co[c]
           kind == k.graph[t].kind
<1>1. c \in DOMAIN co /\ Undecided(k, t) /\ IInv
  BY DEF RunOneExecute, NotStarted, RInv, Undecided
<1>2. MayRun(k, t) /\ k \in Coroutine /\ OfItsList(k)
  <2>1. /\ co[c] \in Coroutine /\ OfItsList(co[c]) /\ TasksInStage(co[c]) /\ Valid(co[c].graph)
    BY <1>1, CoroutineFacts DEF RInv, IInv, ListsValid, WorkAccounted, Work, Undecided
  <2>2. Allowed(c, t) <=> MayRun(co[c], t)
    BY <1>1, <2>1, AllowedMeans DEF Undecided
  <2> QED BY <2>1, <2>2 DEF RunOneExecute
<1>3. /\ nextRunId \in Nat \ {0} /\ nextRunId' = nextRunId + 1 /\ run' = run
      /\ Given(k, t, nextRunId)
  BY <1>1 DEF RunOneExecute, IInv, TypeOK, Given
<1>4. ASSUME NEW o \in InlineOutcomes[kind], Settle(c, t, nextRunId, o)
      PROVE  WorkAccounted' /\ Diagnosed' /\ IdsName'
  <2>1. o.status \in (TaskStatus \ {"CANCELED"}) \cup {"RAISED"}
    BY <1>1, <1>2, OutcomesNotCanceled, KindType DEF Undecided, Coroutine
  <2> QED BY <1>1, <1>2, <1>3, <1>4, <2>1, SettleKeepsOutcomes
<1>5. ASSUME co' = [co EXCEPT ![c].running = [@ EXCEPT ![t] = nextRunId]], UNCHANGED taskOutputs
      PROVE  WorkAccounted' /\ Diagnosed' /\ IdsName'
  <2> DEFINE r == [k EXCEPT !.running = [@ EXCEPT ![t] = nextRunId]]
  <2>0. co' = [co EXCEPT ![c] = r]
    BY <1>5
  <2>1. nextRunId \in Nat /\ nextRunId # 0
    BY <1>3
  <2> HIDE DEF r
  <2>3. r \in Coroutine /\ Moves(k, r, t, nextRunId, run[c].cancel)
    BY <1>1, <1>2, <2>1, WaitMoves DEF r
  <2>2. Stores(c, t, nextRunId)
    BY <1>5 DEF Stores
  <2> QED BY <1>1, <1>3, <2>0, <2>2, <2>3, TaskStepKeepsOutcomes
<1>6. \/ \E o \in InlineOutcomes[kind] : Settle(c, t, nextRunId, o)
      \/ /\ co' = [co EXCEPT ![c].running = [@ EXCEPT ![t] = nextRunId]]
         /\ UNCHANGED taskOutputs
  BY Zenon DEF RunOneExecute
<1> QED BY <1>4, <1>5, <1>6

LEMMA FinishTaskKeepsOutcomes ==
  ASSUME RInv, NEW c \in Refs, NEW t \in Key, FinishTask(c, t)
  PROVE  WorkAccounted' /\ Diagnosed' /\ IdsName'
<1> DEFINE k == co[c]
<1>1. /\ c \in DOMAIN co /\ t \in Running(c) /\ k.running[t] # 0
      /\ IInv /\ k \in Coroutine /\ OfItsList(k)
  BY CoroutineFacts DEF FinishTask, Running, RInv
<1>2. PICK o \in LateOutcomes[k.graph[t].kind] : Settle(c, t, k.running[t], o)
  BY DEF FinishTask
<1>3. o.status \in (TaskStatus \ {"CANCELED"}) \cup {"RAISED"}
  BY <1>1, OutcomesNotCanceled, KindType
<1>4. Undecided(k, t) /\ MayRun(k, t)
  BY <1>1 DEF RInv, WorkAccounted, Work, TasksInStage, Justified, JustifiedTask, StartedIn, Undecided
<1>5. k.running[t] \in Nat /\ Given(k, t, k.running[t]) /\ nextRunId' = nextRunId /\ run' = run
  BY <1>1 DEF Coroutine, FinishTask, Given
<1> QED BY <1>1, <1>2, <1>3, <1>4, <1>5, SettleKeepsOutcomes

\* A step that names nothing new and stores nothing.
LEMMA QuietKeepsNames ==
  ASSUME IInv, IdsName, NEW c \in DOMAIN co,
         DOMAIN co' = DOMAIN co, \A x \in DOMAIN co : x # c => co'[x] = co[x],
         co'[c].results = co[c].results, co'[c].running = co[c].running,
         nextRunId' = nextRunId, taskOutputs' = taskOutputs
  PROVE  IdsName'
<1>1. NoKey \in Owner
  BY DEF Owner
<1>2. \A x \in Owner : \A i \in Nat : Names(co'[c], c, x, i) => Names(co[c], c, x, i)
  BY DEF Names
<1> QED BY <1>1, <1>2, CoroutineKeepsNames

LEMMA ProceedKeepsOutcomes ==
  ASSUME RInv, NEW c \in DOMAIN co,
         NEW d \in Dict, d.life = "RUNNING", d.cancel = run[c].cancel, d.tasks = NoResults,
         NEW g \in TaskLists, Valid(g), g = co[c].graph \/ co[c].results = NoResults,
         co[c].raised = {}, \A t \in Key : co[c].running[t] = 0,
         Proceed(c, c, d, g, co[c].results), nextRunId' = nextRunId, taskOutputs' = taskOutputs
  PROVE  WorkAccounted' /\ Diagnosed' /\ IdsName'
<1>1. DOMAIN run = DOMAIN co
  BY RunsAreTheirCoroutines DEF RInv
<1>2. /\ DOMAIN co' = DOMAIN co /\ \A x \in DOMAIN co : x # c => co'[x] = co[x]
      /\ DOMAIN run' = DOMAIN run /\ \A x \in DOMAIN run : x # c => run'[x] = run[x]
      /\ Work(co'[c], run'[c])
      /\ co'[c].results = co[c].results /\ co'[c].running = co[c].running
      /\ run'[c].life = "TERMINATED" /\ run'[c].result = "FAILED" =>
           \E t \in Key : run'[c].tasks[t].status \in Failed
  BY ProceedKeepsWork DEF RInv
<1>3. WorkAccounted'
  BY <1>1, <1>2, OneCoroutineWorks DEF RInv
<1>4. IdsName'
  BY <1>2, QuietKeepsNames DEF RInv
<1>5. Diagnosed'
  BY <1>1, <1>2, OneRunDiagnosed DEF RInv
<1> QED BY <1>3, <1>4, <1>5

LEMMA StartRunKeepsOutcomes ==
  ASSUME RInv, NEW c \in Refs, StartRun(c)
  PROVE  WorkAccounted' /\ Diagnosed' /\ IdsName'
<1> DEFINE d == [run[c] EXCEPT !.life = "RUNNING", !.result = "NONE"]
           g == TaskSource(d.source)
<1>1. c \in DOMAIN co /\ co[c].pc = "scheduled" /\ IInv
  BY DEF StartRun, RInv
<1>2. /\ run[c] \in Dict /\ run[c].life = "PENDING" /\ c[2] \in registered /\ Ref(c[2]) = c
  BY <1>1, CoroutineFacts DEF IInv, DrivesItsRun, Match, Active
<1>3. /\ co[c].results = NoResults /\ co[c].raised = {} /\ run[c].tasks = NoResults
      /\ \A t \in Key : co[c].running[t] = 0
  BY <1>1, <1>2 DEF RInv, WorkAccounted, Work, TasksInStage, DictAccounted
<1>4. /\ d \in Dict /\ d.life = "RUNNING" /\ d.source = run[c].source
      /\ d.cancel = run[c].cancel /\ d.tasks = NoResults
  BY <1>2, <1>3 DEF Dict
<1>5. g \in TaskLists /\ Valid(g)
  BY <1>1, <1>4, SourceValid
<1>6. /\ Proceed(c, c, d, g, co[c].results)
      /\ nextRunId' = nextRunId /\ taskOutputs' = taskOutputs
  BY <1>2, <1>3, <1>5 DEF StartRun, stateVars
<1> HIDE DEF d, g
<1> QED BY <1>1, <1>3, <1>4, <1>5, <1>6, ProceedKeepsOutcomes

LEMMA EndWaveKeepsOutcomes ==
  ASSUME RInv, NEW c \in Refs, EndWave(c)
  PROVE  WorkAccounted' /\ Diagnosed' /\ IdsName'
<1> DEFINE k == co[c]
<1>1. /\ c \in DOMAIN co /\ k.pc = "wave" /\ AfterGather(c) /\ IInv
      /\ k.wave \subseteq Done(k.results) \cup k.raised
  BY DEF EndWave, RInv
<1>2. /\ k \in Coroutine /\ run[c] \in Dict /\ k.on = c /\ c \in DOMAIN run
      /\ DOMAIN run = DOMAIN co /\ c[2] \in Nat
      /\ run[c].life = "RUNNING" /\ Valid(k.graph) /\ k.graph \in TaskLists
  BY <1>1, CoroutineFacts, RunsAreTheirCoroutines
  DEF IInv, DrivesItsRun, Match, ListsValid, Coroutine
<1>3. /\ TasksInStage(k) /\ Justified(k, run[c].cancel) /\ run[c].tasks = NoResults
      /\ \A t \in Key : k.running[t] = 0
  BY <1>1, <1>2 DEF RInv, WorkAccounted, Work, TasksInStage, DictAccounted
<1>4. nextRunId' = nextRunId
  BY <1>1 DEF AfterGather
<1>5. CASE k.raised = {}
  <2>1. Proceed(c, c, run[c], k.graph, k.results) /\ taskOutputs' = taskOutputs
    BY <1>1, <1>2, <1>5 DEF AfterGather
  <2> QED BY <1>1, <1>2, <1>3, <1>4, <1>5, <2>1, ProceedKeepsOutcomes
<1>6. CASE k.raised # {}
  <2> DEFINE k1 == [k EXCEPT !.pc = "done", !.wave = {}]
             d1 == Terminated(run[c], "FAILED", run[c].tasks)
  <2>1. /\ co' = [co EXCEPT ![c] = k1]
        /\ run' = [run EXCEPT ![c] = d1]
        /\ taskOutputs' = Put(taskOutputs, c[2], <<c, NoKey>>)
    BY <1>1, <1>2, <1>6 DEF AfterGather
  <2>2. /\ k1.pc = "done" /\ k1.graph = k.graph /\ k1.results = k.results
        /\ k1.running = k.running /\ k1.raised = k.raised
    BY <1>2 DEF Coroutine
  <2>3. /\ d1.life = "TERMINATED" /\ d1.result = "FAILED" /\ d1.tasks = NoResults
        /\ d1.cancel = run[c].cancel
    BY <1>2, <1>3 DEF Terminated, Dict
  <2> HIDE DEF k1, d1
  <2>4. TasksInStage(k1)
    BY <1>3, <2>2 DEF TasksInStage
  <2>5. Justified(k1, d1.cancel)
    <3>1. StartedIn(k1) = StartedIn(k)
      BY <2>2 DEF StartedIn
    <3> SUFFICES ASSUME NEW t \in StartedIn(k) \cup Done(k.results)
                 PROVE  JustifiedTask(k1, d1.cancel, t)
      BY <2>2, <3>1 DEF Justified
    <3>2. JustifiedTask(k, run[c].cancel, t)
      BY <1>3 DEF Justified
    <3>3. MayRun(k1, t) <=> MayRun(k, t)
      BY <2>2, SameDecision
    <3> QED BY <2>2, <2>3, <3>1, <3>2, <3>3 DEF JustifiedTask
  <2>6. DictAccounted(k1, d1)
    BY <2>3 DEF DictAccounted
  <2>7. WorkAccounted'
    <3>1. Work(co'[c], run'[c])
      BY <1>1, <1>2, <2>1, <2>4, <2>5, <2>6 DEF Work
    <3>2. /\ DOMAIN co' = DOMAIN co
          /\ \A x \in DOMAIN co : x # c => co'[x] = co[x] /\ run'[x] = run[x]
      BY <1>2, <2>1
    <3> QED BY <1>1, <1>2, <3>1, <3>2, OneCoroutineWorks DEF RInv
  <2>8. IdsName' /\ DOMAIN taskOutputs \subseteq DOMAIN taskOutputs'
    <3>1. NoKey \in Owner /\ Names(k, c, NoKey, c[2])
      BY DEF Owner, Names
    <3>2. /\ DOMAIN co' = DOMAIN co /\ \A x \in DOMAIN co : x # c => co'[x] = co[x]
          /\ co'[c] = k1
      BY <1>1, <2>1
    <3>3. \A x \in Owner : \A i \in Nat : Names(k1, c, x, i) => Names(k, c, x, i)
      BY <2>2 DEF Names
    <3>4. \E i \in Nat : Names(k, c, NoKey, i) /\ taskOutputs' = Put(taskOutputs, i, <<c, NoKey>>)
      BY <1>2, <2>1, <3>1
    <3> QED BY <1>1, <1>4, <3>1, <3>2, <3>3, <3>4, CoroutineKeepsNames DEF RInv
  <2>9. Diagnosed'
    <3>1. c[2] \in DOMAIN taskOutputs'
      BY <2>1 DEF Put
    <3>2. DOMAIN run' = DOMAIN run /\ \A x \in DOMAIN run : x # c => run'[x] = run[x]
      BY <2>1
    <3> QED BY <1>2, <2>8, <3>1, <3>2, OneRunDiagnosed DEF RInv
  <2> QED BY <2>7, <2>8, <2>9
<1> QED BY <1>5, <1>6

-----------------------------------------------------------------------------
(* The requests                                                            *)

LEMMA UnseenKeepsOutcomes ==
  ASSUME RInv, UNCHANGED <<run, co, taskOutputs, nextRunId>>
  PROVE  WorkAccounted' /\ Diagnosed' /\ IdsName'
<1>1. WorkAccounted'
  BY DEF RInv, WorkAccounted, Work, TasksInStage, Justified, JustifiedTask, MayRun, StartedIn,
         DictAccounted
<1>2. Diagnosed' /\ IdsName'
  BY DEF RInv, Diagnosed, IdsName, Names
<1> QED BY <1>1, <1>2

\* A new run names its own id and nothing else, and nothing was done for it.
LEMMA CreateRunKeepsOutcomes ==
  ASSUME RInv, NEW source, NEW tok, CreateRun(source, tok)
  PROVE  WorkAccounted' /\ Diagnosed' /\ IdsName'
<1> DEFINE n == Ref(nextRunId)
           k == NewCoroutine(nextRunId)
           d == NewDict(source, tok)
<1>1. /\ n \notin DOMAIN run /\ n[2] = nextRunId
      /\ DOMAIN run' = DOMAIN run \cup {n} /\ DOMAIN co' = DOMAIN co \cup {n}
      /\ run'[n] = d /\ co'[n] = k
      /\ \A r \in DOMAIN run : r # n /\ run'[r] = run[r] /\ co'[r] = co[r]
      /\ nextRunId' = nextRunId + 1 /\ taskOutputs' = taskOutputs
  BY CreateRunFacts DEF RInv
<1>2. DOMAIN run = DOMAIN co /\ nextRunId \in Nat \ {0} /\ DOMAIN taskOutputs \subseteq Nat
  BY DEF RInv, IInv, TypeOK
<1>3. /\ k.pc = "scheduled" /\ k.results = NoResults /\ k.raised = {}
      /\ k.running = [x \in Key |-> 0]
  BY DEF NewCoroutine
<1>4. d.life = "PENDING" /\ d.tasks = NoResults
  BY DEF NewDict
<1> HIDE DEF n, k, d
<1>5. WorkAccounted'
  <2>1. Work(k, d)
    <3>1. StartedIn(k) \cup Done(k.results) = {}
      BY <1>3 DEF StartedIn, Done, NoResults
    <3> QED BY <1>3, <1>4, <3>1 DEF Work, TasksInStage, Justified, DictAccounted
  <2>2. \A x \in DOMAIN co' : Work(co'[x], run'[x])
    BY <1>1, <1>2, <2>1 DEF RInv, WorkAccounted
  <2> QED BY <2>2 DEF WorkAccounted, Work, TasksInStage, Justified, JustifiedTask, MayRun, StartedIn,
                      DictAccounted
<1>6. Diagnosed'
  BY <1>1, <1>4 DEF RInv, Diagnosed
<1>7. IdsName'
  <2>1. \A x \in Owner : \A i \in Nat : Names(k, n, x, i) => x = NoKey /\ i = nextRunId
    BY <1>1, <1>3 DEF Names, NoResults
  <2>2. \A c \in DOMAIN co : \A x \in Owner : \A i \in Nat : Names(co[c], c, x, i) =>
          /\ 0 < i /\ i < nextRunId
          /\ i \in DOMAIN taskOutputs => taskOutputs[i] = <<c, x>>
    BY DEF RInv, IdsName
  <2>3. \A i \in DOMAIN taskOutputs : 0 < i /\ i < nextRunId
    BY DEF RInv, IdsName
  <2>4. ASSUME NEW c \in DOMAIN co', NEW x \in Owner, NEW i \in Nat, Names(co'[c], c, x, i)
        PROVE  /\ 0 < i /\ i < nextRunId'
               /\ i \in DOMAIN taskOutputs' => taskOutputs'[i] = <<c, x>>
    <3>1. CASE c = n
      BY <1>1, <1>2, <2>1, <2>3, <2>4, <3>1
    <3>2. CASE c # n
      BY <1>1, <1>2, <2>2, <2>4, <3>2
    <3> QED BY <3>1, <3>2
  <2>5. ASSUME NEW c1 \in DOMAIN co', NEW c2 \in DOMAIN co', NEW x1 \in Owner, NEW x2 \in Owner,
               NEW i \in Nat, Names(co'[c1], c1, x1, i), Names(co'[c2], c2, x2, i)
        PROVE  c1 = c2 /\ x1 = x2
    <3>1. CASE c1 = n /\ c2 = n
      BY <1>1, <2>1, <2>5, <3>1
    <3>2. CASE c1 # n /\ c2 # n
      BY <1>1, <1>2, <2>5, <3>2 DEF RInv, IdsName
    <3>3. CASE c1 = n /\ c2 # n
      BY <1>1, <1>2, <2>1, <2>2, <2>5, <3>3
    <3>4. CASE c1 # n /\ c2 = n
      BY <1>1, <1>2, <2>1, <2>2, <2>5, <3>4
    <3> QED BY <3>1, <3>2, <3>3, <3>4
  <2>6. \A i \in DOMAIN taskOutputs' : 0 < i /\ i < nextRunId'
    BY <1>1, <1>2, <2>3
  <2> QED BY SMTT(30), <2>4, <2>5, <2>6 DEF IdsName, Names
<1> QED BY <1>5, <1>6, <1>7

\* cancel_run raises a flag that justifies more and forbids nothing that was done.
LEMMA CancelRunKeepsOutcomes ==
  ASSUME RInv, NEW id \in 1..MaxRunId, CancelRun(id)
  PROVE  WorkAccounted' /\ Diagnosed' /\ IdsName'
<1> DEFINE c == Ref(id)
           d == [run[c] EXCEPT !.cancel = TRUE]
<1>1. /\ c \in DOMAIN co /\ DOMAIN run = DOMAIN co /\ run[c] \in Dict
      /\ run' = [run EXCEPT ![c] = d]
      /\ co' = co /\ taskOutputs' = taskOutputs /\ nextRunId' = nextRunId
  BY DEF CancelRun, RInv, IInv, TypeOK, stateVars
<1>2. /\ d.life = run[c].life /\ d.result = run[c].result /\ d.tasks = run[c].tasks
      /\ d.cancel = TRUE
  BY <1>1 DEF Dict
<1> HIDE DEF c, d
<1>3. WorkAccounted'
  <2>1. Work(co[c], run[c])
    BY <1>1 DEF RInv, WorkAccounted
  <2>2. Justified(co[c], d.cancel)
    BY <1>2, <2>1 DEF Work, Justified, JustifiedTask
  <2>3. DictAccounted(co[c], d)
    BY <1>2, <2>1 DEF Work, DictAccounted
  <2>4. Work(co'[c], run'[c])
    BY <1>1, <2>1, <2>2, <2>3 DEF Work
  <2>5. \A x \in DOMAIN co : x # c => co'[x] = co[x] /\ run'[x] = run[x]
    BY <1>1
  <2> QED BY <1>1, <2>4, <2>5, OneCoroutineWorks DEF RInv
<1>4. Diagnosed'
  BY <1>1, <1>2 DEF RInv, Diagnosed
<1>5. IdsName'
  BY <1>1 DEF RInv, IdsName, Names
<1> QED BY <1>3, <1>4, <1>5

-----------------------------------------------------------------------------
(* The service                                                             *)

LEMMA InitOutcomes == Init => RInv
  BY InitInvariant DEF Init, RInv, EmptyMap, WorkAccounted, Diagnosed, IdsName

LEMMA NextOutcomes == RInv /\ [Next]_vars => RInv'
<1> SUFFICES ASSUME RInv, [Next]_vars PROVE RInv'
  OBVIOUS
<1>1. IInv'
  BY NextInvariant DEF RInv
<1>2. WorkAccounted' /\ Diagnosed' /\ IdsName'
  <2>1. CASE UNCHANGED vars
    BY <2>1, UnseenKeepsOutcomes DEF vars, stateVars
  <2>2. ASSUME NEW g, NEW j, CreateJob(g) \/ UpdateJob(j, g) \/ DeleteJob(j)
        PROVE  WorkAccounted' /\ Diagnosed' /\ IdsName'
    BY <2>2, UnseenKeepsOutcomes DEF CreateJob, UpdateJob, DeleteJob
  <2>3. ASSUME NEW j, NEW g, NEW tok, RunNow(j, tok) \/ SubmitRun(g, tok)
        PROVE  WorkAccounted' /\ Diagnosed' /\ IdsName'
    BY <2>3, CreateRunKeepsOutcomes DEF RunNow, SubmitRun
  <2>4. ASSUME NEW id \in 1..MaxRunId, CancelRun(id)
        PROVE  WorkAccounted' /\ Diagnosed' /\ IdsName'
    BY <2>4, CancelRunKeepsOutcomes
  <2>5. ASSUME NEW id \in 1..MaxRunId, DeleteRun(id)
        PROVE  WorkAccounted' /\ Diagnosed' /\ IdsName'
    BY <2>5, UnseenKeepsOutcomes DEF DeleteRun
  <2>6. ASSUME NEW c \in Refs, CoroutineStep(c)
        PROVE  WorkAccounted' /\ Diagnosed' /\ IdsName'
    BY <2>6, StartRunKeepsOutcomes, RunOneEndsKeepsOutcomes, RunOneExecuteKeepsOutcomes,
       FinishTaskKeepsOutcomes, EndWaveKeepsOutcomes DEF CoroutineStep
  <2> QED BY <2>1, <2>2, <2>3, <2>4, <2>5, <2>6 DEF Next
<1> QED BY <1>1, <1>2 DEF RInv

(***************************************************************************)
(* A restart forgets the tasks that were busy, whose results nobody will   *)
(* record, and leaves what was recorded as it is.                          *)
(***************************************************************************)
LEMMA RestartKeepsOutcomes ==
  ASSUME RInv, Restart
  PROVE  WorkAccounted' /\ Diagnosed' /\ IdsName'
<1>1. /\ run' = run /\ taskOutputs' = taskOutputs /\ nextRunId' = nextRunId
      /\ DOMAIN co' = DOMAIN co /\ DOMAIN run = DOMAIN co
  BY DEF Restart, stateVars, RInv, IInv, TypeOK
<1>2. ASSUME NEW c \in DOMAIN co
      PROVE  /\ co'[c].pc = "done" /\ co'[c].graph = co[c].graph
             /\ co'[c].results = co[c].results /\ co'[c].raised = co[c].raised
             /\ \A t \in Key : co'[c].running[t] = 0
  <2> DEFINE idle == [k \in Key |-> 0]
  <2>1. co[c] \in Coroutine
    BY CoroutineFacts DEF RInv
  <2>2. co'[c] = [co[c] EXCEPT !.pc = "done", !.wave = {}, !.running = idle]
    BY DEF Restart
  <2>3. \A t \in Key : idle[t] = 0
    OBVIOUS
  <2> HIDE DEF idle
  <2> QED BY <2>1, <2>2, <2>3 DEF Coroutine
<1>3. ASSUME NEW c \in DOMAIN co
      PROVE  Work(co'[c], run[c])
  <2> DEFINE k == co[c]
             k1 == co'[c]
  <2>1. TasksInStage(k) /\ Justified(k, run[c].cancel) /\ DictAccounted(k, run[c])
    BY DEF RInv, WorkAccounted, Work
  <2>2. /\ k1.pc = "done" /\ k1.graph = k.graph /\ k1.results = k.results /\ k1.raised = k.raised
        /\ \A t \in Key : k1.running[t] = 0
    BY <1>2
  <2> HIDE DEF k, k1
  <2>3. TasksInStage(k1) /\ DictAccounted(k1, run[c])
    BY <2>1, <2>2 DEF TasksInStage, DictAccounted
  <2>4. Justified(k1, run[c].cancel)
    <3> SUFFICES ASSUME NEW t \in StartedIn(k1) \cup Done(k1.results)
                 PROVE  JustifiedTask(k1, run[c].cancel, t)
      BY DEF Justified
    <3>1. t \in StartedIn(k) \cup Done(k.results) /\ (t \in StartedIn(k1) <=> t \in StartedIn(k))
      <4>1. t \in Done(k.results) => k.running[t] = 0
        BY <2>1 DEF TasksInStage, Done
      <4> QED BY <2>2, <4>1 DEF StartedIn, Done
    <3>2. JustifiedTask(k, run[c].cancel, t)
      BY <2>1, <3>1 DEF Justified
    <3>3. MayRun(k1, t) <=> MayRun(k, t)
      BY <2>2, SameDecision
    <3> QED BY <2>2, <3>1, <3>2, <3>3 DEF JustifiedTask
  <2> QED BY <2>3, <2>4 DEF Work, k1
<1>4. WorkAccounted'
  <2>1. \A c \in DOMAIN co' : Work(co'[c], run'[c])
    BY <1>1, <1>3
  <2> QED BY <2>1 DEF WorkAccounted, Work, TasksInStage, Justified, JustifiedTask, MayRun, StartedIn,
                      DictAccounted
<1>5. Diagnosed'
  BY <1>1 DEF RInv, Diagnosed
<1>6. IdsName'
  <2>1. \A c \in DOMAIN co, x \in Owner, i \in Nat : Names(co'[c], c, x, i) => Names(co[c], c, x, i)
    BY <1>2 DEF Names
  <2>2. \A c \in DOMAIN co' : \A x \in Owner : \A i \in Nat : Names(co'[c], c, x, i) =>
          /\ 0 < i /\ i < nextRunId'
          /\ i \in DOMAIN taskOutputs' => taskOutputs'[i] = <<c, x>>
    BY <1>1, <2>1 DEF RInv, IdsName
  <2>3. \A c1, c2 \in DOMAIN co' : \A x1, x2 \in Owner : \A i \in Nat :
          Names(co'[c1], c1, x1, i) /\ Names(co'[c2], c2, x2, i) => c1 = c2 /\ x1 = x2
    BY <1>1, <2>1 DEF RInv, IdsName
  <2>4. \A i \in DOMAIN taskOutputs' : 0 < i /\ i < nextRunId'
    BY <1>1 DEF RInv, IdsName
  <2> QED BY <2>2, <2>3, <2>4 DEF IdsName, Names
<1> QED BY <1>4, <1>5, <1>6

LEMMA OutcomeInvariantSurvives == RestartSpec => []RInv
<1>1. RInv /\ [Next \/ Restart]_vars => RInv'
  <2>1. RInv /\ Restart => RInv'
    BY RestartKeepsInvariant, RestartKeepsOutcomes DEF RInv
  <2> QED BY <2>1, NextOutcomes
<1> QED BY <1>1, InitOutcomes, PTL DEF RestartSpec

LEMMA OutcomeInvariantHolds == Spec => []RInv
  BY OutcomeInvariantSurvives, OneLife, PTL

(***************************************************************************)
(* A run that has ended leaves no task behind (NoOrphanTask).              *)
(***************************************************************************)
THEOREM EndedRunsAreIdle == Spec => []NoOrphanTask
<1>1. RInv /\ RunsEnded => NoOrphanTask
  <2> SUFFICES ASSUME RInv, RunsEnded, NEW c \in DOMAIN co, co[c].pc = "done"
               PROVE  Running(c) = {} /\ run[co[c].on].life = "TERMINATED"
    BY DEF NoOrphanTask
  <2>1. co[c].on = c
    BY CoroutineFacts DEF RInv
  <2>2. Running(c) = {}
    BY DEF RInv, WorkAccounted, Work, TasksInStage, Running
  <2> QED BY <2>1, <2>2 DEF RunsEnded
<1> QED BY <1>1, OutcomeInvariantHolds, RunsEndedHolds, PTL

(***************************************************************************)
(* The result of a terminated run agrees with its tasks, or its diagnostic *)
(* is found under its own id (ResultAccounted).                            *)
(***************************************************************************)
THEOREM ResultsSurviveRestarts == RestartSpec => []ResultAccounted
<1>1. RInv => ResultAccounted
  <2> SUFFICES ASSUME RInv, NEW id \in registered, run[Ref(id)].life = "TERMINATED"
               PROVE  LET d == run[Ref(id)] IN
                      /\ d.result = "SUCCESS" =>
                           \A k \in Done(d.tasks) : d.tasks[k].status \in {"SUCCESS", "SKIPPED"}
                      /\ d.result = "CANCELED" => d.cancel
                      /\ d.result = "FAILED" =>
                           \/ \E k \in Key : d.tasks[k].status \in Failed
                           \/ id \in DOMAIN taskOutputs /\ taskOutputs[id] = <<Ref(id), NoKey>>
                      /\ d.result # "NONE"
    BY DEF ResultAccounted
  <2>1. /\ Ref(id) \in DOMAIN run /\ DOMAIN run = DOMAIN co /\ Ref(id)[2] = id /\ id \in Nat
    BY BoundsAssumption DEF RInv, IInv, TypeOK, Ref
  <2>2. Work(co[Ref(id)], run[Ref(id)])
    BY <2>1 DEF RInv, WorkAccounted
  <2>3. id \in DOMAIN taskOutputs => taskOutputs[id] = <<Ref(id), NoKey>>
    <3>1. NoKey \in Owner /\ Names(co[Ref(id)], Ref(id), NoKey, id)
      BY <2>1 DEF Owner, Names
    <3> QED BY <2>1, <3>1 DEF RInv, IdsName
  <2>4. run[Ref(id)].result = "FAILED" =>
          (\E k \in Key : run[Ref(id)].tasks[k].status \in Failed) \/ id \in DOMAIN taskOutputs
    BY <2>1 DEF RInv, Diagnosed
  <2> QED BY <2>2, <2>3, <2>4 DEF Work, DictAccounted
<1> QED BY <1>1, OutcomeInvariantSurvives, PTL

(***************************************************************************)
(* In particular while the server is not restarted.                        *)
(***************************************************************************)
THEOREM ResultsAreAccountedFor == Spec => []ResultAccounted
  BY ResultsSurviveRestarts, OneLife, PTL

(***************************************************************************)
(* runs/get-output never shows the output of another run or of another     *)
(* task (OutputsBelongToTheirRun), while the server is not reset.          *)
(***************************************************************************)
THEOREM OutputsSurviveRestarts == RestartSpec => []OutputsBelongToTheirRun
<1>1. RInv => OutputsBelongToTheirRun
  <2> SUFFICES ASSUME RInv, NEW id \in registered
               PROVE  LET ref == Ref(id)
                          tasks == run[ref].tasks
                      IN /\ id \in DOMAIN taskOutputs => taskOutputs[id] = <<ref, NoKey>>
                         /\ \A k \in Key : tasks[k].id \in DOMAIN taskOutputs =>
                              taskOutputs[tasks[k].id] = <<ref, k>>
    BY DEF OutputsBelongToTheirRun
  <2> DEFINE c == Ref(id)
  <2>1. /\ c \in DOMAIN run /\ DOMAIN run = DOMAIN co /\ c[2] = id /\ id \in Nat
        /\ IInv /\ co[c] \in Coroutine
    BY BoundsAssumption DEF RInv, IInv, TypeOK, Ref
  <2> HIDE DEF c
  <2>2. id \in DOMAIN taskOutputs => taskOutputs[id] = <<c, NoKey>>
    <3>1. NoKey \in Owner /\ Names(co[c], c, NoKey, id)
      BY <2>1 DEF Owner, Names
    <3> QED BY <2>1, <3>1 DEF RInv, IdsName
  <2>3. ASSUME NEW k \in Key, run[c].tasks[k].id \in DOMAIN taskOutputs
        PROVE  taskOutputs[run[c].tasks[k].id] = <<c, k>>
    <3> DEFINE i == run[c].tasks[k].id
    <3>1. i \in Nat /\ i # 0
      BY <2>1, <2>3 DEF RInv, IdsName, IInv, TypeOK
    <3>2. run[c].tasks \in {NoResults, co[c].results}
      BY <2>1 DEF RInv, WorkAccounted, Work, DictAccounted
    <3>3. NoResults[k].id = 0
      BY DEF NoResults
    <3>4. co[c].results[k].id = i
      BY <3>1, <3>2, <3>3
    <3>5. k \in Owner /\ Names(co[c], c, k, i)
      BY <3>1, <3>4 DEF Owner, Names
    <3> HIDE DEF i
    <3>6. i \in DOMAIN taskOutputs => taskOutputs[i] = <<c, k>>
      BY <2>1, <3>1, <3>5 DEF RInv, IdsName
    <3> QED BY <2>3, <3>6 DEF i
  <2> QED BY <2>2, <2>3 DEF c
<1> QED BY <1>1, OutcomeInvariantSurvives, PTL

(***************************************************************************)
(* In particular while the server is not restarted.                        *)
(***************************************************************************)
THEOREM OutputsStayWithTheirRun == Spec => []OutputsBelongToTheirRun
  BY OutputsSurviveRestarts, OneLife, PTL
-----------------------------------------------------------------------------
(* Resets and restarts at any time (LivesSpec).  What a coroutine does by  *)
(* its own record survives them, because no reset takes a dict away from   *)
(* the coroutine that holds it.                                            *)

\* A new run's dict is a new one.
IdsNew ==
  \A r \in DOMAIN run : r[1] < epoch \/ (r[1] = epoch /\ r[2] < nextRunId)

SourcesValid ==
  /\ \A j \in DOMAIN jobs : Valid(jobs[j])
  /\ \A r \in DOMAIN run : run[r].source.submitted => Valid(run[r].source.tasks)

\* The record k of a coroutine whose run was, or was not, canceled.
Sound(k, canceled) ==
  /\ OfItsList(k)
  /\ k.pc = "wave" => Valid(k.graph)
  /\ k.pc = "done" => k.wave = {}
  /\ TasksInStage(k)
  /\ Justified(k, canceled)

RecordsSound ==
  \A c \in DOMAIN co : co[c].on \in DOMAIN run /\ Sound(co[c], run[co[c].on].cancel)

LInv == TypeOK /\ IdsNew /\ SourcesValid /\ RecordsSound

\* ComesNearer, of the records k and k1 of a coroutine before and after a step.
LaterIn(k) == DOMAIN k.graph \ (Done(k.results) \cup k.wave)
UnendedIn(k) == k.wave \ (Done(k.results) \cup k.raised)
RunningIn(k) == {t \in Key : k.running[t] # 0}

Nearer(k, k1) ==
  LET left == [scheduled |-> 2, wave |-> 1, done |-> 0]
  IN \/ left[k1.pc] < left[k.pc]
     \/ /\ k.pc = "wave" /\ k1.pc = "wave" /\ k1.graph = k.graph
        /\ \/ Smaller(LaterIn(k1), LaterIn(k))
           \/ /\ LaterIn(k1) = LaterIn(k)
              /\ \/ Smaller(UnendedIn(k1), UnendedIn(k))
                 \/ UnendedIn(k1) = UnendedIn(k) /\ Smaller(RunningIn(k), RunningIn(k1))

LEMMA ComesNearerIsNearer ==
  ASSUME NEW c
  PROVE  ComesNearer(c) <=> Nearer(co[c], co'[c])
  BY DEF ComesNearer, Nearer, Later, Unended, Running, LaterIn, UnendedIn, RunningIn

LEMMA LaterStageIsNearer ==
  ASSUME NEW k, NEW k1, \/ k.pc = "scheduled" /\ k1.pc \in {"wave", "done"}
                        \/ k.pc = "wave" /\ k1.pc = "done"
  PROVE  Nearer(k, k1)
  BY DEF Nearer

\* Coroutine c takes a step to the record k1.
StepsTo(c, k1) ==
  /\ k1 \in Coroutine
  /\ co' = [co EXCEPT ![c] = k1]
  /\ k1.on \in DOMAIN run
  /\ Sound(k1, run[k1.on].cancel)
  /\ Canceled(c) => StartedIn(k1) \subseteq StartedIn(co[c])
  /\ Nearer(co[c], k1)

\* No dict loses what the requests put into it.
RequestsKept ==
  /\ DOMAIN run' = DOMAIN run
  /\ \A r \in DOMAIN run :
       run'[r] \in Dict /\ run'[r].source = run[r].source /\ run'[r].cancel = run[r].cancel

LEMMA LivesFacts ==
  ASSUME LInv, NEW c \in DOMAIN co
  PROVE  /\ co[c] \in Coroutine /\ c \in Refs /\ c[2] \in Nat
         /\ co[c].on \in DOMAIN run /\ co[c].on \in Refs /\ run[co[c].on] \in Dict
         /\ Sound(co[c], run[co[c].on].cancel)
         /\ nextRunId \in Nat \ {0}
<1>1. co[c] \in Coroutine /\ c \in Refs /\ co[c].on \in DOMAIN run
  BY DEF LInv, TypeOK, RecordsSound
<1>2. c[2] \in Nat
  BY <1>1, BoundsAssumption DEF Refs
<1> QED BY <1>1, <1>2 DEF LInv, TypeOK, RecordsSound

(***************************************************************************)
(* The head of the while loop, when no task is busy and all of the last    *)
(* wave have their outcomes: the coroutine begins a wave of tasks that     *)
(* were in none, or it ends.                                               *)
(***************************************************************************)
LEMMA ProceedSteps ==
  ASSUME LInv, NEW c \in DOMAIN co, co[c].pc \in {"scheduled", "wave"},
         NEW ref \in DOMAIN run, NEW d \in Dict,
         d.source = run[ref].source, d.cancel = run[ref].cancel,
         NEW g \in TaskLists, Valid(g),
         co[c].pc = "scheduled" \/ (g = co[c].graph /\ ref = co[c].on),
         co[c].raised = {}, \A t \in Key : co[c].running[t] = 0,
         co[c].wave \subseteq Done(co[c].results),
         Proceed(c, ref, d, g, co[c].results)
  PROVE  (\E k1 : StepsTo(c, k1)) /\ RequestsKept
<1> DEFINE k == co[c]
           results == k.results
           ready == Ready(g, results)
           left == DOMAIN g \ Done(results)
           skipped == WithSkipped(results, left)
           kw == [k EXCEPT !.pc = "wave", !.on = ref, !.graph = g, !.results = results, !.wave = ready]
           kd == [k EXCEPT !.pc = "done", !.on = ref, !.graph = g, !.results = skipped, !.wave = {}]
           fin == FinalResult(d, results, left # {})
           dd == Terminated(d, fin, skipped)
<1>1. /\ k \in Coroutine /\ results \in [Key -> TaskResult] /\ DOMAIN run \subseteq Refs
      /\ \A r \in DOMAIN run : run[r] \in Dict
      /\ OfItsList(k) /\ TasksInStage(k) /\ Justified(k, run[k.on].cancel)
  BY LivesFacts DEF Coroutine, Sound, LInv, TypeOK
<1>2. Proceed(c, ref, d, g, results)
  OBVIOUS
<1>3. ready \subseteq Key /\ DOMAIN g \subseteq Key
  BY GraphsAssumption DEF Ready, TaskLists, EmptyGraph
<1>4. ASSUME NEW k1, k1.graph = g, k1.results = results, k1.running = k.running, k1.raised = k.raised
      PROVE  Justified(k1, run[ref].cancel)
  <2>0. StartedIn(k1) = StartedIn(k)
    BY <1>4 DEF StartedIn
  <2>1. CASE k.pc = "scheduled"
    <3>1. StartedIn(k) \cup Done(results) = {}
      BY <1>1, <2>1 DEF TasksInStage, StartedIn, Done, NoResults
    <3> QED BY <1>4, <2>0, <3>1 DEF Justified
  <2>2. CASE g = k.graph /\ ref = k.on
    <3> SUFFICES ASSUME NEW t \in StartedIn(k) \cup Done(results)
                 PROVE  JustifiedTask(k1, run[ref].cancel, t)
      BY <1>4, <2>0 DEF Justified
    <3>1. JustifiedTask(k, run[ref].cancel, t)
      BY <1>1, <2>2 DEF Justified
    <3>2. MayRun(k1, t) <=> MayRun(k, t)
      BY <1>4, <2>2, SameDecision
    <3> QED BY <1>4, <2>0, <2>2, <3>1, <3>2 DEF JustifiedTask
  <2> QED BY <2>1, <2>2
<1>5. ASSUME NEW d1 \in Dict, d1.source = d.source, d1.cancel = d.cancel, run' = [run EXCEPT ![ref] = d1]
      PROVE  RequestsKept
  BY <1>1, <1>5 DEF RequestsKept
<1>6. CASE ready # {}
  <2>1. /\ kw.pc = "wave" /\ kw.on = ref /\ kw.graph = g /\ kw.results = results
        /\ kw.wave = ready /\ kw.running = k.running /\ kw.raised = k.raised
    BY <1>1 DEF Coroutine
  <2>2. kw \in Coroutine
    BY <1>1, <1>3 DEF Coroutine
  <2>3. co' = [co EXCEPT ![c] = kw] /\ run' = [run EXCEPT ![ref] = d]
    BY <1>2, <1>6 DEF Proceed
  <2> HIDE DEF kw
  <2>4. OfItsList(kw)
    BY <2>1 DEF OfItsList, Ready
  <2>5. TasksInStage(kw)
    BY <1>1, <2>1 DEF TasksInStage, Ready
  <2>6. Justified(kw, run[ref].cancel)
    BY <1>4, <2>1
  <2>7. StartedIn(kw) = StartedIn(k)
    BY <2>1 DEF StartedIn
  <2>8. Nearer(k, kw)
    <3>1. CASE k.pc = "scheduled"
      BY <2>1, <3>1, LaterStageIsNearer
    <3>2. CASE k.pc = "wave"
      <4>1. g = k.graph /\ k.wave \subseteq Done(results) /\ ready \subseteq DOMAIN g \ Done(results)
        BY <3>2 DEF Ready
      <4> HIDE DEF ready
      <4>2. LaterIn(k) = DOMAIN g \ Done(results) /\ LaterIn(kw) = (DOMAIN g \ Done(results)) \ ready
        BY <2>1, <4>1 DEF LaterIn
      <4>3. Smaller(LaterIn(kw), LaterIn(k))
        BY <1>6, <4>1, <4>2 DEF Smaller
      <4> QED BY <2>1, <3>2, <4>1, <4>3 DEF Nearer
    <3> QED BY <3>1, <3>2
  <2>9. StepsTo(c, kw)
    BY <2>1, <2>2, <2>3, <2>4, <2>5, <2>6, <2>7, <2>8 DEF StepsTo, Sound
  <2> QED BY <1>5, <2>3, <2>9
<1>7. CASE ready = {}
  <2>1. left = {}
    <3>1. left # {} => \E t \in left : g[t].deps \subseteq DOMAIN g \ left
      <4>1. left \in SUBSET DOMAIN g
        OBVIOUS
      <4> HIDE DEF left
      <4> QED BY <4>1, RestHasReadyTask
    <3>2. \A t \in left : g[t].deps \subseteq DOMAIN g \ left => t \in ready
      BY <1>3 DEF Ready
    <3> QED BY <1>7, <3>1, <3>2
  <2>2. skipped = results
    BY <1>1, <2>1 DEF WithSkipped
  <2>3. co' = [co EXCEPT ![c] = kd] /\ run' = [run EXCEPT ![ref] = dd]
    BY <1>2, <1>7 DEF Proceed
  <2>4. dd \in Dict /\ dd.source = d.source /\ dd.cancel = d.cancel
    <3>1. fin \in {"SUCCESS", "FAILED", "CANCELED"}
      BY DEF FinalResult
    <3>2. skipped \in [Key -> TaskResult]
      BY <1>1, <2>2
    <3>3. dd = Terminated(d, fin, skipped)
      BY Zenon
    <3> HIDE DEF fin, skipped, dd
    <3>4. /\ Terminated(d, fin, skipped) \in Dict
          /\ Terminated(d, fin, skipped).source = d.source
          /\ Terminated(d, fin, skipped).cancel = d.cancel
      BY SMTT(30), <3>1, <3>2, TerminatedType
    <3> QED BY <3>3, <3>4
  <2> HIDE DEF skipped, dd, left
  <2>5. /\ kd.pc = "done" /\ kd.on = ref /\ kd.graph = g /\ kd.results = results
        /\ kd.wave = {} /\ kd.running = k.running /\ kd.raised = k.raised
    BY <1>1, <2>2 DEF Coroutine
  <2>6. kd \in Coroutine
    BY <1>1, <2>2 DEF Coroutine
  <2> HIDE DEF kd
  <2>7. OfItsList(kd)
    BY <2>5 DEF OfItsList
  <2>8. TasksInStage(kd)
    BY <1>1, <2>5 DEF TasksInStage
  <2>9. Justified(kd, run[ref].cancel)
    BY <1>4, <2>5
  <2>10. StartedIn(kd) = StartedIn(k)
    BY <2>5 DEF StartedIn
  <2>11. Nearer(k, kd)
    BY <2>5, LaterStageIsNearer
  <2>12. StepsTo(c, kd)
    BY <2>3, <2>5, <2>6, <2>7, <2>8, <2>9, <2>10, <2>11 DEF StepsTo, Sound
  <2> QED BY <1>5, <2>3, <2>4, <2>12
<1> QED BY <1>6, <1>7

(***************************************************************************)
(* A step of run_one for task t of the wave that ends it, or leaves one    *)
(* more task waiting, and starts it only if the run is not canceled.       *)
(***************************************************************************)
LEMMA MoveSteps ==
  ASSUME LInv, NEW c \in DOMAIN co, NEW t, Undecided(co[c], t),
         NEW k1 \in Coroutine, co' = [co EXCEPT ![c] = k1], k1.on = co[c].on,
         NEW id, Moves(co[c], k1, t, id, run[co[c].on].cancel),
         \/ t \in Done(k1.results) \cup k1.raised
         \/ co[c].running[t] = 0 /\ k1.running[t] # 0,
         Canceled(c) => t \in StartedIn(co[c]) \/ t \notin StartedIn(k1)
  PROVE  StepsTo(c, k1)
<1> DEFINE k == co[c]
           canceled == run[k.on].cancel
<1>1. /\ k \in Coroutine /\ OfItsList(k) /\ Valid(k.graph) /\ TasksInStage(k)
      /\ Justified(k, canceled) /\ k.on \in DOMAIN run /\ Canceled(c) = canceled
      /\ t \in k.wave /\ t \in Key /\ k.pc = "wave" /\ t \notin Done(k.results) \cup k.raised
  BY LivesFacts DEF Sound, Undecided, Canceled, Coroutine
<1>2. /\ k1.pc = k.pc /\ k1.graph = k.graph /\ k1.wave = k.wave
      /\ \A u \in Key \ {t} : /\ k1.results[u] = k.results[u] /\ k1.running[u] = k.running[u]
                              /\ u \in k1.raised <=> u \in k.raised
      /\ k1.running[t] # 0 => t \notin Done(k1.results) \cup k1.raised
  BY Zenon DEF Moves
<1>3. TasksInStage(k1) /\ Justified(k1, canceled)
  <2> HIDE DEF canceled, k
  <2>1. Moves(k, k1, t, id, canceled) /\ Undecided(k, t)
    BY <1>1 DEF k, canceled
  <2> QED BY <1>1, <2>1, TaskMoves
<1>4. OfItsList(k1)
  BY <1>1, <1>2 DEF OfItsList
<1>5. Canceled(c) => StartedIn(k1) \subseteq StartedIn(k)
  <2>1. k1.raised \subseteq Key
    BY DEF Coroutine
  <2> QED BY <1>2, <2>1 DEF StartedIn
<1>6. /\ \A u \in Key \ {t} : u \in Done(k1.results) <=> u \in Done(k.results)
      /\ k.wave \subseteq Key /\ DOMAIN k.graph \subseteq Key
  <2>1. k.graph \in TaskLists /\ k.wave \subseteq Key
    BY <1>1 DEF Coroutine
  <2>2. DOMAIN k.graph \subseteq Key
    BY <2>1, GraphsAssumption DEF TaskLists, EmptyGraph
  <2> QED BY <1>2, <2>1, <2>2 DEF Done
<1>7. LaterIn(k1) = LaterIn(k)
  BY <1>1, <1>2, <1>6 DEF LaterIn
<1>8. Nearer(k, k1)
  <2>1. CASE t \in Done(k1.results) \cup k1.raised
    <3>1. UnendedIn(k1) \subseteq UnendedIn(k) /\ t \in UnendedIn(k) /\ t \notin UnendedIn(k1)
      BY <1>1, <1>2, <1>6, <2>1 DEF UnendedIn
    <3>2. Smaller(UnendedIn(k1), UnendedIn(k))
      BY <3>1 DEF Smaller
    <3> QED BY <1>1, <1>2, <1>7, <3>2 DEF Nearer
  <2>2. CASE k.running[t] = 0 /\ k1.running[t] # 0
    <3>1. UnendedIn(k1) = UnendedIn(k)
      BY <1>1, <1>2, <1>6, <2>2 DEF UnendedIn
    <3>2. RunningIn(k) \subseteq RunningIn(k1) /\ t \in RunningIn(k1) /\ t \notin RunningIn(k)
      BY <1>1, <1>2, <2>2 DEF RunningIn
    <3>3. Smaller(RunningIn(k), RunningIn(k1))
      BY <3>2 DEF Smaller
    <3> QED BY <1>1, <1>2, <1>7, <3>1, <3>3 DEF Nearer
  <2> QED BY <2>1, <2>2
<1>9. Sound(k1, run[k1.on].cancel)
  BY <1>1, <1>2, <1>3, <1>4 DEF Sound
<1> QED BY <1>1, <1>5, <1>8, <1>9 DEF StepsTo

\* What a coroutine's step leaves of everything else.
ElsewhereKept ==
  /\ RequestsKept
  /\ nextRunId' \in {nextRunId, nextRunId + 1}
  /\ DOMAIN taskOutputs' \subseteq Nat
  /\ \A i \in DOMAIN taskOutputs' : taskOutputs'[i] \in Refs \X (Key \cup {NoKey})
  /\ UNCHANGED <<jobs, registered, submitTokens, runNowTokens, nextJobId, epoch>>

LEMMA OutputsTyped ==
  ASSUME LInv, \/ taskOutputs' = taskOutputs
               \/ \E i \in Nat, r \in Refs, x \in Key \cup {NoKey} :
                    taskOutputs' = Put(taskOutputs, i, <<r, x>>)
  PROVE  /\ DOMAIN taskOutputs' \subseteq Nat
         /\ \A i \in DOMAIN taskOutputs' : taskOutputs'[i] \in Refs \X (Key \cup {NoKey})
<1>1. /\ DOMAIN taskOutputs \subseteq Nat
      /\ \A i \in DOMAIN taskOutputs : taskOutputs[i] \in Refs \X (Key \cup {NoKey})
  BY DEF LInv, TypeOK
<1>2. ASSUME NEW i \in Nat, NEW v \in Refs \X (Key \cup {NoKey}), taskOutputs' = Put(taskOutputs, i, v)
      PROVE  /\ DOMAIN taskOutputs' \subseteq Nat
             /\ \A j \in DOMAIN taskOutputs' : taskOutputs'[j] \in Refs \X (Key \cup {NoKey})
  BY <1>1, <1>2 DEF Put
<1>3. \A r \in Refs, x \in Key \cup {NoKey} : <<r, x>> \in Refs \X (Key \cup {NoKey})
  OBVIOUS
<1> QED BY <1>1, <1>2, <1>3, Zenon

LEMMA RunKept == ASSUME LInv, run' = run PROVE RequestsKept
  BY DEF LInv, TypeOK, RequestsKept

LEMMA RunOneEndsSteps ==
  ASSUME LInv, NEW c \in Refs, NEW t \in Key, RunOneCanceled(c, t) \/ RunOneSkipped(c, t)
  PROVE  c \in DOMAIN co /\ (\E k1 : StepsTo(c, k1)) /\ ElsewhereKept
<1>1. c \in DOMAIN co /\ Undecided(co[c], t)
  BY DEF RunOneCanceled, RunOneSkipped, NotStarted, Undecided
<1>2. co[c] \in Coroutine /\ (Allowed(c, t) <=> MayRun(co[c], t))
  <2>1. /\ co[c] \in Coroutine /\ OfItsList(co[c]) /\ TasksInStage(co[c]) /\ Valid(co[c].graph)
    BY <1>1, LivesFacts DEF Sound, Undecided
  <2> QED BY <1>1, <2>1, AllowedMeans DEF Undecided
<1>3. PICK status \in TaskStatus :
        /\ co' = Recorded(c, t, status, 0)
        /\ \/ status = "CANCELED" /\ run[co[c].on].cancel
           \/ status = "SKIPPED" /\ ~MayRun(co[c], t)
  BY <1>2 DEF RunOneCanceled, RunOneSkipped, Canceled, TaskStatus
<1>4. PICK r \in Coroutine :
        /\ co' = [co EXCEPT ![c] = r] /\ r.on = co[c].on
        /\ Moves(co[c], r, t, 0, run[co[c].on].cancel)
        /\ t \in Done(r.results) /\ t \notin StartedIn(r)
  BY <1>1, <1>2, <1>3, RecordedMoves
<1>5. StepsTo(c, r)
  BY <1>1, <1>4, MoveSteps
<1>6. ElsewhereKept
  <2>1. /\ run' = run /\ nextRunId' = nextRunId /\ taskOutputs' = taskOutputs
        /\ UNCHANGED <<jobs, registered, submitTokens, runNowTokens, nextJobId, epoch>>
    BY DEF RunOneCanceled, RunOneSkipped, stateVars
  <2> QED BY <2>1, RunKept, OutputsTyped DEF ElsewhereKept
<1> QED BY <1>1, <1>5, <1>6

LEMMA SettleSteps ==
  ASSUME LInv, NEW c \in DOMAIN co, NEW t, Undecided(co[c], t), MayRun(co[c], t),
         NEW id \in Nat, id # 0,
         NEW o, o.status \in (TaskStatus \ {"CANCELED"}) \cup {"RAISED"},
         Settle(c, t, id, o), Canceled(c) => t \in StartedIn(co[c])
  PROVE  /\ \E k1 : StepsTo(c, k1)
         /\ DOMAIN taskOutputs' \subseteq Nat
         /\ \A i \in DOMAIN taskOutputs' : taskOutputs'[i] \in Refs \X (Key \cup {NoKey})
<1>1. co[c] \in Coroutine /\ co[c].on \in Refs /\ t \in Key
  BY LivesFacts DEF Undecided, Coroutine
<1>2. PICK r \in Coroutine :
        /\ co' = [co EXCEPT ![c] = r] /\ r.on = co[c].on
        /\ Moves(co[c], r, t, id, run[co[c].on].cancel)
        /\ t \in Done(r.results) \cup r.raised
  BY <1>1, SettleMoves
<1>3. StepsTo(c, r)
  BY <1>2, MoveSteps
<1>4. \/ taskOutputs' = taskOutputs
      \/ \E i \in Nat, b \in Refs, x \in Key \cup {NoKey} :
           taskOutputs' = Put(taskOutputs, i, <<b, x>>)
  BY <1>1 DEF Settle
<1> QED BY <1>3, <1>4, OutputsTyped

LEMMA WaitSteps ==
  ASSUME LInv, NEW c \in DOMAIN co, NEW t, Undecided(co[c], t), MayRun(co[c], t),
         co[c].running[t] = 0, ~Canceled(c), NEW id \in Nat, id # 0,
         co' = [co EXCEPT ![c].running = [@ EXCEPT ![t] = id]]
  PROVE  \E k1 : StepsTo(c, k1)
<1> DEFINE k == co[c]
           canceled == run[k.on].cancel
           r == [k EXCEPT !.running = [@ EXCEPT ![t] = id]]
<1>1. k \in Coroutine /\ Undecided(k, t) /\ MayRun(k, t)
  BY LivesFacts
<1>2. co' = [co EXCEPT ![c] = r] /\ r = [k EXCEPT !.running = [@ EXCEPT ![t] = id]]
  OBVIOUS
<1> HIDE DEF r, k, canceled
<1>3. r \in Coroutine /\ r.on = k.on /\ Moves(k, r, t, id, canceled)
  BY <1>1, <1>2, WaitMoves
<1>4. r.running[t] # 0
  BY <1>1, <1>2 DEF Coroutine, Undecided
<1>5. StepsTo(c, r)
  BY <1>2, <1>3, <1>4, MoveSteps DEF k, canceled
<1> QED BY <1>5

LEMMA RunOneExecuteSteps ==
  ASSUME LInv, NEW c \in Refs, NEW t \in Key, RunOneExecute(c, t)
  PROVE  c \in DOMAIN co /\ (\E k1 : StepsTo(c, k1)) /\ ElsewhereKept
<1> DEFINE k == co[c]
           kind == k.graph[t].kind
<1>1. c \in DOMAIN co /\ Undecided(k, t) /\ ~Canceled(c) /\ t \notin Running(c)
  BY DEF RunOneExecute, NotStarted, Undecided
<1>2. k \in Coroutine /\ OfItsList(k) /\ MayRun(k, t) /\ k.running[t] = 0
  <2>1. /\ co[c] \in Coroutine /\ OfItsList(co[c]) /\ TasksInStage(co[c]) /\ Valid(co[c].graph)
    BY <1>1, LivesFacts DEF Sound, Undecided
  <2>2. Allowed(c, t) <=> MayRun(co[c], t)
    BY <1>1, <2>1, AllowedMeans DEF Undecided
  <2> QED BY <1>1, <2>1, <2>2 DEF RunOneExecute, Running
<1>3. nextRunId \in Nat /\ nextRunId # 0
  BY DEF LInv, TypeOK
<1>4. /\ nextRunId' = nextRunId + 1 /\ run' = run
      /\ UNCHANGED <<jobs, registered, submitTokens, runNowTokens, nextJobId, epoch>>
  BY DEF RunOneExecute
<1>5. ASSUME NEW o \in InlineOutcomes[kind], Settle(c, t, nextRunId, o)
      PROVE  (\E k1 : StepsTo(c, k1)) /\ ElsewhereKept
  <2>1. o.status \in (TaskStatus \ {"CANCELED"}) \cup {"RAISED"}
    BY <1>1, <1>2, OutcomesNotCanceled, KindType DEF Undecided, Coroutine
  <2>2. /\ \E k1 : StepsTo(c, k1)
        /\ DOMAIN taskOutputs' \subseteq Nat
        /\ \A i \in DOMAIN taskOutputs' : taskOutputs'[i] \in Refs \X (Key \cup {NoKey})
    <3>1. Undecided(co[c], t) /\ MayRun(co[c], t) /\ (Canceled(c) => t \in StartedIn(co[c]))
      BY <1>1, <1>2
    <3> QED BY <1>1, <1>3, <1>5, <2>1, <3>1, SettleSteps
  <2> QED BY <1>4, <2>2, RunKept DEF ElsewhereKept
<1>6. ASSUME co' = [co EXCEPT ![c].running = [@ EXCEPT ![t] = nextRunId]], UNCHANGED taskOutputs
      PROVE  (\E k1 : StepsTo(c, k1)) /\ ElsewhereKept
  <2>1. Undecided(co[c], t) /\ MayRun(co[c], t) /\ co[c].running[t] = 0
    BY <1>1, <1>2
  <2>2. \E k1 : StepsTo(c, k1)
    BY <1>1, <1>3, <1>6, <2>1, WaitSteps
  <2> QED BY <1>4, <1>6, <2>2, RunKept, OutputsTyped DEF ElsewhereKept
<1>7. \/ \E o \in InlineOutcomes[kind] : Settle(c, t, nextRunId, o)
      \/ /\ co' = [co EXCEPT ![c].running = [@ EXCEPT ![t] = nextRunId]]
         /\ UNCHANGED taskOutputs
  BY Zenon DEF RunOneExecute
<1> QED BY <1>1, <1>5, <1>6, <1>7

LEMMA FinishTaskSteps ==
  ASSUME LInv, NEW c \in Refs, NEW t \in Key, FinishTask(c, t)
  PROVE  c \in DOMAIN co /\ (\E k1 : StepsTo(c, k1)) /\ ElsewhereKept
<1> DEFINE k == co[c]
<1>1. /\ c \in DOMAIN co /\ t \in Running(c) /\ k.running[t] # 0
      /\ k \in Coroutine /\ Sound(k, run[k.on].cancel) /\ OfItsList(k)
  BY LivesFacts DEF FinishTask, Running, Sound
<1>2. PICK o \in LateOutcomes[k.graph[t].kind] : Settle(c, t, k.running[t], o)
  BY DEF FinishTask
<1>3. o.status \in (TaskStatus \ {"CANCELED"}) \cup {"RAISED"}
  BY <1>1, OutcomesNotCanceled, KindType
<1>4. Undecided(k, t) /\ MayRun(k, t) /\ t \in StartedIn(k)
  BY <1>1 DEF Sound, TasksInStage, Justified, JustifiedTask, StartedIn, Undecided
<1>5. k.running[t] \in Nat
  BY <1>1 DEF Coroutine
<1>6. /\ \E k1 : StepsTo(c, k1)
      /\ DOMAIN taskOutputs' \subseteq Nat
      /\ \A i \in DOMAIN taskOutputs' : taskOutputs'[i] \in Refs \X (Key \cup {NoKey})
  BY <1>1, <1>2, <1>3, <1>4, <1>5, SettleSteps
<1>7. /\ run' = run /\ nextRunId' = nextRunId
      /\ UNCHANGED <<jobs, registered, submitTokens, runNowTokens, nextJobId, epoch>>
  BY DEF FinishTask
<1> QED BY <1>1, <1>6, <1>7, RunKept DEF ElsewhereKept

\* What a run is about to execute was validated, whoever is about to execute it.
LEMMA SourceStaysValid ==
  ASSUME LInv, NEW r \in DOMAIN run
  PROVE  TaskSource(run[r].source) \in TaskLists /\ Valid(TaskSource(run[r].source))
<1>1. run[r] \in Dict
  BY DEF LInv, TypeOK
<1>2. EmptyGraph \in TaskLists /\ Valid(EmptyGraph)
  BY DEF TaskLists, EmptyGraph, Valid, Acyclic
<1> QED BY <1>1, <1>2 DEF TaskSource, LInv, TypeOK, SourcesValid, Dict

\* A coroutine that was scheduled before a reset may find another run under its id, or none.
LEMMA StartRunSteps ==
  ASSUME LInv, NEW c \in Refs, StartRun(c)
  PROVE  c \in DOMAIN co /\ (\E k1 : StepsTo(c, k1)) /\ ElsewhereKept
<1>1. /\ c \in DOMAIN co /\ co[c].pc = "scheduled" /\ co[c] \in Coroutine
      /\ Sound(co[c], run[co[c].on].cancel) /\ co[c].on \in DOMAIN run
  BY LivesFacts DEF StartRun
<1>2. /\ co[c].results = NoResults /\ co[c].raised = {} /\ \A t \in Key : co[c].running[t] = 0
      /\ co[c].wave = {}
  BY <1>1 DEF Sound, TasksInStage, OfItsList
<1>3. /\ UNCHANGED <<jobs, registered, submitTokens, runNowTokens, nextJobId, epoch>>
      /\ nextRunId' = nextRunId /\ taskOutputs' = taskOutputs
  BY DEF StartRun, stateVars
<1>4. CASE c[2] \notin registered
  <2> DEFINE k1 == [co[c] EXCEPT !.pc = "done"]
  <2>1. co' = [co EXCEPT ![c] = k1] /\ run' = run
    BY <1>4 DEF StartRun
  <2>2. /\ k1 \in Coroutine /\ k1.pc = "done" /\ k1.on = co[c].on /\ k1.graph = co[c].graph
        /\ k1.results = co[c].results /\ k1.wave = {} /\ k1.running = co[c].running
        /\ k1.raised = {}
    BY <1>1, <1>2 DEF Coroutine
  <2> HIDE DEF k1
  <2>3. StartedIn(k1) = {} /\ Done(k1.results) = {}
    BY <1>2, <2>2 DEF StartedIn, Done, NoResults
  <2>4. Sound(k1, run[k1.on].cancel)
    BY <1>2, <2>2, <2>3 DEF Sound, OfItsList, TasksInStage, Justified
  <2>5. Nearer(co[c], k1)
    BY <1>1, <2>2, LaterStageIsNearer
  <2>6. StepsTo(c, k1)
    BY <1>1, <2>1, <2>2, <2>3, <2>4, <2>5 DEF StepsTo
  <2> QED BY <1>1, <1>3, <2>1, <2>6, RunKept, OutputsTyped DEF ElsewhereKept
<1>5. CASE c[2] \in registered
  <2> DEFINE ref == Ref(c[2])
             d == [run[ref] EXCEPT !.life = "RUNNING", !.result = "NONE"]
             g == TaskSource(d.source)
  <2>1. ref \in DOMAIN run /\ run[ref] \in Dict
    BY <1>5 DEF LInv, TypeOK
  <2>2. d \in Dict /\ d.source = run[ref].source /\ d.cancel = run[ref].cancel
    BY <2>1 DEF Dict
  <2>3. g \in TaskLists /\ Valid(g)
    BY <2>1, <2>2, SourceStaysValid
  <2>4. Proceed(c, ref, d, g, co[c].results)
    BY <1>2, <1>5, <2>3 DEF StartRun
  <2> HIDE DEF ref, d, g
  <2>5. co[c].wave \subseteq Done(co[c].results)
    BY <1>2
  <2>6. (\E k1 : StepsTo(c, k1)) /\ RequestsKept
    BY <1>1, <1>2, <2>1, <2>2, <2>3, <2>4, <2>5, ProceedSteps
  <2> QED BY <1>1, <1>3, <2>6, OutputsTyped DEF ElsewhereKept
<1> QED BY <1>4, <1>5

LEMMA EndWaveSteps ==
  ASSUME LInv, NEW c \in Refs, EndWave(c)
  PROVE  c \in DOMAIN co /\ (\E k1 : StepsTo(c, k1)) /\ ElsewhereKept
<1> DEFINE k == co[c]
           ref == k.on
<1>1. /\ c \in DOMAIN co /\ k.pc = "wave" /\ AfterGather(c)
      /\ k.wave \subseteq Done(k.results) \cup k.raised
  BY DEF EndWave
<1>2. /\ k \in Coroutine /\ ref \in DOMAIN run /\ ref \in Refs /\ run[ref] \in Dict /\ c[2] \in Nat
      /\ OfItsList(k) /\ Valid(k.graph) /\ TasksInStage(k) /\ Justified(k, run[ref].cancel)
      /\ k.graph \in TaskLists
  BY <1>1, LivesFacts DEF Sound, Coroutine
<1>3. \A t \in Key : k.running[t] = 0
  BY <1>1, <1>2 DEF TasksInStage
<1>4. /\ UNCHANGED <<jobs, registered, submitTokens, runNowTokens, nextJobId, epoch>>
      /\ nextRunId' = nextRunId
  BY <1>1 DEF AfterGather
<1>5. CASE k.raised = {}
  <2>1. Proceed(c, ref, run[ref], k.graph, k.results) /\ taskOutputs' = taskOutputs
    BY <1>1, <1>5 DEF AfterGather
  <2>2. k.wave \subseteq Done(k.results)
    BY <1>1, <1>5
  <2> HIDE DEF ref
  <2>3. (\E k1 : StepsTo(c, k1)) /\ RequestsKept
    BY <1>1, <1>2, <1>3, <1>5, <2>1, <2>2, ProceedSteps DEF ref
  <2> QED BY <1>1, <1>4, <2>1, <2>3, OutputsTyped DEF ElsewhereKept
<1>6. CASE k.raised # {}
  <2> DEFINE k1 == [k EXCEPT !.pc = "done", !.wave = {}]
             d1 == Terminated(run[ref], "FAILED", run[ref].tasks)
  <2>1. /\ co' = [co EXCEPT ![c] = k1]
        /\ run' = [run EXCEPT ![ref] = d1]
        /\ taskOutputs' = Put(taskOutputs, c[2], <<ref, NoKey>>)
    BY <1>1, <1>6 DEF AfterGather
  <2>2. /\ k1 \in Coroutine /\ k1.pc = "done" /\ k1.on = ref /\ k1.graph = k.graph
        /\ k1.results = k.results /\ k1.wave = {} /\ k1.running = k.running /\ k1.raised = k.raised
    BY <1>2 DEF Coroutine
  <2>3. d1 \in Dict /\ d1.source = run[ref].source /\ d1.cancel = run[ref].cancel
    <3>1. run[ref].tasks \in [Key -> TaskResult]
      BY <1>2 DEF Dict
    <3> HIDE DEF ref
    <3> QED BY <1>2, <3>1, TerminatedType
  <2> HIDE DEF k1, d1
  <2>4. StartedIn(k1) = StartedIn(k)
    BY <2>2 DEF StartedIn
  <2>5. OfItsList(k1) /\ TasksInStage(k1)
    BY <1>2, <1>3, <2>2 DEF OfItsList, TasksInStage
  <2>6. Justified(k1, run[ref].cancel)
    <3> SUFFICES ASSUME NEW t \in StartedIn(k) \cup Done(k.results)
                 PROVE  JustifiedTask(k1, run[ref].cancel, t)
      BY <2>2, <2>4 DEF Justified
    <3>1. JustifiedTask(k, run[ref].cancel, t)
      BY <1>2 DEF Justified
    <3>2. MayRun(k1, t) <=> MayRun(k, t)
      BY <2>2, SameDecision
    <3> QED BY <2>2, <2>4, <3>1, <3>2 DEF JustifiedTask
  <2>7. Nearer(k, k1)
    BY <1>1, <2>2, LaterStageIsNearer
  <2>8. StepsTo(c, k1)
    BY <1>2, <2>1, <2>2, <2>4, <2>5, <2>6, <2>7 DEF StepsTo, Sound
  <2>9. RequestsKept
    BY <1>2, <2>1, <2>3 DEF RequestsKept, LInv, TypeOK
  <2>10. /\ DOMAIN taskOutputs' \subseteq Nat
         /\ \A i \in DOMAIN taskOutputs' : taskOutputs'[i] \in Refs \X (Key \cup {NoKey})
    BY <1>2, <2>1, OutputsTyped
  <2> QED BY <1>1, <1>4, <2>8, <2>9, <2>10 DEF ElsewhereKept
<1> QED BY <1>5, <1>6

(***************************************************************************)
(* Whatever was reset or restarted before, a coroutine takes sound steps,  *)
(* each of which brings it nearer to its end.                              *)
(***************************************************************************)
LEMMA CoroutineSteps ==
  ASSUME LInv, NEW c \in Refs, CoroutineStep(c)
  PROVE  c \in DOMAIN co /\ (\E k1 : StepsTo(c, k1)) /\ ElsewhereKept
  BY StartRunSteps, RunOneEndsSteps, RunOneExecuteSteps, FinishTaskSteps, EndWaveSteps
  DEF CoroutineStep

\* A run that is canceled later justifies what was justified before.
LEMMA CancelKeepsSound ==
  ASSUME NEW k, NEW a, NEW b, a => b, Sound(k, a)
  PROVE  Sound(k, b)
<1>1. Justified(k, a) => Justified(k, b)
  BY DEF Justified, JustifiedTask
<1> QED BY <1>1 DEF Sound

\* A step that only adds dicts, takes back no cancellation, and leaves sound what it changes.
LEMMA RecordsStaySound ==
  ASSUME LInv, DOMAIN run \subseteq DOMAIN run',
         \A r \in DOMAIN run : run[r].cancel => run'[r].cancel,
         \A c \in DOMAIN co' : \/ c \in DOMAIN co /\ co'[c] = co[c]
                               \/ co'[c].on \in DOMAIN run' /\ Sound(co'[c], run'[co'[c].on].cancel)
  PROVE  RecordsSound'
<1>1. ASSUME NEW c \in DOMAIN co, co'[c] = co[c]
      PROVE  co'[c].on \in DOMAIN run' /\ Sound(co'[c], run'[co'[c].on].cancel)
  <2>1. co[c].on \in DOMAIN run /\ Sound(co[c], run[co[c].on].cancel)
    BY LivesFacts
  <2>2. run[co[c].on].cancel => run'[co[c].on].cancel
    BY <2>1
  <2>3. Sound(co[c], run'[co[c].on].cancel)
    BY <2>1, <2>2, CancelKeepsSound
  <2> QED BY <1>1, <2>1, <2>3
<1>2. \A c \in DOMAIN co' : co'[c].on \in DOMAIN run' /\ Sound(co'[c], run'[co'[c].on].cancel)
  BY <1>1
<1> QED BY <1>2 DEF RecordsSound, Sound, OfItsList, TasksInStage, Justified, JustifiedTask, MayRun,
                    StartedIn, Valid, Acyclic

LEMMA CoroutineStepKeepsLives ==
  ASSUME LInv, NEW c \in Refs, CoroutineStep(c)
  PROVE  LInv'
<1>1. c \in DOMAIN co /\ ElsewhereKept
  BY CoroutineSteps
<1>2. PICK k1 : StepsTo(c, k1)
  BY CoroutineSteps
<1>3. /\ co' = [co EXCEPT ![c] = k1] /\ k1 \in Coroutine
      /\ k1.on \in DOMAIN run /\ Sound(k1, run[k1.on].cancel)
  BY <1>2 DEF StepsTo
<1>4. /\ DOMAIN run' = DOMAIN run
      /\ \A r \in DOMAIN run :
           run'[r] \in Dict /\ run'[r].source = run[r].source /\ run'[r].cancel = run[r].cancel
      /\ nextRunId' \in {nextRunId, nextRunId + 1}
      /\ UNCHANGED <<jobs, registered, submitTokens, runNowTokens, nextJobId, epoch>>
      /\ DOMAIN taskOutputs' \subseteq Nat
      /\ \A i \in DOMAIN taskOutputs' : taskOutputs'[i] \in Refs \X (Key \cup {NoKey})
  BY <1>1 DEF ElsewhereKept, RequestsKept
<1>5. TypeOK'
  BY <1>1, <1>3, <1>4 DEF LInv, TypeOK, Ref
<1>6. IdsNew'
  <2>1. nextRunId \in Nat /\ \A r \in DOMAIN run : r[2] \in Nat
    BY BoundsAssumption DEF LInv, TypeOK, Refs
  <2> QED BY <1>4, <2>1 DEF LInv, IdsNew
<1>7. SourcesValid'
  BY <1>4 DEF LInv, SourcesValid
<1>8. RecordsSound'
  <2>1. \A x \in DOMAIN co' : \/ x \in DOMAIN co /\ co'[x] = co[x]
                              \/ co'[x].on \in DOMAIN run' /\ Sound(co'[x], run'[co'[x].on].cancel)
    BY <1>1, <1>3, <1>4
  <2> QED BY <1>4, <2>1, RecordsStaySound
<1> QED BY <1>5, <1>6, <1>7, <1>8 DEF LInv

LEMMA JobRequestKeepsLives ==
  ASSUME LInv,
         \/ \E g \in TaskLists : CreateJob(g)
         \/ \E j \in 1..MaxJobs, g \in TaskLists : UpdateJob(j, g)
         \/ \E j \in 1..MaxJobs : DeleteJob(j)
  PROVE  LInv'
<1>1. /\ UNCHANGED <<nextRunId, epoch, run, co>>
      /\ \A j \in DOMAIN jobs' : Valid(jobs'[j])
      /\ TypeOK'
  BY JobRequestFacts DEF LInv, SourcesValid
<1>2. IdsNew' /\ SourcesValid'
  BY <1>1 DEF LInv, IdsNew, SourcesValid
<1>3. RecordsSound'
  BY <1>1, RecordsStaySound
<1> QED BY <1>1, <1>2, <1>3 DEF LInv

LEMMA CreateRunKeepsLives ==
  ASSUME LInv, NEW source \in [submitted : BOOLEAN, job : Nat, tasks : TaskLists],
         Valid(source.tasks), NEW tok \in Token \cup {NoToken}, CreateRun(source, tok),
         \/ source.submitted /\ submitTokens' = Remember(submitTokens, tok) /\ UNCHANGED runNowTokens
         \/ ~source.submitted /\ runNowTokens' = Remember(runNowTokens, tok) /\ UNCHANGED submitTokens
  PROVE  LInv'
<1> DEFINE n == Ref(nextRunId)
           k == NewCoroutine(nextRunId)
<1>1. TypeOK /\ \A r \in DOMAIN run : r[1] = epoch => r[2] < nextRunId
  <2>1. epoch \in Nat /\ \A r \in DOMAIN run : r[1] \in Nat
    BY BoundsAssumption DEF LInv, TypeOK, Refs
  <2> QED BY <2>1 DEF LInv, IdsNew
<1>2. /\ n \notin DOMAIN run /\ n[1] = epoch /\ n[2] = nextRunId
      /\ nextRunId \in 1..MaxRunId
      /\ DOMAIN run' = DOMAIN run \cup {n} /\ DOMAIN co' = DOMAIN co \cup {n}
      /\ run'[n] = NewDict(source, tok) /\ co'[n] = k
      /\ \A r \in DOMAIN run : r # n /\ run'[r] = run[r] /\ co'[r] = co[r]
      /\ nextRunId' = nextRunId + 1 /\ UNCHANGED <<jobs, epoch>>
  BY <1>1, NewRunFacts
<1>3. run'[n].source = source
  BY <1>2 DEF NewDict
<1>4. TypeOK'
  BY <1>1, CreateRunKeepsTypes
<1>5. Sound(k, run'[n].cancel) /\ k.on = n
  <2> DEFINE idle == [x \in Key |-> 0]
  <2>1. /\ k.pc = "scheduled" /\ k.on = n /\ k.graph = EmptyGraph /\ k.results = NoResults
        /\ k.wave = {} /\ k.raised = {} /\ k.running = idle
    BY DEF NewCoroutine
  <2>2. \A t \in Key : idle[t] = 0 /\ NoResults[t].id = 0 /\ NoResults[t].status = "NONE"
    BY DEF NoResults
  <2>3. DOMAIN EmptyGraph = {}
    BY DEF EmptyGraph
  <2> HIDE DEF idle, k
  <2>4. OfItsList(k) /\ TasksInStage(k)
    BY <2>1, <2>2, <2>3 DEF OfItsList, TasksInStage
  <2>5. StartedIn(k) \cup Done(k.results) = {}
    BY <2>1, <2>2 DEF StartedIn, Done
  <2>6. Justified(k, run'[n].cancel)
    BY <2>5 DEF Justified
  <2> QED BY <2>1, <2>4, <2>6 DEF Sound
<1> HIDE DEF n, k
<1>6. IdsNew'
  <2>1. nextRunId \in Nat /\ \A r \in DOMAIN run : r[2] \in Nat
    BY BoundsAssumption DEF LInv, TypeOK, Refs
  <2> QED BY <1>2, <2>1 DEF LInv, IdsNew
<1>7. SourcesValid'
  <2>1. \A j \in DOMAIN jobs' : Valid(jobs'[j])
    BY <1>2 DEF LInv, SourcesValid
  <2>2. \A r \in DOMAIN run' : run'[r].source.submitted => Valid(run'[r].source.tasks)
    BY <1>2, <1>3 DEF LInv, SourcesValid
  <2> QED BY <2>1, <2>2 DEF SourcesValid, Valid, Acyclic
<1>8. RecordsSound'
  <2>1. \A x \in DOMAIN co' : \/ x \in DOMAIN co /\ co'[x] = co[x]
                              \/ co'[x].on \in DOMAIN run' /\ Sound(co'[x], run'[co'[x].on].cancel)
    <3>1. DOMAIN co = DOMAIN run
      BY <1>1 DEF TypeOK
    <3>2. co'[n].on \in DOMAIN run' /\ Sound(co'[n], run'[co'[n].on].cancel)
      BY <1>2, <1>5
    <3> QED BY <1>2, <3>1, <3>2
  <2>2. /\ DOMAIN run \subseteq DOMAIN run'
        /\ \A r \in DOMAIN run : run[r].cancel => run'[r].cancel
    BY <1>2
  <2> QED BY <2>1, <2>2, RecordsStaySound
<1> QED BY <1>4, <1>6, <1>7, <1>8 DEF LInv

LEMMA RunRequestKeepsLives ==
  ASSUME LInv,
         \/ \E j \in 1..MaxJobs, tok \in Token \cup {NoToken} : RunNow(j, tok)
         \/ \E g \in TaskLists, tok \in Token \cup {NoToken} : SubmitRun(g, tok)
  PROVE  LInv' /\ \A c \in DOMAIN co : co'[c] = co[c]
<1>0. ASSUME NEW source, NEW tok, CreateRun(source, tok)
      PROVE  \A c \in DOMAIN co : co'[c] = co[c]
  <2>1. /\ TypeOK /\ DOMAIN co = DOMAIN run
        /\ \A r \in DOMAIN run : r[1] = epoch => r[2] < nextRunId
    BY BoundsAssumption DEF LInv, TypeOK, Refs, IdsNew
  <2> QED BY <1>0, <2>1, NewRunFacts
<1>1. ASSUME NEW j \in 1..MaxJobs, NEW tok \in Token \cup {NoToken}, RunNow(j, tok)
      PROVE  LInv' /\ \A c \in DOMAIN co : co'[c] = co[c]
  <2> DEFINE source == [submitted |-> FALSE, job |-> j, tasks |-> EmptyGraph]
  <2>1. /\ source \in [submitted : BOOLEAN, job : Nat, tasks : TaskLists]
        /\ source.submitted = FALSE /\ source.tasks = EmptyGraph
    BY BoundsAssumption DEF TaskLists
  <2>2. Valid(EmptyGraph)
    BY DEF EmptyGraph, Valid, Acyclic
  <2>3. /\ CreateRun(source, tok)
        /\ runNowTokens' = Remember(runNowTokens, tok) /\ UNCHANGED submitTokens
    BY <1>1 DEF RunNow
  <2> HIDE DEF source
  <2>4. LInv'
    BY <2>1, <2>2, <2>3, CreateRunKeepsLives
  <2> QED BY <1>0, <2>3, <2>4
<1>2. ASSUME NEW g \in TaskLists, NEW tok \in Token \cup {NoToken}, SubmitRun(g, tok)
      PROVE  LInv' /\ \A c \in DOMAIN co : co'[c] = co[c]
  <2> DEFINE source == [submitted |-> TRUE, job |-> 0, tasks |-> g]
  <2>1. /\ source \in [submitted : BOOLEAN, job : Nat, tasks : TaskLists]
        /\ source.submitted = TRUE /\ source.tasks = g
    OBVIOUS
  <2>2. /\ Valid(g) /\ CreateRun(source, tok)
        /\ submitTokens' = Remember(submitTokens, tok) /\ UNCHANGED runNowTokens
    BY <1>2 DEF SubmitRun
  <2> HIDE DEF source
  <2>3. LInv'
    BY <2>1, <2>2, CreateRunKeepsLives
  <2> QED BY <1>0, <2>2, <2>3
<1> QED BY <1>1, <1>2

LEMMA CancelRunKeepsLives ==
  ASSUME LInv, NEW id \in 1..MaxRunId, CancelRun(id)
  PROVE  LInv'
<1> DEFINE r == Ref(id)
           d == [run[r] EXCEPT !.cancel = TRUE]
<1>1. r \in DOMAIN run /\ run' = [run EXCEPT ![r] = d]
  BY DEF CancelRun, LInv, TypeOK
<1>2. /\ UNCHANGED <<jobs, registered, submitTokens, runNowTokens, nextJobId, epoch, co>>
      /\ nextRunId' = nextRunId /\ taskOutputs' = taskOutputs
  BY DEF CancelRun, stateVars
<1>3. d \in Dict /\ d.source = run[r].source /\ d.cancel = TRUE
  <2>1. run[r] \in Dict
    BY <1>1 DEF LInv, TypeOK
  <2> QED BY <2>1 DEF Dict
<1> HIDE DEF r, d
<1>4. /\ DOMAIN run' = DOMAIN run
      /\ \A x \in DOMAIN run :
           /\ run'[x] \in Dict /\ run'[x].source = run[x].source
           /\ run[x].cancel => run'[x].cancel
  BY <1>1, <1>3 DEF LInv, TypeOK
<1>5. TypeOK'
  BY <1>2, <1>4 DEF LInv, TypeOK, Ref
<1>6. IdsNew' /\ SourcesValid'
  BY <1>2, <1>4 DEF LInv, IdsNew, SourcesValid
<1>7. RecordsSound'
  BY <1>2, <1>4, RecordsStaySound
<1> QED BY <1>5, <1>6, <1>7 DEF LInv

LEMMA DeleteRunKeepsLives ==
  ASSUME LInv, NEW id \in 1..MaxRunId, DeleteRun(id)
  PROVE  LInv'
<1>1. /\ registered' = registered \ {id}
      /\ UNCHANGED <<jobs, taskOutputs, submitTokens, runNowTokens, nextJobId, nextRunId,
                     epoch, run, co>>
  BY DEF DeleteRun
<1>2. TypeOK'
  BY <1>1 DEF LInv, TypeOK, Ref
<1>3. IdsNew' /\ SourcesValid'
  BY <1>1 DEF LInv, IdsNew, SourcesValid, Valid, Acyclic
<1>4. RecordsSound'
  BY <1>1, RecordsStaySound
<1> QED BY <1>2, <1>3, <1>4 DEF LInv

\* A reset starts the ids again under a new epoch, and leaves the dicts to their coroutines.
LEMMA ResetKeepsLives ==
  ASSUME LInv, ResetState
  PROVE  LInv'
<1>1. /\ epoch' = epoch + 1 /\ epoch' \in 0..MaxResets /\ run' = run /\ co' = co
      /\ DOMAIN jobs' = {} /\ registered' = {} /\ DOMAIN taskOutputs' = {}
      /\ DOMAIN submitTokens' = {} /\ DOMAIN runNowTokens' = {}
      /\ nextJobId' = 1 /\ nextRunId' = 1
  BY BoundsAssumption DEF ResetState, EmptyMap, LInv, TypeOK
<1>2. TypeOK'
  BY <1>1 DEF LInv, TypeOK, Ref
<1>3. IdsNew'
  <2>1. epoch \in Nat /\ \A r \in DOMAIN run : r[1] \in Nat
    BY BoundsAssumption DEF LInv, TypeOK, Refs
  <2> QED BY <1>1, <2>1 DEF LInv, IdsNew
<1>4. SourcesValid'
  BY <1>1 DEF LInv, SourcesValid, Valid, Acyclic
<1>5. RecordsSound'
  BY <1>1, RecordsStaySound
<1> QED BY <1>2, <1>3, <1>4, <1>5 DEF LInv

LEMMA SameRecord ==
  ASSUME NEW a \in Coroutine, NEW b \in Coroutine,
         a.pc = b.pc, a.on = b.on, a.graph = b.graph, a.results = b.results,
         a.wave = b.wave, a.running = b.running, a.raised = b.raised
  PROVE  a = b
  BY DEF Coroutine

\* A restart ends every coroutine where it stands.
LEMMA RestartEnds ==
  ASSUME LInv, Restart, NEW c \in DOMAIN co
  PROVE  /\ co'[c] \in Coroutine /\ co'[c].pc = "done" /\ co'[c].on = co[c].on
         /\ co'[c].graph = co[c].graph /\ co'[c].results = co[c].results
         /\ co'[c].wave = {} /\ co'[c].raised = co[c].raised
         /\ \A t \in Key : co'[c].running[t] = 0
         /\ co[c].pc = "done" => co'[c] = co[c]
<1> DEFINE idle == [k \in Key |-> 0]
<1>1. co[c] \in Coroutine /\ Sound(co[c], run[co[c].on].cancel)
  BY LivesFacts
<1>2. co'[c] = [co[c] EXCEPT !.pc = "done", !.wave = {}, !.running = idle]
  BY DEF Restart
<1>3. idle \in [Key -> Nat] /\ \A t \in Key : idle[t] = 0
  OBVIOUS
<1>4. co[c].pc = "done" => co[c].wave = {} /\ co[c].running = idle
  <2> SUFFICES ASSUME co[c].pc = "done" PROVE co[c].wave = {} /\ co[c].running = idle
    OBVIOUS
  <2>1. co[c].wave = {} /\ \A t \in Key : co[c].running[t] = 0
    BY <1>1 DEF Sound, TasksInStage
  <2>2. co[c].running \in [Key -> Nat]
    BY <1>1 DEF Coroutine
  <2> QED BY <2>1, <2>2
<1> HIDE DEF idle
<1>5. /\ co'[c] \in Coroutine /\ co'[c].pc = "done" /\ co'[c].on = co[c].on
      /\ co'[c].graph = co[c].graph /\ co'[c].results = co[c].results
      /\ co'[c].wave = {} /\ co'[c].raised = co[c].raised /\ co'[c].running = idle
  BY <1>1, <1>2, <1>3 DEF Coroutine
<1>6. co[c].pc = "done" => co'[c] = co[c]
  BY <1>1, <1>4, <1>5, SameRecord
<1> QED BY <1>3, <1>5, <1>6

LEMMA RestartKeepsLives ==
  ASSUME LInv, Restart
  PROVE  LInv'
<1>1. /\ UNCHANGED <<jobs, registered, taskOutputs, submitTokens, runNowTokens, nextJobId,
                     nextRunId, epoch, run>>
      /\ DOMAIN co' = DOMAIN co
  BY DEF Restart, stateVars
<1>2. ASSUME NEW c \in DOMAIN co
      PROVE  /\ co'[c] \in Coroutine
             /\ co'[c].on \in DOMAIN run' /\ Sound(co'[c], run'[co'[c].on].cancel)
  <2> DEFINE k == co[c]
             k1 == co'[c]
             canceled == run[k.on].cancel
  <2>1. TasksInStage(k) /\ Justified(k, canceled) /\ k.on \in DOMAIN run
    BY LivesFacts DEF Sound
  <2>2. /\ k1 \in Coroutine /\ k1.pc = "done" /\ k1.on = k.on /\ k1.graph = k.graph
        /\ k1.results = k.results /\ k1.wave = {} /\ k1.raised = k.raised
        /\ \A t \in Key : k1.running[t] = 0
    BY RestartEnds
  <2>3. run'[k1.on].cancel = canceled
    BY <1>1, <2>2
  <2> HIDE DEF k, k1, canceled
  <2>4. OfItsList(k1) /\ TasksInStage(k1)
    BY <2>1, <2>2 DEF OfItsList, TasksInStage
  <2>5. Justified(k1, canceled)
    <3> SUFFICES ASSUME NEW t \in StartedIn(k1) \cup Done(k1.results)
                 PROVE  JustifiedTask(k1, canceled, t)
      BY DEF Justified
    <3>1. t \in StartedIn(k) \cup Done(k.results) /\ (t \in StartedIn(k1) <=> t \in StartedIn(k))
      <4>1. t \in Done(k.results) => k.running[t] = 0
        BY <2>1 DEF TasksInStage, Done
      <4> QED BY <2>1, <2>2, <4>1 DEF StartedIn, Done, TasksInStage
    <3>2. JustifiedTask(k, canceled, t)
      BY <2>1, <3>1 DEF Justified
    <3>3. MayRun(k1, t) <=> MayRun(k, t)
      BY <2>2, SameDecision
    <3> QED BY <2>2, <3>1, <3>2, <3>3 DEF JustifiedTask
  <2>6. Sound(k1, canceled)
    BY <2>2, <2>4, <2>5 DEF Sound
  <2> QED BY <1>1, <2>1, <2>2, <2>3, <2>6 DEF k1
<1>3. TypeOK'
  BY <1>1, <1>2 DEF LInv, TypeOK, Ref
<1>4. IdsNew' /\ SourcesValid'
  BY <1>1 DEF LInv, IdsNew, SourcesValid
<1>5. RecordsSound'
  BY <1>1, <1>2, RecordsStaySound
<1> QED BY <1>3, <1>4, <1>5 DEF LInv

LEMMA InitLives == Init => LInv
<1> SUFFICES ASSUME Init PROVE LInv
  OBVIOUS
<1>1. TypeOK
  BY BoundsAssumption DEF Init, TypeOK, EmptyMap
<1> QED BY <1>1 DEF Init, LInv, EmptyMap, IdsNew, SourcesValid, RecordsSound

\* Only a coroutine's own step and a restart touch its record.
LEMMA OthersKeepLives ==
  ASSUME LInv, Next \/ ResetState, ~\E x \in Refs : CoroutineStep(x)
  PROVE  LInv' /\ \A c \in DOMAIN co : co'[c] = co[c]
<1>1. CASE ResetState
  BY <1>1, ResetKeepsLives DEF ResetState
<1>2. CASE \/ \E g \in TaskLists : CreateJob(g)
           \/ \E j \in 1..MaxJobs, g \in TaskLists : UpdateJob(j, g)
           \/ \E j \in 1..MaxJobs : DeleteJob(j)
  <2>1. co' = co
    BY <1>2 DEF CreateJob, UpdateJob, DeleteJob
  <2> QED BY <1>2, <2>1, JobRequestKeepsLives
<1>3. CASE \/ \E j \in 1..MaxJobs, tok \in Token \cup {NoToken} : RunNow(j, tok)
           \/ \E g \in TaskLists, tok \in Token \cup {NoToken} : SubmitRun(g, tok)
  BY <1>3, RunRequestKeepsLives
<1>4. CASE \E id \in 1..MaxRunId : CancelRun(id) \/ DeleteRun(id)
  <2>1. co' = co
    BY <1>4 DEF CancelRun, DeleteRun
  <2> QED BY <1>4, <2>1, CancelRunKeepsLives, DeleteRunKeepsLives
<1> QED BY <1>1, <1>2, <1>3, <1>4 DEF Next

LEMMA NextKeepsLives == LInv /\ [Next \/ ResetState \/ Restart]_vars => LInv'
<1> SUFFICES ASSUME LInv, [Next \/ ResetState \/ Restart]_vars PROVE LInv'
  OBVIOUS
<1>1. CASE UNCHANGED vars
  <2>1. UNCHANGED <<jobs, registered, taskOutputs, submitTokens, runNowTokens, nextJobId,
                    nextRunId, epoch, run, co>>
    BY <1>1 DEF vars, stateVars
  <2>2. TypeOK'
    BY <2>1 DEF LInv, TypeOK, Ref
  <2>3. IdsNew' /\ SourcesValid'
    BY <2>1 DEF LInv, IdsNew, SourcesValid, Valid, Acyclic
  <2>4. RecordsSound'
    BY <2>1, RecordsStaySound
  <2> QED BY <2>2, <2>3, <2>4 DEF LInv
<1>2. CASE Next \/ ResetState
  <2>1. CASE \E x \in Refs : CoroutineStep(x)
    BY <2>1, CoroutineStepKeepsLives
  <2>2. CASE ~\E x \in Refs : CoroutineStep(x)
    BY <1>2, <2>2, OthersKeepLives
  <2> QED BY <2>1, <2>2
<1>3. CASE Restart
  BY <1>3, RestartKeepsLives
<1> QED BY <1>1, <1>2, <1>3

LEMMA LivesInvariantHolds == LivesSpec => []LInv
  BY InitLives, NextKeepsLives, PTL DEF LivesSpec

(***************************************************************************)
(* The scheduler's fallbacks for a list that cannot be scheduled are never *)
(* needed (AlwaysSchedulable), for task lists of every shape and size,     *)
(* although a coroutine from before a reset may start another run, of      *)
(* another job, than the one it was made for.                              *)
(***************************************************************************)
THEOREM SchedulerNeverStuck == LivesSpec => []AlwaysSchedulable
<1>1. LInv => AlwaysSchedulable
  <2> SUFFICES ASSUME LInv, NEW c \in DOMAIN co
               PROVE  /\ co[c].pc = "scheduled" => Valid(TaskSource(run[co[c].on].source))
                      /\ co[c].pc = "wave" =>
                           LET later == DOMAIN co[c].graph \ (Done(co[c].results) \cup co[c].wave)
                           IN later # {} =>
                                \E k \in later :
                                  co[c].graph[k].deps \subseteq Done(co[c].results) \cup co[c].wave
    BY DEF AlwaysSchedulable
  <2>1. Valid(TaskSource(run[co[c].on].source))
    BY SourceStaysValid, LivesFacts
  <2>2. ASSUME co[c].pc = "wave",
               DOMAIN co[c].graph \ (Done(co[c].results) \cup co[c].wave) # {}
        PROVE  \E k \in DOMAIN co[c].graph \ (Done(co[c].results) \cup co[c].wave) :
                 co[c].graph[k].deps \subseteq Done(co[c].results) \cup co[c].wave
    <3> DEFINE g == co[c].graph
               later == DOMAIN g \ (Done(co[c].results) \cup co[c].wave)
    <3>1. later \in SUBSET DOMAIN g /\ later # {} /\ Valid(g)
      BY <2>2, LivesFacts DEF Sound
    <3>2. DOMAIN g \ later \subseteq Done(co[c].results) \cup co[c].wave
      OBVIOUS
    <3> HIDE DEF later, g
    <3>3. \E k \in later : g[k].deps \subseteq DOMAIN g \ later
      BY <3>1, RestHasReadyTask
    <3>4. \E k \in later : g[k].deps \subseteq Done(co[c].results) \cup co[c].wave
      BY <3>2, <3>3
    <3> QED BY <3>4 DEF later, g
  <2> QED BY <2>1, <2>2
<1> QED BY <1>1, LivesInvariantHolds, PTL

(***************************************************************************)
(* Every task outcome is justified (OutcomesJustified): a task ran only    *)
(* because its dependencies had ended as its run_if asks, was skipped only *)
(* because they had not, and canceled only on request, for task lists of   *)
(* every shape and every interleaving of the waves, also in a run that a   *)
(* reset took out of the registry or a restart cut short.                  *)
(***************************************************************************)
THEOREM OutcomesStayJustified == LivesSpec => []OutcomesJustified
<1>1. LInv => OutcomesJustified
  <2> SUFFICES ASSUME LInv, NEW c \in DOMAIN co, NEW k \in Started(c) \cup Done(co[c].results)
               PROVE  LET status == co[c].results[k].status
                          settled == co[c].graph[k].deps \subseteq Done(co[c].results)
                          allowed == RunIfMeans(co[c].graph[k].run_if, DepStatus(c, k))
                      IN IF k \in Started(c)
                         THEN settled /\ allowed
                         ELSE \/ status = "CANCELED" /\ Canceled(c)
                              \/ status = "SKIPPED" /\ settled /\ ~allowed
    BY DEF OutcomesJustified
  <2>1. Started(c) = StartedIn(co[c])
    BY StartedIsStartedIn
  <2>2. JustifiedTask(co[c], run[co[c].on].cancel, k)
    BY <2>1, LivesFacts DEF Sound, Justified
  <2> QED BY <2>1, <2>2 DEF JustifiedTask, MayRun, DepStatus, Canceled
<1> QED BY <1>1, LivesInvariantHolds, PTL

(***************************************************************************)
(* cancel_run "stops before the next task": from the moment the flag is    *)
(* raised no further task of the run starts (NoStartAfterCancel), wherever *)
(* its coroutine is and however many tasks it has, also after a reset: the *)
(* flag is in the dict, which the coroutine keeps.                         *)
(***************************************************************************)
THEOREM CancelStopsTheRun == LivesSpec => NoStartAfterCancel
<1>1. LInv /\ [Next \/ ResetState \/ Restart]_vars =>
        [\A c \in DOMAIN co : Canceled(c) => Started(c)' \subseteq Started(c)]_vars
  <2> SUFFICES ASSUME LInv, Next \/ ResetState \/ Restart, NEW c \in DOMAIN co, Canceled(c)
               PROVE  StartedIn(co'[c]) \subseteq StartedIn(co[c])
    BY StartedIsStartedIn
  <2>1. ASSUME NEW x \in Refs, CoroutineStep(x)
        PROVE  StartedIn(co'[c]) \subseteq StartedIn(co[c])
    <3>1. PICK k1 : StepsTo(x, k1)
      BY <2>1, CoroutineSteps
    <3>2. CASE c = x
      <4>1. co'[c] = k1 /\ StartedIn(k1) \subseteq StartedIn(co[c])
        BY <3>1, <3>2 DEF StepsTo
      <4> QED BY <4>1
    <3>3. CASE c # x
      <4>1. co'[c] = co[c]
        BY <3>1, <3>3 DEF StepsTo
      <4> QED BY <4>1
    <3> QED BY <3>2, <3>3
  <2>2. CASE Restart
    <3>1. co'[c].results = co[c].results /\ co'[c].raised = co[c].raised
          /\ \A t \in Key : co'[c].running[t] = 0
      BY <2>2, RestartEnds
    <3> QED BY <3>1 DEF StartedIn
  <2>3. CASE (Next \/ ResetState) /\ ~\E x \in Refs : CoroutineStep(x)
    <3>1. co'[c] = co[c]
      BY <2>3, OthersKeepLives
    <3> QED BY <3>1
  <2> QED BY <2>1, <2>2, <2>3
<1> QED BY <1>1, LivesInvariantHolds, PTL DEF LivesSpec, NoStartAfterCancel

(***************************************************************************)
(* Every step of a coroutine brings it nearer to its end and nothing sets  *)
(* it back (RunsProgress), for task lists of every shape, any requests,    *)
(* resets and restarts: the part of "every run ends" that is not fairness. *)
(***************************************************************************)
THEOREM CoroutinesComeNearer == LivesSpec => RunsProgress
<1>1. LInv /\ [Next \/ ResetState \/ Restart]_vars => [AllComeNearer]_vars
  <2> SUFFICES ASSUME LInv, Next \/ ResetState \/ Restart, NEW c \in DOMAIN co,
                      co'[c] # co[c] \/ CoroutineStep(c)
               PROVE  Nearer(co[c], co'[c])
    BY ComesNearerIsNearer DEF AllComeNearer
  <2>1. c \in Refs
    BY LivesFacts
  <2>2. ASSUME NEW x \in Refs, CoroutineStep(x)
        PROVE  IF c = x THEN Nearer(co[c], co'[c]) ELSE co'[c] = co[c]
    <3>1. PICK k1 : StepsTo(x, k1)
      BY <2>2, CoroutineSteps
    <3>2. co' = [co EXCEPT ![x] = k1] /\ Nearer(co[x], k1)
      BY <3>1 DEF StepsTo
    <3> QED BY <3>2
  <2>3. CASE CoroutineStep(c)
    BY <2>1, <2>2, <2>3
  <2>4. CASE ~CoroutineStep(c) /\ \E x \in Refs : CoroutineStep(x)
    BY <2>2, <2>4
  <2>5. CASE Restart /\ ~CoroutineStep(c)
    <3>1. co'[c].pc = "done" /\ (co[c].pc = "done" => co'[c] = co[c])
      BY <2>5, RestartEnds
    <3>2. co[c].pc \in {"scheduled", "wave"}
      <4>1. co[c].pc \in {"scheduled", "wave", "done"}
        BY LivesFacts DEF Coroutine
      <4> QED BY <2>5, <3>1, <4>1
    <3> QED BY <3>1, <3>2, LaterStageIsNearer
  <2>6. CASE (Next \/ ResetState) /\ ~\E x \in Refs : CoroutineStep(x)
    BY <2>1, <2>6, OthersKeepLives
  <2> QED BY <2>3, <2>4, <2>5, <2>6
<1> QED BY <1>1, LivesInvariantHolds, PTL DEF LivesSpec, RunsProgress

(***************************************************************************)
(* The scheduler always has a task for its next wave and comes nearer to   *)
(* the end with each step (SchedulerAdvances), whatever clients, resets    *)
(* and restarts do.                                                        *)
(***************************************************************************)
THEOREM SchedulerNeverStops == LivesSpec => SchedulerAdvances
  BY SchedulerNeverStuck, CoroutinesComeNearer, PTL
  DEF SchedulerAdvances, RunsProgress

\* A server that is never reset nor restarted is one that may be.
LEMMA OneLifeOfMany == Spec => LivesSpec
<1>1. [Next]_vars => [Next \/ ResetState \/ Restart]_vars
  OBVIOUS
<1> QED BY <1>1, PTL DEF Spec, LivesSpec

(***************************************************************************)
(* All of them in one life of the server.                             *)
(***************************************************************************)
THEOREM RunsOfOneLife ==
  Spec => []OutcomesJustified /\ NoStartAfterCancel /\ SchedulerAdvances
  BY OneLifeOfMany, OutcomesStayJustified, CancelStopsTheRun, SchedulerNeverStops, PTL
=============================================================================
