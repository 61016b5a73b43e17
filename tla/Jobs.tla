-------------------------------- MODULE Jobs --------------------------------
(***************************************************************************)
(* The Jobs service (services/jobs.py): the registry of jobs and runs, the *)
(* idempotency tokens, and the coroutines that execute runs.               *)
(*                                                                         *)
(* The server is one asyncio event loop.  A request handler of this        *)
(* service has no real suspension point, so each one is a single action.   *)
(* A run is executed by a background coroutine (_execute_run) that gives   *)
(* way at three places: before it starts, between asyncio.gather and the   *)
(* start of each run_one it wraps, and while a task waits for a container  *)
(* or a Delta write.  Each stretch of code between two of those places is  *)
(* one action.                                                             *)
(*                                                                         *)
(* A run is a Python dict: its coroutine keeps a reference to it, also     *)
(* after the registry has forgotten it.  The model names a dict by the     *)
(* pair <<epoch, run_id>> in which it was created; epoch counts the resets *)
(* of the service, each of which starts the ids again at 1.                *)
(***************************************************************************)
EXTENDS Integers, FiniteSets, Tasks

CONSTANTS
  Key,         \* task keys
  Graphs,      \* the task lists clients send, each a function from its keys to
               \* [deps |-> keys it depends on, run_if |-> condition, kind |-> task type]
  Token,       \* idempotency tokens
  NoToken,     \* a request without a token
  NoKey,       \* stands for the run itself where an output is not a task's
  MaxJobs,     \* bound on the jobs created between two resets
  MaxRuns,     \* bound on the runs created
  MaxRunId,    \* bound on the ids of runs; task ids may go beyond it
  MaxResets    \* bound on the resets of the service

Kinds == {"python", "sql", "other"}

EmptyGraph == [k \in {} |-> [deps |-> {}, run_if |-> "ALL_SUCCESS", kind |-> "other"]]

TaskType == [deps : SUBSET Key, run_if : RunIf, kind : Kinds]

ASSUME GraphsAssumption ==
  \A g \in Graphs : /\ DOMAIN g \subseteq Key
                    /\ IsFiniteSet(DOMAIN g)
                    /\ g \in [DOMAIN g -> TaskType]
\* A list may also be left out of a request or removed from a job.
TaskLists == Graphs \cup {EmptyGraph}

ASSUME TokenAssumption == NoToken \notin Token
ASSUME NoKeyAssumption == NoKey \notin Key
ASSUME BoundsAssumption == MaxJobs \in Nat /\ MaxRuns \in Nat /\ MaxRunId \in Nat /\ MaxResets \in Nat

\* _state of the module
VARIABLES
  jobs,          \* job id -> the job's task list
  registered,    \* the keys of _state["runs"]
  taskOutputs,   \* id -> whose output it is: the run and the task that wrote it
  submitTokens,  \* token -> run id
  runNowTokens,  \* token -> run id
  nextJobId,
  nextRunId

\* the run dicts, the coroutines, and the identity of the state they were made in
VARIABLES
  epoch,         \* number of resets so far
  run,           \* <<epoch, run id>> -> the run's dict
  co             \* <<epoch, run id>> -> the coroutine started with the run

stateVars == <<jobs, registered, taskOutputs, submitTokens, runNowTokens, nextJobId, nextRunId>>
vars == <<stateVars, epoch, run, co>>

-----------------------------------------------------------------------------
(* Helpers                                                                 *)

\* The function f with k mapped to v (a dict assignment).
Put(f, k, v) == [x \in DOMAIN f \cup {k} |-> IF x = k THEN v ELSE f[x]]

\* The function f without k (a dict deletion).
Drop(f, k) == [x \in DOMAIN f \ {k} |-> f[x]]

EmptyMap == [x \in {} |-> 0]

\* A coroutine's results dict: NONE where the task has no entry, id 0 where it was not run.
NoResults == [k \in Key |-> [status |-> "NONE", id |-> 0]]
Done(results) == {k \in Key : results[k].status # "NONE"}

\* _validate_task_graph accepts the list (TaskGraph is about how it finds out).
Valid(g) ==
  /\ \A k \in DOMAIN g : g[k].deps \subseteq DOMAIN g
  /\ Acyclic([k \in DOMAIN g |-> g[k].deps])

Refs == (0..MaxResets) \X (1..MaxRunId)

\* The dict a run id names now.
Ref(id) == <<epoch, id>>

NewDict(source, tok) ==
  [source |-> source, token |-> tok, life |-> "PENDING", result |-> "NONE",
   tasks |-> NoResults, cancel |-> FALSE]

NewCoroutine(id) ==
  [pc |-> "scheduled", on |-> Ref(id), graph |-> EmptyGraph,
   results |-> NoResults, wave |-> {}, running |-> [k \in Key |-> 0], raised |-> {}]

-----------------------------------------------------------------------------
Init ==
  /\ jobs = EmptyMap
  /\ registered = {}
  /\ taskOutputs = EmptyMap
  /\ submitTokens = EmptyMap
  /\ runNowTokens = EmptyMap
  /\ nextJobId = 1
  /\ nextRunId = 1
  /\ epoch = 0
  /\ run = EmptyMap
  /\ co = EmptyMap

-----------------------------------------------------------------------------
(* Jobs                                                                    *)

CreateJob(g) ==
  /\ nextJobId <= MaxJobs
  /\ Valid(g)
  /\ jobs' = Put(jobs, nextJobId, g)
  /\ nextJobId' = nextJobId + 1
  /\ UNCHANGED <<registered, taskOutputs, submitTokens, runNowTokens, nextRunId, epoch, run, co>>

\* Mutant: the merged settings are stored without validating them again.
UpdateJobUnvalidated(j, g) ==
  /\ j \in DOMAIN jobs
  /\ jobs' = [jobs EXCEPT ![j] = g]
  /\ UNCHANGED <<registered, taskOutputs, submitTokens, runNowTokens, nextJobId, nextRunId,
                 epoch, run, co>>

\* update_job and reset_job: the job's task list becomes g, which is empty when the update
\* removes the field or the reset sends none.
UpdateJob(j, g) ==
  /\ j \in DOMAIN jobs
  /\ Valid(g)
  /\ jobs' = [jobs EXCEPT ![j] = g]
  /\ UNCHANGED <<registered, taskOutputs, submitTokens, runNowTokens, nextJobId, nextRunId,
                 epoch, run, co>>

DeleteJob(j) ==
  /\ j \in DOMAIN jobs
  /\ jobs' = Drop(jobs, j)
  /\ UNCHANGED <<registered, taskOutputs, submitTokens, runNowTokens, nextJobId, nextRunId,
                 epoch, run, co>>

-----------------------------------------------------------------------------
(* Runs: the request handlers                                              *)

\* The part run_now and submit_run share: a PENDING run and its background task.
CreateRun(source, tok) ==
  /\ Cardinality(DOMAIN run) < MaxRuns
  /\ nextRunId <= MaxRunId
  /\ registered' = registered \cup {nextRunId}
  /\ run' = Put(run, Ref(nextRunId), NewDict(source, tok))
  /\ co' = Put(co, Ref(nextRunId), NewCoroutine(nextRunId))
  /\ nextRunId' = nextRunId + 1
  /\ UNCHANGED <<jobs, taskOutputs, nextJobId, epoch>>

\* The token a handler remembers, if the request carried one.
Remember(tokens, tok) == IF tok = NoToken THEN tokens ELSE Put(tokens, tok, nextRunId)

\* Mutant: a token is only honoured while its run is in the registry.
RunNowForgetsDeleted(j, tok) ==
  /\ tok \notin {t \in DOMAIN runNowTokens : runNowTokens[t] \in registered}
  /\ j \in DOMAIN jobs
  /\ Valid(jobs[j])
  /\ CreateRun([submitted |-> FALSE, job |-> j, tasks |-> EmptyGraph], tok)
  /\ runNowTokens' = Remember(runNowTokens, tok)
  /\ UNCHANGED submitTokens

\* run_now.  A known token answers the run it named before (or 404 when that run was deleted)
\* and changes nothing; so do an unknown job and a task list that is no longer valid.
RunNow(j, tok) ==
  /\ tok \notin DOMAIN runNowTokens
  /\ j \in DOMAIN jobs
  /\ Valid(jobs[j])
  /\ CreateRun([submitted |-> FALSE, job |-> j, tasks |-> EmptyGraph], tok)
  /\ runNowTokens' = Remember(runNowTokens, tok)
  /\ UNCHANGED submitTokens

\* submit_run.  A known token answers the run it named before and changes nothing.
SubmitRun(g, tok) ==
  /\ g # EmptyGraph
  /\ tok \notin DOMAIN submitTokens
  /\ Valid(g)
  /\ CreateRun([submitted |-> TRUE, job |-> 0, tasks |-> g], tok)
  /\ submitTokens' = Remember(submitTokens, tok)
  /\ UNCHANGED runNowTokens

\* cancel_run only raises a flag, at any time of the run's life.
CancelRun(id) ==
  /\ id \in registered
  /\ run' = [run EXCEPT ![Ref(id)].cancel = TRUE]
  /\ UNCHANGED <<stateVars, epoch, co>>

\* Mutant: an active run may be deleted too.
DeleteActiveRun(id) ==
  /\ id \in registered
  /\ registered' = registered \ {id}
  /\ UNCHANGED <<jobs, taskOutputs, submitTokens, runNowTokens, nextJobId, nextRunId,
                 epoch, run, co>>

\* delete_run refuses an active run; outputs and tokens of the deleted run stay.
DeleteRun(id) ==
  /\ id \in registered
  /\ run[Ref(id)].life \notin {"PENDING", "RUNNING"}
  /\ registered' = registered \ {id}
  /\ UNCHANGED <<jobs, taskOutputs, submitTokens, runNowTokens, nextJobId, nextRunId,
                 epoch, run, co>>

-----------------------------------------------------------------------------
(* Runs: the coroutine                                                     *)

\* The tasks of one turn of the scheduling loop: no result yet, every dependency has one.
Ready(g, results) == {k \in DOMAIN g \ Done(results) : g[k].deps \subseteq Done(results)}

\* Mutant: a canceled task does not make the run canceled, it just did not fail.
FinalResultIgnoresCancel(d, results, unschedulable) ==
  IF unschedulable \/ \E k \in Key : results[k].status \in Failed
  THEN "FAILED" ELSE "SUCCESS"

\* The result state of a run whose loop has ended.
FinalResult(d, results, unschedulable) ==
  IF d.cancel THEN "CANCELED"
  ELSE IF unschedulable \/ \E k \in Key : results[k].status \in Failed
       THEN "FAILED" ELSE "SUCCESS"

Terminated(d, result, results) ==
  [d EXCEPT !.life = "TERMINATED", !.result = result, !.tasks = results]

\* The results with every task of ks recorded as SKIPPED without having been run.
WithSkipped(results, ks) ==
  [k \in Key |-> IF k \in ks THEN [status |-> "SKIPPED", id |-> 0] ELSE results[k]]

\* From the head of the while loop: schedule the tasks that are ready, or end the run.
\* Tasks left over with none ready are the "unresolvable dependency or cycle" fallback.
Proceed(c, ref, d, g, results) ==
  LET ready == Ready(g, results)
      left == DOMAIN g \ Done(results)
  IN IF ready # {}
     THEN /\ co' = [co EXCEPT ![c] = [@ EXCEPT !.pc = "wave", !.on = ref, !.graph = g,
                                              !.results = results, !.wave = ready]]
          /\ run' = [run EXCEPT ![ref] = d]
     ELSE /\ co' = [co EXCEPT ![c] = [@ EXCEPT !.pc = "done", !.on = ref, !.graph = g,
                                              !.results = WithSkipped(results, left),
                                              !.wave = {}]]
          /\ run' = [run EXCEPT ![ref] =
                       Terminated(d, FinalResult(d, results, left # {}),
                                  WithSkipped(results, left))]

\* The task list a run executes: its own, or what its job holds now (nothing when the job
\* has been deleted).
TaskSource(source) ==
  IF source.submitted THEN source.tasks
  ELSE IF source.job \in DOMAIN jobs THEN jobs[source.job] ELSE EmptyGraph

\* _execute_run from its first line to its first suspension.  It finds its run by id.
StartRun(c) ==
  /\ c \in DOMAIN co
  /\ co[c].pc = "scheduled"
  /\ IF c[2] \notin registered
     THEN co' = [co EXCEPT ![c].pc = "done"] /\ UNCHANGED run
     ELSE LET ref == Ref(c[2])
              d == [run[ref] EXCEPT !.life = "RUNNING", !.result = "NONE"]
              g == TaskSource(d.source)
          IN IF Valid(g)
             THEN Proceed(c, ref, d, g, NoResults)
             ELSE /\ co' = [co EXCEPT ![c] = [@ EXCEPT !.pc = "done", !.on = ref, !.graph = g]]
                  /\ run' = [run EXCEPT ![ref] =
                               Terminated(d, "FAILED", WithSkipped(NoResults, DOMAIN g))]
  /\ UNCHANGED <<stateVars, epoch>>

\* The tasks of c that wait for a container, a subprocess or a Delta write.
Running(c) == {k \in Key : co[c].running[k] # 0}

\* run_one(k) has been handed to gather and has not been given the loop yet.
NotStarted(c, k) ==
  /\ c \in DOMAIN co
  /\ co[c].pc = "wave"
  /\ k \in co[c].wave
  /\ k \notin Done(co[c].results) \cup Running(c) \cup co[c].raised

Canceled(c) == run[co[c].on].cancel

DepStatus(c, k) == [d \in co[c].graph[k].deps |-> co[c].results[d].status]

Allowed(c, k) == RunIfSatisfied(co[c].graph[k].run_if, DepStatus(c, k))

Recorded(c, k, status, id) ==
  [co EXCEPT ![c].results = [@ EXCEPT ![k] = [status |-> status, id |-> id]],
             ![c].running = [@ EXCEPT ![k] = 0]]

\* run_one: the run was canceled before this task got its turn.
RunOneCanceled(c, k) ==
  /\ NotStarted(c, k)
  /\ Canceled(c)
  /\ co' = Recorded(c, k, "CANCELED", 0)
  /\ UNCHANGED <<stateVars, epoch, run>>

\* run_one: the outcomes of the dependencies do not allow the task to run.
RunOneSkipped(c, k) ==
  /\ NotStarted(c, k)
  /\ ~Canceled(c)
  /\ ~Allowed(c, k)
  /\ co' = Recorded(c, k, "SKIPPED", 0)
  /\ UNCHANGED <<stateVars, epoch, run>>

\* What _execute_task can end with, and whether it leaves an output.  RAISED is an exception
\* that it does not turn into a FAILED task.
Outcome(status, output) == [status |-> status, output |-> output]

\* Before any suspension: an unsupported task type; a missing script, secret or library; a
\* missing warehouse; a statement that the SQL engine ran on the spot.
InlineOutcomes ==
  [other  |-> {Outcome("SKIPPED", FALSE)},
   python |-> {Outcome("FAILED", FALSE), Outcome("RAISED", FALSE)},
   sql    |-> {Outcome("SUCCESS", TRUE), Outcome("FAILED", TRUE),
               Outcome("FAILED", FALSE), Outcome("RAISED", FALSE)}]

\* After the container or subprocess: its exit code, its timeout, or an error of the executor.
\* A SQL task waits for one when its statement writes to a Delta table.
LateOutcomes ==
  [other  |-> {},
   python |-> {Outcome("SUCCESS", TRUE), Outcome("FAILED", TRUE), Outcome("TIMEDOUT", TRUE),
               Outcome("RAISED", FALSE)},
   sql    |-> {Outcome("SUCCESS", TRUE), Outcome("FAILED", TRUE), Outcome("RAISED", FALSE)}]

\* Task k of c ends with outcome o under the task run id it was given.
Settle(c, k, id, o) ==
  /\ co' = IF o.status = "RAISED"
           THEN [co EXCEPT ![c].raised = @ \cup {k}, ![c].running = [@ EXCEPT ![k] = 0]]
           ELSE Recorded(c, k, o.status, id)
  /\ taskOutputs' = IF o.output THEN Put(taskOutputs, id, <<co[c].on, k>>) ELSE taskOutputs

\* Mutant: cancellation is only looked at between two waves.
RunOneExecuteLateCancel(c, k) ==
  /\ NotStarted(c, k)
  /\ Allowed(c, k)
  /\ nextRunId' = nextRunId + 1
  /\ co' = [co EXCEPT ![c].running = [@ EXCEPT ![k] = nextRunId]]
  /\ UNCHANGED <<taskOutputs, jobs, registered, submitTokens, runNowTokens, nextJobId, epoch, run>>

\* Mutant: the task run id is the current counter value, which is not advanced.
RunOneExecuteSharesId(c, k) ==
  /\ NotStarted(c, k)
  /\ ~Canceled(c)
  /\ Allowed(c, k)
  /\ co' = [co EXCEPT ![c].running = [@ EXCEPT ![k] = nextRunId]]
  /\ UNCHANGED <<stateVars, epoch, run>>

\* run_one: _execute_task takes an id and either ends at once or waits for a container.
RunOneExecute(c, k) ==
  /\ NotStarted(c, k)
  /\ ~Canceled(c)
  /\ Allowed(c, k)
  /\ nextRunId' = nextRunId + 1
  /\ LET kind == co[c].graph[k].kind IN
     \/ \E o \in InlineOutcomes[kind] : Settle(c, k, nextRunId, o)
     \/ /\ kind # "other"
        /\ co' = [co EXCEPT ![c].running = [@ EXCEPT ![k] = nextRunId]]
        /\ UNCHANGED taskOutputs
  /\ UNCHANGED <<jobs, registered, submitTokens, runNowTokens, nextJobId, epoch, run>>

\* Mutant: a task that timed out is tried again, however often that happens.
FinishTaskRetries(c, k) ==
  /\ c \in DOMAIN co
  /\ k \in Running(c)
  /\ \E o \in LateOutcomes[co[c].graph[k].kind] :
       IF o.status = "TIMEDOUT"
       THEN co' = [co EXCEPT ![c].running = [@ EXCEPT ![k] = 0]] /\ UNCHANGED taskOutputs
       ELSE Settle(c, k, co[c].running[k], o)
  /\ UNCHANGED <<jobs, registered, submitTokens, runNowTokens, nextJobId, nextRunId, epoch, run>>

\* The container, subprocess or Delta write that task k waits for is over.
FinishTask(c, k) ==
  /\ c \in DOMAIN co
  /\ k \in Running(c)
  /\ \E o \in LateOutcomes[co[c].graph[k].kind] : Settle(c, k, co[c].running[k], o)
  /\ UNCHANGED <<jobs, registered, submitTokens, runNowTokens, nextJobId, nextRunId, epoch, run>>

\* Mutant: nothing catches an exception that leaves the coroutine.
AfterGatherUnguarded(c) ==
  /\ IF co[c].raised # {}
     THEN co' = [co EXCEPT ![c] = [@ EXCEPT !.pc = "done", !.wave = {}]] /\ UNCHANGED run
     ELSE Proceed(c, co[c].on, run[co[c].on], co[c].graph, co[c].results)
  /\ UNCHANGED <<stateVars, epoch>>

\* What follows the gather.  An exception in any task ends the run as FAILED: its diagnostic
\* becomes the output of the run, and run["tasks"] stays empty.
AfterGather(c) ==
  /\ IF co[c].raised # {}
     THEN /\ co' = [co EXCEPT ![c] = [@ EXCEPT !.pc = "done", !.wave = {}]]
          /\ run' = [run EXCEPT ![co[c].on] = Terminated(@, "FAILED", @.tasks)]
          /\ taskOutputs' = Put(taskOutputs, c[2], <<co[c].on, NoKey>>)
     ELSE /\ Proceed(c, co[c].on, run[co[c].on], co[c].graph, co[c].results)
          /\ UNCHANGED taskOutputs
  /\ UNCHANGED <<jobs, registered, submitTokens, runNowTokens, nextJobId, nextRunId, epoch>>

\* Mutant: gather without return_exceptions gives up at the first exception.
EndWaveAtFirstError(c) ==
  /\ c \in DOMAIN co
  /\ co[c].pc = "wave"
  /\ co[c].raised # {} \/ co[c].wave \subseteq Done(co[c].results)
  /\ AfterGather(c)

\* gather returns when every task of the wave has ended, raised or not.
EndWave(c) ==
  /\ c \in DOMAIN co
  /\ co[c].pc = "wave"
  /\ co[c].wave \subseteq Done(co[c].results) \cup co[c].raised
  /\ AfterGather(c)

-----------------------------------------------------------------------------
(* The service as a whole                                                  *)

\* reset: the module state is replaced; background coroutines are not told.
ResetState ==
  /\ epoch < MaxResets
  /\ epoch' = epoch + 1
  /\ jobs' = EmptyMap
  /\ registered' = {}
  /\ taskOutputs' = EmptyMap
  /\ submitTokens' = EmptyMap
  /\ runNowTokens' = EmptyMap
  /\ nextJobId' = 1
  /\ nextRunId' = 1
  /\ UNCHANGED <<run, co>>

\* A shutdown that saves a snapshot and a start that restores it: get_state hands over the
\* whole state as it is, restore_state puts it back, and no coroutine survives.
Restart ==
  /\ \E c \in DOMAIN co : co[c].pc \in {"scheduled", "wave"}
  /\ co' = [c \in DOMAIN co |-> [co[c] EXCEPT !.pc = "done", !.wave = {}, !.running = [k \in Key |-> 0]]]
  /\ UNCHANGED <<stateVars, epoch, run>>

CoroutineStep(c) ==
  \/ StartRun(c)
  \/ \E k \in Key : RunOneCanceled(c, k)
  \/ \E k \in Key : RunOneSkipped(c, k)
  \/ \E k \in Key : RunOneExecute(c, k)
  \/ \E k \in Key : FinishTask(c, k)
  \/ EndWave(c)

\* Every request a client can make, and every step of a background coroutine.
Next ==
  \/ \E g \in TaskLists : CreateJob(g)
  \/ \E j \in 1..MaxJobs, g \in TaskLists : UpdateJob(j, g)
  \/ \E j \in 1..MaxJobs : DeleteJob(j)
  \/ \E j \in 1..MaxJobs, tok \in Token \cup {NoToken} : RunNow(j, tok)
  \/ \E g \in TaskLists, tok \in Token \cup {NoToken} : SubmitRun(g, tok)
  \/ \E id \in 1..MaxRunId : CancelRun(id)
  \/ \E id \in 1..MaxRunId : DeleteRun(id)
  \/ \E c \in Refs : CoroutineStep(c)

\* One life of the server, without a reset.
Spec == Init /\ [][Next]_vars

\* The event loop gives every coroutine its turn, and every container, subprocess and Delta
\* write ends: each has a timeout.  Nothing is assumed of the clients.
FairSpec == Spec /\ \A c \in Refs : WF_vars(CoroutineStep(c))

\* The same server with a client that resets it while runs are in flight.
ResetSpec == Init /\ [][Next \/ ResetState]_vars

\* The same server, restarted with MINILAKE_PERSIST=1.
RestartSpec == Init /\ [][Next \/ Restart]_vars

\* The same server, reset and restarted at any time.
LivesSpec == Init /\ [][Next \/ ResetState \/ Restart]_vars

-----------------------------------------------------------------------------
(* Properties                                                              *)

TaskResult == [status : TaskStatus \cup {"NONE"}, id : Nat]

Dict ==
  [source : [submitted : BOOLEAN, job : Nat, tasks : TaskLists],
   token : Token \cup {NoToken},
   life : {"PENDING", "RUNNING", "TERMINATED"},
   result : {"NONE", "SUCCESS", "FAILED", "CANCELED"},
   tasks : [Key -> TaskResult],
   cancel : BOOLEAN]

Coroutine ==
  [pc : {"scheduled", "wave", "done"},
   on : Refs,
   graph : TaskLists,
   results : [Key -> TaskResult],
   wave : SUBSET Key,
   running : [Key -> Nat],
   raised : SUBSET Key]

TypeOK ==
  /\ DOMAIN jobs \subseteq 1..MaxJobs /\ \A j \in DOMAIN jobs : jobs[j] \in TaskLists
  /\ registered \subseteq 1..MaxRunId
  /\ DOMAIN taskOutputs \subseteq Nat
  /\ \A i \in DOMAIN taskOutputs : taskOutputs[i] \in Refs \X (Key \cup {NoKey})
  /\ DOMAIN submitTokens \subseteq Token /\ \A t \in DOMAIN submitTokens : submitTokens[t] \in Nat
  /\ DOMAIN runNowTokens \subseteq Token /\ \A t \in DOMAIN runNowTokens : runNowTokens[t] \in Nat
  /\ nextJobId \in Nat \ {0}
  /\ nextRunId \in Nat \ {0}
  /\ epoch \in 0..MaxResets
  /\ DOMAIN run \subseteq Refs /\ \A r \in DOMAIN run : run[r] \in Dict
  /\ DOMAIN co = DOMAIN run /\ \A c \in DOMAIN co : co[c] \in Coroutine
  /\ \A id \in registered : Ref(id) \in DOMAIN run

Active == {"PENDING", "RUNNING"}

\* Coroutine c is going to execute, or is executing, the run that id names.
Drives(c, id) ==
  \/ co[c].pc = "scheduled" /\ c[2] = id
  \/ co[c].pc = "wave" /\ co[c].on = Ref(id)

(***************************************************************************)
(* A run the API reports as PENDING or RUNNING is being executed by        *)
(* exactly one coroutine, and a run it reports as TERMINATED by none: no   *)
(* run is executed twice and none is forgotten.                            *)
(***************************************************************************)
OneDriver ==
  \A id \in registered :
    LET drivers == {c \in DOMAIN co : Drives(c, id)}
    IN IF run[Ref(id)].life \in Active
       THEN \E c \in drivers : drivers = {c}
       ELSE drivers = {}

\* The tasks of c that _execute_task was called for.
Started(c) ==
  Running(c) \cup co[c].raised \cup {k \in Key : co[c].results[k].id # 0}

(***************************************************************************)
(* Every task outcome is justified by what the run's other tasks did and   *)
(* by the requests made: a task was executed only if all its dependencies  *)
(* had ended in a way its run_if allows, skipped without an id only if     *)
(* they had not, and canceled only if cancellation was requested.  The     *)
(* outcomes are compared as they stand now, so a later change of a         *)
(* dependency's outcome would show.                                        *)
(***************************************************************************)
OutcomesJustified ==
  \A c \in DOMAIN co : \A k \in Started(c) \cup Done(co[c].results) :
    LET status == co[c].results[k].status
        settled == co[c].graph[k].deps \subseteq Done(co[c].results)
        allowed == RunIfMeans(co[c].graph[k].run_if, DepStatus(c, k))
    IN IF k \in Started(c)
       THEN settled /\ allowed
       ELSE \/ status = "CANCELED" /\ Canceled(c)
            \/ status = "SKIPPED" /\ settled /\ ~allowed

(***************************************************************************)
(* The fallbacks of the scheduler for a graph that cannot be scheduled     *)
(* ("in case the graph changes after validation") are never needed: what   *)
(* a run is about to read is valid, whatever was updated or deleted since  *)
(* run-now looked at it, and each wave leaves a task ready for the next.   *)
(***************************************************************************)
AlwaysSchedulable ==
  \A c \in DOMAIN co :
    /\ co[c].pc = "scheduled" => Valid(TaskSource(run[co[c].on].source))
    /\ co[c].pc = "wave" =>
         LET later == DOMAIN co[c].graph \ (Done(co[c].results) \cup co[c].wave)
         IN later # {} =>
              \E k \in later : co[c].graph[k].deps \subseteq Done(co[c].results) \cup co[c].wave

(***************************************************************************)
(* The result of a terminated run agrees with its tasks: SUCCESS only if   *)
(* every task succeeded or was skipped, CANCELED only if it was asked for, *)
(* and FAILED only with a failed task in the list or a diagnostic that     *)
(* runs/get-output finds under the run's own id.                           *)
(***************************************************************************)
ResultAccounted ==
  \A id \in registered :
    LET d == run[Ref(id)] IN
    d.life = "TERMINATED" =>
      /\ d.result = "SUCCESS" =>
           \A k \in Done(d.tasks) : d.tasks[k].status \in {"SUCCESS", "SKIPPED"}
      /\ d.result = "CANCELED" => d.cancel
      /\ d.result = "FAILED" =>
           \/ \E k \in Key : d.tasks[k].status \in Failed
           \/ id \in DOMAIN taskOutputs /\ taskOutputs[id] = <<Ref(id), NoKey>>
      /\ d.result # "NONE"

(***************************************************************************)
(* A run that has ended leaves nothing behind that is still executing,     *)
(* also when one of its tasks raised: gather waits for the others.         *)
(***************************************************************************)
NoOrphanTask ==
  \A c \in DOMAIN co :
    co[c].pc = "done" => Running(c) = {} /\ run[co[c].on].life = "TERMINATED"

(***************************************************************************)
(* runs/get-output returns what was captured for the run or task it is     *)
(* asked about: the entry under a run's id is that run's own diagnostic    *)
(* and the entry under a task's id was written by that task of that run.   *)
(* Runs and tasks draw their ids from one counter.                         *)
(***************************************************************************)
OutputsBelongToTheirRun ==
  \A id \in registered :
    LET ref == Ref(id)
        tasks == run[ref].tasks
    IN /\ id \in DOMAIN taskOutputs => taskOutputs[id] = <<ref, NoKey>>
       /\ \A k \in Key :
            tasks[k].id \in DOMAIN taskOutputs => taskOutputs[tasks[k].id] = <<ref, k>>

(***************************************************************************)
(* Once cancellation of a run was requested no further task of it starts,  *)
(* wherever its coroutine is: cancel_run "stops before the next task".     *)
(***************************************************************************)
NoStartAfterCancel ==
  [][\A c \in DOMAIN co : Canceled(c) => Started(c)' \subseteq Started(c)]_vars

\* The tasks of c that have not been in a wave yet, and those of its wave that have not ended.
Later(c) == DOMAIN co[c].graph \ (Done(co[c].results) \cup co[c].wave)
Unended(c) == co[c].wave \ (Done(co[c].results) \cup co[c].raised)

Smaller(S, T) == S \subseteq T /\ S # T

\* Coroutine c comes nearer to its end: it starts, ends, begins a wave with tasks that were in
\* none, ends a task of its wave, or has one more of them waiting, and it stays with its list.
ComesNearer(c) ==
  LET left == [scheduled |-> 2, wave |-> 1, done |-> 0]
  IN \/ left[co'[c].pc] < left[co[c].pc]
     \/ /\ co[c].pc = "wave" /\ co'[c].pc = "wave" /\ co'[c].graph = co[c].graph
        /\ \/ Smaller(Later(c)', Later(c))
           \/ /\ Later(c)' = Later(c)
              /\ \/ Smaller(Unended(c)', Unended(c))
                 \/ Unended(c)' = Unended(c) /\ Smaller(Running(c), Running(c)')

\* Whoever takes a step that concerns a coroutine, it has less to do afterwards.
AllComeNearer ==
  \A c \in DOMAIN co : co'[c] # co[c] \/ CoroutineStep(c) => ComesNearer(c)

(***************************************************************************)
(* Why every run ends: a step of a coroutine brings it nearer to its end   *)
(* and nobody else sets it back, whatever is canceled, updated, deleted,   *)
(* reset or restarted meanwhile.  Every wave has tasks that none had       *)
(* before, no task starts twice, and an ended coroutine stays ended.       *)
(***************************************************************************)
RunsProgress == [][AllComeNearer]_vars

(***************************************************************************)
(* The scheduler is never stuck: there is always a task for its next wave, *)
(* and each of its steps leaves it less to do.                             *)
(***************************************************************************)
SchedulerAdvances == [][AlwaysSchedulable' /\ AllComeNearer]_vars

\* Jobs as an implementation of RunContract.
Contract == INSTANCE RunContract WITH
  Id <- Refs,
  Via <- {"run-now", "submit"},
  book <- [r \in DOMAIN run |->
             [via |-> IF run[r].source.submitted THEN "submit" ELSE "run-now",
              token |-> run[r].token, life |-> run[r].life,
              result |-> run[r].result, cancel |-> run[r].cancel]],
  visible <- {r \in DOMAIN run : r[1] = epoch /\ r[2] \in registered}

(***************************************************************************)
(* The service keeps the contract of RunContract: one run per token, the   *)
(* life cycle PENDING, RUNNING, TERMINATED without a way back, no success  *)
(* of a canceled run, no deletion of an active run.                        *)
(***************************************************************************)
KeepsContract == Contract!Spec

(***************************************************************************)
(* Every run that was accepted ends, whatever its tasks do and whatever    *)
(* clients do to its job meanwhile.                                        *)
(***************************************************************************)
RunsTerminate ==
  \A r \in Refs : r \in DOMAIN run ~> r \in DOMAIN run /\ run[r].life = "TERMINATED"

(***************************************************************************)
(* "running job containers are not resumed, only completed run records are *)
(* restored" (FEATURES.md): after a restart with a snapshot every run in   *)
(* the registry is TERMINATED.                                             *)
(***************************************************************************)
OnlyCompletedRunsRestored ==
  [][Restart => \A id \in registered' : run'[Ref(id)].life = "TERMINATED"]_vars
=============================================================================
