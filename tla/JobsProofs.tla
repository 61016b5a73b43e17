----------------------------- MODULE JobsProofs -----------------------------
(***************************************************************************)
(* Proofs about Jobs for any task lists, tokens and bounds: its types and  *)
(* OneDriver in one life of the server (Spec), and that the service        *)
(* implements RunContract, also across restarts (RestartSpec).             *)
(*                                                                         *)
(* None of these is inductive.  What makes them so is that without a reset *)
(* a coroutine works on the run it was created with (co[c].on = c), that   *)
(* its stage matches the life cycle state of that run, that an active run  *)
(* is in the registry, that stored task lists were validated, that ids     *)
(* only grow and that the tokens of the runs are remembered.  A reset      *)
(* breaks the first of these: a coroutine that has not started yet finds   *)
(* the run that has its id by then.  A restart keeps all of them; what it  *)
(* breaks is that the run of an ended coroutine has ended (RunsEnded),     *)
(* which only OneDriver and NoOrphanTask need.                             *)
(***************************************************************************)
EXTENDS Jobs, TLAPS

-----------------------------------------------------------------------------
(* The inductive invariant                                                 *)

\* The stage of a coroutine that has not ended tells the life cycle state of its run.
Match(k, d) ==
  /\ k.pc = "scheduled" => d.life = "PENDING"
  /\ k.pc = "wave" => d.life = "RUNNING"

\* Ids are given out in order, and there was no reset.
IdsGrow ==
  /\ epoch = 0
  /\ \A r \in DOMAIN run : r[1] = 0 /\ r[2] < nextRunId

\* A coroutine drives the run it was created with, which is registered while it is active.
DrivesItsRun ==
  \A c \in DOMAIN co :
    /\ co[c].on = c
    /\ Match(co[c], run[c])
    /\ run[c].life \in Active => c[2] \in registered
    /\ run[c].life = "PENDING" => run[c].result = "NONE"

\* Every task list that is stored, or being executed, was validated.
ListsValid ==
  /\ \A j \in DOMAIN jobs : Valid(jobs[j])
  /\ \A r \in DOMAIN run : run[r].source.submitted => Valid(run[r].source.tasks)
  /\ \A c \in DOMAIN co : co[c].pc = "wave" => Valid(co[c].graph)

\* The token a run was created with is remembered by the handler that created it.
TokensRemembered ==
  \A r \in DOMAIN run :
    run[r].token # NoToken =>
      run[r].token \in IF run[r].source.submitted THEN DOMAIN submitTokens ELSE DOMAIN runNowTokens

\* The tasks that coroutine record k is busy with are tasks of its list, which it reads when
\* it starts.
OfItsList(k) ==
  /\ k.wave \subseteq DOMAIN k.graph
  /\ \A t \in Key : k.running[t] # 0 => t \in DOMAIN k.graph
  /\ k.pc = "scheduled" => DOMAIN k.graph = {}

WavesOfTheirLists == \A c \in DOMAIN co : OfItsList(co[c])

IInv ==
  TypeOK /\ IdsGrow /\ DrivesItsRun /\ ListsValid /\ TokensRemembered /\ WavesOfTheirLists

-----------------------------------------------------------------------------
(* Steps of a coroutine                                                    *)

(***************************************************************************)
(* A step of coroutine c that turns its record into k and its run's dict   *)
(* into d keeps the invariant, if the two match and the run does not       *)
(* become active again.                                                    *)
(***************************************************************************)
LEMMA CoroutineKeepsInvariant ==
  ASSUME IInv, NEW c \in DOMAIN co, NEW k \in Coroutine, NEW d \in Dict,
         DOMAIN co' = DOMAIN co, co'[c] = k, \A x \in DOMAIN co : x # c => co'[x] = co[x],
         DOMAIN run' = DOMAIN run, run'[c] = d, \A x \in DOMAIN run : x # c => run'[x] = run[x],
         k.on = c, Match(k, d), k.pc = "wave" => Valid(k.graph), OfItsList(k),
         d.life \in Active => run[c].life \in Active,
         d.life = "PENDING" => d.result = "NONE",
         d.source = run[c].source, d.token = run[c].token,
         nextRunId' \in Nat, nextRunId' >= nextRunId,
         DOMAIN taskOutputs' \subseteq Nat,
         \A i \in DOMAIN taskOutputs' : taskOutputs'[i] \in Refs \X (Key \cup {NoKey}),
         UNCHANGED <<jobs, registered, submitTokens, runNowTokens, nextJobId, epoch>>
  PROVE  IInv'
<1>1. DOMAIN run = DOMAIN co /\ DOMAIN run \subseteq Refs /\ c \in DOMAIN run
  BY DEF IInv, TypeOK
<1>2. nextRunId \in Nat \ {0} /\ \A r \in DOMAIN run : r[2] \in Nat
  BY <1>1, BoundsAssumption DEF IInv, TypeOK, Refs
<1>3. TypeOK'
  <2>1. \A id \in registered : Ref(id)' = Ref(id)
    BY DEF Ref
  <2> QED BY <1>1, <1>2, <2>1 DEF IInv, TypeOK
<1>4. IdsGrow'
  BY <1>1, <1>2 DEF IInv, IdsGrow
<1>5. DrivesItsRun'
  <2> SUFFICES ASSUME NEW x \in DOMAIN co
               PROVE  /\ co'[x].on = x
                      /\ Match(co'[x], run'[x])
                      /\ run'[x].life \in Active => x[2] \in registered
                      /\ run'[x].life = "PENDING" => run'[x].result = "NONE"
    BY DEF DrivesItsRun, Match
  <2>1. CASE x = c
    BY <1>1, <2>1 DEF IInv, DrivesItsRun
  <2>2. CASE x # c
    BY <1>1, <2>2 DEF IInv, DrivesItsRun
  <2> QED BY <2>1, <2>2
<1>6. ListsValid'
  <2>1. \A j \in DOMAIN jobs' : Valid(jobs'[j])
    BY DEF IInv, ListsValid
  <2>2. \A r \in DOMAIN run' : run'[r].source.submitted => Valid(run'[r].source.tasks)
    BY <1>1 DEF IInv, ListsValid
  <2>3. \A x \in DOMAIN co' : co'[x].pc = "wave" => Valid(co'[x].graph)
    BY DEF IInv, ListsValid
  <2> QED BY <2>1, <2>2, <2>3 DEF ListsValid, Valid, Acyclic
<1>7. TokensRemembered'
  BY <1>1 DEF IInv, TokensRemembered
<1>8. WavesOfTheirLists'
  <2> SUFFICES ASSUME NEW x \in DOMAIN co PROVE OfItsList(co'[x])
    BY DEF WavesOfTheirLists, OfItsList
  <2> QED BY DEF IInv, WavesOfTheirLists
<1> QED BY <1>3, <1>4, <1>5, <1>6, <1>7, <1>8 DEF IInv

(***************************************************************************)
(* The remainder of a valid list always has a task that is ready: what     *)
(* AlwaysSchedulable says of the waves, and why the fallback of            *)
(* _execute_run_tasks is never needed.                                     *)
(***************************************************************************)
LEMMA RestHasReadyTask ==
  ASSUME NEW g, Valid(g), NEW S \in SUBSET DOMAIN g, S # {}
  PROVE  \E k \in S : g[k].deps \subseteq DOMAIN g \ S
<1>1. PICK k \in S : [x \in DOMAIN g |-> g[x].deps][k] \cap S = {}
  BY DEF Valid, Acyclic
<1> QED BY <1>1 DEF Valid

-----------------------------------------------------------------------------
(* Types of the pieces                                                     *)

LEMMA ResultTypes ==
  ASSUME NEW results \in [Key -> TaskResult]
  PROVE  /\ \A ks : WithSkipped(results, ks) \in [Key -> TaskResult]
         /\ \A k \in Key, s \in TaskStatus, id \in Nat :
              [results EXCEPT ![k] = [status |-> s, id |-> id]] \in [Key -> TaskResult]
  BY DEF WithSkipped, TaskResult, TaskStatus

LEMMA NoResultsType == NoResults \in [Key -> TaskResult]
  BY DEF NoResults, TaskResult

LEMMA TerminatedType ==
  ASSUME NEW d \in Dict, NEW result \in {"SUCCESS", "FAILED", "CANCELED"},
         NEW results \in [Key -> TaskResult]
  PROVE  /\ Terminated(d, result, results) \in Dict
         /\ Terminated(d, result, results).life = "TERMINATED"
         /\ Terminated(d, result, results).result = result
         /\ Terminated(d, result, results).source = d.source
         /\ Terminated(d, result, results).token = d.token
         /\ Terminated(d, result, results).cancel = d.cancel
  BY DEF Terminated, Dict

\* The run, the coroutine and the typed facts every coroutine step starts from.
LEMMA CoroutineFacts ==
  ASSUME IInv, NEW c \in DOMAIN co
  PROVE  /\ co[c] \in Coroutine /\ run[c] \in Dict /\ c \in Refs /\ c \in DOMAIN run
         /\ c[1] = 0 /\ c = Ref(c[2]) /\ c[2] \in Nat
         /\ co[c].on = c /\ OfItsList(co[c])
         /\ nextRunId \in Nat
         /\ DOMAIN taskOutputs \subseteq Nat
         /\ \A i \in DOMAIN taskOutputs : taskOutputs[i] \in Refs \X (Key \cup {NoKey})
<1>1. c \in Refs /\ c \in DOMAIN run
  BY DEF IInv, TypeOK
<1>2. c[1] = 0 /\ c = <<c[1], c[2]>> /\ c[2] \in Nat
  BY <1>1, BoundsAssumption DEF Refs, IInv, IdsGrow
<1>3. c = Ref(c[2])
  BY <1>2 DEF Ref, IInv, IdsGrow
<1> QED BY <1>1, <1>2, <1>3 DEF IInv, TypeOK, DrivesItsRun, WavesOfTheirLists

(***************************************************************************)
(* The head of the while loop (_execute_run_tasks) keeps the invariant.    *)
(***************************************************************************)
LEMMA ProceedKeepsInvariant ==
  ASSUME IInv, NEW c \in DOMAIN co, run[c].life \in Active,
         NEW d \in Dict, d.life = "RUNNING", d.source = run[c].source, d.token = run[c].token,
         NEW g \in TaskLists, Valid(g), DOMAIN co[c].graph \subseteq DOMAIN g,
         NEW results \in [Key -> TaskResult],
         Proceed(c, c, d, g, results),
         UNCHANGED <<stateVars, epoch>>
  PROVE  IInv'
<1> DEFINE ready == Ready(g, results)
           left == DOMAIN g \ Done(results)
           kw == [co[c] EXCEPT !.pc = "wave", !.on = c, !.graph = g,
                               !.results = results, !.wave = ready]
           kd == [co[c] EXCEPT !.pc = "done", !.on = c, !.graph = g,
                               !.results = WithSkipped(results, left), !.wave = {}]
           dd == Terminated(d, FinalResult(d, results, left # {}), WithSkipped(results, left))
<1>1. co[c] \in Coroutine /\ c \in DOMAIN run /\ c \in Refs /\ nextRunId \in Nat
  BY CoroutineFacts
<1>2. ready \subseteq Key
  BY GraphsAssumption DEF Ready, TaskLists, EmptyGraph
<1>3. WithSkipped(results, left) \in [Key -> TaskResult]
  BY ResultTypes
<1>4. UNCHANGED <<jobs, registered, submitTokens, runNowTokens, nextJobId, epoch, nextRunId, taskOutputs>>
  BY DEF stateVars
<1>5. CASE ready # {}
  <2>1. kw \in Coroutine /\ kw.pc = "wave" /\ kw.on = c /\ kw.graph = g
    BY <1>1, <1>2 DEF Coroutine
  <2>2. co' = [co EXCEPT ![c] = kw] /\ run' = [run EXCEPT ![c] = d]
    BY <1>5 DEF Proceed
  <2>3. Match(kw, d) /\ OfItsList(kw)
    BY <2>1, <1>1, CoroutineFacts DEF Match, OfItsList, Ready
  <2> HIDE DEF kw
  <2> QED BY <1>1, <1>4, <2>1, <2>2, <2>3, CoroutineKeepsInvariant, CoroutineFacts DEF Active
<1>6. CASE ready = {}
  <2>1. kd \in Coroutine /\ kd.pc = "done" /\ kd.on = c
    BY <1>1, <1>3 DEF Coroutine
  <2>2. co' = [co EXCEPT ![c] = kd] /\ run' = [run EXCEPT ![c] = dd]
    BY <1>6 DEF Proceed
  <2>3. /\ dd \in Dict /\ dd.life = "TERMINATED"
        /\ dd.source = d.source /\ dd.token = d.token
    <3> DEFINE fin == FinalResult(d, results, left # {})
               skipped == WithSkipped(results, left)
    <3>1. fin \in {"SUCCESS", "FAILED", "CANCELED"}
      BY DEF FinalResult
    <3>2. skipped \in [Key -> TaskResult]
      BY <1>3
    <3>3. dd = Terminated(d, fin, skipped)
      BY Zenon
    <3> HIDE DEF fin, skipped, dd
    <3>4. /\ Terminated(d, fin, skipped) \in Dict
          /\ Terminated(d, fin, skipped).life = "TERMINATED"
          /\ Terminated(d, fin, skipped).source = d.source
          /\ Terminated(d, fin, skipped).token = d.token
      BY SMTT(30), <3>1, <3>2, TerminatedType
    <3> QED BY <3>3, <3>4
  <2>4. Match(kd, dd)
    BY <2>1, <2>3 DEF Match
  <2>5. OfItsList(kd)
    BY <1>1, CoroutineFacts DEF OfItsList
  <2> HIDE DEF kd, dd
  <2> QED BY <1>1, <1>4, <2>1, <2>2, <2>3, <2>4, <2>5, CoroutineKeepsInvariant, CoroutineFacts DEF Active
<1> QED BY <1>5, <1>6

\* What a run is about to execute was validated.
LEMMA SourceValid ==
  ASSUME IInv, NEW c \in DOMAIN co
  PROVE  TaskSource(run[c].source) \in TaskLists /\ Valid(TaskSource(run[c].source))
<1>1. run[c] \in Dict /\ c \in DOMAIN run
  BY CoroutineFacts
<1>2. EmptyGraph \in TaskLists /\ Valid(EmptyGraph)
  BY DEF TaskLists, EmptyGraph, Valid, Acyclic
<1> QED BY <1>1, <1>2 DEF TaskSource, IInv, TypeOK, ListsValid, Dict

LEMMA StartRunKeepsInvariant ==
  ASSUME IInv, NEW c \in Refs, StartRun(c)
  PROVE  IInv'
<1> DEFINE d == [run[c] EXCEPT !.life = "RUNNING", !.result = "NONE"]
           g == TaskSource(d.source)
<1>1. c \in DOMAIN co /\ co[c].pc = "scheduled"
  BY DEF StartRun
<1>2. /\ run[c] \in Dict /\ run[c].life = "PENDING" /\ c[2] \in registered /\ Ref(c[2]) = c
  BY <1>1, CoroutineFacts DEF IInv, DrivesItsRun, Match, Active
<1>3. /\ d \in Dict /\ d.life = "RUNNING"
      /\ d.source = run[c].source /\ d.token = run[c].token
  BY <1>2 DEF Dict
<1>4. g \in TaskLists /\ Valid(g)
  BY <1>1, <1>3, SourceValid
<1>5. Proceed(c, c, d, g, NoResults) /\ UNCHANGED <<stateVars, epoch>>
  BY <1>2, <1>4 DEF StartRun
<1>6. DOMAIN co[c].graph \subseteq DOMAIN g
  BY <1>1, CoroutineFacts DEF OfItsList
<1> HIDE DEF d, g
<1> QED BY <1>1, <1>2, <1>3, <1>4, <1>5, <1>6, NoResultsType, ProceedKeepsInvariant DEF Active

(***************************************************************************)
(* A step of one task of coroutine c, which leaves its stage and its run   *)
(* as they are, keeps the invariant.                                       *)
(***************************************************************************)
LEMMA TaskStepKeepsInvariant ==
  ASSUME IInv, NEW c \in DOMAIN co, NEW k \in Coroutine,
         co' = [co EXCEPT ![c] = k],
         k.pc = co[c].pc, k.on = co[c].on, k.graph = co[c].graph, k.wave = co[c].wave,
         \A t \in Key : k.running[t] # 0 => t \in DOMAIN co[c].graph,
         nextRunId' \in Nat, nextRunId' >= nextRunId,
         DOMAIN taskOutputs' \subseteq Nat,
         \A i \in DOMAIN taskOutputs' : taskOutputs'[i] \in Refs \X (Key \cup {NoKey}),
         UNCHANGED <<jobs, registered, submitTokens, runNowTokens, nextJobId, epoch, run>>
  PROVE  IInv'
<1>1. /\ run[c] \in Dict /\ k.on = c /\ Match(k, run[c])
      /\ run[c].life = "PENDING" => run[c].result = "NONE"
      /\ k.pc = "wave" => Valid(k.graph)
      /\ OfItsList(k)
  BY CoroutineFacts DEF IInv, DrivesItsRun, Match, ListsValid, OfItsList
<1>2. DOMAIN co' = DOMAIN co /\ co'[c] = k /\ \A x \in DOMAIN co : x # c => co'[x] = co[x]
  OBVIOUS
<1>3. DOMAIN run' = DOMAIN run /\ run'[c] = run[c] /\ \A x \in DOMAIN run : x # c => run'[x] = run[x]
  OBVIOUS
<1> QED BY <1>1, <1>2, <1>3, CoroutineKeepsInvariant

\* A task that ends with a status, under its id or under none.
LEMMA RecordedKeepsInvariant ==
  ASSUME IInv, NEW c \in DOMAIN co, NEW t \in Key, NEW status \in TaskStatus, NEW id \in Nat,
         co' = Recorded(c, t, status, id),
         nextRunId' \in Nat, nextRunId' >= nextRunId,
         DOMAIN taskOutputs' \subseteq Nat,
         \A i \in DOMAIN taskOutputs' : taskOutputs'[i] \in Refs \X (Key \cup {NoKey}),
         UNCHANGED <<jobs, registered, submitTokens, runNowTokens, nextJobId, epoch, run>>
  PROVE  IInv'
<1> DEFINE r == [co[c] EXCEPT !.results = [@ EXCEPT ![t] = [status |-> status, id |-> id]],
                              !.running = [@ EXCEPT ![t] = 0]]
<1>1. r \in Coroutine /\ r.pc = co[c].pc /\ r.on = co[c].on /\ r.graph = co[c].graph /\ r.wave = co[c].wave
      /\ \A x \in Key : r.running[x] # 0 => x \in DOMAIN co[c].graph
  <2>1. co[c] \in Coroutine /\ OfItsList(co[c])
    BY CoroutineFacts
  <2>2. /\ [co[c].results EXCEPT ![t] = [status |-> status, id |-> id]] \in [Key -> TaskResult]
        /\ [co[c].running EXCEPT ![t] = 0] \in [Key -> Nat]
    BY <2>1, ResultTypes DEF Coroutine
  <2>3. \A x \in Key : r.running[x] # 0 => x \in DOMAIN co[c].graph
    BY <2>1 DEF Coroutine, OfItsList
  <2> QED BY <2>1, <2>2, <2>3 DEF Coroutine
<1>2. co' = [co EXCEPT ![c] = r]
  BY DEF Recorded
<1> HIDE DEF r
<1> QED BY <1>1, <1>2, TaskStepKeepsInvariant

LEMMA RunOneEndsKeepsInvariant ==
  ASSUME IInv, NEW c \in Refs, NEW k \in Key, RunOneCanceled(c, k) \/ RunOneSkipped(c, k)
  PROVE  IInv'
<1>1. c \in DOMAIN co
  BY DEF RunOneCanceled, RunOneSkipped, NotStarted
<1>2. PICK status \in {"CANCELED", "SKIPPED"} : co' = Recorded(c, k, status, 0)
  BY DEF RunOneCanceled, RunOneSkipped
<1>3. /\ UNCHANGED <<jobs, registered, submitTokens, runNowTokens, nextJobId, epoch, run>>
      /\ nextRunId' = nextRunId /\ taskOutputs' = taskOutputs
  BY DEF RunOneCanceled, RunOneSkipped, stateVars
<1>4. status \in TaskStatus
  BY <1>2 DEF TaskStatus
<1> QED BY <1>1, <1>2, <1>3, <1>4, CoroutineFacts, RecordedKeepsInvariant

\* The outcomes of a task are statuses, or an exception.
LEMMA OutcomeTypes ==
  ASSUME NEW kind \in Kinds
  PROVE  \A o \in InlineOutcomes[kind] \cup LateOutcomes[kind] : o.status \in TaskStatus \cup {"RAISED"}
<1>1. CASE kind = "python"
  BY <1>1 DEF InlineOutcomes, LateOutcomes, Outcome, TaskStatus
<1>2. CASE kind = "sql"
  BY <1>2 DEF InlineOutcomes, LateOutcomes, Outcome, TaskStatus
<1>3. CASE kind = "other"
  BY <1>3 DEF InlineOutcomes, LateOutcomes, Outcome, TaskStatus
<1> QED BY <1>1, <1>2, <1>3 DEF Kinds

LEMMA KindType ==
  ASSUME NEW c, co[c] \in Coroutine, OfItsList(co[c]), NEW k \in Key, k \in co[c].wave \cup Running(c)
  PROVE  k \in DOMAIN co[c].graph /\ co[c].graph[k].kind \in Kinds
<1>1. co[c].graph \in TaskLists
  BY DEF Coroutine
<1>2. k \in DOMAIN co[c].graph
  BY DEF OfItsList, Running
<1> QED BY <1>1, <1>2, GraphsAssumption DEF TaskLists, EmptyGraph, TaskType

LEMMA SettleKeepsInvariant ==
  ASSUME IInv, NEW c \in DOMAIN co, NEW k \in Key, NEW id \in Nat,
         NEW o, o.status \in TaskStatus \cup {"RAISED"},
         Settle(c, k, id, o),
         nextRunId' \in Nat, nextRunId' >= nextRunId,
         UNCHANGED <<jobs, registered, submitTokens, runNowTokens, nextJobId, epoch, run>>
  PROVE  IInv'
<1>1. /\ DOMAIN taskOutputs' \subseteq Nat
      /\ \A i \in DOMAIN taskOutputs' : taskOutputs'[i] \in Refs \X (Key \cup {NoKey})
  BY CoroutineFacts DEF Settle, Put
<1>2. CASE o.status = "RAISED"
  <2> DEFINE r == [co[c] EXCEPT !.raised = @ \cup {k}, !.running = [@ EXCEPT ![k] = 0]]
  <2>1. /\ r \in Coroutine /\ r.pc = co[c].pc /\ r.on = co[c].on
        /\ r.graph = co[c].graph /\ r.wave = co[c].wave
        /\ \A x \in Key : r.running[x] # 0 => x \in DOMAIN co[c].graph
    <3>1. co[c] \in Coroutine /\ OfItsList(co[c])
      BY CoroutineFacts
    <3>2. [co[c].running EXCEPT ![k] = 0] \in [Key -> Nat] /\ co[c].raised \cup {k} \subseteq Key
      BY <3>1 DEF Coroutine
    <3>3. \A x \in Key : r.running[x] # 0 => x \in DOMAIN co[c].graph
      BY <3>1 DEF Coroutine, OfItsList
    <3> QED BY <3>1, <3>2, <3>3 DEF Coroutine
  <2>2. co' = [co EXCEPT ![c] = r]
    BY <1>2 DEF Settle
  <2> HIDE DEF r
  <2> QED BY <1>1, <2>1, <2>2, TaskStepKeepsInvariant
<1>3. CASE o.status # "RAISED"
  <2>1. co' = Recorded(c, k, o.status, id) /\ o.status \in TaskStatus
    BY <1>3 DEF Settle
  <2> QED BY <1>1, <2>1, RecordedKeepsInvariant
<1> QED BY <1>2, <1>3

LEMMA RunOneExecuteKeepsInvariant ==
  ASSUME IInv, NEW c \in Refs, NEW k \in Key, RunOneExecute(c, k)
  PROVE  IInv'
<1> DEFINE kind == co[c].graph[k].kind
<1>1. c \in DOMAIN co /\ k \in co[c].wave
  BY DEF RunOneExecute, NotStarted
<1>2. nextRunId \in Nat /\ nextRunId' = nextRunId + 1
  BY <1>1, CoroutineFacts DEF RunOneExecute
<1>3. UNCHANGED <<jobs, registered, submitTokens, runNowTokens, nextJobId, epoch, run>>
  BY DEF RunOneExecute
<1>4. ASSUME NEW o \in InlineOutcomes[kind], Settle(c, k, nextRunId, o)
      PROVE  IInv'
  <2>1. o.status \in TaskStatus \cup {"RAISED"}
    BY <1>1, CoroutineFacts, OutcomeTypes, KindType
  <2> QED BY <1>1, <1>2, <1>3, <1>4, <2>1, SettleKeepsInvariant
<1>5. ASSUME co' = [co EXCEPT ![c].running = [@ EXCEPT ![k] = nextRunId]],
             UNCHANGED taskOutputs
      PROVE  IInv'
  <2> DEFINE r == [co[c] EXCEPT !.running = [@ EXCEPT ![k] = nextRunId]]
  <2>1. co[c] \in Coroutine /\ OfItsList(co[c]) /\ k \in DOMAIN co[c].graph
    BY <1>1, CoroutineFacts, KindType
  <2>2. [co[c].running EXCEPT ![k] = nextRunId] \in [Key -> Nat]
    BY <1>2, <2>1 DEF Coroutine
  <2>3. /\ r \in Coroutine /\ r.pc = co[c].pc /\ r.on = co[c].on
        /\ r.graph = co[c].graph /\ r.wave = co[c].wave
    BY <2>1, <2>2 DEF Coroutine
  <2>5. \A x \in Key : r.running[x] # 0 => x \in DOMAIN co[c].graph
    BY <2>1 DEF Coroutine, OfItsList
  <2>4. co' = [co EXCEPT ![c] = r]
    BY <1>5
  <2>6. /\ DOMAIN taskOutputs' \subseteq Nat
        /\ \A i \in DOMAIN taskOutputs' : taskOutputs'[i] \in Refs \X (Key \cup {NoKey})
    BY <1>1, <1>5, CoroutineFacts
  <2>7. nextRunId' \in Nat /\ nextRunId' >= nextRunId
    BY <1>2
  <2> HIDE DEF r
  <2> QED BY <1>1, <1>3, <2>3, <2>4, <2>5, <2>6, <2>7, TaskStepKeepsInvariant
<1>6. \/ \E o \in InlineOutcomes[kind] : Settle(c, k, nextRunId, o)
      \/ /\ co' = [co EXCEPT ![c].running = [@ EXCEPT ![k] = nextRunId]]
         /\ UNCHANGED taskOutputs
  BY Zenon DEF RunOneExecute
<1> QED BY <1>4, <1>5, <1>6

LEMMA FinishTaskKeepsInvariant ==
  ASSUME IInv, NEW c \in Refs, NEW k \in Key, FinishTask(c, k)
  PROVE  IInv'
<1>1. c \in DOMAIN co /\ k \in Running(c)
  BY DEF FinishTask
<1>2. PICK o \in LateOutcomes[co[c].graph[k].kind] : Settle(c, k, co[c].running[k], o)
  BY DEF FinishTask
<1>3. o.status \in TaskStatus \cup {"RAISED"}
  BY <1>1, CoroutineFacts, OutcomeTypes, KindType
<1>4. co[c].running[k] \in Nat /\ nextRunId \in Nat
  BY <1>1, CoroutineFacts DEF Coroutine
<1>5. /\ UNCHANGED <<jobs, registered, submitTokens, runNowTokens, nextJobId, epoch, run>>
      /\ nextRunId' = nextRunId
  BY DEF FinishTask
<1> QED BY <1>1, <1>2, <1>3, <1>4, <1>5, SettleKeepsInvariant
\* What follows the gather, whether or not a task raised.
LEMMA EndWaveKeepsInvariant ==
  ASSUME IInv, NEW c \in Refs, EndWave(c)
  PROVE  IInv'
<1>1. /\ c \in DOMAIN co /\ co[c].pc = "wave" /\ AfterGather(c)
  BY DEF EndWave
<1>2. /\ co[c] \in Coroutine /\ run[c] \in Dict /\ co[c].on = c /\ OfItsList(co[c])
      /\ run[c].life = "RUNNING" /\ Valid(co[c].graph) /\ nextRunId \in Nat
      /\ c \in DOMAIN run /\ c \in Refs /\ c[2] \in Nat
  BY <1>1, CoroutineFacts DEF IInv, DrivesItsRun, Match, ListsValid
<1>3. UNCHANGED <<jobs, registered, submitTokens, runNowTokens, nextJobId, nextRunId, epoch>>
  BY <1>1 DEF AfterGather
<1>4. CASE co[c].raised # {}
  <2> DEFINE k == [co[c] EXCEPT !.pc = "done", !.wave = {}]
             d == Terminated(run[c], "FAILED", run[c].tasks)
  <2>1. /\ co' = [co EXCEPT ![c] = k]
        /\ run' = [run EXCEPT ![c] = d]
        /\ taskOutputs' = Put(taskOutputs, c[2], <<c, NoKey>>)
    BY <1>1, <1>2, <1>4 DEF AfterGather
  <2>2. k \in Coroutine /\ k.pc = "done" /\ k.on = c /\ OfItsList(k)
    BY <1>2 DEF Coroutine, OfItsList
  <2>3. d \in Dict /\ d.life = "TERMINATED" /\ d.source = run[c].source /\ d.token = run[c].token
    <3>1. run[c].tasks \in [Key -> TaskResult]
      BY <1>2 DEF Dict
    <3> QED BY <1>2, <3>1, TerminatedType
  <2>4. Match(k, d)
    BY <2>2, <2>3 DEF Match
  <2>5. /\ DOMAIN taskOutputs' \subseteq Nat
        /\ \A i \in DOMAIN taskOutputs' : taskOutputs'[i] \in Refs \X (Key \cup {NoKey})
    BY <1>1, <1>2, <2>1, CoroutineFacts DEF Put
  <2> HIDE DEF k, d
  <2> QED BY <1>1, <1>2, <1>3, <2>1, <2>2, <2>3, <2>4, <2>5, CoroutineKeepsInvariant DEF Active
<1>5. CASE co[c].raised = {}
  <2>1. Proceed(c, c, run[c], co[c].graph, co[c].results) /\ UNCHANGED <<stateVars, epoch>>
    BY <1>1, <1>2, <1>3, <1>5 DEF AfterGather, stateVars
  <2>2. co[c].graph \in TaskLists /\ co[c].results \in [Key -> TaskResult]
    BY <1>2 DEF Coroutine
  <2> QED BY <1>1, <1>2, <2>1, <2>2, ProceedKeepsInvariant DEF Active
<1> QED BY <1>4, <1>5

LEMMA CoroutineStepKeepsInvariant ==
  ASSUME IInv, NEW c \in Refs, CoroutineStep(c)
  PROVE  IInv'
  BY StartRunKeepsInvariant, RunOneEndsKeepsInvariant, RunOneExecuteKeepsInvariant,
     FinishTaskKeepsInvariant, EndWaveKeepsInvariant DEF CoroutineStep

-----------------------------------------------------------------------------
(* Requests                                                                *)

LEMMA JobRequestFacts ==
  ASSUME TypeOK, \A j \in DOMAIN jobs : Valid(jobs[j]),
         \/ \E g \in TaskLists : CreateJob(g)
         \/ \E j \in 1..MaxJobs, g \in TaskLists : UpdateJob(j, g)
         \/ \E j \in 1..MaxJobs : DeleteJob(j)
  PROVE  /\ UNCHANGED <<registered, taskOutputs, submitTokens, runNowTokens, nextRunId, epoch,
                        run, co>>
         /\ \A j \in DOMAIN jobs' : Valid(jobs'[j])
         /\ TypeOK'
<1>1. /\ UNCHANGED <<registered, taskOutputs, submitTokens, runNowTokens, nextRunId, epoch, run, co>>
      /\ nextJobId' \in Nat \ {0}
      /\ DOMAIN jobs' \subseteq 1..MaxJobs
      /\ \A j \in DOMAIN jobs' : jobs'[j] \in TaskLists /\ Valid(jobs'[j])
  <2>1. ASSUME NEW g \in TaskLists, CreateJob(g) PROVE <1>1
    BY <2>1, BoundsAssumption DEF CreateJob, Put, TypeOK
  <2>2. ASSUME NEW j \in 1..MaxJobs, NEW g \in TaskLists, UpdateJob(j, g) PROVE <1>1
    BY <2>2 DEF UpdateJob, TypeOK
  <2>3. ASSUME NEW j \in 1..MaxJobs, DeleteJob(j) PROVE <1>1
    BY <2>3 DEF DeleteJob, Drop, TypeOK
  <2> QED BY <2>1, <2>2, <2>3
<1>2. TypeOK'
  BY <1>1 DEF TypeOK, Ref
<1> QED BY <1>1, <1>2

LEMMA JobRequestKeepsInvariant ==
  ASSUME IInv,
         \/ \E g \in TaskLists : CreateJob(g)
         \/ \E j \in 1..MaxJobs, g \in TaskLists : UpdateJob(j, g)
         \/ \E j \in 1..MaxJobs : DeleteJob(j)
  PROVE  IInv'
<1>1. /\ UNCHANGED <<registered, taskOutputs, submitTokens, runNowTokens, nextRunId, epoch, run, co>>
      /\ \A j \in DOMAIN jobs' : Valid(jobs'[j])
      /\ TypeOK'
  BY JobRequestFacts DEF IInv, ListsValid
<1>2. IdsGrow' /\ DrivesItsRun' /\ TokensRemembered' /\ WavesOfTheirLists'
  BY <1>1 DEF IInv, IdsGrow, DrivesItsRun, TokensRemembered, WavesOfTheirLists, Match, OfItsList
<1>3. ListsValid'
  BY <1>1 DEF IInv, ListsValid
<1> QED BY <1>1, <1>2, <1>3 DEF IInv

\* What a new run and its coroutine look like, and that its id is a new one.
LEMMA NewRunFacts ==
  ASSUME TypeOK, \A r \in DOMAIN run : r[1] = epoch => r[2] < nextRunId,
         NEW source, NEW tok, CreateRun(source, tok)
  PROVE  LET n == Ref(nextRunId) IN
         /\ n \in Refs /\ n \notin DOMAIN run /\ n[1] = epoch /\ n[2] = nextRunId
         /\ nextRunId \in 1..MaxRunId
         /\ DOMAIN run' = DOMAIN run \cup {n} /\ DOMAIN co' = DOMAIN co \cup {n}
         /\ run'[n] = NewDict(source, tok) /\ co'[n] = NewCoroutine(nextRunId)
         /\ \A r \in DOMAIN run : r # n /\ run'[r] = run[r] /\ co'[r] = co[r]
         /\ registered' = registered \cup {nextRunId}
         /\ nextRunId' = nextRunId + 1
         /\ UNCHANGED <<jobs, taskOutputs, nextJobId, epoch>>
<1>1. nextRunId \in 1..MaxRunId
  BY BoundsAssumption DEF CreateRun, TypeOK
<1>2. /\ Ref(nextRunId) = <<epoch, nextRunId>> /\ Ref(nextRunId) \in Refs
      /\ Ref(nextRunId)[1] = epoch /\ Ref(nextRunId)[2] = nextRunId
  BY <1>1, BoundsAssumption DEF Ref, Refs, TypeOK
<1>3. \A r \in DOMAIN run : r # Ref(nextRunId)
  BY <1>1, <1>2
<1>4. DOMAIN co = DOMAIN run
  BY DEF TypeOK
<1> QED BY <1>1, <1>2, <1>3, <1>4 DEF CreateRun, Put

LEMMA CreateRunFacts ==
  ASSUME IInv, NEW source, NEW tok, CreateRun(source, tok)
  PROVE  LET n == Ref(nextRunId) IN
         /\ n \in Refs /\ n \notin DOMAIN run /\ n[1] = 0 /\ n[2] = nextRunId
         /\ nextRunId \in 1..MaxRunId
         /\ DOMAIN run' = DOMAIN run \cup {n} /\ DOMAIN co' = DOMAIN co \cup {n}
         /\ run'[n] = NewDict(source, tok) /\ co'[n] = NewCoroutine(nextRunId)
         /\ \A r \in DOMAIN run : r # n /\ run'[r] = run[r] /\ co'[r] = co[r]
         /\ registered' = registered \cup {nextRunId}
         /\ nextRunId' = nextRunId + 1
         /\ UNCHANGED <<jobs, taskOutputs, nextJobId, epoch>>
<1>1. TypeOK /\ epoch = 0 /\ \A r \in DOMAIN run : r[1] = epoch => r[2] < nextRunId
  BY DEF IInv, IdsGrow
<1> QED BY <1>1, NewRunFacts

\* run_now and submit_run say where the tasks come from, and remember the token.
LEMMA CreateRunKeepsTypes ==
  ASSUME TypeOK, \A r \in DOMAIN run : r[1] = epoch => r[2] < nextRunId,
         NEW source \in [submitted : BOOLEAN, job : Nat, tasks : TaskLists],
         NEW tok \in Token \cup {NoToken}, CreateRun(source, tok),
         \/ source.submitted /\ submitTokens' = Remember(submitTokens, tok) /\ UNCHANGED runNowTokens
         \/ ~source.submitted /\ runNowTokens' = Remember(runNowTokens, tok) /\ UNCHANGED submitTokens
  PROVE  TypeOK' /\ NewDict(source, tok) \in Dict
<1> DEFINE n == Ref(nextRunId)
           d == NewDict(source, tok)
           k == NewCoroutine(nextRunId)
<1>1. /\ n \in Refs /\ n \notin DOMAIN run
      /\ nextRunId \in 1..MaxRunId
      /\ DOMAIN run' = DOMAIN run \cup {n} /\ DOMAIN co' = DOMAIN co \cup {n}
      /\ run'[n] = d /\ co'[n] = k
      /\ \A r \in DOMAIN run : r # n /\ run'[r] = run[r] /\ co'[r] = co[r]
      /\ registered' = registered \cup {nextRunId}
      /\ nextRunId' = nextRunId + 1
      /\ UNCHANGED <<jobs, taskOutputs, nextJobId, epoch>>
  BY NewRunFacts
<1>2. d \in Dict
  BY NoResultsType DEF NewDict, Dict
<1>3. k \in Coroutine
  <2>1. [x \in Key |-> 0] \in [Key -> Nat] /\ EmptyGraph \in TaskLists
    BY DEF TaskLists, EmptyGraph
  <2> QED BY <1>1, <2>1, NoResultsType DEF NewCoroutine, Coroutine
<1>4. /\ DOMAIN submitTokens' \subseteq Token /\ DOMAIN runNowTokens' \subseteq Token
      /\ \A t \in DOMAIN submitTokens' : submitTokens'[t] \in Nat
      /\ \A t \in DOMAIN runNowTokens' : runNowTokens'[t] \in Nat
  BY <1>1 DEF Remember, Put, TypeOK
<1> HIDE DEF n, d, k
<1>5. registered' \subseteq 1..MaxRunId /\ nextRunId' \in Nat \ {0}
  <2>1. registered \subseteq 1..MaxRunId /\ nextRunId \in 1..MaxRunId
    BY <1>1 DEF TypeOK
  <2>2. registered' = registered \cup {nextRunId} /\ nextRunId' = nextRunId + 1
    BY <1>1
  <2> QED BY <2>1, <2>2, BoundsAssumption
<1>6. DOMAIN run' \subseteq Refs /\ \A r \in DOMAIN run' : run'[r] \in Dict
  BY <1>1, <1>2 DEF TypeOK
<1>7. DOMAIN co' = DOMAIN run' /\ \A c \in DOMAIN co' : co'[c] \in Coroutine
  BY <1>1, <1>3 DEF TypeOK
<1>8. \A id \in registered' : Ref(id)' \in DOMAIN run'
  <2>1. \A id \in registered : <<epoch, id>> \in DOMAIN run
    BY DEF TypeOK, Ref
  <2>2. n = <<epoch, nextRunId>>
    BY DEF n, Ref
  <2> QED BY <1>1, <2>1, <2>2 DEF Ref
<1>9. TypeOK'
  BY <1>1, <1>4, <1>5, <1>6, <1>7, <1>8 DEF TypeOK
<1> QED BY <1>2, <1>9 DEF d

\* A new run and its coroutine keep the invariant.
LEMMA CreateRunKeepsInvariant ==
  ASSUME IInv, NEW source \in [submitted : BOOLEAN, job : Nat, tasks : TaskLists],
         Valid(source.tasks), NEW tok \in Token \cup {NoToken}, CreateRun(source, tok),
         \/ source.submitted /\ submitTokens' = Remember(submitTokens, tok) /\ UNCHANGED runNowTokens
         \/ ~source.submitted /\ runNowTokens' = Remember(runNowTokens, tok) /\ UNCHANGED submitTokens
  PROVE  IInv'
<1> DEFINE n == Ref(nextRunId)
           d == NewDict(source, tok)
           k == NewCoroutine(nextRunId)
<1>1. /\ n \in Refs /\ n \notin DOMAIN run /\ n[1] = 0 /\ n[2] = nextRunId
      /\ nextRunId \in 1..MaxRunId
      /\ DOMAIN run' = DOMAIN run \cup {n} /\ DOMAIN co' = DOMAIN co \cup {n}
      /\ run'[n] = d /\ co'[n] = k
      /\ \A r \in DOMAIN run : r # n /\ run'[r] = run[r] /\ co'[r] = co[r]
      /\ registered' = registered \cup {nextRunId}
      /\ nextRunId' = nextRunId + 1
      /\ UNCHANGED <<jobs, taskOutputs, nextJobId, epoch>>
  BY CreateRunFacts
<1>2. /\ d \in Dict /\ d.life = "PENDING" /\ d.result = "NONE"
      /\ d.source = source /\ d.token = tok
  BY NoResultsType DEF NewDict, Dict
<1>3. /\ k \in Coroutine /\ k.pc = "scheduled" /\ k.on = n /\ OfItsList(k)
  <2>1. [x \in Key |-> 0] \in [Key -> Nat] /\ EmptyGraph \in TaskLists /\ DOMAIN EmptyGraph = {}
    BY DEF TaskLists, EmptyGraph
  <2> QED BY <1>1, <2>1, NoResultsType DEF NewCoroutine, Coroutine, OfItsList
<1>4. /\ DOMAIN submitTokens \subseteq DOMAIN submitTokens' /\ DOMAIN submitTokens' \subseteq Token
      /\ DOMAIN runNowTokens \subseteq DOMAIN runNowTokens' /\ DOMAIN runNowTokens' \subseteq Token
      /\ \A t \in DOMAIN submitTokens' : submitTokens'[t] \in Nat
      /\ \A t \in DOMAIN runNowTokens' : runNowTokens'[t] \in Nat
      /\ tok # NoToken =>
           tok \in IF source.submitted THEN DOMAIN submitTokens' ELSE DOMAIN runNowTokens'
  BY <1>1 DEF Remember, Put, IInv, TypeOK
<1> HIDE DEF n, d, k
<1>5. DOMAIN co = DOMAIN run
  BY DEF IInv, TypeOK
<1>6. TypeOK'
  BY CreateRunKeepsTypes DEF IInv, IdsGrow
<1>7. IdsGrow'
  <2>1. \A r \in DOMAIN run : r[2] \in Nat
    BY BoundsAssumption DEF IInv, TypeOK, Refs
  <2> QED BY <1>1, <2>1 DEF IInv, IdsGrow
<1>8. DrivesItsRun'
  <2> SUFFICES ASSUME NEW x \in DOMAIN co'
               PROVE  /\ co'[x].on = x
                      /\ Match(co'[x], run'[x])
                      /\ run'[x].life \in Active => x[2] \in registered'
                      /\ run'[x].life = "PENDING" => run'[x].result = "NONE"
    BY DEF DrivesItsRun, Match
  <2>1. CASE x = n
    BY <1>1, <1>2, <1>3, <2>1 DEF Match
  <2>2. CASE x # n
    BY <1>1, <1>5, <2>2 DEF IInv, DrivesItsRun
  <2> QED BY <2>1, <2>2
<1>9. ListsValid'
  <2>1. \A j \in DOMAIN jobs' : Valid(jobs'[j])
    BY <1>1 DEF IInv, ListsValid
  <2>2. \A r \in DOMAIN run' : run'[r].source.submitted => Valid(run'[r].source.tasks)
    BY <1>1, <1>2 DEF IInv, ListsValid
  <2>3. \A x \in DOMAIN co' : co'[x].pc = "wave" => Valid(co'[x].graph)
    BY <1>1, <1>3, <1>5 DEF IInv, ListsValid
  <2> QED BY <2>1, <2>2, <2>3 DEF ListsValid, Valid, Acyclic
<1>10. TokensRemembered'
  BY <1>1, <1>2, <1>4 DEF IInv, TokensRemembered
<1>11. WavesOfTheirLists'
  <2> SUFFICES ASSUME NEW x \in DOMAIN co' PROVE OfItsList(co'[x])
    BY DEF WavesOfTheirLists, OfItsList
  <2> QED BY <1>1, <1>3, <1>5 DEF IInv, WavesOfTheirLists
<1> QED BY <1>6, <1>7, <1>8, <1>9, <1>10, <1>11 DEF IInv

LEMMA RunRequestKeepsInvariant ==
  ASSUME IInv,
         \/ \E j \in 1..MaxJobs, tok \in Token \cup {NoToken} : RunNow(j, tok)
         \/ \E g \in TaskLists, tok \in Token \cup {NoToken} : SubmitRun(g, tok)
  PROVE  IInv'
<1>1. ASSUME NEW j \in 1..MaxJobs, NEW tok \in Token \cup {NoToken}, RunNow(j, tok)
      PROVE  IInv'
  <2> DEFINE source == [submitted |-> FALSE, job |-> j, tasks |-> EmptyGraph]
  <2>1. /\ source \in [submitted : BOOLEAN, job : Nat, tasks : TaskLists]
        /\ source.submitted = FALSE /\ source.tasks = EmptyGraph
    BY BoundsAssumption DEF TaskLists
  <2>2. Valid(EmptyGraph)
    BY DEF EmptyGraph, Valid, Acyclic
  <2>3. /\ CreateRun(source, tok)
        /\ runNowTokens' = Remember(runNowTokens, tok) /\ UNCHANGED submitTokens
    BY <1>1 DEF RunNow
  <2> HIDE DEF source
  <2> QED BY <2>1, <2>2, <2>3, CreateRunKeepsInvariant
<1>2. ASSUME NEW g \in TaskLists, NEW tok \in Token \cup {NoToken}, SubmitRun(g, tok)
      PROVE  IInv'
  <2> DEFINE source == [submitted |-> TRUE, job |-> 0, tasks |-> g]
  <2>1. /\ source \in [submitted : BOOLEAN, job : Nat, tasks : TaskLists]
        /\ source.submitted = TRUE /\ source.tasks = g
    OBVIOUS
  <2>3. /\ Valid(g) /\ CreateRun(source, tok)
        /\ submitTokens' = Remember(submitTokens, tok) /\ UNCHANGED runNowTokens
    BY <1>2 DEF SubmitRun
  <2> HIDE DEF source
  <2> QED BY <2>1, <2>3, CreateRunKeepsInvariant
<1> QED BY <1>1, <1>2

\* cancel_run finds the run through its id, and so its coroutine.
LEMMA CancelRunKeepsInvariant ==
  ASSUME IInv, NEW id \in 1..MaxRunId, CancelRun(id)
  PROVE  IInv'
<1> DEFINE c == Ref(id)
           d == [run[c] EXCEPT !.cancel = TRUE]
<1>1. c \in DOMAIN co /\ run' = [run EXCEPT ![c] = d]
  BY DEF CancelRun, IInv, TypeOK
<1>2. /\ d \in Dict /\ d.life = run[c].life /\ d.result = run[c].result
      /\ d.source = run[c].source /\ d.token = run[c].token
  <2>1. run[c] \in Dict
    BY <1>1, CoroutineFacts
  <2> QED BY <2>1 DEF Dict
<1>3. /\ UNCHANGED <<jobs, registered, submitTokens, runNowTokens, nextJobId, epoch, co>>
      /\ nextRunId' = nextRunId /\ taskOutputs' = taskOutputs
  BY DEF CancelRun, stateVars
<1> HIDE DEF c, d
<1>4. /\ co[c] \in Coroutine /\ co[c].on = c /\ OfItsList(co[c]) /\ c \in DOMAIN run
      /\ Match(co[c], d) /\ (co[c].pc = "wave" => Valid(co[c].graph))
      /\ d.life = "PENDING" => d.result = "NONE"
  BY <1>1, <1>2, CoroutineFacts DEF IInv, DrivesItsRun, Match, ListsValid
<1>5. /\ nextRunId' \in Nat /\ nextRunId' >= nextRunId /\ DOMAIN taskOutputs' \subseteq Nat
      /\ \A i \in DOMAIN taskOutputs' : taskOutputs'[i] \in Refs \X (Key \cup {NoKey})
  BY <1>1, <1>3, CoroutineFacts
<1> QED BY <1>1, <1>2, <1>3, <1>4, <1>5, CoroutineKeepsInvariant

\* delete_run takes a run that has ended out of the registry; no other run has its id.
LEMMA DeleteRunKeepsInvariant ==
  ASSUME IInv, NEW id \in 1..MaxRunId, DeleteRun(id)
  PROVE  IInv'
<1>1. /\ registered' = registered \ {id}
      /\ run[Ref(id)].life \notin Active
      /\ UNCHANGED <<jobs, taskOutputs, submitTokens, runNowTokens, nextJobId, nextRunId,
                     epoch, run, co>>
  BY DEF DeleteRun, Active
<1>2. TypeOK'
  BY <1>1 DEF IInv, TypeOK, Ref
<1>3. DrivesItsRun'
  <2> SUFFICES ASSUME NEW c \in DOMAIN co, run[c].life \in Active PROVE c[2] \in registered'
    BY <1>1 DEF IInv, DrivesItsRun, Match
  <2>1. c[2] # id
    BY <1>1, CoroutineFacts
  <2> QED BY <1>1, <2>1 DEF IInv, DrivesItsRun
<1>4. IdsGrow' /\ TokensRemembered' /\ WavesOfTheirLists'
  BY <1>1 DEF IInv, IdsGrow, TokensRemembered, WavesOfTheirLists, OfItsList
<1>5. ListsValid'
  BY <1>1 DEF IInv, ListsValid, Valid, Acyclic
<1> QED BY <1>2, <1>3, <1>4, <1>5 DEF IInv

-----------------------------------------------------------------------------
(* The service                                                             *)

LEMMA InitInvariant == Init => IInv
<1> SUFFICES ASSUME Init PROVE IInv
  OBVIOUS
<1>1. TypeOK
  BY BoundsAssumption DEF Init, TypeOK, EmptyMap
<1> QED BY <1>1 DEF Init, IInv, EmptyMap, IdsGrow, DrivesItsRun, ListsValid, TokensRemembered,
                    WavesOfTheirLists

LEMMA NextInvariant == IInv /\ [Next]_vars => IInv'
<1> SUFFICES ASSUME IInv, [Next]_vars PROVE IInv'
  OBVIOUS
<1>1. CASE UNCHANGED vars
  <2>1. UNCHANGED <<jobs, registered, taskOutputs, submitTokens, runNowTokens, nextJobId,
                    nextRunId, epoch, run, co>>
    BY <1>1 DEF vars, stateVars
  <2>2. TypeOK'
    BY <2>1 DEF IInv, TypeOK, Ref
  <2>3. IdsGrow' /\ DrivesItsRun' /\ TokensRemembered' /\ WavesOfTheirLists'
    BY <2>1 DEF IInv, IdsGrow, DrivesItsRun, TokensRemembered, WavesOfTheirLists, Match, OfItsList
  <2>4. ListsValid'
    BY <2>1 DEF IInv, ListsValid, Valid, Acyclic
  <2> QED BY <2>2, <2>3, <2>4 DEF IInv
<1>2. CASE Next
  BY <1>2, JobRequestKeepsInvariant, RunRequestKeepsInvariant, CancelRunKeepsInvariant,
     DeleteRunKeepsInvariant, CoroutineStepKeepsInvariant DEF Next
<1> QED BY <1>1, <1>2

\* A restart ends every coroutine where it stands, and gives out no id and no task list.
LEMMA RestartKeepsInvariant ==
  ASSUME IInv, Restart
  PROVE  IInv'
<1>1. /\ UNCHANGED <<jobs, registered, taskOutputs, submitTokens, runNowTokens, nextJobId,
                     nextRunId, epoch, run>>
      /\ DOMAIN co' = DOMAIN co
  BY DEF Restart, stateVars
<1>2. ASSUME NEW c \in DOMAIN co
      PROVE  /\ co'[c] \in Coroutine /\ co'[c].pc = "done" /\ co'[c].on = c
             /\ OfItsList(co'[c])
  <2>1. co[c] \in Coroutine /\ co[c].on = c
    BY CoroutineFacts
  <2> DEFINE idle == [k \in Key |-> 0]
  <2>2. co'[c] = [co[c] EXCEPT !.pc = "done", !.wave = {}, !.running = idle]
    BY DEF Restart
  <2>3. idle \in [Key -> Nat] /\ \A k \in Key : idle[k] = 0
    OBVIOUS
  <2> HIDE DEF idle
  <2>4. /\ co'[c] \in Coroutine /\ co'[c].pc = "done" /\ co'[c].on = c
        /\ co'[c].wave = {} /\ co'[c].running = idle
    BY <2>1, <2>2, <2>3 DEF Coroutine
  <2> QED BY <2>3, <2>4 DEF OfItsList
<1>3. TypeOK'
  BY <1>1, <1>2 DEF IInv, TypeOK, Ref
<1>4. DrivesItsRun'
  BY <1>1, <1>2 DEF IInv, DrivesItsRun, Match
<1>5. IdsGrow' /\ TokensRemembered'
  BY <1>1 DEF IInv, IdsGrow, TokensRemembered
<1>6. WavesOfTheirLists'
  BY <1>1, <1>2 DEF WavesOfTheirLists, OfItsList
<1>7. ListsValid'
  BY <1>1, <1>2 DEF IInv, ListsValid, Valid, Acyclic
<1> QED BY <1>3, <1>4, <1>5, <1>6, <1>7 DEF IInv

\* A server that is never restarted is one that may be.
LEMMA OneLife == Spec => RestartSpec
<1>1. [Next]_vars => [Next \/ Restart]_vars
  OBVIOUS
<1> QED BY <1>1, PTL DEF Spec, RestartSpec

LEMMA InvariantSurvives == RestartSpec => []IInv
<1>1. IInv /\ [Next \/ Restart]_vars => IInv'
  BY NextInvariant, RestartKeepsInvariant
<1> QED BY <1>1, InitInvariant, PTL DEF RestartSpec

(***************************************************************************)
(* The inductive invariant holds in one life of the server, for every      *)
(* choice of task lists, tokens and bounds.                                *)
(***************************************************************************)
THEOREM InvariantHolds == Spec => []IInv
  BY InvariantSurvives, OneLife, PTL

(***************************************************************************)
(* The state of the service keeps its types.                               *)
(***************************************************************************)
THEOREM TypesHold == Spec => []TypeOK
<1>1. IInv => TypeOK
  BY DEF IInv
<1> QED BY <1>1, InvariantHolds, PTL

-----------------------------------------------------------------------------
(* What a restart breaks: a coroutine that has ended has ended its run.    *)

RunsEnded == \A c \in DOMAIN co : co[c].pc = "done" => run[c].life = "TERMINATED"

\* The head of the while loop ends the coroutine and the run together.
LEMMA ProceedEndsRun ==
  ASSUME NEW c \in DOMAIN co, co[c] \in Coroutine, c \in DOMAIN run,
         NEW d \in Dict, NEW g, NEW results, Proceed(c, c, d, g, results)
  PROVE  /\ DOMAIN co' = DOMAIN co
         /\ \A x \in DOMAIN co : x # c => co'[x] = co[x] /\ run'[x] = run[x]
         /\ co'[c].pc = "done" => run'[c].life = "TERMINATED"
<1> DEFINE left == DOMAIN g \ Done(results)
           kw == [co[c] EXCEPT !.pc = "wave", !.on = c, !.graph = g,
                               !.results = results, !.wave = Ready(g, results)]
           dd == Terminated(d, FinalResult(d, results, left # {}), WithSkipped(results, left))
<1>1. CASE Ready(g, results) # {}
  <2>1. kw.pc = "wave"
    BY DEF Coroutine
  <2>2. co' = [co EXCEPT ![c] = kw] /\ run' = [run EXCEPT ![c] = d]
    BY <1>1 DEF Proceed
  <2> HIDE DEF kw
  <2> QED BY <2>1, <2>2
<1>2. CASE Ready(g, results) = {}
  <2>1. dd.life = "TERMINATED"
    BY DEF Terminated, Dict
  <2>2. run' = [run EXCEPT ![c] = dd]
    BY <1>2 DEF Proceed
  <2>3. \E k : co' = [co EXCEPT ![c] = k]
    BY <1>2 DEF Proceed
  <2> HIDE DEF dd
  <2> QED BY <2>1, <2>2, <2>3
<1> QED BY <1>1, <1>2

LEMMA CoroutineStepEndsRun ==
  ASSUME IInv, RunsEnded, NEW c \in Refs, CoroutineStep(c)
  PROVE  RunsEnded'
<1> SUFFICES /\ DOMAIN co' = DOMAIN co
             /\ \A x \in DOMAIN co : x # c => co'[x] = co[x] /\ run'[x] = run[x]
             /\ co'[c].pc = "done" => run'[c].life = "TERMINATED"
  BY DEF RunsEnded
<1>1. CASE StartRun(c)
  <2> DEFINE d == [run[c] EXCEPT !.life = "RUNNING", !.result = "NONE"]
             g == TaskSource(d.source)
  <2>1. c \in DOMAIN co /\ co[c].pc = "scheduled"
    BY <1>1 DEF StartRun
  <2>2. /\ run[c] \in Dict /\ c[2] \in registered /\ Ref(c[2]) = c
        /\ co[c] \in Coroutine /\ c \in DOMAIN run
    BY <2>1, CoroutineFacts DEF IInv, DrivesItsRun, Match, Active
  <2>3. d \in Dict /\ d.source = run[c].source
    BY <2>2 DEF Dict
  <2>4. Valid(g)
    BY <2>1, <2>3, SourceValid
  <2>5. Proceed(c, c, d, g, NoResults)
    BY <1>1, <2>2, <2>4 DEF StartRun
  <2> HIDE DEF d, g
  <2> QED BY <2>1, <2>2, <2>3, <2>5, ProceedEndsRun
<1>2. ASSUME NEW k \in Key,
             RunOneCanceled(c, k) \/ RunOneSkipped(c, k) \/ RunOneExecute(c, k) \/ FinishTask(c, k)
      PROVE  /\ DOMAIN co' = DOMAIN co
             /\ \A x \in DOMAIN co : x # c => co'[x] = co[x] /\ run'[x] = run[x]
             /\ co'[c].pc = "done" => run'[c].life = "TERMINATED"
  <2>1. c \in DOMAIN co
    BY <1>2 DEF RunOneCanceled, RunOneSkipped, RunOneExecute, FinishTask, NotStarted
  <2>2. co[c] \in Coroutine
    BY <2>1, CoroutineFacts
  <2>3. run' = run
    <3>1. CASE RunOneCanceled(c, k) \/ RunOneSkipped(c, k)
      BY <3>1 DEF RunOneCanceled, RunOneSkipped
    <3>2. CASE RunOneExecute(c, k) \/ FinishTask(c, k)
      BY <3>2 DEF RunOneExecute, FinishTask
    <3> QED BY <1>2, <3>1, <3>2
  <2>4. PICK k1 : co' = [co EXCEPT ![c] = k1] /\ k1.pc = co[c].pc
    <3>1. ASSUME NEW status, NEW id, co' = Recorded(c, k, status, id)
          PROVE  \E k1 : co' = [co EXCEPT ![c] = k1] /\ k1.pc = co[c].pc
      <4> DEFINE k1 == [co[c] EXCEPT !.results = [@ EXCEPT ![k] = [status |-> status, id |-> id]],
                                     !.running = [@ EXCEPT ![k] = 0]]
      <4>1. co' = [co EXCEPT ![c] = k1]
        BY <3>1 DEF Recorded
      <4>2. k1.pc = co[c].pc
        BY <2>2 DEF Coroutine
      <4> HIDE DEF k1
      <4> QED BY <4>1, <4>2
    <3>2. ASSUME NEW id, NEW o, Settle(c, k, id, o)
          PROVE  \E k1 : co' = [co EXCEPT ![c] = k1] /\ k1.pc = co[c].pc
      <4>1. CASE o.status = "RAISED"
        <5> DEFINE k1 == [co[c] EXCEPT !.raised = @ \cup {k}, !.running = [@ EXCEPT ![k] = 0]]
        <5>1. co' = [co EXCEPT ![c] = k1]
          BY <3>2, <4>1 DEF Settle
        <5>2. k1.pc = co[c].pc
          BY <2>2 DEF Coroutine
        <5> HIDE DEF k1
        <5> QED BY <5>1, <5>2
      <4>2. CASE o.status # "RAISED"
        BY <3>1, <3>2, <4>2 DEF Settle
      <4> QED BY <4>1, <4>2
    <3>3. CASE RunOneCanceled(c, k) \/ RunOneSkipped(c, k)
      BY <3>1, <3>3 DEF RunOneCanceled, RunOneSkipped
    <3>4. CASE RunOneExecute(c, k)
      <4>1. CASE co' = [co EXCEPT ![c].running = [@ EXCEPT ![k] = nextRunId]]
        <5> DEFINE k1 == [co[c] EXCEPT !.running = [@ EXCEPT ![k] = nextRunId]]
        <5>1. co' = [co EXCEPT ![c] = k1]
          BY <4>1
        <5>2. k1.pc = co[c].pc
          BY <2>2 DEF Coroutine
        <5> HIDE DEF k1
        <5> QED BY <5>1, <5>2
      <4>2. \/ \E o : Settle(c, k, nextRunId, o)
            \/ co' = [co EXCEPT ![c].running = [@ EXCEPT ![k] = nextRunId]]
        BY <3>4, Zenon DEF RunOneExecute
      <4> QED BY <3>2, <4>1, <4>2
    <3>5. CASE FinishTask(c, k)
      BY <3>2, <3>5 DEF FinishTask
    <3> QED BY <1>2, <3>3, <3>4, <3>5
  <2>5. co[c].pc = "done" => run[c].life = "TERMINATED"
    BY <2>1 DEF RunsEnded
  <2> QED BY <2>1, <2>3, <2>4, <2>5
<1>3. CASE EndWave(c)
  <2>1. c \in DOMAIN co /\ co[c].pc = "wave" /\ AfterGather(c)
    BY <1>3 DEF EndWave
  <2>2. co[c] \in Coroutine /\ run[c] \in Dict /\ co[c].on = c /\ c \in DOMAIN run
    BY <2>1, CoroutineFacts
  <2>3. CASE co[c].raised # {}
    <3> DEFINE d == Terminated(run[c], "FAILED", run[c].tasks)
    <3>1. d.life = "TERMINATED"
      BY <2>2 DEF Terminated, Dict
    <3>2. run' = [run EXCEPT ![c] = d] /\ \E k : co' = [co EXCEPT ![c] = k]
      BY <2>1, <2>2, <2>3 DEF AfterGather
    <3> HIDE DEF d
    <3> QED BY <2>1, <2>2, <3>1, <3>2
  <2>4. CASE co[c].raised = {}
    <3>1. Proceed(c, c, run[c], co[c].graph, co[c].results)
      BY <2>1, <2>2, <2>4 DEF AfterGather
    <3> QED BY <2>1, <2>2, <3>1, ProceedEndsRun
  <2> QED BY <2>3, <2>4
<1> QED BY <1>1, <1>2, <1>3 DEF CoroutineStep

LEMMA NextEndsRuns == IInv /\ RunsEnded /\ [Next]_vars => RunsEnded'
<1> SUFFICES ASSUME IInv, RunsEnded, [Next]_vars PROVE RunsEnded'
  OBVIOUS
<1>1. ASSUME UNCHANGED <<run, co>> PROVE RunsEnded'
  BY <1>1 DEF RunsEnded
<1>2. CASE UNCHANGED vars
  BY <1>1, <1>2 DEF vars
<1>3. ASSUME NEW g, NEW j, CreateJob(g) \/ UpdateJob(j, g) \/ DeleteJob(j) \/ DeleteRun(j)
      PROVE  RunsEnded'
  BY <1>1, <1>3 DEF CreateJob, UpdateJob, DeleteJob, DeleteRun
<1>4. ASSUME NEW source, NEW tok, CreateRun(source, tok)
      PROVE  RunsEnded'
  <2>1. NewCoroutine(nextRunId).pc = "scheduled"
    BY DEF NewCoroutine
  <2>2. DOMAIN co = DOMAIN run
    BY DEF IInv, TypeOK
  <2> QED BY <1>4, <2>1, <2>2, CreateRunFacts DEF RunsEnded
<1>5. ASSUME NEW j, NEW g, NEW tok, RunNow(j, tok) \/ SubmitRun(g, tok)
      PROVE  RunsEnded'
  BY <1>4, <1>5, Zenon DEF RunNow, SubmitRun
<1>6. ASSUME NEW id \in 1..MaxRunId, CancelRun(id)
      PROVE  RunsEnded'
  <2> DEFINE d == [run[Ref(id)] EXCEPT !.cancel = TRUE]
  <2>1. /\ run[Ref(id)] \in Dict /\ Ref(id) \in DOMAIN run /\ DOMAIN co = DOMAIN run
        /\ co' = co /\ run' = [run EXCEPT ![Ref(id)] = d]
    BY <1>6 DEF CancelRun, IInv, TypeOK
  <2>2. d.life = run[Ref(id)].life
    BY <2>1 DEF Dict
  <2> HIDE DEF d
  <2> QED BY <2>1, <2>2 DEF RunsEnded
<1>7. ASSUME NEW c \in Refs, CoroutineStep(c)
      PROVE  RunsEnded'
  BY <1>7, CoroutineStepEndsRun
<1> QED BY <1>2, <1>3, <1>5, <1>6, <1>7 DEF Next

LEMMA RunsEndedHolds == Spec => []RunsEnded
<1>1. Init => RunsEnded
  BY DEF Init, RunsEnded, EmptyMap
<1> QED BY <1>1, InvariantHolds, NextEndsRuns, PTL DEF Spec

(***************************************************************************)
(* A run the API reports as active is driven by exactly one coroutine, and *)
(* one it reports as ended by none (OneDriver), however many runs there    *)
(* are and whatever clients do to them.                                    *)
(***************************************************************************)
THEOREM EveryRunHasOneDriver == Spec => []OneDriver
<1>1. IInv /\ RunsEnded => OneDriver
  <2> SUFFICES ASSUME IInv, RunsEnded, NEW id \in registered
               PROVE  LET drivers == {c \in DOMAIN co : Drives(c, id)}
                      IN IF run[Ref(id)].life \in Active
                         THEN \E c \in drivers : drivers = {c}
                         ELSE drivers = {}
    BY DEF OneDriver
  <2>1. Ref(id) \in DOMAIN co /\ Ref(id)[2] = id
    BY DEF IInv, TypeOK, Ref
  <2>2. \A c \in DOMAIN co : Drives(c, id) => c = Ref(id)
    BY CoroutineFacts DEF Drives
  <2>3. Drives(Ref(id), id) <=> run[Ref(id)].life \in Active
    BY <2>1, CoroutineFacts DEF Drives, IInv, DrivesItsRun, Match, Active, RunsEnded, Coroutine
  <2> QED BY <2>1, <2>2, <2>3
<1> QED BY <1>1, InvariantHolds, RunsEndedHolds, PTL

-----------------------------------------------------------------------------
(* The service implements RunContract                                      *)

\* What the contract sees of a run, of all runs, and of the registry.
Entry(d) ==
  [via |-> IF d.source.submitted THEN "submit" ELSE "run-now",
   token |-> d.token, life |-> d.life, result |-> d.result, cancel |-> d.cancel]

Book == [r \in DOMAIN run |-> Entry(run[r])]

Visible == {r \in DOMAIN run : r[1] = epoch /\ r[2] \in registered}

LEMMA OneRunChanges ==
  ASSUME NEW c \in DOMAIN run, NEW d, run' = [run EXCEPT ![c] = d],
         UNCHANGED <<epoch, registered>>
  PROVE  Book' = [Book EXCEPT ![c] = Entry(d)] /\ Visible' = Visible
<1>1. DOMAIN run' = DOMAIN run /\ run'[c] = d /\ \A r \in DOMAIN run : r # c => run'[r] = run[r]
  OBVIOUS
<1>2. Book' = [r \in DOMAIN run |-> IF r = c THEN Entry(d) ELSE Entry(run[r])]
  BY <1>1 DEF Book, Entry
<1>3. [Book EXCEPT ![c] = Entry(d)] = [r \in DOMAIN run |-> IF r = c THEN Entry(d) ELSE Entry(run[r])]
  BY DEF Book
<1> QED BY <1>1, <1>2, <1>3 DEF Visible

LEMMA BeginImplements ==
  ASSUME NEW c \in DOMAIN run, NEW d, run' = [run EXCEPT ![c] = d],
         UNCHANGED <<epoch, registered>>,
         run[c].life = "PENDING", d.life = "RUNNING", d.source = run[c].source,
         d.token = run[c].token, d.result = run[c].result, d.cancel = run[c].cancel
  PROVE  Contract!Begin(c)
<1> DEFINE e == [Book[c] EXCEPT !.life = "RUNNING"]
<1>1. Entry(d) = e
  BY DEF Book, Entry
<1>2. Book' = [Book EXCEPT ![c] = Entry(d)] /\ Visible' = Visible
  BY OneRunChanges
<1>3. c \in DOMAIN Book /\ Book[c].life = "PENDING"
  BY DEF Book, Entry
<1>4. Book' = [Book EXCEPT ![c] = e]
  BY <1>1, <1>2, Zenon
<1> QED BY <1>2, <1>3, <1>4 DEF Contract!Begin, Book, Entry, Visible

LEMMA EndImplements ==
  ASSUME NEW c \in DOMAIN run, NEW d, run' = [run EXCEPT ![c] = d],
         UNCHANGED <<epoch, registered>>,
         run[c].life \in Active, d.life = "TERMINATED", d.source = run[c].source,
         d.token = run[c].token, d.cancel = run[c].cancel,
         d.result \in IF run[c].cancel THEN {"CANCELED", "FAILED"} ELSE {"SUCCESS", "FAILED"}
  PROVE  Contract!End(c, d.result)
<1> DEFINE b == Book[c]
           ended == [b EXCEPT !.life = "TERMINATED"]
           e == [ended EXCEPT !.result = d.result]
<1>1. Entry(d) = e
  <2>1. b = Entry(run[c])
    BY DEF Book
  <2>2. ended = [via |-> b.via, token |-> b.token, life |-> "TERMINATED",
                 result |-> b.result, cancel |-> b.cancel]
    BY <2>1 DEF Entry
  <2>3. e = [via |-> b.via, token |-> b.token, life |-> "TERMINATED",
             result |-> d.result, cancel |-> b.cancel]
    <3> HIDE DEF ended, b
    <3> QED BY <2>2
  <2>4. b.via = Entry(d).via /\ b.token = d.token /\ b.cancel = d.cancel
    BY <2>1 DEF Entry
  <2> HIDE DEF e, ended, b
  <2> QED BY <2>3, <2>4 DEF Entry
<1>2. Book' = [Book EXCEPT ![c] = Entry(d)] /\ Visible' = Visible
  BY OneRunChanges
<1>3. /\ c \in DOMAIN Book /\ Book[c].life \in {"PENDING", "RUNNING"}
      /\ d.result \in IF Book[c].cancel THEN {"CANCELED", "FAILED"} ELSE {"SUCCESS", "FAILED"}
  BY DEF Book, Entry, Active
<1>4. Book' = [Book EXCEPT ![c].life = "TERMINATED", ![c].result = d.result]
  <2>1. Book' = [Book EXCEPT ![c] = e]
    BY <1>1, <1>2, Zenon
  <2> DEFINE once == [Book EXCEPT ![c] = ended]
  <2>2. once[c] = ended
    BY <1>3
  <2>3. [once EXCEPT ![c] = e] = [Book EXCEPT ![c] = e]
    <3> HIDE DEF e, ended
    <3> QED OBVIOUS
  <2>4. [once EXCEPT ![c] = [once[c] EXCEPT !.result = d.result]] = [once EXCEPT ![c] = e]
    BY <2>2, Zenon
  <2> QED BY <2>1, <2>3, <2>4, Zenon
<1> QED BY <1>2, <1>3, <1>4 DEF Contract!End, Book, Entry, Visible

\* The head of the while loop begins the run, ends it, or (between two waves) is not seen.
LEMMA ProceedImplements ==
  ASSUME IInv, NEW c \in DOMAIN co, run[c].life \in Active,
         NEW d \in Dict, d.life = "RUNNING", d.source = run[c].source, d.token = run[c].token,
         d.cancel = run[c].cancel, d.result = run[c].result,
         run[c].life = "RUNNING" => d = run[c],
         NEW g, NEW results \in [Key -> TaskResult],
         Proceed(c, c, d, g, results),
         UNCHANGED <<epoch, registered>>
  PROVE  Contract!Begin(c) \/ (\E r \in {"SUCCESS", "FAILED", "CANCELED"} : Contract!End(c, r))
           \/ UNCHANGED <<Book, Visible>>
<1> DEFINE left == DOMAIN g \ Done(results)
           fin == FinalResult(d, results, left # {})
           skipped == WithSkipped(results, left)
           dd == Terminated(d, fin, skipped)
<1>1. c \in DOMAIN run /\ run[c] \in Dict
  BY CoroutineFacts
<1>2. run' = [run EXCEPT ![c] = d] \/ run' = [run EXCEPT ![c] = dd]
  BY Zenon DEF Proceed
<1>3. fin \in IF d.cancel THEN {"CANCELED", "FAILED"} ELSE {"SUCCESS", "FAILED"}
  BY DEF FinalResult
<1>4. skipped \in [Key -> TaskResult]
  BY ResultTypes
<1>5. fin \in {"SUCCESS", "FAILED", "CANCELED"}
  BY <1>3
<1>6. dd = Terminated(d, fin, skipped)
  BY Zenon
<1> HIDE DEF left, fin, skipped, dd
<1>7. /\ dd.life = "TERMINATED" /\ dd.source = d.source /\ dd.token = d.token
      /\ dd.cancel = d.cancel /\ dd.result = fin
  BY <1>4, <1>5, <1>6, TerminatedType
<1>8. CASE run' = [run EXCEPT ![c] = dd]
  <2>1. dd.result \in IF run[c].cancel THEN {"CANCELED", "FAILED"} ELSE {"SUCCESS", "FAILED"}
    BY <1>3, <1>7
  <2>2. Contract!End(c, dd.result)
    BY <1>1, <1>7, <1>8, <2>1, EndImplements
  <2> QED BY <1>5, <1>7, <2>2
<1>9. CASE run' = [run EXCEPT ![c] = d] /\ run[c].life = "PENDING"
  BY <1>1, <1>9, BeginImplements
<1>10. CASE run' = [run EXCEPT ![c] = d] /\ run[c].life = "RUNNING"
  <2>1. Book' = [Book EXCEPT ![c] = Entry(run[c])] /\ Visible' = Visible
    BY <1>1, <1>10, OneRunChanges
  <2>2. [Book EXCEPT ![c] = Entry(run[c])] = Book
    BY <1>1 DEF Book
  <2> QED BY <2>1, <2>2
<1> QED BY <1>2, <1>8, <1>9, <1>10 DEF Active

\* Every step of a coroutine begins or ends its run, or is not seen.
LEMMA CoroutineStepImplements ==
  ASSUME IInv, NEW c \in Refs, CoroutineStep(c)
  PROVE  \/ Contract!Begin(c)
         \/ \E r \in {"SUCCESS", "FAILED", "CANCELED"} : Contract!End(c, r)
         \/ UNCHANGED <<Book, Visible>>
<1>1. CASE StartRun(c)
  <2> DEFINE d == [run[c] EXCEPT !.life = "RUNNING", !.result = "NONE"]
             g == TaskSource(d.source)
  <2>1. c \in DOMAIN co /\ co[c].pc = "scheduled"
    BY <1>1 DEF StartRun
  <2>2. /\ run[c] \in Dict /\ run[c].life = "PENDING" /\ c[2] \in registered /\ Ref(c[2]) = c
        /\ run[c].result = "NONE"
    BY <2>1, CoroutineFacts DEF IInv, DrivesItsRun, Match, Active
  <2>3. /\ d \in Dict /\ d.life = "RUNNING" /\ d.source = run[c].source /\ d.token = run[c].token
        /\ d.cancel = run[c].cancel /\ d.result = "NONE"
    BY <2>2 DEF Dict
  <2>4. Valid(g)
    BY <2>1, <2>3, SourceValid
  <2>5. Proceed(c, c, d, g, NoResults) /\ UNCHANGED <<epoch, registered>>
    BY <1>1, <2>2, <2>4 DEF StartRun, stateVars
  <2> HIDE DEF d, g
  <2> QED BY <2>1, <2>2, <2>3, <2>5, NoResultsType, ProceedImplements DEF Active
<1>2. ASSUME NEW k \in Key,
             RunOneCanceled(c, k) \/ RunOneSkipped(c, k) \/ RunOneExecute(c, k) \/ FinishTask(c, k)
      PROVE  UNCHANGED <<Book, Visible>>
  <2>1. UNCHANGED <<registered, epoch, run>>
    <3>1. CASE RunOneCanceled(c, k) \/ RunOneSkipped(c, k)
      BY <3>1 DEF RunOneCanceled, RunOneSkipped, stateVars
    <3>2. CASE RunOneExecute(c, k)
      BY <3>2 DEF RunOneExecute
    <3>3. CASE FinishTask(c, k)
      BY <3>3 DEF FinishTask
    <3> QED BY <1>2, <3>1, <3>2, <3>3
  <2> QED BY <2>1 DEF Book, Visible, Entry
<1>3. CASE EndWave(c)
  <2>1. c \in DOMAIN co /\ co[c].pc = "wave" /\ AfterGather(c)
    BY <1>3 DEF EndWave
  <2>2. /\ co[c] \in Coroutine /\ run[c] \in Dict /\ co[c].on = c
        /\ run[c].life = "RUNNING" /\ c \in DOMAIN run
    BY <2>1, CoroutineFacts DEF IInv, DrivesItsRun, Match
  <2>3. UNCHANGED <<epoch, registered>>
    BY <2>1 DEF AfterGather
  <2>4. CASE co[c].raised # {}
    <3>0. PICK d : d = Terminated(run[c], "FAILED", run[c].tasks)
      OBVIOUS
    <3>1. run' = [run EXCEPT ![c] = d]
      BY <2>1, <2>2, <2>4, <3>0 DEF AfterGather
    <3>2. run[c].tasks \in [Key -> TaskResult]
      BY <2>2 DEF Dict
    <3>3. /\ d.life = "TERMINATED" /\ d.source = run[c].source /\ d.token = run[c].token
          /\ d.cancel = run[c].cancel /\ d.result = "FAILED"
      BY <2>2, <3>0, <3>2, TerminatedType
    <3>4. /\ run[c].life \in Active /\ d.result \in {"SUCCESS", "FAILED", "CANCELED"}
          /\ d.result \in IF run[c].cancel THEN {"CANCELED", "FAILED"} ELSE {"SUCCESS", "FAILED"}
      BY <2>2, <3>3 DEF Active
    <3>5. Contract!End(c, d.result)
      BY <2>2, <2>3, <3>1, <3>3, <3>4, EndImplements
    <3> QED BY <3>4, <3>5, Zenon
  <2>5. CASE co[c].raised = {}
    <3>1. Proceed(c, c, run[c], co[c].graph, co[c].results)
      BY <2>1, <2>2, <2>5 DEF AfterGather
    <3>2. co[c].results \in [Key -> TaskResult]
      BY <2>2 DEF Coroutine
    <3> QED BY <2>1, <2>2, <2>3, <3>1, <3>2, ProceedImplements DEF Active
  <2> QED BY <2>4, <2>5
<1> QED BY <1>1, <1>2, <1>3 DEF CoroutineStep

\* run-now and submit accept a run that the contract has not seen, with a token it has not seen.
LEMMA CreateRunImplements ==
  ASSUME IInv, NEW source, NEW tok, CreateRun(source, tok),
         source.submitted \in BOOLEAN,
         tok \notin IF source.submitted THEN DOMAIN submitTokens ELSE DOMAIN runNowTokens
  PROVE  \E i \in Refs, via \in {"run-now", "submit"} : Contract!Accept(i, via, tok)
<1> PICK n : n = Ref(nextRunId)
  OBVIOUS
<1> DEFINE via == IF source.submitted THEN "submit" ELSE "run-now"
           new == [via |-> via, token |-> tok, life |-> "PENDING",
                   result |-> "NONE", cancel |-> FALSE]
<1>1. /\ n \in Refs /\ n \notin DOMAIN run /\ n[1] = 0 /\ n[2] = nextRunId
      /\ DOMAIN run' = DOMAIN run \cup {n} /\ run'[n] = NewDict(source, tok)
      /\ \A r \in DOMAIN run : r # n /\ run'[r] = run[r]
      /\ registered' = registered \cup {nextRunId} /\ epoch' = epoch
  BY CreateRunFacts
<1>2. Entry(NewDict(source, tok)) = new
  BY DEF Entry, NewDict
<1> HIDE DEF new
<1>3. Book' = [r \in DOMAIN run \cup {n} |-> IF r = n THEN new ELSE Entry(run[r])]
  BY <1>1, <1>2 DEF Book, Entry
<1>4. Book' = [r \in DOMAIN Book \cup {n} |-> IF r = n THEN new ELSE Book[r]]
  BY <1>3 DEF Book
<1>5. Visible' = Visible \cup {n}
  <2>1. \A r \in DOMAIN run : r[2] # nextRunId
    <3>1. \A r \in DOMAIN run : r[2] \in Nat /\ r[2] < nextRunId
      BY BoundsAssumption DEF IInv, TypeOK, IdsGrow, Refs
    <3>2. nextRunId \in Nat
      BY DEF IInv, TypeOK
    <3> QED BY <3>1, <3>2
  <2>2. epoch = 0
    BY DEF IInv, IdsGrow
  <2> QED BY <1>1, <2>1, <2>2 DEF Visible
<1>6. tok # NoToken => \A r \in DOMAIN Book : ~(Book[r].via = via /\ Book[r].token = tok)
  <2> SUFFICES ASSUME tok # NoToken, NEW r \in DOMAIN run, run[r].token = tok
               PROVE  Entry(run[r]).via # via
    BY DEF Book, Entry
  <2>1. tok \in IF run[r].source.submitted THEN DOMAIN submitTokens ELSE DOMAIN runNowTokens
    BY DEF IInv, TokensRemembered
  <2> QED BY <2>1 DEF Entry
<1>7. n \notin DOMAIN Book
  BY <1>1 DEF Book
<1>8. Contract!Accept(n, via, tok)
  BY <1>4, <1>5, <1>6, <1>7 DEF Contract!Accept, Book, Entry, Visible, new
<1> QED BY <1>1, <1>8

LEMMA CancelRunImplements ==
  ASSUME IInv, NEW id \in 1..MaxRunId, CancelRun(id)
  PROVE  \E i \in Refs : Contract!Cancel(i)
<1> PICK c : c = Ref(id)
  OBVIOUS
<1> DEFINE e == [Book[c] EXCEPT !.cancel = TRUE]
<1>1. /\ c \in Refs /\ c \in DOMAIN run /\ c \in Visible
  BY DEF CancelRun, IInv, TypeOK, Visible, Ref
<1> PICK d : d = [run[c] EXCEPT !.cancel = TRUE]
  OBVIOUS
<1>2. run' = [run EXCEPT ![c] = d] /\ UNCHANGED <<epoch, registered>>
  BY DEF CancelRun, stateVars
<1>3. run[c] \in Dict
  BY <1>1 DEF IInv, TypeOK
<1>4. Entry(d) = e
  <2>1. /\ d.source = run[c].source /\ d.token = run[c].token /\ d.life = run[c].life
        /\ d.result = run[c].result /\ d.cancel = TRUE
    BY <1>3 DEF Dict
  <2>2. Book[c] = Entry(run[c])
    BY <1>1 DEF Book
  <2>3. e = [via |-> Book[c].via, token |-> Book[c].token, life |-> Book[c].life,
             result |-> Book[c].result, cancel |-> TRUE]
    <3> SUFFICES ASSUME NEW flag
                 PROVE  [Book[c] EXCEPT !.cancel = flag] =
                          [via |-> Book[c].via, token |-> Book[c].token, life |-> Book[c].life,
                           result |-> Book[c].result, cancel |-> flag]
      BY Zenon
    <3> QED BY <2>2 DEF Entry
  <2> DEFINE via == IF run[c].source.submitted THEN "submit" ELSE "run-now"
  <2>4. /\ Book[c].via = via /\ Book[c].token = d.token
        /\ Book[c].life = d.life /\ Book[c].result = d.result
    BY <2>1, <2>2 DEF Entry
  <2> HIDE DEF e, via
  <2>5. e = [via |-> via, token |-> d.token, life |-> d.life, result |-> d.result, cancel |-> TRUE]
    BY <2>3, <2>4
  <2> QED BY <2>1, <2>5 DEF Entry, via
<1>5. Book' = [Book EXCEPT ![c] = e] /\ Visible' = Visible
  <2>1. Book' = [Book EXCEPT ![c] = Entry(d)] /\ Visible' = Visible
    BY <1>1, <1>2, OneRunChanges
  <2> QED BY <1>4, <2>1, Zenon
<1>6. Contract!Cancel(c)
  BY <1>1, <1>5 DEF Contract!Cancel, Book, Entry, Visible
<1> QED BY <1>1, <1>6

LEMMA DeleteRunImplements ==
  ASSUME IInv, NEW id \in 1..MaxRunId, DeleteRun(id)
  PROVE  \E i \in Refs : Contract!Delete(i)
<1> PICK c : c = Ref(id)
  OBVIOUS
<1>1. c \in Refs /\ c \in DOMAIN run /\ c \in Visible /\ c[1] = epoch /\ c[2] = id
  BY DEF DeleteRun, IInv, TypeOK, Visible, Ref
<1>2. run[c].life = "TERMINATED"
  BY <1>1 DEF DeleteRun, IInv, TypeOK, Dict
<1>3. /\ registered' = registered \ {id} /\ UNCHANGED <<epoch, run>>
  BY DEF DeleteRun
<1>4. Book' = Book
  BY <1>3 DEF Book, Entry
<1>5. Visible' = Visible \ {c}
  <2>1. \A r \in DOMAIN run : r[1] = epoch /\ r[2] = id => r = c
    BY <1>1 DEF IInv, TypeOK, Refs
  <2> QED BY <1>1, <1>3, <2>1 DEF Visible
<1>6. Book[c].life = "TERMINATED"
  BY <1>1, <1>2 DEF Book, Entry
<1>7. Contract!Delete(c)
  BY <1>1, <1>4, <1>5, <1>6 DEF Contract!Delete, Book, Entry, Visible
<1> QED BY <1>1, <1>7

(***************************************************************************)
(* The Jobs service implements RunContract: for every behaviour of the     *)
(* registry and the coroutines, what the API shows of the runs is a        *)
(* behaviour of the contract.  A restart is not seen: the book of runs and *)
(* the tokens come back from the snapshot as they were.                    *)
(***************************************************************************)
THEOREM ContractSurvivesRestarts == RestartSpec => KeepsContract
<1>1. Init => Contract!Init
  BY DEF Init, Contract!Init, EmptyMap
<1>2. IInv /\ [Next \/ Restart]_vars => [Contract!Next]_(Contract!contractVars)
  <2> SUFFICES ASSUME IInv, [Next \/ Restart]_vars
               PROVE  Contract!Next \/ UNCHANGED <<Book, Visible>>
    BY DEF Contract!contractVars, Book, Visible, Entry
  <2>1. ASSUME UNCHANGED <<registered, epoch, run>>
        PROVE  UNCHANGED <<Book, Visible>>
    BY <2>1 DEF Book, Visible, Entry
  <2>2. CASE UNCHANGED vars
    BY <2>1, <2>2 DEF vars, stateVars
  <2>3. ASSUME NEW g, NEW j, CreateJob(g) \/ UpdateJob(j, g) \/ DeleteJob(j)
        PROVE  UNCHANGED <<Book, Visible>>
    BY <2>1, <2>3 DEF CreateJob, UpdateJob, DeleteJob
  <2>4. ASSUME NEW j \in 1..MaxJobs, NEW tok \in Token \cup {NoToken}, RunNow(j, tok)
        PROVE  Contract!Next
    <3>1. \E i \in Refs, via \in {"run-now", "submit"} : Contract!Accept(i, via, tok)
      BY <2>4, CreateRunImplements DEF RunNow
    <3> QED BY <3>1 DEF Contract!Next
  <2>5. ASSUME NEW g \in TaskLists, NEW tok \in Token \cup {NoToken}, SubmitRun(g, tok)
        PROVE  Contract!Next
    <3>1. \E i \in Refs, via \in {"run-now", "submit"} : Contract!Accept(i, via, tok)
      BY <2>5, CreateRunImplements DEF SubmitRun
    <3> QED BY <3>1 DEF Contract!Next
  <2>6. ASSUME NEW id \in 1..MaxRunId, CancelRun(id) \/ DeleteRun(id)
        PROVE  Contract!Next
    BY <2>6, CancelRunImplements, DeleteRunImplements DEF Contract!Next
  <2>7. ASSUME NEW c \in Refs, CoroutineStep(c)
        PROVE  Contract!Next \/ UNCHANGED <<Book, Visible>>
    BY <2>7, CoroutineStepImplements DEF Contract!Next
  <2>8. CASE Restart
    BY <2>1, <2>8 DEF Restart, stateVars
  <2> QED BY <2>2, <2>3, <2>4, <2>5, <2>6, <2>7, <2>8 DEF Next
<1> QED BY <1>1, <1>2, InvariantSurvives, PTL DEF RestartSpec, KeepsContract, Contract!Spec

(***************************************************************************)
(* In particular so does a server that is never restarted.                 *)
(***************************************************************************)
THEOREM JobsImplementRunContract == Spec => KeepsContract
  BY ContractSurvivesRestarts, OneLife, PTL
=============================================================================
