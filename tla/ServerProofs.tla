---------------------------- MODULE ServerProofs ----------------------------
(***************************************************************************)
(* Proofs about module Server, for any sets of tasks, resources, services  *)
(* and so on.  A behaviour is one of the service that it began with, so    *)
(* for each service there is an invariant with the lemmas that its first   *)
(* states have it and its steps keep it, and the theorems put them side by *)
(* side.                                                                   *)
(***************************************************************************)
EXTENDS Server, Integers, FiniteSets, FiniteSetTheorems, SequenceTheorems, WellFoundedInduction,
        TLAPS

----------------------------------------------------------------------------
(* The executor: for any number of tasks that share a set of libraries.    *)
Step == {"none", "check", "install", "rename", "script", "ended", "killed"}
Wait == {"idle", "waiting", "stopping", "removing", "done"}
Outcome == [exit_code : Int, timed_out : BOOLEAN, error : BOOLEAN, given : BOOLEAN]

ExecutorTypes ==
  /\ mode \in {"docker", "subprocess"}
  /\ step \in [Tasks -> Step] /\ waiter \in [Tasks -> Wait]
  /\ tmp \in [Tasks -> {"absent", "partial", "whole"}] /\ target \in {"absent", "whole"}
  /\ code \in [Tasks -> {0, 1}] /\ result \in [Tasks -> Outcome]

(* What a task may rely on at its step, and what is known when it is over. *)
TaskSound(t) ==
  /\ waiter[t] = "idle" => step[t] = "none"
  /\ step[t] = "rename" => tmp[t] = "whole"
  /\ step[t] = "script" => target = "whole"
  /\ waiter[t] = "done" /\ Executing!Running(t) => t \in refused
  /\ (result[t].given /\ result[t].exit_code = 0) => (step[t] = "ended" /\ code[t] = 0)

ExecutorInv == ExecutorTypes /\ \A t \in Tasks : TaskSound(t)

LEMMA ExecutorStarts == Executing!Init => ExecutorInv
  BY DEF Executing!Init, Executing!NoResult, Executing!Running, ExecutorInv, ExecutorTypes,
         TaskSound, Step, Wait, Outcome

LEMMA OutcomeTyped ==
  /\ Executing!Result(-1, FALSE, TRUE) \in Outcome
  /\ Executing!Result(-1, TRUE, FALSE) \in Outcome
  /\ Executing!Result(1, FALSE, FALSE) \in Outcome
  /\ \A exit \in {0, 1} : Executing!Result(exit, FALSE, FALSE) \in Outcome
  /\ \A slow \in BOOLEAN : Executing!Result(-1, slow, ~slow) \in Outcome
  BY DEF Executing!Result, Outcome

LEMMA ExecutorSteps == ExecutorInv /\ Executing!Next => ExecutorInv'
<1>. SUFFICES ASSUME ExecutorInv, NEW t \in Tasks,
                \/ Executing!RunPythonTask(t) \/ Executing!Check(t) \/ Executing!Install(t)
                \/ Executing!Installed(t) \/ Executing!Rename(t) \/ Executing!ScriptEnds(t)
                \/ Executing!Collect(t) \/ Executing!KillSubprocess(t) \/ Executing!WaitFails(t)
                \/ Executing!StopContainer(t) \/ Executing!RemoveContainer(t)
              PROVE  ExecutorTypes' /\ TaskSound(t)' /\ \A u \in Tasks \ {t} : TaskSound(u)'
  BY DEF Executing!Next, ExecutorInv
<1>. USE DEF ExecutorInv, Executing!Goes, Executing!Waits, Executing!Gives
<1>1. CASE Executing!RunPythonTask(t)
  <2>1. ExecutorTypes'
    BY <1>1, OutcomeTyped DEF Executing!RunPythonTask, ExecutorTypes, Step, Wait
  <2>2. TaskSound(t)'
    BY <1>1 DEF Executing!RunPythonTask, ExecutorTypes, TaskSound, Executing!Result, Executing!Running
  <2>3. ASSUME NEW u \in Tasks \ {t} PROVE TaskSound(u)'
    BY <1>1 DEF Executing!RunPythonTask, ExecutorTypes, TaskSound, Executing!Running
  <2>. QED
    BY <2>1, <2>2, <2>3
<1>2. CASE Executing!Check(t)
  <2>1. ExecutorTypes'
    BY <1>2 DEF Executing!Check, ExecutorTypes, Step, Wait
  <2>2. TaskSound(t)'
    BY <1>2 DEF Executing!Check, ExecutorTypes, TaskSound, Executing!Result, Executing!Running
  <2>3. ASSUME NEW u \in Tasks \ {t} PROVE TaskSound(u)'
    BY <1>2 DEF Executing!Check, ExecutorTypes, TaskSound, Executing!Running
  <2>. QED
    BY <2>1, <2>2, <2>3
<1>3. CASE Executing!Install(t)
  <2>1. ExecutorTypes'
    BY <1>3 DEF Executing!Install, Executing!Unpack, ExecutorTypes, Step, Wait
  <2>2. TaskSound(t)'
    BY <1>3 DEF Executing!Install, Executing!Unpack, ExecutorTypes, TaskSound, Executing!Result, Executing!Running
  <2>3. ASSUME NEW u \in Tasks \ {t} PROVE TaskSound(u)'
    BY <1>3 DEF Executing!Install, Executing!Unpack, ExecutorTypes, TaskSound, Executing!Running
  <2>. QED
    BY <2>1, <2>2, <2>3
<1>4. CASE Executing!Installed(t)
  <2>1. ExecutorTypes'
    BY <1>4 DEF Executing!Installed, Executing!Ends, ExecutorTypes, Step, Wait
  <2>2. TaskSound(t)'
    BY <1>4 DEF Executing!Installed, Executing!Ends, ExecutorTypes, TaskSound, Executing!Result, Executing!Running
  <2>3. ASSUME NEW u \in Tasks \ {t} PROVE TaskSound(u)'
    BY <1>4 DEF Executing!Installed, Executing!Ends, ExecutorTypes, TaskSound, Executing!Running
  <2>. QED
    BY <2>1, <2>2, <2>3
<1>5. CASE Executing!Rename(t)
  <2>1. ExecutorTypes'
    BY <1>5 DEF Executing!Rename, ExecutorTypes, TaskSound, Step, Wait
  <2>2. TaskSound(t)'
    BY <1>5 DEF Executing!Rename, ExecutorTypes, TaskSound, Executing!Result, Executing!Running
  <2>3. ASSUME NEW u \in Tasks \ {t} PROVE TaskSound(u)'
    BY <1>5 DEF Executing!Rename, ExecutorTypes, TaskSound, Executing!Running
  <2>. QED
    BY <2>1, <2>2, <2>3
<1>6. CASE Executing!ScriptEnds(t)
  <2>1. ExecutorTypes'
    BY <1>6 DEF Executing!ScriptEnds, Executing!Ends, ExecutorTypes, Step, Wait
  <2>2. TaskSound(t)'
    BY <1>6 DEF Executing!ScriptEnds, Executing!Ends, ExecutorTypes, TaskSound, Executing!Result, Executing!Running
  <2>3. ASSUME NEW u \in Tasks \ {t} PROVE TaskSound(u)'
    BY <1>6 DEF Executing!ScriptEnds, Executing!Ends, ExecutorTypes, TaskSound, Executing!Running
  <2>. QED
    BY <2>1, <2>2, <2>3
<1>7. CASE Executing!Collect(t)
  <2>1. ExecutorTypes'
    <3>1. Executing!Result(code[t], FALSE, FALSE) \in Outcome
      BY OutcomeTyped DEF ExecutorTypes
    <3>. QED
      BY <1>7, <3>1, OutcomeTyped DEF Executing!Collect, ExecutorTypes, Step, Wait
  <2>2. TaskSound(t)'
    BY <1>7 DEF Executing!Collect, ExecutorTypes, TaskSound, Executing!Result, Executing!Running
  <2>3. ASSUME NEW u \in Tasks \ {t} PROVE TaskSound(u)'
    BY <1>7 DEF Executing!Collect, ExecutorTypes, TaskSound, Executing!Running
  <2>. QED
    BY <2>1, <2>2, <2>3
<1>8. CASE Executing!KillSubprocess(t)
  <2>1. ExecutorTypes'
    BY ZenonT(60), <1>8, OutcomeTyped DEF Executing!KillSubprocess, ExecutorTypes, Step, Wait
  <2>2. TaskSound(t)'
    BY <1>8 DEF Executing!KillSubprocess, ExecutorTypes, TaskSound, Executing!Result, Executing!Running
  <2>3. ASSUME NEW u \in Tasks \ {t} PROVE TaskSound(u)'
    BY <1>8 DEF Executing!KillSubprocess, ExecutorTypes, TaskSound, Executing!Running
  <2>. QED
    BY <2>1, <2>2, <2>3
<1>9. CASE Executing!WaitFails(t)
  <2>1. ExecutorTypes'
    BY <1>9 DEF Executing!WaitFails, ExecutorTypes, Step, Wait
  <2>2. TaskSound(t)'
    BY <1>9 DEF Executing!WaitFails, ExecutorTypes, TaskSound, Executing!Result, Executing!Running
  <2>3. ASSUME NEW u \in Tasks \ {t} PROVE TaskSound(u)'
    BY <1>9 DEF Executing!WaitFails, ExecutorTypes, TaskSound, Executing!Running
  <2>. QED
    BY <2>1, <2>2, <2>3
<1>10. CASE Executing!StopContainer(t)
  <2>1. ExecutorTypes'
    BY <1>10, OutcomeTyped DEF Executing!StopContainer, Executing!Stop, Executing!StopFails, ExecutorTypes, Step, Wait
  <2>2. TaskSound(t)'
    BY <1>10 DEF Executing!StopContainer, Executing!Stop, Executing!StopFails, ExecutorTypes, TaskSound, Executing!Result, Executing!Running
  <2>3. ASSUME NEW u \in Tasks \ {t} PROVE TaskSound(u)'
    BY <1>10 DEF Executing!StopContainer, Executing!Stop, Executing!StopFails, ExecutorTypes, TaskSound, Executing!Running
  <2>. QED
    BY <2>1, <2>2, <2>3
<1>11. CASE Executing!RemoveContainer(t)
  <2>1. ExecutorTypes'
    BY <1>11 DEF Executing!RemoveContainer, Executing!Removed, Executing!Stop, ExecutorTypes, Step, Wait
  <2>2. TaskSound(t)'
    BY <1>11 DEF Executing!RemoveContainer, Executing!Removed, Executing!Stop, ExecutorTypes, TaskSound, Executing!Result, Executing!Running
  <2>3. ASSUME NEW u \in Tasks \ {t} PROVE TaskSound(u)'
    BY <1>11 DEF Executing!RemoveContainer, Executing!Removed, Executing!Stop, ExecutorTypes, TaskSound, Executing!Running
  <2>. QED
    BY <2>1, <2>2, <2>3
<1>. QED
  BY <1>1, <1>2, <1>3, <1>4, <1>5, <1>6, <1>7, <1>8, <1>9, <1>10, <1>11

----------------------------------------------------------------------------
(* The notebook server.  A stop that is over has left no process behind,   *)
(* one that waits has told the child to end, and nothing sets _process     *)
(* again, since the launch is over before anybody stops.                   *)
NotebookInv ==
  /\ child \in {"none", "alive", "dying", "gone"} /\ process \in BOOLEAN /\ ready \in BOOLEAN
  /\ starter \in {"created", "waiting", "failed", "up"}
  /\ stopper \in [Notebooks!Stoppers ->
                    {"idle", "called", "closing", "terminating", "returned", "raised"}]
  /\ starter = "created" => child = "none" /\ \A c \in Notebooks!Stoppers : stopper[c] = "idle"
  /\ child = "alive" => process
  /\ \A c \in Notebooks!Stoppers :
       /\ stopper[c] \in {"terminating", "returned", "raised"} => child # "alive"
       /\ stopper[c] \in {"returned", "raised"} => ~process

LEMMA NotebookStarts == Notebooks!Init => NotebookInv
  BY DEF Notebooks!Init, NotebookInv, Notebooks!Stoppers

LEMMA NotebookSteps == NotebookInv /\ Notebooks!Next => NotebookInv'
<1>. SUFFICES ASSUME NotebookInv, Notebooks!Next PROVE NotebookInv'
  OBVIOUS
<1>. USE DEF NotebookInv, Notebooks!Alive, Notebooks!Stoppers
<1>1. CASE Notebooks!Launch
  <2>1. \A c \in Notebooks!Stoppers : stopper'[c] = "idle"
    BY <1>1 DEF Notebooks!Launch
  <2>2. child' = "alive" => process'
    BY <1>1 DEF Notebooks!Launch
  <2>. QED
    BY <1>1, <2>1, <2>2 DEF Notebooks!Launch
<1>6. CASE Notebooks!Answered
  BY <1>6 DEF Notebooks!Answered
<1>7. CASE Notebooks!GivesUp
  <2>1. /\ UNCHANGED <<child, process, ready>> /\ starter' = "failed"
        /\ stopper' = [stopper EXCEPT !["start"] = "called"]
    BY <1>7 DEF Notebooks!GivesUp
  <2>2. \A c \in Notebooks!Stoppers : stopper'[c] \in {"called", stopper[c]}
    BY <2>1
  <2>. QED
    BY <2>1, <2>2
<1>2. CASE Notebooks!Shutdown \/ Notebooks!ChildExits
  BY <1>2 DEF Notebooks!Shutdown, Notebooks!ChildExits
<1>3. ASSUME NEW c \in Notebooks!Stoppers, Notebooks!StopBegins(c) PROVE NotebookInv'
  BY <1>3 DEF Notebooks!StopBegins
<1>4. ASSUME NEW c \in Notebooks!Stoppers, Notebooks!Terminate(c) PROVE NotebookInv'
  BY <1>4 DEF Notebooks!Terminate
<1>5. ASSUME NEW c \in Notebooks!Stoppers, Notebooks!Waited(c) PROVE NotebookInv'
  <2>. USE <1>5 DEF Notebooks!Waited
  <2>1. CASE child = "gone" \/ process
    BY <2>1
  <2>2. CASE child # "gone" /\ ~process
    BY <2>2
  <2>. QED
    BY <2>1, <2>2
<1>. QED
  BY <1>1, <1>2, <1>3, <1>4, <1>5, <1>6, <1>7 DEF Notebooks!Next

(* What is asked of a child process follows from the two invariants.       *)
LEMMA ChildrenFollow ==
  ASSUME service = "Executing" => ExecutorInv, service = "Notebooks" => NotebookInv
  PROVE  ChildrenAccounted
<1>1. ExecutorInv => Executing!TasksAccounted
  BY DEF ExecutorInv, ExecutorTypes, TaskSound, Executing!TasksAccounted
<1>2. NotebookInv => Notebooks!ChildAccounted
  BY DEF NotebookInv, Notebooks!ChildAccounted, Notebooks!IsRunning
<1>. QED
  BY <1>1, <1>2 DEF ChildrenAccounted

(* No process outlives what the server says of it: for any number of tasks *)
(* that install and use the same libraries, however they are killed, time  *)
(* out and overtake each other, and whenever the start and the stops of    *)
(* the notebook server overlap (docker_executor.py, notebook.py).          *)
THEOREM ChildrenStayAccounted == Spec => []ChildrenAccounted
<1>. DEFINE Inv == /\ service = "Executing" => ExecutorInv
                   /\ service = "Notebooks" => NotebookInv
<1>1. Init => Inv
  BY ExecutorStarts, NotebookStarts DEF Init
<1>2. Inv /\ [Next]_vars => Inv'
  <2>. SUFFICES ASSUME Inv, [Next]_vars PROVE Inv'
    OBVIOUS
  <2>1. service' = service
    BY DEF Next, vars
  <2>2. CASE service = "Executing"
    <3>1. Executing!Next \/ UNCHANGED executingVars
      BY <2>2 DEF Next, vars
    <3>2. UNCHANGED executingVars => ExecutorInv'
      BY <2>2 DEF executingVars, ExecutorInv, ExecutorTypes, TaskSound, Executing!Running
    <3>. QED
      BY <2>1, <2>2, <3>1, <3>2, ExecutorSteps
  <2>3. CASE service = "Notebooks"
    <3>1. Notebooks!Next \/ UNCHANGED notebooksVars
      BY <2>3 DEF Next, vars
    <3>2. UNCHANGED notebooksVars => NotebookInv'
      BY <2>3 DEF notebooksVars, NotebookInv
    <3>. QED
      BY <2>1, <2>3, <3>1, <3>2, NotebookSteps
  <2>. QED
    BY <2>1, <2>2, <2>3
<1>3. Inv => ChildrenAccounted
  BY ChildrenFollow
<1>. QED
  BY <1>1, <1>2, <1>3, PTL DEF Spec

----------------------------------------------------------------------------
(* The snapshot: the file is only ever replaced by the temporary file, and *)
(* that by then is the envelope that was gathered.                         *)
SnapshotInv ==
  /\ Saving!SnapshotWhole
  /\ phase \in {"serialise", "open", "write", "replace"} => envelope \in gathered
  /\ phase = "replace" => temp = envelope

LEMMA SnapshotSteps == SnapshotInv /\ Saving!Next => SnapshotInv'
<1>. SUFFICES ASSUME SnapshotInv, Saving!Next PROVE SnapshotInv'
  OBVIOUS
<1>. USE DEF SnapshotInv, Saving!SnapshotWhole
<1>1. CASE Saving!Start
  BY <1>1 DEF Saving!Start
<1>2. CASE Saving!Gather
  BY <1>2 DEF Saving!Gather
<1>3. CASE Saving!Serialise
  BY <1>3 DEF Saving!Serialise
<1>4. CASE Saving!Open
  BY <1>4 DEF Saving!Open, Saving!Opened
<1>5. CASE Saving!Write \/ Saving!WriteFails \/ Saving!Replace \/ Saving!Crash
  BY <1>5 DEF Saving!Write, Saving!WriteFails, Saving!Replace, Saving!Crash
<1>6. ASSUME NEW s \in Services, Saving!Change(s) PROVE SnapshotInv'
  BY <1>6 DEF Saving!Change
<1>. QED
  BY <1>1, <1>2, <1>3, <1>4, <1>5, <1>6 DEF Saving!Next

(* What a save has gathered is still what the services hold: no request is *)
(* served until the process has stopped.                                   *)
DurableInv ==
  /\ enabled \subseteq Services
  /\ phase \in {"serialise", "open", "write", "replace"} =>
       \E S \in SUBSET Services : envelope = Saving!Restrict(live, S)
  /\ phase = "replace" => temp = envelope

LEMMA DurableSteps == DurableInv /\ Saving!Next => DurableInv'
<1>. SUFFICES ASSUME DurableInv, Saving!Next PROVE DurableInv'
  OBVIOUS
<1>. USE DEF DurableInv, Saving!Restrict
<1>1. CASE Saving!Start
  BY <1>1 DEF Saving!Start
<1>2. CASE Saving!Gather
  <2>1. PICK failing \in SUBSET enabled : envelope' = [s \in enabled \ failing |-> live[s]]
    BY <1>2 DEF Saving!Gather
  <2>2. enabled \ failing \in SUBSET Services /\ live' = live
    BY <1>2 DEF Saving!Gather
  <2>. QED
    BY <1>2, <2>1, <2>2 DEF Saving!Gather
<1>3. CASE Saving!Serialise \/ Saving!Open \/ Saving!Write
  BY <1>3 DEF Saving!Serialise, Saving!Open, Saving!Opened, Saving!Write
<1>4. CASE Saving!WriteFails \/ Saving!Replace \/ Saving!Crash
  BY <1>4 DEF Saving!WriteFails, Saving!Replace, Saving!Crash
<1>5. ASSUME NEW s \in Services, Saving!Change(s) PROVE DurableInv'
  BY <1>5 DEF Saving!Change
<1>. QED
  BY <1>1, <1>2, <1>3, <1>4, <1>5 DEF Saving!Next

(* Each step of a save is a step of Durable or changes nothing it knows.   *)
LEMMA SavingImplements ==
  ASSUME service = "Saving", service' = service, DurableInv, Saving!Next
  PROVE  [Persisted!Next]_(Persisted!durableVars)
<1>1. CASE Saving!Start
  <2>1. PICK services \in SUBSET Services, supported \in BOOLEAN, failing \in SUBSET Services :
          live' = [s \in Services |->
                    IF /\ supported /\ file \notin {None, Torn} /\ s \in services \ failing
                       /\ s \in DOMAIN file
                    THEN file[s] ELSE 0]
    BY <1>1 DEF Saving!Start
  <2>. DEFINE S == IF supported /\ file # Torn THEN services \ failing ELSE {}
  <2>2. S \in SUBSET Services /\ live' = Persisted!Restored(S)
    BY <2>1 DEF Persisted!Restored
  <2>. QED
    BY <1>1, <2>2 DEF Saving!Start, Persisted!Next, Persisted!Start
<1>2. CASE Saving!Replace
  <2>1. PICK S \in SUBSET Services : envelope = Saving!Restrict(live, S)
    BY <1>2 DEF DurableInv, Saving!Replace
  <2>2. file' = Persisted!Restrict(live, S)
    BY <1>2, <2>1 DEF DurableInv, Saving!Replace, Saving!Restrict, Persisted!Restrict
  <2>. QED
    BY <1>2, <2>2 DEF Saving!Replace, Persisted!Next, Persisted!Save
<1>3. CASE Saving!Crash \/ Saving!WriteFails
  BY <1>3 DEF Saving!Crash, Saving!WriteFails, Persisted!Next, Persisted!Stop
<1>4. CASE Saving!Serialise
  BY <1>4 DEF Saving!Serialise, Persisted!Next, Persisted!Stop, Persisted!durableVars
<1>5. CASE Saving!Gather \/ Saving!Open \/ Saving!Write
  BY <1>5 DEF Saving!Gather, Saving!Open, Saving!Opened, Saving!Write, Persisted!durableVars
<1>6. ASSUME NEW s \in Services, Saving!Change(s) PROVE Persisted!Next
  BY <1>6 DEF Saving!Change, Persisted!Next, Persisted!Change
<1>. QED
  BY <1>1, <1>2, <1>3, <1>4, <1>5, <1>6 DEF Saving!Next

(* The snapshot keeps the promise of MINILAKE_PERSIST=1, for any services, *)
(* any number of restarts, any failure and a crash at any step of a save:  *)
(* it implements Durable, which knows only stops that save and stops that  *)
(* leave what was saved before (persistence.py).                           *)
THEOREM SnapshotKeepsItsPromise == Spec => SnapshotDurable
<1>. DEFINE Inv == service = "Saving" => DurableInv
<1>1. Init => Inv /\ Persisted!Init
  <2>1. Saving!Init => DurableInv
    BY DEF Saving!Init, DurableInv
  <2>2. Saving!Init /\ service = "Saving" => Persisted!Init
    BY DEF Saving!Init, Persisted!Init
  <2>3. service # "Saving" => Persisted!Init
    BY DEF Persisted!Init
  <2>. QED
    BY <2>1, <2>2, <2>3 DEF Init
<1>2. Inv /\ [Next]_vars => Inv' /\ [Persisted!Next]_(Persisted!durableVars)
  <2>. SUFFICES ASSUME Inv, [Next]_vars
                PROVE  Inv' /\ [Persisted!Next]_(Persisted!durableVars)
    OBVIOUS
  <2>1. service' = service
    BY DEF Next, vars
  <2>2. CASE service = "Saving"
    <3>1. Saving!Next \/ UNCHANGED savingVars
      BY <2>2 DEF Next, vars
    <3>2. UNCHANGED savingVars => DurableInv' /\ UNCHANGED Persisted!durableVars
      BY <2>1, <2>2 DEF savingVars, DurableInv, Persisted!durableVars
    <3>. QED
      BY <2>1, <2>2, <3>1, <3>2, DurableSteps, SavingImplements
  <2>3. CASE service # "Saving"
    BY <2>1, <2>3 DEF Persisted!durableVars
  <2>. QED
    BY <2>1, <2>2, <2>3
<1>. QED
  BY <1>1, <1>2, PTL DEF Spec, SnapshotDurable, Persisted!Spec

----------------------------------------------------------------------------
(* The records: a key is one that a restart leaves as it is, the record    *)
(* under it reports it unless it was overwritten, and a destination's type *)
(* is its configuration's.                                                 *)
Told(a) ==
  /\ {"type", "config"} \subseteq DOMAIN a
  /\ a["type"] = Admin!DestinationType(a["config"])

Stands(a) == kind = "notification_destinations" => Told(a)

Kept(key) == Admin!RestoredKey(key) = key

Counted(key) == kind = "credentials" => key[2] \in 1..created

Holds(key, id, a) ==
  /\ Stands(a) /\ (key \notin relabelled => id = key)
  /\ records[key] = [id |-> id, attributes |-> a]

Reported(key) == \E id, a : Holds(key, id, a)

RecordsInv ==
  /\ created \in Nat
  /\ \A key \in DOMAIN records : Kept(key) /\ Counted(key) /\ Reported(key)

(* A request to one record, as most services have no other.                *)
Plain(key) ==
  Admin!Delete(key) \/ \E a : Admin!Create(key, a) \/ Admin!Put(key, a) \/ Admin!TakeOver(key, a)

(* What a request leaves alone of a key and of what is under it.           *)
LEMMA KeyStands ==
  ASSUME kind' = kind, created \in Nat, created' \in {created, created + 1}
  PROVE  /\ created' \in Nat
         /\ \A k : (Kept(k)' <=> Kept(k)) /\ (Counted(k) => Counted(k)')
         /\ \A a : Stands(a)' <=> Stands(a)
<1>1. created' \in Nat /\ 1..created \subseteq 1..created'
  OBVIOUS
<1>. QED
  BY <1>1 DEF Kept, Counted, Stands, Admin!RestoredKey

LEMMA ReportStands ==
  ASSUME kind' = kind, NEW key, Reported(key), records'[key] = records[key],
         key \in relabelled => key \in relabelled'
  PROVE  Reported(key)'
<1>1. PICK id, a : Holds(key, id, a)
  BY DEF Reported
<1>2. Holds(key, id, a)'
  BY <1>1 DEF Holds, Stands
<1>. QED
  BY <1>2 DEF Reported

LEMMA RecordAdded ==
  ASSUME RecordsInv, NEW key, Kept(key), NEW a, Stands(a),
         Admin!Create(key, a) \/ Admin!Put(key, a), kind' = kind,
         Counted(key)'
  PROVE  RecordsInv'
<1>1. records' = [k \in DOMAIN records \cup {key} |->
                   IF k = key THEN [id |-> key, attributes |-> a] ELSE records[k]]
  BY DEF Admin!Create, Admin!Put, Admin!Added
<1>2. created' \in {created, created + 1} /\ relabelled' = relabelled
  BY DEF Admin!Create, Admin!Put
<1>3. created \in Nat
  BY DEF RecordsInv
<1>4. DOMAIN records' = DOMAIN records \cup {key} /\ records'[key] = [id |-> key, attributes |-> a]
      /\ \A k \in DOMAIN records : k # key => records'[k] = records[k]
  BY <1>1
<1>5. Reported(key)'
  <2>1. Holds(key, key, a)'
    BY <1>2, <1>3, <1>4, KeyStands DEF Holds
  <2>. QED
    BY <2>1 DEF Reported
<1>6. \A k \in DOMAIN records : k # key => Reported(k)'
  BY <1>2, <1>4, ReportStands DEF RecordsInv
<1>7. created' \in Nat /\ \A k : (Kept(k) => Kept(k)') /\ (Counted(k) => Counted(k)')
  BY <1>2, <1>3, KeyStands
<1>. QED
  BY <1>4, <1>5, <1>6, <1>7 DEF RecordsInv

LEMMA RecordMerged ==
  ASSUME RecordsInv, NEW key \in DOMAIN records, NEW id, NEW body,
         records' = Admin!Merged(key, id, body), UNCHANGED <<kind, created>>,
         relabelled \subseteq relabelled', key \notin relabelled' => id = key,
         \A a : Stands(a) => Stands(Admin!Over(body, a))
  PROVE  RecordsInv'
<1>1. PICK was, old : Stands(old) /\ records[key] = [id |-> was, attributes |-> old]
  BY DEF RecordsInv, Reported, Holds
<1>2. /\ DOMAIN records' = DOMAIN records
      /\ records'[key] = [id |-> id, attributes |-> Admin!Over(body, old)]
      /\ \A k \in DOMAIN records \ {key} : records'[k] = records[k]
  BY <1>1 DEF Admin!Merged
<1>3. Stands(Admin!Over(body, old))
  BY <1>1
<1>4. Reported(key)'
  <2>1. Holds(key, id, Admin!Over(body, old))'
    BY <1>2, <1>3 DEF Holds, Stands
  <2>. QED
    BY <2>1 DEF Reported
<1>5. \A k \in DOMAIN records : k # key => Reported(k)'
  BY <1>2, ReportStands DEF RecordsInv
<1>6. created' \in Nat /\ \A k : (Kept(k) => Kept(k)') /\ (Counted(k) => Counted(k)')
  BY KeyStands DEF RecordsInv
<1>. QED
  BY <1>2, <1>4, <1>5, <1>6 DEF RecordsInv

LEMMA RecordUpdated ==
  ASSUME RecordsInv, NEW key, NEW body, Admin!TakeOver(key, body), kind' = kind,
         \A a : Stands(a) => Stands(Admin!Over(body, a))
  PROVE  RecordsInv'
<1>1. CASE Admin!Update(key, body)
  <2>1. /\ key \in DOMAIN records /\ records' = Admin!Merged(key, records[key].id, body)
        /\ UNCHANGED <<created, relabelled>>
    BY <1>1 DEF Admin!Update
  <2>2. key \notin relabelled => records[key].id = key
    BY <2>1 DEF RecordsInv, Reported, Holds
  <2>. QED
    BY <2>1, <2>2, RecordMerged
<1>2. CASE \E id : /\ key \in DOMAIN records /\ records' = Admin!Merged(key, id, body)
                   /\ relabelled' = relabelled \cup {key} /\ UNCHANGED created
  BY <1>2, RecordMerged
<1>. QED
  BY <1>1, <1>2 DEF Admin!TakeOver

LEMMA RecordsRestricted ==
  ASSUME RecordsInv, NEW S, records' = Admin!Restrict(records, S), S \subseteq DOMAIN records,
         relabelled \cap S \subseteq relabelled', UNCHANGED <<kind, created>>
  PROVE  RecordsInv'
<1>1. records' = [k \in S |-> records[k]]
  BY DEF Admin!Restrict
<1>2. DOMAIN records' = S /\ \A k \in S : records'[k] = records[k] /\ k \in DOMAIN records
  BY <1>1
<1>3. \A k \in S : Reported(k)'
  BY <1>2, ReportStands DEF RecordsInv
<1>4. created' \in Nat /\ \A k : (Kept(k) => Kept(k)') /\ (Counted(k) => Counted(k)')
  BY KeyStands DEF RecordsInv
<1>. QED
  BY <1>2, <1>3, <1>4 DEF RecordsInv

LEMMA PlainKeeps ==
  ASSUME RecordsInv, kind \notin {"notification_destinations", "credentials"}, kind' = kind,
         NEW key, Kept(key), Plain(key)
  PROVE  RecordsInv'
<1>1. CASE Admin!Delete(key)
  BY <1>1, RecordsRestricted DEF Admin!Delete
<1>2. ASSUME NEW a, Admin!Create(key, a) \/ Admin!Put(key, a) PROVE RecordsInv'
  BY <1>2, RecordAdded DEF Stands, Counted
<1>3. ASSUME NEW a, Admin!TakeOver(key, a) PROVE RecordsInv'
  BY <1>3, RecordUpdated DEF Stands
<1>. QED
  BY <1>1, <1>2, <1>3 DEF Plain

(* The texts are keys of every kind but the credentials, and those have    *)
(* the numbers.                                                            *)
LEMMA KeysKept ==
  /\ kind = "credentials" => \A n : Kept(<<"int", n>>)
  /\ kind # "credentials" => \A n : Kept(Admin!Text(n))
  BY DEF Kept, Admin!RestoredKey, Admin!Text

(* A new credential has the number after all those given out.              *)
LEMMA CredentialSteps == RecordsInv /\ Admin!Credential => RecordsInv'
<1>. SUFFICES ASSUME RecordsInv, Admin!Credential PROVE RecordsInv'
  OBVIOUS
<1>1. kind = "credentials" /\ kind' = kind
  BY DEF Admin!Credential, Admin!Is
<1>2. \A n : Kept(<<"int", n>>)
  BY <1>1, KeysKept
<1>3. \A a : Stands(a)
  BY <1>1 DEF Stands
<1>4. ASSUME NEW n, n = created + 1, NEW body, Admin!Create(<<"int", n>>, body) PROVE RecordsInv'
  <2>1. created' = n /\ created \in Nat
    BY <1>4 DEF Admin!Create, RecordsInv
  <2>2. n \in 1..n
    BY <1>4, <2>1
  <2>3. Counted(<<"int", n>>)'
    BY <2>1, <2>2 DEF Counted
  <2>4. Kept(<<"int", n>>) /\ Stands(body)
    BY <1>2, <1>3
  <2>. QED
    BY <1>1, <1>4, <2>3, <2>4, RecordAdded
<1>5. ASSUME NEW n, NEW body, Admin!TakeOver(<<"int", n>>, body) PROVE RecordsInv'
  BY <1>1, <1>3, <1>5, RecordUpdated
<1>6. ASSUME NEW n, Admin!Delete(<<"int", n>>) PROVE RecordsInv'
  BY <1>1, <1>6, RecordsRestricted DEF Admin!Delete
<1>. QED
  BY <1>4, <1>5, <1>6 DEF Admin!Credential

(* The services whose requests are plain.                                  *)
LEMMA PlainSteps ==
  ASSUME RecordsInv,
         \/ Admin!IpAccessList \/ Admin!InitScript \/ Admin!InstanceProfile
         \/ Admin!WorkspaceConf \/ Admin!Token \/ Admin!Dashboard
  PROVE  RecordsInv'
<1>1. CASE Admin!IpAccessList
  <2>1. kind = "ip_access_lists" /\ kind' = kind /\ \E n : Plain(Admin!Text(n))
    BY <1>1 DEF Admin!IpAccessList, Admin!Is, Plain, Admin!TakeOver
  <2>. QED
    BY <2>1, KeysKept, PlainKeeps
<1>2. CASE Admin!InitScript
  <2>1. kind = "init_scripts" /\ kind' = kind /\ \E n : Plain(Admin!Text(n))
    BY <1>2 DEF Admin!InitScript, Admin!Is, Plain, Admin!TakeOver
  <2>. QED
    BY <2>1, KeysKept, PlainKeeps
<1>3. CASE Admin!InstanceProfile
  <2>1. kind = "instance_profiles" /\ kind' = kind /\ \E n : Plain(Admin!Text(n))
    BY <1>3 DEF Admin!InstanceProfile, Admin!Is, Plain, Admin!TakeOver
  <2>. QED
    BY <2>1, KeysKept, PlainKeeps
<1>4. CASE Admin!WorkspaceConf
  <2>1. kind = "workspace_conf" /\ kind' = kind /\ \E n : Plain(Admin!Text(n))
    BY <1>4 DEF Admin!WorkspaceConf, Admin!Is, Plain, Admin!TakeOver
  <2>. QED
    BY <2>1, KeysKept, PlainKeeps
<1>5. CASE Admin!Token
  <2>1. kind = "tokens" /\ kind' = kind /\ \E n : Plain(Admin!Text(n))
    BY <1>5 DEF Admin!Token, Admin!Is, Plain, Admin!TakeOver
  <2>. QED
    BY <2>1, KeysKept, PlainKeeps
<1>6. CASE Admin!Dashboard
  <2>1. kind = "dashboards" /\ kind' = kind /\ \E n : Plain(Admin!Text(n))
    BY <1>6 DEF Admin!Dashboard, Admin!Is, Plain, Admin!TakeOver
  <2>. QED
    BY <2>1, KeysKept, PlainKeeps
<1>. QED
  BY <1>1, <1>2, <1>3, <1>4, <1>5, <1>6

(* A scope also loses single secrets and rights.                           *)
LEMMA ScopeSteps == RecordsInv /\ Admin!Scope => RecordsInv'
<1>. SUFFICES ASSUME RecordsInv, Admin!Scope PROVE RecordsInv'
  OBVIOUS
<1>1. kind = "scopes" /\ kind' = kind
  BY DEF Admin!Scope, Admin!Is
<1>2. \/ \E n : Plain(Admin!Text(n))
      \/ \E n, part : /\ Admin!Text(n) \in DOMAIN records
                      /\ records' = [records EXCEPT ![Admin!Text(n)].attributes =
                                       Admin!Restrict(@, DOMAIN @ \ {part})]
                      /\ UNCHANGED <<created, relabelled>>
  BY DEF Admin!Scope, Plain, Admin!TakeOver
<1>3. ASSUME NEW key \in DOMAIN records, NEW a,
             records' = [records EXCEPT ![key].attributes = a],
             UNCHANGED <<created, relabelled>>
      PROVE  RecordsInv'
  <2>1. PICK id, old : Holds(key, id, old)
    BY DEF RecordsInv, Reported
  <2>2. /\ DOMAIN records' = DOMAIN records
        /\ records'[key] = [id |-> id, attributes |-> a]
        /\ \A k \in DOMAIN records \ {key} : records'[k] = records[k]
    BY <1>3, <2>1 DEF Holds
  <2>3. Reported(key)'
    <3>1. Holds(key, id, a)'
      BY <1>1, <1>3, <2>1, <2>2 DEF Holds, Stands
    <3>. QED
      BY <3>1 DEF Reported
  <2>4. \A k \in DOMAIN records : k # key => Reported(k)'
    BY <1>1, <1>3, <2>2, ReportStands DEF RecordsInv
  <2>5. created' \in Nat /\ \A k : (Kept(k) => Kept(k)') /\ (Counted(k) => Counted(k)')
    BY <1>1, <1>3, KeyStands DEF RecordsInv
  <2>. QED
    BY <2>2, <2>3, <2>4, <2>5 DEF RecordsInv
<1>4. CASE \E n : Plain(Admin!Text(n))
  BY <1>1, <1>4, KeysKept, PlainKeeps
<1>. QED
  BY <1>2, <1>3, <1>4

LEMMA PermissionSteps == RecordsInv /\ Admin!Permissions => RecordsInv'
<1>. SUFFICES ASSUME RecordsInv, Admin!Permissions PROVE RecordsInv'
  OBVIOUS
<1>1. kind = "permissions" /\ kind' = kind
  BY DEF Admin!Permissions, Admin!Is
<1>2. \/ \E n : Plain(Admin!Text(n))
      \/ /\ \E n : records' = Admin!Restrict(records, DOMAIN records \ {Admin!Text(n)})
         /\ UNCHANGED <<created, relabelled>>
  BY DEF Admin!Permissions, Plain
<1>. QED
  BY <1>1, <1>2, KeysKept, PlainKeeps, RecordsRestricted

(* A destination is sent a configuration and its type, or neither.         *)
LEMMA DestinationSteps == RecordsInv /\ Admin!NotificationDestination => RecordsInv'
<1>. SUFFICES ASSUME RecordsInv, Admin!NotificationDestination PROVE RecordsInv'
  OBVIOUS
<1>1. kind = "notification_destinations" /\ kind' = kind
  BY DEF Admin!NotificationDestination, Admin!Is
<1>. DEFINE Whole(config, body) ==
              Admin!Over([config |-> config, type |-> Admin!DestinationType(config)], body)
<1>2. \/ \E n : Admin!Delete(Admin!Text(n))
      \/ \E config : \E body \in Admin!Bodies({"display_name"}) :
           \/ \E n : Admin!Create(Admin!Text(n), Whole(config, body))
           \/ \E n : Admin!Update(Admin!Text(n), Whole(config, body))
           \/ \E n : Admin!Update(Admin!Text(n), body)
  BY DEF Admin!NotificationDestination
<1>3. ASSUME NEW config, NEW body PROVE Told(Whole(config, body))
  BY DEF Told, Admin!Over
<1>4. ASSUME NEW config, NEW body, NEW a PROVE Told(Admin!Over(Whole(config, body), a))
  BY DEF Told, Admin!Over
<1>5. ASSUME NEW body \in Admin!Bodies({"display_name"}), NEW a, Told(a) PROVE Told(Admin!Over(body, a))
  <2>1. DOMAIN body \subseteq {"display_name"}
    BY DEF Admin!Bodies
  <2>. QED
    BY <1>5, <2>1 DEF Told, Admin!Over
<1>6. \A n : Kept(Admin!Text(n))
  BY <1>1, KeysKept
<1>7. ASSUME NEW n, Admin!Delete(Admin!Text(n)) PROVE RecordsInv'
  BY <1>1, <1>7, RecordsRestricted DEF Admin!Delete
<1>8. ASSUME NEW n, NEW config, NEW body, Admin!Create(Admin!Text(n), Whole(config, body))
      PROVE  RecordsInv'
  BY <1>1, <1>3, <1>6, <1>8, RecordAdded DEF Stands, Counted
<1>9. ASSUME NEW n, NEW config, NEW body, Admin!Update(Admin!Text(n), Whole(config, body))
      PROVE  RecordsInv'
  <2>1. \A a : Stands(a) => Stands(Admin!Over(Whole(config, body), a))
    BY <1>4 DEF Stands
  <2>. QED
    BY <1>1, <1>9, <2>1, RecordUpdated DEF Admin!TakeOver
<1>10. ASSUME NEW n, NEW body \in Admin!Bodies({"display_name"}),
              Admin!Update(Admin!Text(n), body)
       PROVE  RecordsInv'
  <2>1. \A a : Stands(a) => Stands(Admin!Over(body, a))
    BY <1>1, <1>5 DEF Stands
  <2>. QED
    BY <1>1, <1>10, <2>1, RecordUpdated DEF Admin!TakeOver
<1>. HIDE DEF Whole
<1>. QED
  BY <1>2, <1>7, <1>8, <1>9, <1>10

LEMMA RestartKeeps == RecordsInv /\ Admin!Restart => RecordsInv'
<1>. SUFFICES ASSUME RecordsInv, Admin!Restart PROVE RecordsInv'
  OBVIOUS
<1>1. \A key \in DOMAIN records : Admin!RestoredKey(key) = key
  BY DEF RecordsInv, Kept
<1>2. {Admin!RestoredKey(key) : key \in DOMAIN records} = DOMAIN records
  BY <1>1
<1>3. \A k \in DOMAIN records :
        (CHOOSE key \in DOMAIN records : Admin!RestoredKey(key) = k) = k
  BY <1>1
<1>4. UNCHANGED <<kind, created>> /\ records' = [k \in DOMAIN records |-> records[k]]
  BY <1>2, <1>3 DEF Admin!Restart
<1>5. \A key \in DOMAIN records : key \in relabelled => key \in relabelled'
  BY <1>1 DEF Admin!Restart
<1>6. created \in Nat
  BY DEF RecordsInv
<1>7. DOMAIN records' = DOMAIN records /\ \A k \in DOMAIN records : records'[k] = records[k]
  BY <1>4
<1>8. \A k \in DOMAIN records : Reported(k)'
  BY <1>4, <1>5, <1>7, ReportStands DEF RecordsInv
<1>9. created' \in Nat /\ \A k : (Kept(k) => Kept(k)') /\ (Counted(k) => Counted(k)')
  BY <1>4, <1>6, KeyStands
<1>. QED
  BY <1>7, <1>8, <1>9 DEF RecordsInv

LEMMA RecordSteps == RecordsInv /\ Admin!Next => RecordsInv'
<1>. SUFFICES ASSUME RecordsInv, Admin!Next PROVE RecordsInv'
  OBVIOUS
<1>1. CASE Admin!Reset
  BY <1>1 DEF Admin!Reset, RecordsInv
<1>. QED
  BY <1>1, CredentialSteps, PlainSteps, ScopeSteps, PermissionSteps, DestinationSteps, RestartKeeps DEF Admin!Next

----------------------------------------------------------------------------
LEMMA RecordsAreFound == RecordsInv => Admin!RecordsFound
<1>. SUFFICES ASSUME RecordsInv PROVE Admin!RecordsFound
  OBVIOUS
<1>1. ASSUME NEW key \in DOMAIN records
      PROVE  /\ Stands(records[key].attributes)
             /\ key \notin relabelled => records[key].id = key
  BY DEF RecordsInv, Reported, Holds
<1>2. ASSUME kind = "credentials", NEW key \in DOMAIN records PROVE key[2] <= created
  BY <1>2 DEF RecordsInv, Counted
<1>3. ASSUME kind = "notification_destinations", NEW key \in DOMAIN records
      PROVE  Told(records[key].attributes)
  BY <1>1, <1>3 DEF Stands
<1>. QED
  BY <1>1, <1>2, <1>3 DEF Told, Admin!RecordsFound

(* What a start restores was true at one moment: for any services and any  *)
(* records, whatever crashes in a save and whatever is missing, torn or    *)
(* left out, the snapshot on disk is one whole gathering, and a record is  *)
(* found under the id it reports unless a client has overwritten that id;  *)
(* whatever was overwritten and restored, no credential has the number     *)
(* that the next one gets (persistence.py, workspace_admin.py).            *)
THEOREM RestoredStaysWhole == Spec => []RestoredWhole
<1>. DEFINE Inv == /\ service = "Saving" => SnapshotInv
                   /\ service = "Admin" => RecordsInv
<1>1. Init => Inv
  <2>1. Saving!Init => SnapshotInv
    BY DEF Saving!Init, SnapshotInv, Saving!SnapshotWhole
  <2>2. Admin!Init => RecordsInv
    BY DEF Admin!Init, RecordsInv
  <2>. QED
    BY <2>1, <2>2 DEF Init
<1>2. Inv /\ [Next]_vars => Inv'
  <2>. SUFFICES ASSUME Inv, [Next]_vars PROVE Inv'
    OBVIOUS
  <2>1. service' = service
    BY DEF Next, vars
  <2>2. CASE service = "Saving"
    <3>1. Saving!Next \/ UNCHANGED savingVars
      BY <2>2 DEF Next, vars
    <3>2. UNCHANGED savingVars => SnapshotInv'
      BY <2>2 DEF savingVars, SnapshotInv, Saving!SnapshotWhole
    <3>. QED
      BY <2>1, <2>2, <3>1, <3>2, SnapshotSteps
  <2>3. CASE service = "Admin"
    <3>1. Admin!Next \/ UNCHANGED adminVars
      BY <2>3 DEF Next, vars
    <3>2. UNCHANGED adminVars => RecordsInv'
      BY <2>3 DEF adminVars, RecordsInv, Reported, Holds, Kept, Counted, Stands, Admin!RestoredKey
    <3>. QED
      BY <2>1, <2>3, <3>1, <3>2, RecordSteps
  <2>. QED
    BY <2>1, <2>2, <2>3
<1>3. Inv => RestoredWhole
  <2>1. RecordsInv => Admin!RecordsFound
    BY RecordsAreFound
  <2>. QED
    BY <2>1 DEF RestoredWhole, SnapshotInv
<1>. QED
  BY <1>1, <1>2, <1>3, PTL DEF Spec

----------------------------------------------------------------------------
(* Users, groups and principals: as long as no patch has changed an id, a  *)
(* resource holds the id it is stored under, so that the check of a name   *)
(* looks at all the others.                                                *)
IdentityInv ==
  ~renumbered => Identity!NamesUnique /\ \A i \in DOMAIN store : store[i].id = i

LEMMA FreshStore ==
  ASSUME NEW k
  PROVE  /\ DOMAIN Identity!Fresh(k) \subseteq {UserId}
         /\ \A i \in DOMAIN Identity!Fresh(k) : Identity!Fresh(k)[i].id = i
<1>1. CASE k = "Users"
  BY <1>1 DEF Identity!Fresh, Identity!Resource
<1>2. CASE k # "Users"
  <2>1. Identity!Fresh(k) = <<>>
    BY <1>2 DEF Identity!Fresh
  <2>. QED
    BY <2>1
<1>. QED
  BY <1>1, <1>2

LEMMA ResourceStored ==
  ASSUME IdentityInv, NEW id, NEW name, NEW r, r.id = id, r.name = name,
         NEW except \in SUBSET {id}, Identity!Unique(name, except),
         store' = Identity!Stored(id, r), ~renumbered' => ~renumbered
  PROVE  IdentityInv'
<1>1. /\ DOMAIN store' = DOMAIN store \cup {id} /\ store'[id] = r
      /\ \A i \in DOMAIN store \ {id} : store'[i] = store[i]
  BY DEF Identity!Stored
<1>. QED
  BY <1>1 DEF IdentityInv, Identity!NamesUnique, Identity!Unique

LEMMA IdentitySteps == IdentityInv /\ Identity!Next => IdentityInv'
<1>. SUFFICES ASSUME IdentityInv, Identity!Next PROVE IdentityInv'
  OBVIOUS
<1>1. ASSUME NEW id, NEW name, NEW members, Identity!Create(id, name, members)
      PROVE  IdentityInv'
  <2>1. PICK given :
          /\ Identity!Unique(given, {}) /\ (~renumbered' => ~renumbered)
          /\ store' = Identity!Stored(id, Identity!Resource(id, given, members))
    BY <1>1 DEF Identity!Create, Identity!Given, Identity!Commit
  <2>. DEFINE r == Identity!Resource(id, given, members)
  <2>2. r.id = id /\ r.name = given
    BY DEF Identity!Resource
  <2>. HIDE DEF r
  <2>. QED
    BY <2>1, <2>2, ResourceStored DEF r
<1>2. ASSUME NEW id, NEW name, NEW members, Identity!Replace(id, name, members)
      PROVE  IdentityInv'
  <2>1. /\ Identity!Unique(name, {id}) /\ (~renumbered' => ~renumbered)
        /\ store' = Identity!Stored(id, Identity!Resource(id, name, members))
    BY <1>2 DEF Identity!Replace, Identity!Commit
  <2>. DEFINE r == Identity!Resource(id, name, members)
  <2>2. r.id = id /\ r.name = name
    BY DEF Identity!Resource
  <2>. HIDE DEF r
  <2>. QED
    BY <2>1, <2>2, ResourceStored DEF r
<1>3. ASSUME NEW id, Identity!Delete(id) PROVE IdentityInv'
  BY <1>3 DEF Identity!Delete, Identity!Commit, IdentityInv, Identity!NamesUnique
<1>4. ASSUME NEW id, NEW operations, Identity!PatchResource(id, operations) PROVE IdentityInv'
  <2>. DEFINE r == Identity!Candidate(store[id], operations)
              applied == Identity!Applicable(store[id], operations)
  <2>1. /\ id \in DOMAIN store
        /\ store' = Identity!Stored(id, IF applied THEN r ELSE store[id])
        /\ renumbered' = (renumbered \/ (IF applied THEN r ELSE store[id]).id # id)
    BY <1>4 DEF Identity!PatchResource
  <2>2. applied => Identity!Unique(r.name, {store[id].id})
    BY DEF Identity!Applicable
  <2>. HIDE DEF r, applied
  <2>3. CASE applied /\ ~renumbered'
    <3>1. r.id = id /\ ~renumbered /\ store[id].id = id
      BY <2>1, <2>3 DEF IdentityInv
    <3>. QED
      BY <2>1, <2>2, <2>3, <3>1, ResourceStored
  <2>4. CASE ~applied /\ ~renumbered'
    <3>1. /\ ~renumbered /\ DOMAIN store' = DOMAIN store
          /\ \A i \in DOMAIN store : store'[i] = store[i]
      BY <2>1, <2>4 DEF Identity!Stored
    <3>. QED
      BY <3>1 DEF IdentityInv, Identity!NamesUnique
  <2>. QED
    BY <2>3, <2>4 DEF IdentityInv
<1>5. CASE Identity!Reset
  <2>1. store' = Identity!Fresh(resources)
    BY <1>5 DEF Identity!Reset
  <2>2. DOMAIN store' \subseteq {UserId} /\ \A i \in DOMAIN store' : store'[i].id = i
    BY <2>1, FreshStore
  <2>. QED
    BY <2>2 DEF IdentityInv, Identity!NamesUnique
<1>. QED
  BY <1>1, <1>2, <1>3, <1>4, <1>5 DEF Identity!Next

----------------------------------------------------------------------------
(* The names that _resolve_display_name tries are pairwise different, so   *)
(* with one more of them than there are objects one is free.               *)
IsName(name) == Len(name) \in Nat /\ name = [k \in 1..Len(name) |-> name[k]]

LEMMA NumberedApart ==
  ASSUME NEW name, IsName(name), NEW k \in Nat, NEW j \in Nat, k # j
  PROVE  Alerts!Numbered(name, k) # Alerts!Numbered(name, j)
<1>1. PICK S, base : base \in Seq(S \cup Nat) /\ base = IF name = <<>> THEN <<"new">> ELSE name
  <2>1. <<"new">> \in Seq({"new"} \cup Nat)
    OBVIOUS
  <2>2. name \in Seq({name[i] : i \in 1..Len(name)} \cup Nat)
    BY SeqDef DEF IsName
  <2>. QED
    BY <2>1, <2>2
<1>2. \A i \in Nat : Alerts!Numbered(name, i) = IF i = 0 THEN base ELSE Append(base, i)
  BY <1>1 DEF Alerts!Numbered
<1>3. \A i \in Nat : /\ Len(Append(base, i)) = Len(base) + 1
                     /\ Append(base, i)[Len(base) + 1] = i
  BY <1>1
<1>4. Len(base) \in Nat
  BY <1>1
<1>. QED
  BY <1>2, <1>3, <1>4

LEMMA LeastNumber ==
  ASSUME NEW T, T \subseteq Nat, T # {}
  PROVE  \E k \in T : \A j \in T : k <= j
<1>1. PICK k \in T : \A j \in T : <<j, k>> \notin OpToRel(<, Nat)
  BY NatLessThanWellFounded, WFMin, Zenon
<1>2. \A j \in T : ~(j < k)
  BY <1>1 DEF OpToRel
<1>3. \A j \in T : j \in Nat /\ k \in Nat
  OBVIOUS
<1>. QED
  BY <1>2, <1>3

LEMMA ResolvedIsFree ==
  ASSUME NEW s, IsFiniteSet(DOMAIN s), NEW name, IsName(name)
  PROVE  ~Alerts!Taken(s, Alerts!Resolved(s, name))
<1>. DEFINE n == Cardinality(DOMAIN s)
            Free(k) == ~Alerts!Taken(s, Alerts!Numbered(name, k))
            T == {k \in 0..n : Free(k)}
<1>1. n \in Nat
  BY FS_CardinalityType
<1>2. T # {}
  <2>1. SUFFICES ASSUME T = {} PROVE FALSE
    OBVIOUS
  <2>. DEFINE f == [k \in 0..n |-> CHOOSE i \in DOMAIN s : s[i].name = Alerts!Numbered(name, k)]
  <2>2. \A k \in 0..n : f[k] \in DOMAIN s /\ s[f[k]].name = Alerts!Numbered(name, k)
    BY <2>1 DEF Alerts!Taken
  <2>3. f \in [0..n -> DOMAIN s]
    BY <2>2
  <2>4. IsFiniteSet(0..n) /\ Cardinality(0..n) = n + 1
    BY <1>1, FS_Interval
  <2>5. PICK k \in 0..n, j \in 0..n : k # j /\ f[k] = f[j]
    <3>1. Cardinality(DOMAIN s) < Cardinality(0..n)
      BY <1>1, <2>4
    <3>. HIDE DEF f, n
    <3>. QED
      BY <2>3, <2>4, <3>1, FS_PigeonHole
  <2>6. Alerts!Numbered(name, k) = Alerts!Numbered(name, j)
    BY <2>2, <2>5
  <2>7. k \in Nat /\ j \in Nat
    BY <1>1
  <2>. QED
    BY <2>5, <2>6, <2>7, NumberedApart
<1>3. PICK k \in T : \A j \in T : k <= j
  <2>1. T \subseteq Nat
    BY <1>1
  <2>. HIDE DEF T
  <2>. QED
    BY <1>2, <2>1, LeastNumber
<1>4. /\ k \in 0..n /\ Free(k)
      /\ \A j \in 0..(k - 1) : ~Free(j)
  BY <1>1, <1>3
<1>. DEFINE m == CHOOSE i \in 0..n : Free(i) /\ \A j \in 0..(i - 1) :
                    Alerts!Taken(s, Alerts!Numbered(name, j))
<1>5. Free(m)
  <2>1. \E i \in 0..n : Free(i) /\ \A j \in 0..(i - 1) :
                    Alerts!Taken(s, Alerts!Numbered(name, j))
    BY <1>4
  <2>. QED
    BY <2>1
<1>6. Alerts!Resolved(s, name) = Alerts!Numbered(name, m)
  <2>1. Alerts!Cardinality(DOMAIN s) = n
    BY DEF Alerts!Cardinality, Cardinality
  <2>. QED
    BY <2>1 DEF Alerts!Resolved
<1>. HIDE DEF m
<1>. QED
  BY <1>5, <1>6

----------------------------------------------------------------------------
(* The two stores, of which marks names the objects that the legacy API    *)
(* has renamed.                                                            *)
Apart(s, tag, marks) ==
  /\ IsFiniteSet(DOMAIN s)
  /\ \A i, j \in DOMAIN s :
       (i # j /\ <<tag, i>> \notin marks /\ <<tag, j>> \notin marks) =>
         s[i].name # s[j].name \/ s[i].name = <<>>

AlertsInv ==
  /\ scope \in Scopes
  /\ Apart(queries, "query", renamed) /\ Apart(alerts, "alert", renamed)
  /\ \A i \in DOMAIN queries : "name" \in DOMAIN queries[i]

(* One object is new or changed, under a free name or under its own, or    *)
(* under one that nobody has checked.                                      *)
LEMMA StoreChanged ==
  ASSUME NEW s, NEW tag, NEW marks, Apart(s, tag, marks), NEW i, NEW new, NEW newMarks,
         DOMAIN new = DOMAIN s \cup {i}, \A j \in DOMAIN s \ {i} : new[j].name = s[j].name,
         marks \ {<<tag, i>>} \subseteq newMarks,
         \/ <<tag, i>> \in newMarks
         \/ ~Alerts!Taken(Alerts!Without(s, {i}), new[i].name)
         \/ i \in DOMAIN s /\ new[i].name = s[i].name /\ marks \subseteq newMarks
  PROVE  Apart(new, tag, newMarks)
<1>1. IsFiniteSet(DOMAIN new)
  BY FS_AddElement DEF Apart
<1>2. /\ DOMAIN Alerts!Without(s, {i}) = DOMAIN s \ {i}
      /\ \A j \in DOMAIN s \ {i} : Alerts!Without(s, {i})[j] = s[j]
  BY DEF Alerts!Without, Alerts!Restrict
<1>3. ASSUME NEW j \in DOMAIN s \ {i}, <<tag, i>> \notin newMarks, <<tag, j>> \notin newMarks
      PROVE  new[i].name # new[j].name \/ new[i].name = <<>>
  BY <1>2, <1>3 DEF Apart, Alerts!Taken
<1>4. ASSUME NEW j \in DOMAIN s \ {i}, NEW k \in DOMAIN s \ {i}, j # k,
             <<tag, j>> \notin newMarks, <<tag, k>> \notin newMarks
      PROVE  new[j].name # new[k].name \/ new[j].name = <<>>
  <2>1. <<tag, j>> \notin marks /\ <<tag, k>> \notin marks
    BY <1>4
  <2>. QED
    BY <1>4, <2>1 DEF Apart
<1>. QED
  BY <1>1, <1>3, <1>4 DEF Apart

LEMMA OtherStoreKept ==
  ASSUME NEW s, NEW tag, NEW marks, Apart(s, tag, marks), NEW other, other # tag, NEW i,
         NEW newMarks, marks \ {<<other, i>>} \subseteq newMarks
  PROVE  Apart(s, tag, newMarks)
<1>1. \A j : <<tag, j>> \in marks => <<tag, j>> \in newMarks
  OBVIOUS
<1>. QED
  BY <1>1 DEF Apart

LEMMA StoreShrunk ==
  ASSUME NEW s, NEW tag, NEW marks, Apart(s, tag, marks), NEW i
  PROVE  Apart(Alerts!Without(s, {i}), tag, marks)
<1>1. /\ DOMAIN Alerts!Without(s, {i}) = DOMAIN s \ {i}
      /\ \A j \in DOMAIN s \ {i} : Alerts!Without(s, {i})[j] = s[j]
  BY DEF Alerts!Without, Alerts!Restrict
<1>2. IsFiniteSet(DOMAIN s \ {i})
  BY FS_Subset DEF Apart
<1>. QED
  BY <1>1, <1>2 DEF Apart

(* The name that a checked request ends up with is free.                   *)
LEMMA NameIsFree ==
  ASSUME NEW s, IsFiniteSet(DOMAIN s), NEW name, IsName(name), NEW auto,
         Alerts!Nameable(s, name, auto)
  PROVE  ~Alerts!Taken(s, Alerts!NameFor(s, name, auto))
<1>1. CASE auto
  BY <1>1, ResolvedIsFree DEF Alerts!NameFor
<1>2. CASE ~auto
  BY <1>2 DEF Alerts!NameFor, Alerts!Nameable
<1>. QED
  BY <1>1, <1>2

(* One query is new or changed, as StoreChanged has it.                    *)
LEMMA QueryChanged ==
  ASSUME AlertsInv, NEW i, NEW name,
         DOMAIN queries' = DOMAIN queries \cup {i}, queries'[i].name = name,
         "name" \in DOMAIN queries'[i],
         \A j \in DOMAIN queries \ {i} : queries'[j] = queries[j],
         scope' = scope, alerts' = alerts, renamed \ {<<"query", i>>} \subseteq renamed',
         \/ <<"query", i>> \in renamed'
         \/ ~Alerts!Taken(Alerts!Without(queries, {i}), name)
         \/ i \in DOMAIN queries /\ name = queries[i].name /\ renamed' = renamed
  PROVE  AlertsInv'
<1>1. Apart(queries', "query", renamed')
  BY StoreChanged DEF AlertsInv
<1>2. Apart(alerts', "alert", renamed')
  BY OtherStoreKept DEF AlertsInv
<1>. QED
  BY <1>1, <1>2 DEF AlertsInv, Apart

LEMMA CreateQueryKeeps ==
  ASSUME AlertsInv, NEW name, IsName(name), NEW text, NEW auto,
         Alerts!CreateQuery(name, text, auto)
  PROVE  AlertsInv'
<1>. DEFINE i == Alerts!New(queries)
            given == Alerts!NameFor(queries, name, auto)
<1>1. /\ Alerts!Nameable(queries, name, auto)
      /\ queries' = Alerts!Added(queries, i, [name |-> given, text |-> text, trashed |-> FALSE])
      /\ renamed' = renamed \ {<<"query", i>>}
      /\ scope' = scope /\ alerts' = alerts
  BY DEF Alerts!CreateQuery, Alerts!Query
<1>. HIDE DEF i
<1>2. ~Alerts!Taken(queries, given)
  BY <1>1, NameIsFree DEF AlertsInv, Apart
<1>. HIDE DEF given
<1>3. /\ DOMAIN queries' = DOMAIN queries \cup {i}
      /\ queries'[i] = [name |-> given, text |-> text, trashed |-> FALSE]
      /\ \A j \in DOMAIN queries \ {i} : queries'[j] = queries[j]
  BY <1>1 DEF Alerts!Added
<1>4. queries'[i].name = given /\ "name" \in DOMAIN queries'[i]
  BY <1>3
<1>5. ~Alerts!Taken(Alerts!Without(queries, {i}), given)
  BY <1>2 DEF Alerts!Taken, Alerts!Without, Alerts!Restrict
<1>. QED
  BY <1>1, <1>3, <1>4, <1>5, QueryChanged

(* Updates that give a checked name or leave the name, one of the legacy   *)
(* API that marks what it renames, the trash and the deletion.             *)
LEMMA QueryRequestsKeep ==
  ASSUME AlertsInv, NEW i, NEW mask, NEW name, IsName(name), NEW text, NEW auto, NEW trashed,
         \/ Alerts!UpdateQuery(i, mask, name, text, auto)
         \/ Alerts!UpdateQueryLegacy(i, mask, name, text)
         \/ Alerts!TrashQuery(i, trashed)
         \/ Alerts!DeleteQuery(i)
  PROVE  AlertsInv'
<1>1. CASE Alerts!DeleteQuery(i)
  <2>1. queries' = Alerts!Without(queries, {i}) /\ UNCHANGED <<scope, alerts, renamed>>
    BY <1>1 DEF Alerts!DeleteQuery
  <2>2. Apart(queries', "query", renamed')
    BY <2>1, StoreShrunk DEF AlertsInv
  <2>3. \A j \in DOMAIN queries' : "name" \in DOMAIN queries'[j]
    BY <2>1 DEF AlertsInv, Alerts!Without, Alerts!Restrict
  <2>. QED
    BY <2>1, <2>2, <2>3 DEF AlertsInv, Apart
<1>2. CASE Alerts!TrashQuery(i, trashed)
  <2>1. /\ i \in DOMAIN queries /\ DOMAIN queries' = DOMAIN queries
        /\ queries'[i].name = queries[i].name /\ "name" \in DOMAIN queries'[i]
        /\ \A j \in DOMAIN queries \ {i} : queries'[j] = queries[j]
        /\ UNCHANGED <<scope, alerts, renamed>>
    BY <1>2 DEF Alerts!TrashQuery, AlertsInv
  <2>. QED
    BY <2>1, QueryChanged
<1>3. CASE Alerts!UpdateQueryLegacy(i, mask, name, text)
  <2>. DEFINE new == IF "name" \in mask THEN name ELSE queries[i].name
  <2>1. /\ i \in DOMAIN queries /\ DOMAIN queries' = DOMAIN queries
        /\ queries'[i].name = new /\ "name" \in DOMAIN queries'[i]
        /\ \A j \in DOMAIN queries \ {i} : queries'[j] = queries[j]
    BY <1>3 DEF Alerts!UpdateQueryLegacy, AlertsInv
  <2>2. /\ scope' = scope /\ alerts' = alerts
        /\ renamed' = IF "name" \in mask THEN renamed \cup {<<"query", i>>} ELSE renamed
    BY <1>3 DEF Alerts!UpdateQueryLegacy, Alerts!Query
  <2>. QED
    BY <2>1, <2>2, QueryChanged
<1>4. CASE Alerts!UpdateQuery(i, mask, name, text, auto)
  <2>. DEFINE others == Alerts!Without(queries, {i})
              renames == "name" \in mask /\ name # <<>>
              new == IF renames THEN Alerts!NameFor(others, name, auto) ELSE queries[i].name
  <2>1. /\ i \in DOMAIN queries /\ DOMAIN queries' = DOMAIN queries
        /\ queries'[i].name = new /\ "name" \in DOMAIN queries'[i]
        /\ \A j \in DOMAIN queries \ {i} : queries'[j] = queries[j]
    BY <1>4 DEF Alerts!UpdateQuery, AlertsInv
  <2>2. /\ scope' = scope /\ alerts' = alerts
        /\ renamed' = IF renames THEN renamed \ {<<"query", i>>} ELSE renamed
    BY <1>4 DEF Alerts!UpdateQuery, Alerts!Query
  <2>3. renames => Alerts!Nameable(others, name, auto)
    BY <1>4 DEF Alerts!UpdateQuery
  <2>4. IsFiniteSet(DOMAIN others)
    BY StoreShrunk DEF AlertsInv, Apart
  <2>5. ~Alerts!Taken(others, new) \/ (new = queries[i].name /\ renamed' = renamed)
    <3>. HIDE DEF others
    <3>. QED
      BY <2>2, <2>3, <2>4, NameIsFree
  <2>. QED
    BY <2>1, <2>2, <2>5, QueryChanged
<1>. QED
  BY <1>1, <1>2, <1>3, <1>4

----------------------------------------------------------------------------
LEMMA AlertChanged ==
  ASSUME AlertsInv, NEW i, NEW object,
         DOMAIN alerts' = DOMAIN alerts \cup {i}, alerts'[i] = object,
         \A j \in DOMAIN alerts \ {i} : alerts'[j] = alerts[j],
         scope' = scope, queries' = queries, renamed \ {<<"alert", i>>} \subseteq renamed',
         \/ <<"alert", i>> \in renamed'
         \/ ~Alerts!Taken(Alerts!Without(alerts, {i}), object.name)
         \/ i \in DOMAIN alerts /\ object.name = alerts[i].name /\ renamed' = renamed
  PROVE  AlertsInv'
<1>1. Apart(alerts', "alert", renamed')
  BY StoreChanged DEF AlertsInv
<1>2. Apart(queries', "query", renamed')
  BY OtherStoreKept DEF AlertsInv
<1>. QED
  BY <1>1, <1>2 DEF AlertsInv, Apart

LEMMA AlertRequestsKeep ==
  ASSUME AlertsInv, NEW i, NEW mask, NEW name, IsName(name), NEW query, NEW symbol, NEW condition,
         NEW auto,
         \/ Alerts!CreateAlert(name, query, symbol, condition, auto)
         \/ Alerts!UpdateAlert(i, mask, name, query, symbol, condition, auto)
         \/ Alerts!UpdateAlertLegacy(i, mask, name, query, symbol, condition)
         \/ Alerts!DeleteAlert(i)
  PROVE  AlertsInv'
<1>1. CASE Alerts!DeleteAlert(i)
  <2>1. alerts' = Alerts!Without(alerts, {i}) /\ UNCHANGED <<scope, queries, renamed>>
    BY <1>1 DEF Alerts!DeleteAlert
  <2>2. Apart(alerts', "alert", renamed')
    BY <2>1, StoreShrunk DEF AlertsInv
  <2>. QED
    BY <2>1, <2>2 DEF AlertsInv, Apart
<1>2. CASE Alerts!CreateAlert(name, query, symbol, condition, auto)
  <2>. DEFINE new == Alerts!New(alerts)
              given == Alerts!NameFor(alerts, name, auto)
              object == Alerts!NewAlert(given, query, symbol, condition)
  <2>1. /\ Alerts!Nameable(alerts, name, auto)
        /\ alerts' = Alerts!Added(alerts, new, object)
        /\ renamed' = renamed \ {<<"alert", new>>}
        /\ scope' = scope /\ queries' = queries
    BY <1>2 DEF Alerts!CreateAlert, Alerts!Alert
  <2>2. ~Alerts!Taken(alerts, given)
    BY <2>1, NameIsFree DEF AlertsInv, Apart
  <2>. HIDE DEF new
  <2>3. /\ DOMAIN alerts' = DOMAIN alerts \cup {new} /\ alerts'[new] = object
        /\ \A j \in DOMAIN alerts \ {new} : alerts'[j] = alerts[j]
    BY <2>1 DEF Alerts!Added
  <2>4. object.name = given
    BY DEF Alerts!NewAlert
  <2>. HIDE DEF object, given
  <2>5. ~Alerts!Taken(Alerts!Without(alerts, {new}), object.name)
    BY <2>2, <2>4 DEF Alerts!Taken, Alerts!Without, Alerts!Restrict
  <2>. QED
    BY <2>1, <2>3, <2>5, AlertChanged
<1>3. CASE Alerts!UpdateAlertLegacy(i, mask, name, query, symbol, condition)
  <2>. DEFINE new == IF "name" \in mask THEN name ELSE alerts[i].name
  <2>1. /\ i \in DOMAIN alerts /\ DOMAIN alerts' = DOMAIN alerts
        /\ \A j \in DOMAIN alerts \ {i} : alerts'[j] = alerts[j]
        /\ alerts'[i].name = new
    BY <1>3 DEF Alerts!UpdateAlertLegacy
  <2>2. /\ scope' = scope /\ queries' = queries
        /\ renamed' = IF "name" \in mask THEN renamed \cup {<<"alert", i>>} ELSE renamed
    BY <1>3 DEF Alerts!UpdateAlertLegacy, Alerts!Alert
  <2>. QED
    BY <2>1, <2>2, AlertChanged
<1>4. CASE Alerts!UpdateAlert(i, mask, name, query, symbol, condition, auto)
  <2>. DEFINE others == Alerts!Without(alerts, {i})
              renames == "name" \in mask /\ name # <<>>
              new == IF renames THEN Alerts!NameFor(others, name, auto) ELSE alerts[i].name
  <2>1. /\ i \in DOMAIN alerts /\ DOMAIN alerts' = DOMAIN alerts
        /\ \A j \in DOMAIN alerts \ {i} : alerts'[j] = alerts[j]
        /\ alerts'[i].name = new
    BY <1>4 DEF Alerts!UpdateAlert
  <2>2. /\ scope' = scope /\ queries' = queries
        /\ renamed' = IF renames THEN renamed \ {<<"alert", i>>} ELSE renamed
    BY <1>4 DEF Alerts!UpdateAlert, Alerts!Alert
  <2>3. renames => Alerts!Nameable(others, name, auto)
    BY <1>4 DEF Alerts!UpdateAlert
  <2>4. IsFiniteSet(DOMAIN others)
    BY StoreShrunk DEF AlertsInv, Apart
  <2>5. ~Alerts!Taken(others, new) \/ (new = alerts[i].name /\ renamed' = renamed)
    <3>. HIDE DEF others
    <3>. QED
      BY <2>2, <2>3, <2>4, NameIsFree
  <2>. QED
    BY ZenonT(60), <2>1, <2>2, <2>5, AlertChanged
<1>. QED
  BY <1>1, <1>2, <1>3, <1>4

LEMMA AlertsStart == Alerts!Init => AlertsInv
<1>1. DOMAIN <<>> = {}
  OBVIOUS
<1>. QED
  BY <1>1, FS_EmptySet DEF Alerts!Init, AlertsInv, Apart

LEMMA AlertsSteps == AlertsInv /\ Alerts!Next => AlertsInv'
<1>. SUFFICES ASSUME AlertsInv, Alerts!Next PROVE AlertsInv'
  OBVIOUS
<1>1. \A name \in scope.names : IsName(name)
  BY ServerAssumption DEF AlertsInv, IsName
<1>2. CASE Alerts!Reset
  <2>1. DOMAIN <<>> = {}
    OBVIOUS
  <2>. QED
    BY <1>2, <2>1, FS_EmptySet DEF Alerts!Reset, AlertsInv, Apart
<1>3. ASSUME NEW i, NEW observed, Alerts!EvaluateAlert(i, observed) PROVE AlertsInv'
  BY <1>3 DEF Alerts!EvaluateAlert, AlertsInv, Apart
<1>4. ASSUME NEW i, NEW trashed, Alerts!DeleteQuery(i) \/ Alerts!TrashQuery(i, trashed)
      PROVE  AlertsInv'
  <2>1. IsName(<<>>)
    BY DEF IsName
  <2>. QED
    BY <1>4, <2>1, QueryRequestsKeep
<1>5. ASSUME NEW i, Alerts!DeleteAlert(i) PROVE AlertsInv'
  <2>1. IsName(<<>>)
    BY DEF IsName
  <2>. QED
    BY <1>5, <2>1, AlertRequestsKeep
<1>. QED
  BY <1>1, <1>2, <1>3, <1>4, <1>5, CreateQueryKeeps, QueryRequestsKeep, AlertRequestsKeep
     DEF Alerts!Next

----------------------------------------------------------------------------
(* For any ids, names and number of objects, no order of creations,        *)
(* replacements, patches, resolved conflicts and resets gives two users,   *)
(* groups or principals, two queries or two alerts one name, but for what  *)
(* the code does not check (_unique_check of scim.py, _display_name_taken  *)
(* and _resolve_display_name of saved_queries.py and alerts.py).           *)
THEOREM NamesStayUnique == Spec => []NamesUnique
<1>. DEFINE Inv == /\ service = "Identity" => IdentityInv
                   /\ service = "Alerts" => AlertsInv
<1>1. Init => Inv
  <2>1. Identity!Init => IdentityInv
    <3>. SUFFICES ASSUME Identity!Init PROVE IdentityInv
      OBVIOUS
    <3>1. store = Identity!Fresh(resources)
      BY DEF Identity!Init
    <3>2. DOMAIN store \subseteq {UserId} /\ \A i \in DOMAIN store : store[i].id = i
      BY <3>1, FreshStore
    <3>. QED
      BY <3>2 DEF IdentityInv, Identity!NamesUnique
  <2>. QED
    BY <2>1, AlertsStart DEF Init
<1>2. Inv /\ [Next]_vars => Inv'
  <2>. SUFFICES ASSUME Inv, [Next]_vars PROVE Inv'
    OBVIOUS
  <2>1. service' = service
    BY DEF Next, vars
  <2>2. CASE service = "Identity"
    <3>1. Identity!Next \/ UNCHANGED identityVars
      BY <2>2 DEF Next, vars
    <3>2. UNCHANGED identityVars => IdentityInv'
      BY <2>2 DEF identityVars, IdentityInv, Identity!NamesUnique
    <3>. QED
      BY <2>1, <2>2, <3>1, <3>2, IdentitySteps
  <2>3. CASE service = "Alerts"
    <3>1. Alerts!Next \/ UNCHANGED alertsVars
      BY <2>3 DEF Next, vars
    <3>2. UNCHANGED alertsVars => AlertsInv'
      BY <2>3 DEF alertsVars, AlertsInv, Apart
    <3>. QED
      BY <2>1, <2>3, <3>1, <3>2, AlertsSteps
  <2>. QED
    BY <2>1, <2>2, <2>3
<1>3. Inv => NamesUnique
  <2>1. AlertsInv => Alerts!NamesUnique
    BY DEF AlertsInv, Apart, Alerts!NamesUnique, Alerts!Query, Alerts!Alert
  <2>2. service = "Identity" /\ IdentityInv => Identity!NamesUnique
    BY DEF IdentityInv, Identity!NamesUnique
  <2>. QED
    BY <2>1, <2>2 DEF NamesUnique
<1>. QED
  BY <1>1, <1>2, <1>3, PTL DEF Spec
=============================================================================
