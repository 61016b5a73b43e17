------------------------------ MODULE Executor ------------------------------
(***************************************************************************)
(* docker_executor.py: the tasks of a job, each run in a container of its  *)
(* own or, in subprocess mode, as a child of the server, in a thread each. *)
(* The tasks here need the same set of libraries, so they share the cache  *)
(* directory of that set on the data volume.  pip and the script are       *)
(* external: they end or they do not, with any exit code.                  *)
(***************************************************************************)
EXTENDS Integers, TLC

CONSTANTS Tasks

VARIABLES
  mode,     \* docker or subprocess
  step,     \* task -> where its process is
  target,   \* the cache directory: absent, partial or whole
  tmp,      \* task -> its own temporary directory: absent, partial or whole
  nested,   \* the tasks whose temporary directory mv put inside the target
  waiter,   \* task -> where the thread that waits for the process is
  code,     \* task -> the exit code of its process
  result,   \* task -> the ExecutionResult
  refused   \* the tasks whose container Docker would neither stop nor remove

vars == <<mode, step, target, tmp, nested, waiter, code, result, refused>>

NoResult == [exit_code |-> 0, timed_out |-> FALSE, error |-> FALSE, given |-> FALSE]
Result(exit, late, failed) == [exit_code |-> exit, timed_out |-> late, error |-> failed, given |-> TRUE]
Running(t) == step[t] \in {"check", "install", "rename", "script"}

Init ==
  /\ mode \in {"docker", "subprocess"}
  /\ step = [t \in Tasks |-> "none"] /\ target \in {"absent", "whole"}
  /\ tmp = [t \in Tasks |-> "absent"] /\ nested = {}
  /\ waiter = [t \in Tasks |-> "idle"] /\ code = [t \in Tasks |-> 0]
  /\ result = [t \in Tasks |-> NoResult] /\ refused = {}

Goes(t, to) == step[t] # to /\ step' = [step EXCEPT ![t] = to]
Waits(t, to) == waiter' = [waiter EXCEPT ![t] = to]
Gives(t, r) == result' = [result EXCEPT ![t] = r]

(* run_python_task hands the task to a thread, which starts the process.   *)
RunPythonTask(t) ==
  /\ waiter[t] = "idle"
  /\ \/ Goes(t, "check") /\ Waits(t, "waiting") /\ UNCHANGED result
     \/ Waits(t, "done") /\ Gives(t, Result(-1, FALSE, TRUE)) /\ UNCHANGED step
  /\ UNCHANGED <<mode, target, tmp, nested, code, refused>>

(* Only an existing directory is taken for an installation.                *)
Check(t) ==
  /\ step[t] = "check"
  /\ Goes(t, IF target = "absent" THEN "install" ELSE "script")
  /\ UNCHANGED <<mode, target, tmp, nested, waiter, code, result, refused>>

\* Mutant: pip installs into the cache directory itself.
InstallInPlace(t) == target' = "partial" /\ UNCHANGED tmp

Unpack(t) == tmp' = [tmp EXCEPT ![t] = "partial"] /\ UNCHANGED target

(* pip fills the temporary directory file by file.                         *)
Install(t) ==
  /\ step[t] = "install" /\ tmp[t] = "absent" /\ Unpack(t)
  /\ UNCHANGED <<mode, step, nested, waiter, code, result, refused>>

Ends(t, exit) ==
  /\ Goes(t, "ended") /\ code' = [code EXCEPT ![t] = exit]

(* pip ends: the directory is whole, or the task fails and the directory   *)
(* is removed, by the EXIT trap or by the finally.                         *)
Installed(t) ==
  /\ step[t] = "install" /\ tmp[t] = "partial"
  /\ \/ Goes(t, "rename") /\ tmp' = [tmp EXCEPT ![t] = "whole"] /\ UNCHANGED code
     \/ Ends(t, 1) /\ tmp' = [tmp EXCEPT ![t] = "absent"]
  /\ UNCHANGED <<mode, target, nested, waiter, result, refused>>

(* The rename, which fails for no other reason here than that the target   *)
(* exists: `mv` then moves the directory into the installed one, while     *)
(* Path.rename fails and the copy is removed.                              *)
Rename(t) ==
  /\ step[t] = "rename" /\ Goes(t, "script")
  /\ tmp' = [tmp EXCEPT ![t] = "absent"]
  /\ IF target = "absent" THEN target' = tmp[t] /\ UNCHANGED nested
     ELSE UNCHANGED target /\ nested' = IF mode = "docker" THEN nested \cup {t} ELSE nested
  /\ UNCHANGED <<mode, waiter, code, result, refused>>

(* The script ends by itself.                                              *)
ScriptEnds(t) ==
  /\ step[t] = "script" /\ \E exit \in {0, 1} : Ends(t, exit)
  /\ UNCHANGED <<mode, target, tmp, nested, waiter, result, refused>>

(* The wait returns the exit code.  A container is removed then; when its  *)
(* logs cannot be read the result is an error, whatever the exit code, and *)
(* an exception that is not Docker's own goes to the caller: no result.    *)
Collect(t) ==
  /\ waiter[t] = "waiting" /\ step[t] = "ended" /\ Waits(t, "done")
  /\ \/ Gives(t, Result(code[t], FALSE, FALSE))
     \/ mode = "docker" /\ Gives(t, Result(-1, FALSE, TRUE))
     \/ mode = "docker" /\ UNCHANGED result
  /\ UNCHANGED <<mode, step, target, tmp, nested, code, refused>>

(* subprocess.run kills the script when its time is over, and pip too,     *)
(* whose directory the finally removes.                                    *)
KillSubprocess(t) ==
  /\ mode = "subprocess" /\ waiter[t] = "waiting"
  /\ \/ step[t] = "script" /\ Gives(t, Result(-1, TRUE, FALSE)) /\ UNCHANGED tmp
     \/ /\ step[t] = "install" /\ Gives(t, Result(1, FALSE, FALSE))
        /\ tmp' = [tmp EXCEPT ![t] = "absent"]
  /\ Goes(t, "killed") /\ Waits(t, "done")
  /\ UNCHANGED <<mode, target, nested, code, refused>>

(* container.wait gives up, at the timeout or because Docker does not      *)
(* answer; the container runs on.                                          *)
WaitFails(t) ==
  /\ mode = "docker" /\ waiter[t] = "waiting" /\ Waits(t, "stopping")
  /\ UNCHANGED <<mode, step, target, tmp, nested, code, result, refused>>

StopFails(t) == UNCHANGED step
Stop(t) == IF Running(t) THEN Goes(t, "killed") ELSE UNCHANGED step

(* Stop, logs, remove: each may fail, and a failure of the stop or of the  *)
(* remove is ignored.  A killed shell runs no trap, so what pip unpacked   *)
(* so far stays on the volume under its temporary name.                    *)
StopContainer(t) ==
  /\ waiter[t] = "stopping" /\ Waits(t, "removing")
  /\ (Stop(t) \/ StopFails(t))
  /\ \/ \E late \in BOOLEAN : Gives(t, Result(-1, late, ~late))
     \/ UNCHANGED result
  /\ UNCHANGED <<mode, target, tmp, nested, code, refused>>

Removed(t) ==
  \/ Stop(t) /\ UNCHANGED refused
  \/ UNCHANGED step /\ refused' = refused \cup {t}

RemoveContainer(t) ==
  /\ waiter[t] = "removing" /\ Waits(t, "done") /\ Removed(t)
  /\ UNCHANGED <<mode, target, tmp, nested, code, result>>

Next ==
  \E t \in Tasks :
    \/ RunPythonTask(t) \/ Check(t) \/ Install(t) \/ Installed(t) \/ Rename(t) \/ ScriptEnds(t)
    \/ Collect(t) \/ KillSubprocess(t) \/ WaitFails(t) \/ StopContainer(t) \/ RemoveContainer(t)

(* A script never runs against half an installation, whichever task was    *)
(* killed or lost the race; a task whose result is out has no process any  *)
(* more unless Docker refused to remove it; success means that the script  *)
(* itself ended with 0.                                                    *)
TasksAccounted ==
  /\ target # "partial"
  /\ \A t \in Tasks :
       /\ step[t] = "script" => target = "whole"
       /\ waiter[t] = "done" /\ Running(t) => t \in refused
       /\ (result[t].given /\ result[t].exit_code = 0) => (step[t] = "ended" /\ code[t] = 0)
=============================================================================
