------------------------------- MODULE Tasks -------------------------------
(***************************************************************************)
(* Vocabulary of the Jobs service shared by the validation of task lists   *)
(* (TaskGraph) and the run scheduler (Jobs): what a task list without a    *)
(* cycle is, the outcomes a task can have, and the run_if conditions.      *)
(***************************************************************************)
EXTENDS Integers, FiniteSets

\* No cycle: every non-empty set of tasks has one that waits for no other of the set.
Acyclic(deps) ==
  \A S \in SUBSET DOMAIN deps : S # {} => \E k \in S : deps[k] \cap S = {}

\* How a task of a run ended.  SKIPPED is a life cycle state, the others are result
\* states of a task whose life cycle state is TERMINATED.
TaskStatus == {"SUCCESS", "FAILED", "TIMEDOUT", "CANCELED", "SKIPPED"}

RunIf == {"ALL_SUCCESS", "ALL_DONE", "AT_LEAST_ONE_SUCCESS", "ALL_FAILED",
          "AT_LEAST_ONE_FAILED", "NONE_FAILED"}

\* The statuses counted as failed; a canceled or skipped task is neither failed nor succeeded.
Failed == {"FAILED", "TIMEDOUT"}

\* The number of dependencies whose outcome is in S.
Count(status, S) == Cardinality({d \in DOMAIN status : status[d] \in S})

\* Mutant: a timed-out dependency is not counted as failed.
RunIfSatisfiedTimeoutIgnored(runIf, status) ==
  LET total == Cardinality(DOMAIN status) IN
  \/ total = 0
  \/ runIf = "ALL_DONE" /\ Count(status, TaskStatus) = total
  \/ runIf = "AT_LEAST_ONE_SUCCESS" /\ Count(status, {"SUCCESS"}) >= 1
  \/ runIf = "ALL_FAILED" /\ Count(status, {"FAILED"}) = total
  \/ runIf = "AT_LEAST_ONE_FAILED" /\ Count(status, {"FAILED"}) >= 1
  \/ runIf = "NONE_FAILED" /\ Count(status, {"FAILED"}) = 0
  \/ runIf = "ALL_SUCCESS" /\ Count(status, {"SUCCESS"}) = total

\* _run_if_satisfied: status maps each direct dependency to its outcome.
RunIfSatisfied(runIf, status) ==
  LET total == Cardinality(DOMAIN status) IN
  \/ total = 0
  \/ runIf = "ALL_DONE" /\ Count(status, TaskStatus) = total
  \/ runIf = "AT_LEAST_ONE_SUCCESS" /\ Count(status, {"SUCCESS"}) >= 1
  \/ runIf = "ALL_FAILED" /\ Count(status, Failed) = total
  \/ runIf = "AT_LEAST_ONE_FAILED" /\ Count(status, Failed) >= 1
  \/ runIf = "NONE_FAILED" /\ Count(status, Failed) = 0
  \/ runIf = "ALL_SUCCESS" /\ Count(status, {"SUCCESS"}) = total

\* What the names of the conditions say, without counting: the reference for the above.
RunIfMeans(runIf, status) ==
  LET deps == DOMAIN status IN
  \/ deps = {}
  \/ runIf = "ALL_DONE"
  \/ runIf = "AT_LEAST_ONE_SUCCESS" /\ \E d \in deps : status[d] = "SUCCESS"
  \/ runIf = "ALL_FAILED" /\ \A d \in deps : status[d] \in Failed
  \/ runIf = "AT_LEAST_ONE_FAILED" /\ \E d \in deps : status[d] \in Failed
  \/ runIf = "NONE_FAILED" /\ \A d \in deps : status[d] \notin Failed
  \/ runIf = "ALL_SUCCESS" /\ \A d \in deps : status[d] = "SUCCESS"
=============================================================================
