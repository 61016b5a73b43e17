--------------------------- MODULE MCJobsRegistry ---------------------------
(***************************************************************************)
(* The registry of jobs and runs for TLC: two runs, one job and one token, *)
(* with task lists of one container task or none; the cyclic list is there *)
(* to be refused.                                                          *)
(***************************************************************************)
EXTENDS Jobs

CONSTANTS a

Single(deps) == [k \in {a} |-> [deps |-> deps, run_if |-> "ALL_SUCCESS", kind |-> "python"]]

RegistryGraphs == {Single({}), Single({a})}
=============================================================================
