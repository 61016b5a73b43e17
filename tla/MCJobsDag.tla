----------------------------- MODULE MCJobsDag -----------------------------
(***************************************************************************)
(* The run scheduler for TLC: one run, submitted or triggered from a job   *)
(* that clients may update or delete meanwhile.  Its three tasks are a and *)
(* b independent (a container and a SQL statement) and c depending on both *)
(* under each run_if condition, or a chain a, b, c, or none at all; the    *)
(* cycle is there to be refused.                                           *)
(***************************************************************************)
EXTENDS Jobs

CONSTANTS a, b, c

T(deps, runIf, kind) == [deps |-> deps, run_if |-> runIf, kind |-> kind]

Join(runIf) ==
  [k \in Key |-> CASE k = a -> T({}, "ALL_SUCCESS", "python")
                   [] k = b -> T({}, "ALL_SUCCESS", "sql")
                   [] k = c -> T({a, b}, runIf, "python")]

Chain(runIf) ==
  [k \in Key |-> CASE k = a -> T({}, "ALL_SUCCESS", "python")
                   [] k = b -> T({a}, runIf, "other")
                   [] k = c -> T({a, b}, "NONE_FAILED", "sql")]

Cycle ==
  [k \in Key |-> CASE k = a -> T({}, "ALL_SUCCESS", "sql")
                   [] k = b -> T({a, c}, "ALL_DONE", "other")
                   [] k = c -> T({b}, "ALL_DONE", "sql")]

DagGraphs ==
  {Join(r) : r \in RunIf}
    \cup {Chain("AT_LEAST_ONE_FAILED"), Cycle}
=============================================================================
