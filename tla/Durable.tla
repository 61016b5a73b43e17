------------------------------ MODULE Durable ------------------------------
(***************************************************************************)
(* What MINILAKE_PERSIST=1 promises, without the steps of a save: the      *)
(* process runs and stops; a stop either saves what the services hold at   *)
(* that moment, in one piece, or leaves what the last save left; a start   *)
(* gives every service what was saved of it or its initial state.          *)
(* Snapshot implements it, whatever step of a save fails or is cut short.  *)
(***************************************************************************)
EXTENDS Naturals, Functions

CONSTANTS Services, None

VARIABLES
  up,      \* whether the process runs
  held,    \* service -> what it holds, as a version; 0 is its initial state
  saved    \* what the last completed save wrote, or None

durableVars == <<up, held, saved>>

Init == up = FALSE /\ held = [s \in Services |-> 0] /\ saved = None

\* What the services of S hold when they restore what was saved.
Restored(S) ==
  [s \in Services |-> IF saved # None /\ s \in S /\ s \in DOMAIN saved THEN saved[s] ELSE 0]

Start == ~up /\ up' = TRUE /\ UNCHANGED saved /\ \E S \in SUBSET Services : held' = Restored(S)

Change(s) == up /\ UNCHANGED <<up, saved>> /\ held' = [held EXCEPT ![s] = @ + 1]

\* A stop that saves; a service may have no part in it.
Save ==
  /\ up /\ up' = FALSE /\ UNCHANGED held
  /\ \E S \in SUBSET Services : saved' = Restrict(held, S)

Stop == up /\ up' = FALSE /\ UNCHANGED <<held, saved>>

Next == Start \/ Save \/ Stop \/ \E s \in Services : Change(s)

Spec == Init /\ [][Next]_durableVars
=============================================================================
