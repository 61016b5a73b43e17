---------------------------- MODULE RunContract ----------------------------
(***************************************************************************)
(* What the Jobs API promises about runs, without the scheduler: a request *)
(* is accepted once per idempotency token, an accepted run goes from       *)
(* PENDING through RUNNING to TERMINATED and stays there with the result   *)
(* it ended with, a run canceled before its end never reports success, and *)
(* only a terminated run can be deleted.  Jobs implements this contract.   *)
(***************************************************************************)
CONSTANTS
  Id,       \* names of runs
  Via,      \* the requests that create runs
  Token,    \* idempotency tokens
  NoToken   \* a request without a token

VARIABLES
  book,     \* every run ever accepted -> [via, token, life, result, cancel]
  visible   \* the runs that have not been deleted

contractVars == <<book, visible>>

Init == book = [i \in {} |-> 0] /\ visible = {}

\* A new run; its token, if it has one, was not used on this request before.
Accept(i, via, tok) ==
  /\ i \notin DOMAIN book
  /\ tok # NoToken => \A j \in DOMAIN book : ~(book[j].via = via /\ book[j].token = tok)
  /\ book' = [j \in DOMAIN book \cup {i} |->
                IF j = i THEN [via |-> via, token |-> tok, life |-> "PENDING",
                               result |-> "NONE", cancel |-> FALSE]
                ELSE book[j]]
  /\ visible' = visible \cup {i}

Begin(i) ==
  /\ i \in DOMAIN book
  /\ book[i].life = "PENDING"
  /\ book' = [book EXCEPT ![i].life = "RUNNING"]
  /\ UNCHANGED visible

\* A run without tasks ends as soon as it begins.  Once cancellation was requested the only
\* other end is a failure of the execution itself.
End(i, result) ==
  /\ i \in DOMAIN book
  /\ book[i].life \in {"PENDING", "RUNNING"}
  /\ result \in IF book[i].cancel THEN {"CANCELED", "FAILED"} ELSE {"SUCCESS", "FAILED"}
  /\ book' = [book EXCEPT ![i].life = "TERMINATED", ![i].result = result]
  /\ UNCHANGED visible

Cancel(i) ==
  /\ i \in visible
  /\ book' = [book EXCEPT ![i].cancel = TRUE]
  /\ UNCHANGED visible

Delete(i) ==
  /\ i \in visible
  /\ book[i].life = "TERMINATED"
  /\ visible' = visible \ {i}
  /\ UNCHANGED book

Next ==
  \E i \in Id :
    \/ \E via \in Via, tok \in Token \cup {NoToken} : Accept(i, via, tok)
    \/ Begin(i)
    \/ \E result \in {"SUCCESS", "FAILED", "CANCELED"} : End(i, result)
    \/ Cancel(i)
    \/ Delete(i)

Spec == Init /\ [][Next]_contractVars
=============================================================================
