------------------------------ MODULE Notebook ------------------------------
(***************************************************************************)
(* notebook.py: start() launches JupyterLab as a child and waits for its   *)
(* port in a background task, while the shutdown of app.py may already     *)
(* call stop(); a start that gives up calls stop() too, so two stops can   *)
(* overlap.  Every await is a step of its own.                             *)
(***************************************************************************)
EXTENDS TLC

VARIABLES
  child,    \* the operating system's process: none, alive, dying (sent a signal) or gone
  process,  \* _process is set
  ready,    \* _ready
  starter,  \* where start() is
  stopper   \* "start" and "shutdown" -> where that one's stop() is

vars == <<child, process, ready, starter, stopper>>
Stoppers == {"start", "shutdown"}

Init ==
  /\ child = "none" /\ process = FALSE /\ ready = FALSE /\ starter = "created"
  /\ stopper = [c \in Stoppers |-> "idle"]

Alive == child \in {"alive", "dying"}
\* Mutant: only the flag counts.
IsRunningByFlag == ready

IsRunning == ready /\ process /\ Alive

(* Up to the first await: without JupyterLab, or when the launch fails,    *)
(* the server does without.                                                *)
Launch ==
  /\ starter = "created"
  /\ \/ starter' = "waiting" /\ child' = "alive" /\ process' = TRUE
     \/ starter' = "failed" /\ UNCHANGED <<child, process>>
  /\ UNCHANGED <<ready, stopper>>

(* _wait_until_ready: the port answers, or the child has exited or the     *)
(* attempts are used up, and then start stops what it started.  A child    *)
(* that a shutdown has taken away looks neither exited nor present.        *)
Answered ==
  /\ starter = "waiting" /\ Alive
  /\ starter' = "up" /\ ready' = TRUE
  /\ UNCHANGED <<child, process, stopper>>

GivesUp ==
  /\ starter = "waiting"
  /\ starter' = "failed" /\ stopper' = [stopper EXCEPT !["start"] = "called"]
  /\ UNCHANGED <<child, process, ready>>

(* app.py, after the yield.                                                *)
Shutdown ==
  /\ starter # "created" /\ stopper["shutdown"] = "idle"
  /\ stopper' = [stopper EXCEPT !["shutdown"] = "called"]
  /\ UNCHANGED <<child, process, ready, starter>>

(* Not ready from here on; closing the client is the first await.          *)
StopBegins(c) ==
  /\ stopper[c] = "called" /\ ready' = FALSE
  /\ stopper' = [stopper EXCEPT ![c] = "closing"]
  /\ UNCHANGED <<child, process, starter>>

(* poll() is asked again after that await, and the child told to end.      *)
Terminate(c) ==
  /\ stopper[c] = "closing"
  /\ IF process /\ Alive
     THEN /\ child' = "dying" /\ stopper' = [stopper EXCEPT ![c] = "terminating"]
          /\ UNCHANGED process
     ELSE /\ process' = FALSE /\ stopper' = [stopper EXCEPT ![c] = "returned"]
          /\ UNCHANGED child
  /\ UNCHANGED <<ready, starter>>

(* The wait of ten seconds ends with the child or without it.  When the    *)
(* other stop has returned meanwhile, there is no process left to kill and *)
(* the call raises.                                                        *)
Waited(c) ==
  /\ stopper[c] = "terminating"
  /\ \/ /\ child = "gone" \/ process
        /\ process' = FALSE /\ stopper' = [stopper EXCEPT ![c] = "returned"]
     \/ /\ child # "gone" /\ ~process
        /\ stopper' = [stopper EXCEPT ![c] = "raised"] /\ UNCHANGED process
  /\ UNCHANGED <<child, ready, starter>>

(* The child ends by itself or because it was told to.                     *)
ChildExits ==
  /\ Alive /\ child' = "gone" /\ UNCHANGED <<process, ready, starter, stopper>>

Next ==
  \/ Launch \/ Answered \/ GivesUp \/ Shutdown \/ ChildExits
  \/ \E c \in Stoppers : StopBegins(c) \/ Terminate(c) \/ Waited(c)

(* Once a stop is over, its own or the shutdown's and however it ended, a  *)
(* port that answered late does not make the server report a notebook, and *)
(* the child has at least been told to end.                                *)
ChildAccounted ==
  \A c \in Stoppers : stopper[c] \in {"returned", "raised"} => ~IsRunning /\ child # "alive"
=============================================================================
