------------------------------ MODULE Snapshot ------------------------------
(***************************************************************************)
(* persistence.py and the lifespan of app.py: at shutdown the state of     *)
(* every enabled service is gathered and written to one JSON file, which   *)
(* the next start reads back.  What a service holds is a version number.   *)
(* The process can die at any step, and a file on disk may be one that     *)
(* this release cannot read.                                               *)
(* Bounds: MaxVersion changes of a service, MaxStarts starts.              *)
(***************************************************************************)
EXTENDS Naturals, Functions, TLC

CONSTANTS Services, MaxVersion, MaxStarts, None, Torn

VARIABLES
  phase,     \* down, up, or the step of save_state that comes next
  starts,    \* how often the process was started
  enabled,   \* the services of this process, get_state_functions()
  live,      \* service -> what it holds, as a version
  envelope,  \* what save_state gathered, a version for some of the services
  temp,      \* the temporary file: None, Torn or an envelope
  file,      \* the snapshot file: None, Torn or an envelope
  gathered   \* every envelope gathered so far

vars == <<phase, starts, enabled, live, envelope, temp, file, gathered>>

Init ==
  /\ phase = "down" /\ starts = 0 /\ enabled = Services
  /\ live = [s \in Services |-> 0]
  /\ envelope = <<>> /\ temp = None /\ file = None /\ gathered = {}

(* load_state: a file that is missing, does not parse or has a format      *)
(* version this release does not know restores nothing; a service whose    *)
(* restore raises keeps its initial state, and the others are restored.    *)
Start ==
  /\ phase = "down" /\ starts < MaxStarts
  /\ phase' = "up" /\ starts' = starts + 1
  /\ \E services \in SUBSET Services, supported \in BOOLEAN, failing \in SUBSET Services :
       /\ enabled' = services
       /\ live' = [s \in Services |->
            IF /\ supported /\ file \notin {None, Torn} /\ s \in services \ failing
               /\ s \in DOMAIN file
            THEN file[s] ELSE 0]
  /\ UNCHANGED <<envelope, temp, file, gathered>>

(* A request of a client changes one service.                              *)
Change(s) ==
  /\ phase = "up" /\ s \in enabled /\ live[s] < MaxVersion
  /\ live' = [live EXCEPT ![s] = @ + 1]
  /\ UNCHANGED <<phase, starts, enabled, envelope, temp, file, gathered>>

(* save_state asks every service in one step of the event loop; a service  *)
(* whose get_state raises is left out.                                     *)
Gather ==
  /\ phase = "up" /\ phase' = "serialise"
  /\ \E failing \in SUBSET enabled :
       /\ envelope' = Restrict(live, enabled \ failing)
       /\ gathered' = gathered \cup {envelope'}
  /\ UNCHANGED <<starts, enabled, live, temp, file>>

(* json.dumps comes before any file is touched, and may raise.             *)
Serialise ==
  /\ phase = "serialise" /\ phase' \in {"open", "down"}
  /\ UNCHANGED <<starts, enabled, live, envelope, temp, file, gathered>>

\* Mutant: the snapshot itself is opened for writing.
OpenedInPlace == file' = Torn /\ temp' = Torn

Opened == temp' = Torn /\ UNCHANGED file

(* A temporary file of its own, next to the snapshot.                      *)
Open ==
  /\ phase = "open" /\ phase' = "write" /\ Opened
  /\ UNCHANGED <<starts, enabled, live, envelope, gathered>>

Write ==
  /\ phase = "write" /\ phase' = "replace" /\ temp' = envelope
  /\ UNCHANGED <<starts, enabled, live, envelope, file, gathered>>

(* A write or a replace that fails removes the temporary file.             *)
WriteFails ==
  /\ phase \in {"write", "replace"} /\ phase' = "down" /\ temp' = None
  /\ UNCHANGED <<starts, enabled, live, envelope, file, gathered>>

Replace ==
  /\ phase = "replace" /\ phase' = "down" /\ file' = temp /\ temp' = None
  /\ UNCHANGED <<starts, enabled, live, envelope, gathered>>

(* The process is killed; a temporary file of this attempt stays behind.   *)
Crash ==
  /\ phase # "down" /\ phase' = "down"
  /\ UNCHANGED <<starts, enabled, live, envelope, temp, file, gathered>>

Next ==
  \/ Start \/ Gather \/ Serialise \/ Open \/ Write \/ WriteFails \/ Replace \/ Crash
  \/ \E s \in Services : Change(s)

(* The snapshot on disk is at every moment, a crash in the middle of a     *)
(* write included, the services' states of one single moment.              *)
SnapshotWhole == file = None \/ file \in gathered
=============================================================================
