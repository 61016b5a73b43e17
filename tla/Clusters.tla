------------------------------ MODULE Clusters ------------------------------
(***************************************************************************)
(* The Clusters service (services/clusters.py) with the two services it    *)
(* refers to, cluster policies and instance pools.                         *)
(*                                                                         *)
(* A lifecycle request puts a cluster in a transitional state and starts a *)
(* coroutine (_transition) that sleeps and then moves the cluster on.      *)
(* Nothing stops the coroutine of an earlier request: a token per cluster, *)
(* replaced by every request, tells a late coroutine that it no longer     *)
(* counts.  Request handlers do not suspend, so each is one action; the    *)
(* start and terminate delays differ and are configurable, so coroutines   *)
(* wake up in any order.                                                   *)
(*                                                                         *)
(* Left out: the descriptive fields of the three resources (pin, owner,    *)
(* size, tags, a policy's definition, a pool's name and node type), which  *)
(* no guard of the lifecycle or of a reference depends on.                 *)
(***************************************************************************)
EXTENDS Naturals

CONSTANTS
  Cluster,   \* cluster ids; an id is used again only when nothing mentions it any more
  Policy,    \* cluster policy ids
  Pool,      \* instance pool ids
  Name,      \* names of policies
  NoName,    \* the empty name
  Token,     \* transition tokens, likewise; bounds the coroutines asleep at a time
  None       \* a reference that is not set

ASSUME NoNameAssumption == NoName \notin Name
ASSUME NoneAssumption == None \notin Policy \cup Pool

VARIABLES
  clusters,   \* _state["clusters"]: id -> cluster
  tokens,     \* _transition_tokens: id -> token
  timers,     \* the _transition coroutines asleep
  policies,   \* cluster_policies._state["policies"]: id -> name
  pools       \* the keys of instance_pools._state["pools"]

vars == <<clusters, tokens, timers, policies, pools>>

Transitional == {"PENDING", "TERMINATING", "RESTARTING", "RESIZING"}
Target == {"RUNNING", "TERMINATED"}
State == Transitional \cup Target

Timer == [cluster : Cluster, token : Token, target : Target]

\* What a request says about a cluster's references.
RefFields ==
  [policy : Policy \cup {None}, pool : Pool \cup {None}, driverPool : Pool \cup {None}]

-----------------------------------------------------------------------------
(* Helpers                                                                 *)

\* The function f with k mapped to v (a dict assignment).
Put(f, k, v) == [x \in DOMAIN f \cup {k} |-> IF x = k THEN v ELSE f[x]]

\* The function f without k (a dict deletion).
Drop(f, k) == [x \in DOMAIN f \ {k} |-> f[x]]

EmptyMap == [x \in {} |-> 0]

\* _validate_references accepts the request.  The driver's pool is not looked at.
ValidReferences(r) ==
  /\ r.policy = None \/ r.policy \in DOMAIN policies
  /\ r.pool = None \/ r.pool \in pools

\* A fresh uuid4: no coroutine and no cluster holds it.
Unused(t) ==
  /\ \A x \in timers : x.token # t
  /\ \A c \in DOMAIN tokens : tokens[c] # t

FreshToken == CHOOSE t \in Token : Unused(t)

Asleep(c, t, target) == [cluster |-> c, token |-> t, target |-> target]

\* Mutant: a cluster that already has a transition under way keeps its token.
ScheduleTransitionKeepsToken(c, target) ==
  /\ \E t \in Token : Unused(t)
  /\ tokens' = IF c \in DOMAIN tokens THEN tokens ELSE Put(tokens, c, FreshToken)
  /\ timers' = timers \cup {Asleep(c, FreshToken, target)}

\* _schedule_transition.
ScheduleTransition(c, target) ==
  /\ \E t \in Token : Unused(t)
  /\ tokens' = Put(tokens, c, FreshToken)
  /\ timers' = timers \cup {Asleep(c, FreshToken, target)}

-----------------------------------------------------------------------------
Init ==
  /\ clusters = EmptyMap
  /\ tokens = EmptyMap
  /\ timers = {}
  /\ policies = EmptyMap
  /\ pools = {}

-----------------------------------------------------------------------------
(* Clusters                                                                *)

\* A cluster's record.  Two fields are for the properties only: goal, where the latest
\* lifecycle request sends the cluster, and forced, whether an update wrote the state since.
NewCluster(r) ==
  [state |-> "PENDING", goal |-> "RUNNING", forced |-> FALSE,
   policy |-> r.policy, pool |-> r.pool, driverPool |-> r.driverPool]

CreateCluster(c, r) ==
  /\ c \notin DOMAIN clusters
  /\ \A x \in timers : x.cluster # c
  /\ ValidReferences(r)
  /\ clusters' = Put(clusters, c, NewCluster(r))
  /\ ScheduleTransition(c, "RUNNING")
  /\ UNCHANGED <<policies, pools>>

WithRefs(k, r) == [k EXCEPT !.policy = r.policy, !.pool = r.pool, !.driverPool = r.driverPool]

\* edit_cluster replaces every field of the specification.
EditCluster(c, r) ==
  /\ c \in DOMAIN clusters
  /\ ValidReferences(r)
  /\ clusters' = [clusters EXCEPT ![c] = WithRefs(@, r)]
  /\ UNCHANGED <<tokens, timers, policies, pools>>

\* update_cluster with a mask of fields: each reference is set or left alone, none is checked.
UpdateCluster(c, r) ==
  /\ c \in DOMAIN clusters
  /\ clusters' = [clusters EXCEPT ![c] = WithRefs(@, r)]
  /\ UNCHANGED <<tokens, timers, policies, pools>>

\* update_cluster with the mask "*" stores whatever the payload holds, a state included (a
\* payload with a state and references is the two actions in turn).
UpdateClusterState(c, s) ==
  /\ c \in DOMAIN clusters
  /\ clusters' = [clusters EXCEPT ![c] = [@ EXCEPT !.state = s, !.forced = TRUE]]
  /\ UNCHANGED <<tokens, timers, policies, pools>>

\* The cluster goes to state s and, unless something supersedes it, to target.
Lifecycle(c, s, target) ==
  /\ clusters' = [clusters EXCEPT ![c] = [@ EXCEPT !.state = s, !.goal = target, !.forced = FALSE]]
  /\ ScheduleTransition(c, target)
  /\ UNCHANGED <<policies, pools>>

\* start_cluster: no-op if already RUNNING or PENDING.
StartCluster(c) ==
  /\ c \in DOMAIN clusters
  /\ clusters[c].state \notin {"RUNNING", "PENDING"}
  /\ Lifecycle(c, "PENDING", "RUNNING")

\* terminate_cluster (POST /delete): no-op if already TERMINATED or TERMINATING.
TerminateCluster(c) ==
  /\ c \in DOMAIN clusters
  /\ clusters[c].state \notin {"TERMINATED", "TERMINATING"}
  /\ Lifecycle(c, "TERMINATING", "TERMINATED")

\* restart_cluster, from any state.
RestartCluster(c) ==
  /\ c \in DOMAIN clusters
  /\ Lifecycle(c, "RESTARTING", "RUNNING")

\* resize_cluster, from any state.
ResizeCluster(c) ==
  /\ c \in DOMAIN clusters
  /\ Lifecycle(c, "RESIZING", "RUNNING")

\* permanent_delete_cluster; a coroutine for the cluster sleeps on.
PermanentDeleteCluster(c) ==
  /\ c \in DOMAIN clusters
  /\ clusters' = Drop(clusters, c)
  /\ tokens' = Drop(tokens, c)
  /\ UNCHANGED <<timers, policies, pools>>

\* Mutant: the token is dropped before it is compared.
TransitionPopsFirst(x) ==
  /\ x \in timers
  /\ timers' = timers \ {x}
  /\ tokens' = Drop(tokens, x.cluster)
  /\ clusters' = IF x.cluster \in DOMAIN clusters \cap DOMAIN tokens
                    /\ tokens[x.cluster] = x.token
                 THEN [clusters EXCEPT ![x.cluster] = [@ EXCEPT !.state = x.target, !.forced = FALSE]]
                 ELSE clusters
  /\ UNCHANGED <<policies, pools>>

\* Mutant: any transition may be applied while the cluster still waits for one.
TransitionUnchecked(x) ==
  /\ x \in timers
  /\ timers' = timers \ {x}
  /\ IF x.cluster \in DOMAIN clusters \cap DOMAIN tokens
     THEN /\ tokens' = Drop(tokens, x.cluster)
          /\ clusters' = [clusters EXCEPT ![x.cluster] =
                            [@ EXCEPT !.state = x.target, !.forced = FALSE]]
     ELSE UNCHANGED <<clusters, tokens>>
  /\ UNCHANGED <<policies, pools>>

\* _transition wakes up.
Transition(x) ==
  /\ x \in timers
  /\ timers' = timers \ {x}
  /\ IF x.cluster \in DOMAIN tokens /\ tokens[x.cluster] = x.token
     THEN /\ tokens' = Drop(tokens, x.cluster)
          /\ clusters' = IF x.cluster \in DOMAIN clusters
                         THEN [clusters EXCEPT ![x.cluster] =
                                 [@ EXCEPT !.state = x.target, !.forced = FALSE]]
                         ELSE clusters
     ELSE UNCHANGED <<clusters, tokens>>
  /\ UNCHANGED <<policies, pools>>

-----------------------------------------------------------------------------
(* Cluster policies and instance pools                                     *)

\* _name_taken; the empty name is nobody's.
NameTaken(n, exclude) ==
  n # NoName /\ \E p \in DOMAIN policies \ exclude : policies[p] = n

CreatePolicy(p, n) ==
  /\ p \notin DOMAIN policies
  /\ \A c \in DOMAIN clusters : clusters[c].policy # p
  /\ n # NoName
  /\ ~NameTaken(n, {})
  /\ policies' = Put(policies, p, n)
  /\ UNCHANGED <<clusters, tokens, timers, pools>>

\* Mutant: the policy being edited is found by its name, not by its id.
EditPolicyUnchecked(p, n) ==
  /\ p \in DOMAIN policies
  /\ ~NameTaken(n, {q \in DOMAIN policies : policies[q] = n})
  /\ policies' = [policies EXCEPT ![p] = n]
  /\ UNCHANGED <<clusters, tokens, timers, pools>>

\* edit_policy; unlike create, it takes the empty name.
EditPolicy(p, n) ==
  /\ p \in DOMAIN policies
  /\ ~NameTaken(n, {p})
  /\ policies' = [policies EXCEPT ![p] = n]
  /\ UNCHANGED <<clusters, tokens, timers, pools>>

\* Mutant: a terminated cluster does not count as a use.
DeletePolicyIgnoresTerminated(p) ==
  /\ p \in DOMAIN policies
  /\ \A c \in DOMAIN clusters : clusters[c].state # "TERMINATED" => clusters[c].policy # p
  /\ policies' = Drop(policies, p)
  /\ UNCHANGED <<clusters, tokens, timers, pools>>

\* delete_policy refuses a policy that a cluster names.
DeletePolicy(p) ==
  /\ p \in DOMAIN policies
  /\ \A c \in DOMAIN clusters : clusters[c].policy # p
  /\ policies' = Drop(policies, p)
  /\ UNCHANGED <<clusters, tokens, timers, pools>>

CreateInstancePool(q) ==
  /\ q \notin pools
  /\ \A c \in DOMAIN clusters : q \notin {clusters[c].pool, clusters[c].driverPool}
  /\ pools' = pools \cup {q}
  /\ UNCHANGED <<clusters, tokens, timers, policies>>

\* delete_instance_pool refuses a pool that a cluster names as its instance_pool_id.
DeleteInstancePool(q) ==
  /\ q \in pools
  /\ \A c \in DOMAIN clusters : clusters[c].pool # q
  /\ pools' = pools \ {q}
  /\ UNCHANGED <<clusters, tokens, timers, policies>>

-----------------------------------------------------------------------------
(* The services as a whole                                                 *)

\* POST /_minilake/reset: the three reset functions run one after the other without a
\* suspension.  The coroutines sleep on.
Reset ==
  /\ clusters' = EmptyMap
  /\ tokens' = EmptyMap
  /\ policies' = EmptyMap
  /\ pools' = {}
  /\ UNCHANGED timers

\* A shutdown that saves a snapshot and a start that restores it.  The snapshot holds _state,
\* not _transition_tokens, and no coroutine survives.
Restart ==
  /\ tokens' = EmptyMap
  /\ timers' = {}
  /\ UNCHANGED <<clusters, policies, pools>>

Next ==
  \/ \E c \in Cluster, r \in RefFields : CreateCluster(c, r)
  \/ \E c \in Cluster, r \in RefFields : EditCluster(c, r)
  \/ \E c \in Cluster, r \in RefFields : UpdateCluster(c, r)
  \/ \E c \in Cluster, s \in State : UpdateClusterState(c, s)
  \/ \E c \in Cluster : StartCluster(c)
  \/ \E c \in Cluster : TerminateCluster(c)
  \/ \E c \in Cluster : RestartCluster(c)
  \/ \E c \in Cluster : ResizeCluster(c)
  \/ \E c \in Cluster : PermanentDeleteCluster(c)
  \/ \E x \in Timer : Transition(x)
  \/ \E p \in Policy, n \in Name : CreatePolicy(p, n)
  \/ \E p \in Policy, n \in Name \cup {NoName} : EditPolicy(p, n)
  \/ \E p \in Policy : DeletePolicy(p)
  \/ \E q \in Pool : CreateInstancePool(q)
  \/ \E q \in Pool : DeleteInstancePool(q)
  \/ Reset

Spec == Init /\ [][Next]_vars

\* A sleeping coroutine wakes up.
Fairness == \A x \in Timer : WF_vars(Transition(x))

FairSpec == Spec /\ Fairness

\* The same services, restarted with MINILAKE_PERSIST=1.
LivesSpec == Init /\ [][Next \/ Restart]_vars

RestartSpec == LivesSpec /\ Fairness

-----------------------------------------------------------------------------
(* Properties                                                              *)

ClusterRecord ==
  [state : State, goal : Target, forced : BOOLEAN,
   policy : Policy \cup {None}, pool : Pool \cup {None}, driverPool : Pool \cup {None}]

TypeOK ==
  /\ DOMAIN clusters \subseteq Cluster
  /\ \A c \in DOMAIN clusters : clusters[c] \in ClusterRecord
  /\ DOMAIN tokens \subseteq DOMAIN clusters
  /\ \A c \in DOMAIN tokens : tokens[c] \in Token
  /\ timers \subseteq Timer
  /\ DOMAIN policies \subseteq Policy
  /\ \A p \in DOMAIN policies : policies[p] \in Name \cup {NoName}
  /\ pools \subseteq Pool

\* Cluster c is in a transitional state that a lifecycle request put it in.
InTransition(c) == clusters[c].state \in Transitional /\ ~clusters[c].forced

(***************************************************************************)
(* A cluster in a transitional state is on its way: a coroutine that will  *)
(* be obeyed is asleep, and it leads where the latest lifecycle request    *)
(* wanted, whatever was requested before it and has not woken up yet.      *)
(***************************************************************************)
TransitionPending ==
  \A c \in DOMAIN clusters :
    InTransition(c) =>
      /\ c \in DOMAIN tokens
      /\ Asleep(c, tokens[c], clusters[c].goal) \in timers

(***************************************************************************)
(* A cluster at rest is where its latest lifecycle request sent it: "a     *)
(* delayed transition [is applied] only if no newer lifecycle operation    *)
(* replaced it", also across deletion and reset.                           *)
(***************************************************************************)
LatestRequestWins ==
  \A c \in DOMAIN clusters :
    clusters[c].state \in Target /\ ~clusters[c].forced =>
      /\ clusters[c].state = clusters[c].goal
      /\ c \notin DOMAIN tokens

(***************************************************************************)
(* A policy or pool that a cluster names does not disappear while the      *)
(* cluster keeps naming it: what create and edit validated stays true.     *)
(***************************************************************************)
ReferencesKept ==
  [][\A c \in DOMAIN clusters \cap DOMAIN clusters' :
       /\ clusters'[c].policy = clusters[c].policy /\ clusters[c].policy \in DOMAIN policies
            => clusters'[c].policy \in DOMAIN policies'
       /\ clusters'[c].pool = clusters[c].pool /\ clusters[c].pool \in pools
            => clusters'[c].pool \in pools']_vars

(***************************************************************************)
(* No two policies share a name, however they were created and renamed;    *)
(* only the empty name, which edit accepts, may be shared.                 *)
(***************************************************************************)
PolicyNamesUnique ==
  \A p, q \in DOMAIN policies : p # q /\ policies[p] = policies[q] => policies[p] = NoName

\* A lifecycle request for cluster c is accepted.
Requested(c) ==
  (\E r \in RefFields : CreateCluster(c, r)) \/ StartCluster(c) \/ TerminateCluster(c)
    \/ RestartCluster(c) \/ ResizeCluster(c)

(***************************************************************************)
(* A cluster that is left alone settles: unless lifecycle requests for it  *)
(* keep coming for ever, it does not stay in transition.                   *)
(***************************************************************************)
Settles ==
  \A c \in Cluster :
    []<><<Requested(c)>>_vars \/ []<>(c \in DOMAIN clusters => ~InTransition(c))

(***************************************************************************)
(* "A pool in use by a cluster cannot be deleted" (instance_pools.py),     *)
(* where a cluster uses the pool of its driver as well as its own.         *)
(***************************************************************************)
PoolInUseKept ==
  [][\A c \in DOMAIN clusters : \A q \in Pool :
       DeleteInstancePool(q) => q \notin {clusters[c].pool, clusters[c].driverPool}]_vars
=============================================================================
