--------------------------- MODULE ClustersProofs ---------------------------
(***************************************************************************)
(* Proofs about Clusters, for any number of clusters, tokens, policies and *)
(* pools: the lifecycle invariants TransitionPending and LatestRequestWins *)
(* and the action property ReferencesKept; and PolicyNamesUnique, which is *)
(* inductive as it stands.                                                 *)
(*                                                                         *)
(* The lifecycle invariants are not inductive: that the coroutine that is  *)
(* obeyed leads to the goal must also hold while an update has overwritten *)
(* the state (TokenBacked), and no other coroutine may carry its token     *)
(* (TokensUnique).  A restart from a snapshot keeps all that (Backed); it  *)
(* only takes away the tokens of the clusters in transition (HasToken), so *)
(* TransitionPending is for one process and the rest for all the lives of  *)
(* the server, LivesSpec, which Spec implies.                              *)
(***************************************************************************)
EXTENDS Clusters, TLAPS

\* The token of a cluster is that of a sleeping coroutine that leads to the goal.
TokenBacked ==
  \A c \in DOMAIN tokens : Asleep(c, tokens[c], clusters[c].goal) \in timers

\* A token is carried by one coroutine.
TokensUnique == \A x, y \in timers : x.token = y.token => x = y

\* A transitional cluster has a token.
HasToken == \A c \in DOMAIN clusters : InTransition(c) => c \in DOMAIN tokens

Backed == TypeOK /\ TokenBacked /\ TokensUnique /\ LatestRequestWins

IInv == Backed /\ HasToken

(***************************************************************************)
(* A fresh uuid exists as long as the bound on sleeping coroutines is not  *)
(* reached.                                                                *)
(***************************************************************************)
LEMMA FreshTokenUnused ==
  ASSUME \E t \in Token : Unused(t)
  PROVE  FreshToken \in Token /\ Unused(FreshToken)
  BY Zenon DEF FreshToken

(***************************************************************************)
(* _schedule_transition, called together with the assignment of the        *)
(* cluster's record k, keeps the invariant if the record is in a           *)
(* transitional state and its goal is the target scheduled.                *)
(***************************************************************************)
LEMMA ScheduleKeepsInvariant ==
  ASSUME Backed, NEW c \in Cluster, NEW k \in ClusterRecord, k.state \in Transitional,
         clusters' = Put(clusters, c, k), ScheduleTransition(c, k.goal),
         UNCHANGED <<policies, pools>>
  PROVE  Backed'
<1> DEFINE t == FreshToken
<1>1. t \in Token /\ Unused(t)
  BY FreshTokenUnused DEF ScheduleTransition
<1> HIDE DEF t
<1>2. /\ tokens' = Put(tokens, c, t)
      /\ timers' = timers \cup {Asleep(c, t, k.goal)}
  BY DEF ScheduleTransition, t
<1>3. k.goal \in Target
  BY DEF ClusterRecord
<1>4. Asleep(c, t, k.goal) \in Timer
  BY <1>1, <1>3 DEF Asleep, Timer
<1>5. /\ DOMAIN clusters' = DOMAIN clusters \cup {c}
      /\ DOMAIN tokens' = DOMAIN tokens \cup {c}
      /\ clusters'[c] = k /\ tokens'[c] = t
      /\ \A d \in DOMAIN clusters : d # c => clusters'[d] = clusters[d]
      /\ \A d \in DOMAIN tokens : d # c => tokens'[d] = tokens[d]
  BY <1>2 DEF Put
<1>6. TypeOK'
  BY <1>1, <1>2, <1>4, <1>5 DEF Backed, TypeOK
<1>7. TokenBacked'
  BY <1>2, <1>5 DEF Backed, TypeOK, TokenBacked
<1>8. TokensUnique'
  BY <1>1, <1>2 DEF Backed, TokensUnique, Unused, Asleep
<1>9. LatestRequestWins'
  <2> SUFFICES ASSUME NEW d \in DOMAIN clusters', d # c,
                      clusters'[d].state \in Target, ~clusters'[d].forced
               PROVE  clusters'[d].state = clusters'[d].goal /\ d \notin DOMAIN tokens'
    BY <1>5 DEF LatestRequestWins, Transitional, Target
  <2> QED BY <1>5 DEF Backed, LatestRequestWins
<1> QED BY <1>6, <1>7, <1>8, <1>9 DEF Backed

(***************************************************************************)
(* The invariant does not depend on the references of a cluster.           *)
(***************************************************************************)
LEMMA ReferencesKeepInvariant ==
  ASSUME Backed, NEW c \in DOMAIN clusters, NEW r \in RefFields,
         clusters' = [clusters EXCEPT ![c] = WithRefs(@, r)],
         UNCHANGED <<tokens, timers, policies, pools>>
  PROVE  Backed'
<1>1. /\ DOMAIN clusters' = DOMAIN clusters
      /\ \A d \in DOMAIN clusters :
           /\ clusters'[d] \in ClusterRecord
           /\ clusters'[d].state = clusters[d].state
           /\ clusters'[d].goal = clusters[d].goal
           /\ clusters'[d].forced = clusters[d].forced
  BY DEF Backed, TypeOK, WithRefs, ClusterRecord, RefFields
<1> QED BY <1>1 DEF Backed, TypeOK, TokenBacked, TokensUnique, LatestRequestWins

(***************************************************************************)
(* A lifecycle request on an existing cluster keeps the invariant.         *)
(***************************************************************************)
LEMMA LifecycleKeepsInvariant ==
  ASSUME Backed, NEW c \in DOMAIN clusters, NEW s \in Transitional, NEW target \in Target,
         Lifecycle(c, s, target)
  PROVE  Backed'
<1> DEFINE k == [clusters[c] EXCEPT !.state = s, !.goal = target, !.forced = FALSE]
<1>1. clusters[c] \in ClusterRecord /\ c \in Cluster
  BY DEF Backed, TypeOK
<1>2. k \in ClusterRecord /\ k.state \in Transitional /\ k.goal = target
  BY <1>1 DEF ClusterRecord, State
<1>3. clusters' = Put(clusters, c, k)
  <2>1. clusters' = [clusters EXCEPT ![c] = k]
    BY DEF Lifecycle
  <2> HIDE DEF k
  <2>2. DOMAIN clusters \cup {c} = DOMAIN clusters
    OBVIOUS
  <2>3. [clusters EXCEPT ![c] = k] = [d \in DOMAIN clusters |-> IF d = c THEN k ELSE clusters[d]]
    BY Zenon
  <2> QED BY <2>1, <2>2, <2>3 DEF Put
<1>4. ScheduleTransition(c, k.goal) /\ UNCHANGED <<policies, pools>>
  BY <1>2 DEF Lifecycle
<1> HIDE DEF k
<1> QED BY <1>1, <1>2, <1>3, <1>4, ScheduleKeepsInvariant

(***************************************************************************)
(* A coroutine that wakes up keeps the invariant: if its token is current  *)
(* its target is the cluster's goal.                                       *)
(***************************************************************************)
LEMMA TransitionKeepsInvariant ==
  ASSUME Backed, NEW x \in Timer, Transition(x)
  PROVE  Backed'
<1> DEFINE c == x.cluster
<1>1. x \in timers /\ timers' = timers \ {x} /\ UNCHANGED <<policies, pools>>
  BY DEF Transition
<1>2. CASE c \in DOMAIN tokens /\ tokens[c] = x.token
  <2>1. c \in DOMAIN clusters
    BY <1>2 DEF Backed, TypeOK
  <2>2. /\ tokens' = Drop(tokens, c)
        /\ clusters' = [clusters EXCEPT ![c] = [@ EXCEPT !.state = x.target, !.forced = FALSE]]
    BY <1>2, <2>1 DEF Transition
  <2>3. x = Asleep(c, tokens[c], clusters[c].goal)
    BY <1>1, <1>2 DEF Backed, TokenBacked, TokensUnique, Asleep
  <2>4. x.target = clusters[c].goal
    BY <2>3 DEF Asleep
  <2>5. /\ DOMAIN clusters' = DOMAIN clusters
        /\ DOMAIN tokens' = DOMAIN tokens \ {c}
        /\ clusters'[c] = [clusters[c] EXCEPT !.state = x.target, !.forced = FALSE]
        /\ \A d \in DOMAIN clusters : d # c => clusters'[d] = clusters[d]
        /\ \A d \in DOMAIN tokens' : tokens'[d] = tokens[d]
    BY <2>1, <2>2 DEF Drop
  <2>6. x.target \in Target /\ clusters[c] \in ClusterRecord
    BY <2>1 DEF Backed, TypeOK, Timer
  <2>7. /\ clusters'[c] \in ClusterRecord
        /\ clusters'[c].state = x.target /\ clusters'[c].goal = x.target
        /\ clusters'[c].forced = FALSE
    BY <2>4, <2>5, <2>6 DEF ClusterRecord, State
  <2> HIDE DEF c
  <2>8. TypeOK'
    BY <1>1, <2>1, <2>5, <2>7 DEF Backed, TypeOK
  <2>9. TokenBacked'
    <3> SUFFICES ASSUME NEW d \in DOMAIN tokens, d # c
                 PROVE  Asleep(d, tokens[d], clusters[d].goal) \in timers \ {x}
      BY <1>1, <2>5 DEF TokenBacked, Backed, TypeOK
    <3> QED BY <2>3 DEF Backed, TokenBacked, Asleep
  <2>10. TokensUnique'
    BY <1>1 DEF Backed, TokensUnique
  <2>11. LatestRequestWins'
    BY <2>5, <2>7 DEF Backed, LatestRequestWins
  <2> QED BY <2>8, <2>9, <2>10, <2>11 DEF Backed
<1>3. CASE ~(c \in DOMAIN tokens /\ tokens[c] = x.token)
  <2>1. UNCHANGED <<clusters, tokens>>
    BY <1>3 DEF Transition
  <2>2. TokenBacked'
    <3> SUFFICES ASSUME NEW d \in DOMAIN tokens
                 PROVE  Asleep(d, tokens[d], clusters[d].goal) # x
      BY <1>1, <2>1 DEF Backed, TokenBacked
    <3> QED BY <1>3 DEF Asleep
  <2> QED BY <1>1, <2>1, <2>2
          DEF Backed, TypeOK, TokensUnique, LatestRequestWins
<1> QED BY <1>2, <1>3

(***************************************************************************)
(* Every step of the services, a restart included, keeps the invariant.    *)
(***************************************************************************)
LEMMA BackedKept == Backed /\ [Next \/ Restart]_vars => Backed'
<1> SUFFICES ASSUME Backed, [Next \/ Restart]_vars PROVE Backed'
  OBVIOUS
<1>1. ASSUME NEW c \in Cluster, NEW r \in RefFields, CreateCluster(c, r) PROVE Backed'
  <2>1. /\ NewCluster(r) \in ClusterRecord
        /\ NewCluster(r).state \in Transitional
        /\ NewCluster(r).goal = "RUNNING"
    BY DEF NewCluster, RefFields, ClusterRecord, State, Transitional, Target
  <2> QED BY <1>1, <2>1, ScheduleKeepsInvariant DEF CreateCluster
<1>2. ASSUME NEW c \in Cluster, NEW r \in RefFields, EditCluster(c, r) PROVE Backed'
  BY <1>2, ReferencesKeepInvariant DEF EditCluster
<1>3. ASSUME NEW c \in Cluster, NEW r \in RefFields, UpdateCluster(c, r) PROVE Backed'
  BY <1>3, ReferencesKeepInvariant DEF UpdateCluster
<1>4. ASSUME NEW c \in Cluster, NEW s \in State, UpdateClusterState(c, s) PROVE Backed'
  <2>1. /\ DOMAIN clusters' = DOMAIN clusters /\ c \in DOMAIN clusters
        /\ clusters'[c] \in ClusterRecord
        /\ clusters'[c].goal = clusters[c].goal /\ clusters'[c].forced = TRUE
        /\ \A d \in DOMAIN clusters : d # c => clusters'[d] = clusters[d]
        /\ UNCHANGED <<tokens, timers, policies, pools>>
    BY <1>4 DEF UpdateClusterState, Backed, TypeOK, ClusterRecord
  <2> QED BY <2>1 DEF Backed, TypeOK, TokenBacked, TokensUnique, LatestRequestWins
<1>5. ASSUME NEW c \in Cluster,
             StartCluster(c) \/ TerminateCluster(c) \/ RestartCluster(c) \/ ResizeCluster(c)
      PROVE  Backed'
  BY <1>5, LifecycleKeepsInvariant
     DEF StartCluster, TerminateCluster, RestartCluster, ResizeCluster, Transitional, Target
<1>6. ASSUME NEW c \in Cluster, PermanentDeleteCluster(c) PROVE Backed'
  <2>1. /\ DOMAIN clusters' = DOMAIN clusters \ {c}
        /\ DOMAIN tokens' = DOMAIN tokens \ {c}
        /\ \A d \in DOMAIN clusters' : clusters'[d] = clusters[d]
        /\ \A d \in DOMAIN tokens' : tokens'[d] = tokens[d]
        /\ UNCHANGED <<timers, policies, pools>>
    BY <1>6 DEF PermanentDeleteCluster, Drop
  <2> QED BY <2>1 DEF Backed, TypeOK, TokenBacked, TokensUnique, LatestRequestWins
<1>7. ASSUME NEW x \in Timer, Transition(x) PROVE Backed'
  BY <1>7, TransitionKeepsInvariant
<1>8. ASSUME UNCHANGED <<clusters, tokens, timers>>,
             DOMAIN policies' \subseteq Policy, pools' \subseteq Pool,
             \A p \in DOMAIN policies' : policies'[p] \in Name \cup {NoName}
      PROVE  Backed'
  BY <1>8 DEF Backed, TypeOK, TokenBacked, TokensUnique, LatestRequestWins
<1>9. ASSUME NEW p \in Policy, NEW n \in Name, CreatePolicy(p, n) PROVE Backed'
  BY <1>8, <1>9 DEF CreatePolicy, Put, Backed, TypeOK
<1>10. ASSUME NEW p \in Policy, NEW n \in Name \cup {NoName}, EditPolicy(p, n) PROVE Backed'
  BY <1>8, <1>10 DEF EditPolicy, Backed, TypeOK
<1>11. ASSUME NEW p \in Policy, DeletePolicy(p) PROVE Backed'
  BY <1>8, <1>11 DEF DeletePolicy, Drop, Backed, TypeOK
<1>12. ASSUME NEW q \in Pool, CreateInstancePool(q) \/ DeleteInstancePool(q) PROVE Backed'
  BY <1>8, <1>12 DEF CreateInstancePool, DeleteInstancePool, Backed, TypeOK
<1>13. CASE Reset
  BY <1>13 DEF Reset, EmptyMap, Backed, TypeOK, TokenBacked, TokensUnique, LatestRequestWins
<1>14. CASE UNCHANGED vars
  BY <1>14 DEF vars, Backed, TypeOK, TokenBacked, TokensUnique, LatestRequestWins
<1>15. CASE Restart
  BY <1>15 DEF Restart, EmptyMap, Backed, TypeOK, TokenBacked, TokensUnique, LatestRequestWins
<1> QED BY <1>1, <1>2, <1>3, <1>4, <1>5, <1>6, <1>7, <1>9, <1>10, <1>11, <1>12, <1>13, <1>14, <1>15
        DEF Next

(***************************************************************************)
(* Without a restart a cluster in transition never loses its token: only   *)
(* the coroutine that ends the transition and a deletion drop it.          *)
(***************************************************************************)
LEMMA HasTokenKept == IInv /\ [Next]_vars => HasToken'
<1> SUFFICES ASSUME IInv, [Next]_vars PROVE HasToken'
  OBVIOUS
<1> USE DEF HasToken, InTransition
<1>1. ASSUME NEW c \in Cluster, NEW r \in RefFields, CreateCluster(c, r) PROVE HasToken'
  BY <1>1 DEF CreateCluster, ScheduleTransition, Put, IInv
<1>2. ASSUME NEW c \in Cluster, NEW r \in RefFields, EditCluster(c, r) \/ UpdateCluster(c, r)
      PROVE  HasToken'
  <2>1. /\ DOMAIN clusters' = DOMAIN clusters /\ tokens' = tokens
        /\ \A d \in DOMAIN clusters :
             clusters'[d].state = clusters[d].state /\ clusters'[d].forced = clusters[d].forced
    <3>1. /\ c \in DOMAIN clusters /\ tokens' = tokens
          /\ clusters' = [clusters EXCEPT ![c] = WithRefs(@, r)]
      BY <1>2 DEF EditCluster, UpdateCluster
    <3>2. \A d \in DOMAIN clusters : clusters[d] \in ClusterRecord
      BY DEF IInv, Backed, TypeOK
    <3> QED BY <3>1, <3>2 DEF WithRefs, ClusterRecord
  <2> QED BY <2>1 DEF IInv
<1>3. ASSUME NEW c \in Cluster, NEW s \in State, UpdateClusterState(c, s) PROVE HasToken'
  <2>1. /\ DOMAIN clusters' = DOMAIN clusters /\ tokens' = tokens
        /\ \A d \in DOMAIN clusters : clusters'[d].forced \/ clusters'[d] = clusters[d]
    BY <1>3 DEF UpdateClusterState, IInv, Backed, TypeOK, ClusterRecord
  <2> QED BY <2>1 DEF IInv
<1>4. ASSUME NEW c \in Cluster,
             StartCluster(c) \/ TerminateCluster(c) \/ RestartCluster(c) \/ ResizeCluster(c)
      PROVE  HasToken'
  <2>1. /\ DOMAIN clusters' = DOMAIN clusters
        /\ \A d \in DOMAIN clusters : d # c => clusters'[d] = clusters[d]
        /\ DOMAIN tokens' = DOMAIN tokens \cup {c}
    BY <1>4 DEF StartCluster, TerminateCluster, RestartCluster, ResizeCluster, Lifecycle,
                ScheduleTransition, Put
  <2> QED BY <2>1 DEF IInv
<1>5. ASSUME NEW c \in Cluster, PermanentDeleteCluster(c) PROVE HasToken'
  BY <1>5 DEF PermanentDeleteCluster, Drop, IInv
<1>6. ASSUME NEW x \in Timer, Transition(x) PROVE HasToken'
  <2>1. CASE UNCHANGED <<clusters, tokens>>
    BY <2>1 DEF IInv
  <2>2. CASE ~UNCHANGED <<clusters, tokens>>
    <3>1. x.cluster \in DOMAIN tokens /\ x.cluster \in DOMAIN clusters /\ x.target \in Target
      BY <1>6, <2>2 DEF Transition, Timer, IInv, Backed, TypeOK
    <3>2. /\ tokens' = Drop(tokens, x.cluster)
          /\ clusters' = [clusters EXCEPT ![x.cluster] =
                            [@ EXCEPT !.state = x.target, !.forced = FALSE]]
      BY <1>6, <2>2, <3>1 DEF Transition
    <3>3. clusters'[x.cluster].state \notin Transitional
      BY <3>1, <3>2 DEF Transitional, Target, IInv, Backed, TypeOK, ClusterRecord
    <3> QED BY <3>1, <3>2, <3>3 DEF Drop, IInv
  <2> QED BY <2>1, <2>2
<1>7. CASE UNCHANGED <<clusters, tokens>>
  BY <1>7 DEF IInv
<1>8. CASE Reset
  BY <1>8 DEF Reset, EmptyMap
<1> QED BY <1>1, <1>2, <1>3, <1>4, <1>5, <1>6, <1>7, <1>8
        DEF Next, vars, CreatePolicy, EditPolicy, DeletePolicy, CreateInstancePool,
            DeleteInstancePool

(***************************************************************************)
(* Every behaviour of one process is one of a restarted server, and the    *)
(* two invariants hold in the behaviours they are for.                     *)
(***************************************************************************)
LEMMA OneLifeIsALife == Spec => LivesSpec
  BY PTL DEF Spec, LivesSpec

LEMMA BackedHolds == LivesSpec => []Backed
<1>1. Init => Backed
  BY DEF Init, EmptyMap, Backed, TypeOK, TokenBacked, TokensUnique, LatestRequestWins
<1> QED BY <1>1, BackedKept, PTL DEF LivesSpec

LEMMA InvariantHolds == Spec => []IInv
<1>1. Init => HasToken
  BY DEF Init, EmptyMap, HasToken
<1>2. Backed /\ HasToken /\ [Next]_vars => HasToken'
  BY HasTokenKept DEF IInv
<1>3. Spec => []Backed
  BY OneLifeIsALife, BackedHolds, PTL
<1>4. Spec => []HasToken
  BY <1>1, <1>2, <1>3, PTL DEF Spec
<1>5. Backed /\ HasToken <=> IInv
  BY DEF IInv
<1> QED BY <1>3, <1>4, <1>5, PTL

(***************************************************************************)
(* For any clusters and any order of requests and wake-ups, a cluster in   *)
(* transition has a coroutine asleep that will be obeyed and that leads to *)
(* the goal of the latest request (_schedule_transition, _transition).     *)
(***************************************************************************)
THEOREM TransitionsArePending == Spec => []TransitionPending
<1>1. IInv => TransitionPending
  BY DEF IInv, Backed, TokenBacked, HasToken, TransitionPending
<1> QED BY <1>1, InvariantHolds, PTL

(***************************************************************************)
(* For any clusters and any order of requests, wake-ups and restarts, a    *)
(* cluster at rest is where the latest lifecycle request sent it: no       *)
(* superseded coroutine ever moved it, and none of an earlier process.     *)
(***************************************************************************)
THEOREM LatestRequestDecides == LivesSpec => []LatestRequestWins
<1>1. Backed => LatestRequestWins
  BY DEF Backed
<1> QED BY <1>1, BackedHolds, PTL

(***************************************************************************)
(* No step takes away a policy or a pool that a cluster goes on naming     *)
(* (delete_policy, delete_instance_pool, a restart and everything else).   *)
(***************************************************************************)
THEOREM ReferencesAreKept == LivesSpec => ReferencesKept
<1> DEFINE Kept ==
      \A c \in DOMAIN clusters \cap DOMAIN clusters' :
        /\ clusters'[c].policy = clusters[c].policy /\ clusters[c].policy \in DOMAIN policies
             => clusters'[c].policy \in DOMAIN policies'
        /\ clusters'[c].pool = clusters[c].pool /\ clusters[c].pool \in pools
             => clusters'[c].pool \in pools'
<1>1. [Next \/ Restart]_vars => Kept \/ UNCHANGED vars
  <2> SUFFICES ASSUME Next \/ Restart PROVE Kept
    OBVIOUS
  <2>1. CASE UNCHANGED <<policies, pools>>
    BY <2>1
  <2>2. ASSUME NEW p \in Policy, NEW n, CreatePolicy(p, n) \/ EditPolicy(p, n) PROVE Kept
    BY <2>2 DEF CreatePolicy, EditPolicy, Put
  <2>3. ASSUME NEW p \in Policy, DeletePolicy(p) PROVE Kept
    BY <2>3 DEF DeletePolicy, Drop
  <2>4. ASSUME NEW q \in Pool, CreateInstancePool(q) \/ DeleteInstancePool(q) PROVE Kept
    BY <2>4 DEF CreateInstancePool, DeleteInstancePool
  <2>5. CASE Reset
    BY <2>5 DEF Reset, EmptyMap
  <2> QED BY <2>1, <2>2, <2>3, <2>4, <2>5
          DEF Next, CreateCluster, EditCluster, UpdateCluster, UpdateClusterState, StartCluster,
              TerminateCluster, RestartCluster, ResizeCluster, Lifecycle, PermanentDeleteCluster,
              Transition, Restart
<1>2. [Next \/ Restart]_vars => [Kept]_vars
  BY <1>1
<1> QED BY <1>2, PTL DEF LivesSpec, ReferencesKept

(***************************************************************************)
(* For any policies and any creations, edits, deletions and restarts, no   *)
(* two policies have the same name (_name_taken of cluster_policies.py).   *)
(***************************************************************************)
THEOREM PolicyNamesStayUnique == LivesSpec => []PolicyNamesUnique
<1>1. Init => PolicyNamesUnique
  BY DEF Init, EmptyMap, PolicyNamesUnique
<1>2. PolicyNamesUnique /\ [Next \/ Restart]_vars => PolicyNamesUnique'
  <2> SUFFICES ASSUME PolicyNamesUnique, [Next \/ Restart]_vars PROVE PolicyNamesUnique'
    OBVIOUS
  <2>1. CASE UNCHANGED policies
    BY <2>1 DEF PolicyNamesUnique
  <2>2. ASSUME NEW p \in Policy, NEW n \in Name, CreatePolicy(p, n) PROVE PolicyNamesUnique'
    BY <2>2 DEF CreatePolicy, NameTaken, Put, PolicyNamesUnique
  <2>3. ASSUME NEW p \in Policy, NEW n \in Name \cup {NoName}, EditPolicy(p, n)
        PROVE  PolicyNamesUnique'
    BY <2>3 DEF EditPolicy, NameTaken, PolicyNamesUnique
  <2>4. ASSUME NEW p \in Policy, DeletePolicy(p) PROVE PolicyNamesUnique'
    BY <2>4 DEF DeletePolicy, Drop, PolicyNamesUnique
  <2>5. CASE Reset
    BY <2>5 DEF Reset, EmptyMap, PolicyNamesUnique
  <2>6. CASE UNCHANGED vars
    BY <2>1, <2>6 DEF vars
  <2> QED BY <2>1, <2>2, <2>3, <2>4, <2>5, <2>6
          DEF Next, CreateCluster, EditCluster, UpdateCluster, UpdateClusterState, StartCluster,
              TerminateCluster, RestartCluster, ResizeCluster, Lifecycle, PermanentDeleteCluster,
              Transition, CreateInstancePool, DeleteInstancePool, Restart
<1> QED BY <1>1, <1>2, PTL DEF LivesSpec
=============================================================================
