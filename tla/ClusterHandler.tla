---------------------------- MODULE ClusterHandler ----------------------------
(***************************************************************************)
(* The cluster handler (internal/cluster/handler.go): the multicluster     *)
(* provider calls it when a Cluster resource was created, changed, put     *)
(* into deletion or dropped, and it picks the (Cluster)Replicas for which  *)
(* EnqueueReplica is called one after the other.  It is built without a    *)
(* selector (run.go), so it is responsible for every Cluster.              *)
(***************************************************************************)
EXTENDS Platform

VARIABLES
  clusterQueue,   \* Clusters with an event the handler was not called for yet
  clusterStates,
  clusterTodo     \* (Cluster)Replicas the loop of 126-167 will enqueue

clusterHandler == <<clusterQueue, clusterStates, clusterTodo>>

NoState == [state |-> "absent", label |-> "none"]

ClusterHandlerInit ==
  /\ clusterQueue = Clusters
  /\ clusterStates = [c \in Clusters |-> NoState]
  /\ clusterTodo = {}

\* A cluster-scoped copy on the Cluster, or any copy next to it.
HasCopyOf(o, c) ==
  \E e \in o.status :
    \/ e.namespace = NoNamespace /\ e.cluster = c
    \/ e.cluster = Host /\ e.namespace = NamespaceOf[c]

SelectsCluster(o, c) ==
  \E i \in DOMAIN o.spec.targets :
    /\ o.spec.targets[i].on # "hosting"
    /\ clusters[c].label \in o.spec.targets[i].selector

\* The (Cluster)Replicas that enqueueAllReplicasForCluster enqueues.
Associated(reps, c) ==
  {r \in Listed(reps) : HasCopyOf(reps[r], c) \/ SelectsCluster(reps[r], c)}

\* A state is compared, and renewed, only if there is one already.
ClusterStateChanged(c) ==
  \/ clusterStates[c] = NoState
  \/ clusterStates[c] # clusters[c]
RememberState(c) ==
  IF clusterStates[c] = NoState THEN clusterStates
  ELSE [clusterStates EXCEPT ![c] = clusters[c]]

\* The handler's only goroutine takes the next event.
TakeCluster(c) ==
  /\ clusterTodo = {}
  /\ c \in clusterQueue
  /\ clusterQueue' = clusterQueue \ {c}

HandleCreateOrUpdate(reps, c) ==
  /\ TakeCluster(c)
  /\ clusters[c].state = "live"
  /\ clusterStates' = RememberState(c)
  /\ clusterTodo' = IF ClusterStateChanged(c) THEN Associated(reps, c) ELSE {}

\* Named HandleDelete in the code, like a method of the replica controller.
HandleClusterDelete(reps, c) ==
  /\ TakeCluster(c)
  /\ clusters[c].state = "deleting"
  /\ clusterTodo' = Associated(reps, c)
  /\ UNCHANGED clusterStates

AfterDeletion(c) ==
  /\ TakeCluster(c)
  /\ clusters[c].state = "absent"
  /\ clusterStates' = [clusterStates EXCEPT ![c] = NoState]
  /\ UNCHANGED clusterTodo

ClusterHandlerTypeOK ==
  /\ clusterQueue \in SUBSET Clusters
  /\ clusterStates \in [Clusters -> Places({"live", "deleting"}) \cup {NoState}]
  /\ clusterTodo \in SUBSET Replicas

=============================================================================
