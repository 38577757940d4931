-------------------------- MODULE NamespaceController --------------------------
(***************************************************************************)
(* The namespace controller (internal/namespace/controller.go): it watches *)
(* the namespaces of the platform cluster and of all other clusters and    *)
(* picks the (Cluster)Replicas for which EnqueueReplica is called.         *)
(***************************************************************************)
EXTENDS Platform

VARIABLES
  namespaceQueue,  \* cluster and name of namespaces to be reconciled
  namespaceTodo,   \* (Cluster)Replicas the loop of 105-110 will enqueue
  starting,        \* nothing was created after the second of startTime yet
  unseen           \* history: namespaces created in it, without an event since

namespaceController == <<namespaceQueue, namespaceTodo, starting, unseen>>

NamespaceControllerInit ==
  /\ namespaceQueue = {}
  /\ namespaceTodo = {}
  /\ starting = TRUE
  /\ unseen = {}

\* Creation timestamps have no fraction of a second, startTime has, so what is
\* created in the second of startTime is not After it.
CreateFunc(inSecond) == ~inSecond

\* Only the predicate for creations is restrictive: a predicate.Funcs lets all
\* updates and deletions pass, whether labels changed or not.  The clock may have
\* passed the second of startTime when something is created.
NamespaceEvents(created, others) ==
  /\ starting' \in IF created = {} THEN {starting} ELSE {starting, FALSE}
  /\ namespaceQueue' = namespaceQueue \cup others
                         \cup IF CreateFunc(starting') THEN created ELSE {}
  /\ unseen' = (unseen \ others) \cup IF CreateFunc(starting') THEN {} ELSE created

SelectsNamespace(o, c, n) ==
  \E i \in DOMAIN o.spec.targets :
    /\ o.spec.targets[i].on # "nextTo"
    /\ SelectorMatches(o.spec.targets[i], c, n)

HasCopyIn(o, c, n) == \E e \in o.status : e.cluster = c /\ e.namespace = n

\* Mutant: a namespace that is selected but has no copy yet is not relevant.
RelevantByStatus(o, c, n) == HasCopyIn(o, c, n)

\* replicaIsRelevantForNamespaceEvent; the selector of a target for one cluster
\* also reacts to namespaces of others.
Relevant(o, c, n) == SelectsNamespace(o, c, n) \/ HasCopyIn(o, c, n)

\* Without access to the cluster the request fails and stays in the queue.
ReconcileNamespace(reps, c, n) ==
  /\ namespaceTodo = {}
  /\ <<c, n>> \in namespaceQueue
  /\ Reachable(c)
  /\ namespaceQueue' = namespaceQueue \ {<<c, n>>}
  /\ namespaceTodo' =
       IF NamespaceState(c, n) = "absent" THEN {}
       ELSE {r \in Listed(reps) : Relevant(reps[r], c, n)}
  /\ UNCHANGED <<starting, unseen>>

NamespaceControllerTypeOK ==
  /\ namespaceQueue \in SUBSET (Refs \X Namespaces)
  /\ namespaceTodo \in SUBSET Replicas
  /\ starting \in BOOLEAN
  /\ unseen \in SUBSET (Refs \X Namespaces)

=============================================================================
