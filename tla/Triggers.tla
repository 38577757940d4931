------------------------------- MODULE Triggers -------------------------------
(***************************************************************************)
(* From a change to the pass that acts on it: the cluster handler and the  *)
(* namespace controller feed SharedInformation, the watch on               *)
(* (Cluster)Replicas feeds the workqueue directly, and a single worker     *)
(* runs one pass after the other.  A pass is reduced to what decides       *)
(* whether another one is needed: what it reads, when it writes the        *)
(* status, and which copies it leaves behind; ReplicaController has its    *)
(* details.  There is no periodic reconciliation (an interval of 0).       *)
(***************************************************************************)
EXTENDS ClusterHandler, NamespaceController

CONSTANTS
  Capacity,  \* of replicaNotificationChannel
  MaxLag     \* bound on the versions the cache lags behind

VARIABLES
  watch,  \* versions of a (Cluster)Replica: from the cached to the current one
  pass,   \* local state of the pass in progress
  revived, \* history: the last write of a (Cluster)Replica to a place met a copy
           \* of its own that was in deletion
  pendingReplicas, replicaNotificationChannel, thread, queue, worker,
  owed, dropped

SI == INSTANCE SharedInformation
        WITH Keys <- Replicas, Threads <- {"cluster", "namespace"}

shared == <<pendingReplicas, replicaNotificationChannel, thread, queue, worker,
            owed, dropped>>
vars == <<platform, edits, clusterHandler, namespaceController, watch, pass, revived,
          shared>>

\* A pass that fails is retried; a target that is skipped is not, until the
\* next event: here every target that cannot be synced is a failure.
ASSUME RetriedAssumption ==
  \A s \in Specs : \A i \in DOMAIN s.targets :
    s.targets[i].conflict # "Skip" /\ s.targets[i].missing # "Skip"
ASSUME BoundsAssumption == Capacity \in Nat /\ MaxLag \in Nat

NoPass ==
  [step |-> "end", rep |-> NoReplica, old |-> {}, list |-> <<>>, plan |-> {},
   failed |-> {}, retry |-> FALSE]

\* What the informer has seen, and what it is told when a process starts.
Cached == [r \in Replicas |-> Head(watch[r])]
Announced(r) ==
  IF replica[r].phase = "absent" THEN <<NoReplica>> ELSE <<NoReplica, replica[r]>>

Init ==
  /\ PlatformInit
  /\ ClusterHandlerInit
  /\ NamespaceControllerInit
  /\ watch = [r \in Replicas |-> Announced(r)]
  /\ pass = NoPass
  /\ revived = {}
  /\ SI!Init

\* Every version of a (Cluster)Replica is sent to the informer.
Publish ==
  /\ watch' = [r \in Replicas |-> IF replica'[r] = replica[r] THEN watch[r]
                                  ELSE Append(watch[r], replica'[r])]
  /\ \A r \in Replicas : Len(watch'[r]) <= MaxLag + 1

------------------------------------------------------------------------------
(* Changes and the events they cause *)

ReplicaEdited(r, s) ==
  /\ \/ CreateReplica(r, s)
     \/ \E op \in {"none", "ignore", "reconcile"} : EditReplica(r, s, op)
  /\ Publish
  /\ UNCHANGED <<clusterHandler, namespaceController, pass, revived, shared>>

ClusterEdited(c) ==
  /\ ClusterGone(c) \/ \E x \in Places({"live", "deleting"}) : EditCluster(c, x)
  /\ clusterQueue' = clusterQueue \cup {c}
  /\ UNCHANGED <<clusterStates, clusterTodo, namespaceController, watch, pass, revived,
                 shared>>

\* A resync, or a change the selectors and copies do not depend on.
ClusterUnaltered(c) ==
  /\ Edit
  /\ clusters[c].state # "absent"
  /\ c \notin clusterQueue
  /\ clusterQueue' = clusterQueue \cup {c}
  /\ UNCHANGED <<platform, clusterStates, clusterTodo, namespaceController, watch,
                 pass, revived, shared>>

NamespaceEdited(c, n) ==
  /\ \/ \E x \in Places({"live", "deleting"}) : EditNamespace(c, n, x)
     \/ NamespaceGone(c, n)
  /\ IF namespaces[c][n].state = "absent" THEN NamespaceEvents({<<c, n>>}, {})
     ELSE NamespaceEvents({}, {<<c, n>>})
  /\ UNCHANGED <<namespaceTodo, clusterHandler, watch, pass, revived, shared>>

CopyVanishes(l) ==
  /\ Vanish(l)
  /\ UNCHANGED <<clusterHandler, namespaceController, watch, pass, revived, shared>>

\* The process restarts: informers announce all (Cluster)Replicas and Clusters
\* again, while existing namespaces are older than the new startTime.
Restart ==
  /\ Edit
  /\ SI!Reset
  /\ watch' = [r \in Replicas |-> Announced(r)]
  /\ pass' = NoPass
  /\ clusterQueue' = {c \in Clusters : clusters[c].state # "absent"}
  /\ clusterStates' = [c \in Clusters |-> NoState]
  /\ clusterTodo' = {}
  /\ namespaceQueue' = {}
  /\ namespaceTodo' = {}
  /\ starting' = TRUE
  /\ unseen' = {}
  /\ UNCHANGED <<platform, revived>>

------------------------------------------------------------------------------
(* The watch on (Cluster)Replicas *)

\* Mutant: an edit counts only if the annotation stays as it is.
PassesIfAnnotationKept(old, new) ==
  /\ new.op # "ignore"
  /\ old.phase = "absent" \/ (new.spec # old.spec /\ new.op = old.op)

\* replicaPredicates: creations and changes of the spec or the annotations pass,
\* unless the object is ignored or has just lost its reconcile annotation; what
\* changes in the status does not count.
Passes(old, new) ==
  /\ new.op # "ignore"
  /\ \/ old.phase = "absent"
     \/ /\ new.spec # old.spec \/ new.op # old.op
        /\ ~(old.op = "reconcile" /\ new.op # "reconcile")

Observe(r) ==
  /\ Len(watch[r]) > 1
  /\ watch' = [watch EXCEPT ![r] = Tail(@)]
  /\ IF Passes(watch[r][1], watch[r][2]) /\ r \notin queue
     THEN SI!Trigger(r) ELSE UNCHANGED shared
  /\ UNCHANGED <<platform, edits, clusterHandler, namespaceController, pass,
                 revived>>

------------------------------------------------------------------------------
(* The event handlers call EnqueueReplica for one (Cluster)Replica at a time. *)

HandleCluster(c) ==
  /\ thread["cluster"].step = "idle"
  /\ \/ HandleCreateOrUpdate(Cached, c)
     \/ HandleClusterDelete(Cached, c)
     \/ AfterDeletion(c)
  /\ UNCHANGED <<platform, edits, namespaceController, watch, pass, revived, shared>>

HandleNamespace(c, n) ==
  /\ thread["namespace"].step = "idle"
  /\ ReconcileNamespace(Cached, c, n)
  /\ UNCHANGED <<platform, edits, clusterHandler, watch, pass, revived, shared>>

EnqueueForCluster(r) ==
  /\ r \in clusterTodo
  /\ SI!EnqueueReplica("cluster", r)
  /\ clusterTodo' = clusterTodo \ {r}
  /\ UNCHANGED <<platform, edits, clusterQueue, clusterStates, namespaceController,
                 watch, pass, revived>>

EnqueueForNamespace(r) ==
  /\ r \in namespaceTodo
  /\ SI!EnqueueReplica("namespace", r)
  /\ namespaceTodo' = namespaceTodo \ {r}
  /\ UNCHANGED <<platform, edits, clusterHandler, namespaceQueue, starting, unseen,
                 watch, pass, revived>>

\* The rest of a call, the channel, and the worker up to its first read.
SharedStep ==
  /\ \/ \E t \in {"cluster", "namespace"} : SI!Send(t) \/ SI!Drop(t)
     \/ SI!Deliver
     \/ \E r \in Replicas : SI!Take(r)
     \/ SI!ClearPending
  /\ UNCHANGED <<platform, edits, clusterHandler, namespaceController, watch, pass,
                 revived>>

------------------------------------------------------------------------------
(* A pass *)

\* Mutant: the mark is not cleared before the object is read.
ReadUncleared ==
  LET seen == Cached[worker.key]
  IN /\ worker.step \in {"taken", "cleared"}
     /\ worker' = [worker EXCEPT !.step = "running"]
     /\ owed' = owed \ {worker.key}
     /\ pass' = [NoPass EXCEPT !.step = "resolve", !.rep = seen, !.list = clusters]
     /\ UNCHANGED <<platform, edits, clusterHandler, namespaceController, watch,
                    revived, pendingReplicas, replicaNotificationChannel, thread, queue,
                    dropped>>

\* The (Cluster)Replica is read from the cache, its reconcile annotation removed
\* on the server whatever its value is by then, and the Clusters are listed.
ReadReplica ==
  LET r == worker.key
      seen == Cached[r]
  IN /\ SI!ReadReplica
     /\ IF seen.phase # "absent" /\ seen.op # "ignore"
        THEN /\ replica' = IF seen.op = "reconcile"
                           THEN [replica EXCEPT ![r].op = "none"] ELSE replica
             /\ LET rep == IF seen.op = "reconcile" THEN replica'[r] ELSE seen
                IN pass' = [NoPass EXCEPT !.step = "resolve", !.list = clusters,
                                          !.rep = rep, !.old = rep.status]
        ELSE UNCHANGED <<replica, pass>>
     /\ Publish
     /\ UNCHANGED <<clusters, namespaces, store, source, edits, clusterHandler,
                    namespaceController, revived>>

\* The clusters on which a target definition is resolved.
Targeted(t, list) ==
  {c \in Matches(t, list) : /\ c \in Clusters => list[c].state = "live"
                            /\ t.on = "nextTo" \/ Reachable(c)}

\* What spec s selects, given a list of Clusters: targets with status entries.
Selection(s, list) ==
  UNION {UNION {{<<t, EntryOf(s, t, c, n)>> : n \in SelectedNamespaces(t, c)} :
                  c \in Targeted(t, list)} :
           t \in {s.targets[i] : i \in DOMAIN s.targets}}

\* The copy may be written: it is ours or free, in a namespace that is there or
\* that the pass creates.
NamespaceMissing(e) ==
  /\ e.namespace # NoNamespace
  /\ NamespaceState(e.cluster, e.namespace) = "absent"
Syncable(r, t, e) ==
  /\ Reachable(e.cluster)
  /\ store[Loc(e)].owner \in {NoOwner, r}
  /\ CanWrite(e) \/ (t.missing = "Create" /\ NamespaceMissing(e))

\* Namespaces are listed, templates rendered, policies applied and missing
\* namespaces created.  What failed, or is on a cluster that did, is retried.
Resolve ==
  LET s == pass.rep.spec
      selection == Selection(s, pass.list)
      good == {x \in selection : Syncable(worker.key, x[1], x[2])}
      lost == {c \in Clusters : /\ pass.list[c].state = "live" /\ ~Reachable(c)
                                /\ \E i \in DOMAIN s.targets :
                                     c \in Matches(s.targets[i], pass.list)}
      created == {<<x[2].cluster, x[2].namespace>> :
                    x \in {y \in good : NamespaceMissing(y[2])}}
  IN /\ worker.step = "running" /\ pass.step = "resolve"
     /\ pass' = [pass EXCEPT
                   !.step = "track",
                   !.plan = {x[2] : x \in good},
                   !.failed = {x[2] : x \in selection \ good}
                                \cup {e \in pass.rep.status : e.cluster \in lost},
                   !.retry = selection # good \/ lost # {}]
     /\ namespaces' = [c \in Refs |-> [n \in Namespaces |->
                         IF <<c, n>> \in created
                         THEN [namespaces[c][n] EXCEPT !.state = "live"]
                         ELSE namespaces[c][n]]]
     /\ NamespaceEvents(created, {})
     /\ UNCHANGED <<replica, clusters, store, source, edits, clusterHandler,
                    namespaceTodo, watch, revived, shared>>

\* Copies are entered into the status before they are written.
TrackInStatus ==
  LET list == pass.rep.status \cup pass.plan
  IN /\ worker.step = "running" /\ pass.step = "track"
     /\ replica' = IF list = pass.rep.status THEN replica
                   ELSE [replica EXCEPT ![worker.key].status = list]
     /\ pass' = [pass EXCEPT !.step = "sync", !.rep.status = list, !.old = list]
     /\ Publish
     /\ UNCHANGED <<clusters, namespaces, store, source, edits, clusterHandler,
                    namespaceController, revived, shared>>

\* The labels of an object name the kind and the name of (Cluster)Replica r.
IsManaged(o, r) == o.owner # NoOwner /\ o.owner.kind = r.kind /\ o.owner.name = r.name

\* The store once the pass has written the copies it can write: an object that is
\* in deletion takes the new content and stays in deletion.
Written(synced) ==
  [l \in Locations |->
     IF \E e \in synced : Loc(e) = l
     THEN [NoObject EXCEPT !.owner = worker.key,
                           !.state = IF store[l].state = "deleting" THEN "deleting"
                                     ELSE "live"]
     ELSE store[l]]

\* Copies are written, then the deletion of obsolete ones is started.  Their
\* entries leave the list when a later pass finds them gone: until then the smart
\* requeue asks for that pass, as an error does for what could not be accessed.
Sync ==
  LET synced == {e \in pass.plan : CanWrite(e)}
      written == Written(synced)
      obsolete == pass.rep.status \ (pass.plan \cup pass.failed)
      pruned == {e \in obsolete : /\ e.cluster \in Clusters
                                  /\ pass.list[e.cluster].state = "absent"}
      dying == {e \in obsolete \ pruned : /\ Reachable(e.cluster)
                                         /\ IsManaged(written[Loc(e)], worker.key)}
      lost == {e \in obsolete \ pruned : ~Reachable(e.cluster)}
      done == obsolete \ (dying \cup lost)
  IN /\ worker.step = "running" /\ pass.step = "sync"
     /\ store' = [l \in Locations |-> IF \E e \in dying : Loc(e) = l
                                      THEN [written[l] EXCEPT !.state = "deleting"]
                                      ELSE written[l]]
     /\ revived' = {x \in revived : x \notin {<<worker.key, Loc(e)>> : e \in synced}}
                     \cup {<<worker.key, Loc(e)>> :
                              e \in {f \in synced : store[Loc(f)].state = "deleting"}}
     /\ pass' = [pass EXCEPT !.step = "status", !.rep.status = @ \ done,
                             !.retry = @ \/ synced # pass.plan \/ done # obsolete]
     /\ UNCHANGED <<replica, clusters, namespaces, source, edits, clusterHandler,
                    namespaceController, watch, shared>>

\* The final patch, if the list differs from the last one read or written; after
\* an error, or while deletions are awaited, the request comes back to the queue.
UpdateStatus ==
  /\ worker.step = "running" /\ pass.step = "status"
  /\ replica' = IF pass.rep.status = pass.old THEN replica
                ELSE [replica EXCEPT ![worker.key].status = pass.rep.status]
  /\ pass' = NoPass
  /\ IF pass.retry /\ worker.key \notin queue THEN SI!Trigger(worker.key)
     ELSE SI!Finish
  /\ Publish
  /\ UNCHANGED <<clusters, namespaces, store, source, edits, clusterHandler,
                 namespaceController, revived>>

EndPass ==
  /\ pass.step = "end"
  /\ SI!Finish
  /\ UNCHANGED <<platform, edits, clusterHandler, namespaceController, watch, pass,
                 revived>>

PassStep == ReadReplica \/ Resolve \/ TrackInStatus \/ Sync \/ UpdateStatus \/ EndPass

------------------------------------------------------------------------------
Change ==
  \/ \E r \in Replicas, s \in Specs : ReplicaEdited(r, s)
  \/ \E c \in Clusters : ClusterEdited(c) \/ ClusterUnaltered(c)
  \/ \E c \in Refs, n \in Namespaces : NamespaceEdited(c, n)
  \/ \E l \in Locations : CopyVanishes(l)
  \/ Restart

Next ==
  \/ Change
  \/ \E r \in Replicas : Observe(r) \/ EnqueueForCluster(r) \/ EnqueueForNamespace(r)
  \/ \E c \in Clusters : HandleCluster(c)
  \/ \E c \in Refs, n \in Namespaces : HandleNamespace(c, n)
  \/ SharedStep
  \/ PassStep

Spec == Init /\ [][Next]_vars

\* Informers deliver, handlers and workers are running goroutines, and their
\* queues are first come, first served.
Fairness ==
  /\ \A r \in Replicas : /\ WF_vars(Observe(r))
                         /\ SF_vars(EnqueueForCluster(r))
                         /\ SF_vars(EnqueueForNamespace(r))
                         /\ SF_vars(SharedStep /\ SI!Take(r))
  /\ \A c \in Clusters : SF_vars(HandleCluster(c))
  /\ \A c \in Refs, n \in Namespaces : SF_vars(HandleNamespace(c, n))
  /\ \A t \in {"cluster", "namespace"} : WF_vars(SharedStep /\ (SI!Send(t) \/ SI!Drop(t)))
  /\ WF_vars(SharedStep /\ SI!Deliver)
  /\ WF_vars(PassStep \/ (SharedStep /\ SI!ClearPending))
FairSpec == Spec /\ Fairness

------------------------------------------------------------------------------
(* Properties *)

\* Every variable has the shape the code gives it; the cached version of a
\* (Cluster)Replica is followed by the newer ones, up to the server's.
TypeOK ==
  /\ PlatformTypeOK /\ ClusterHandlerTypeOK /\ NamespaceControllerTypeOK
  /\ SI!TypeOK
  /\ \A r \in Replicas : /\ watch[r] \in Seq(ReplicaObjects)
                         /\ watch[r] # <<>>
                         /\ watch[r][Len(watch[r])] = replica[r]
  /\ pass.step \in {"resolve", "track", "sync", "status", "end"}
  /\ pass.rep \in ReplicaObjects
  /\ revived \in SUBSET (Replicas \X Locations)

\* The handlers, the watch and the passes use the notification path only as
\* SharedInformation allows, which is what its properties are proved for.
UsesSharedInformation == SI!Spec

Wanted(r) == {x[2] : x \in Selection(replica[r].spec, clusters)}

\* The (Cluster)Replica is to be reconciled, and no notification was dropped.
Due(r) == replica[r].phase = "live" /\ replica[r].op # "ignore" /\ r \notin dropped

\* Nothing is under way that could lead to a pass over r.
Quiet(r) ==
  /\ r \notin queue \cup clusterTodo \cup namespaceTodo
  /\ ~SI!InChannel(r) /\ ~SI!InCall(r, {"send", "drop"})
  /\ worker.step # "idle" => worker.key # r
  /\ Len(watch[r]) = 1
  /\ clusterQueue = {}
  /\ \A x \in namespaceQueue : ~Reachable(x[1])

\* Every selected place has its copy, in a namespace that is there to stay and
\* was not created in the second in which the process started.  The exception is a
\* place where the last write met a copy in deletion: the write succeeds (523-525,
\* 647), nobody waits for the deletion any more (688), and the copy is lost.
Served(r) ==
  \A e \in Wanted(r) :
    \/ e.namespace = NoNamespace
    \/ /\ NamespaceState(e.cluster, e.namespace) = "live"
       /\ <<e.cluster, e.namespace>> \notin unseen
    => store[Loc(e)].owner # NoOwner \/ <<r, Loc(e)>> \in revived

\* No change is missed: when the events of all changes were handled and no pass
\* is left to run, a (Cluster)Replica has a copy everywhere it selects, though
\* events, the cache and passes overtake each other and the process restarts
\* (handler.go 126-167, namespace/controller.go 119-150, 971-993).
NewMatchesServed == \A r \in Replicas : Quiet(r) /\ Due(r) => Served(r)

\* "Resource copies are automatically deleted if ... their `Cluster` or
\* namespace changes its labels to not match the selectors anymore" (docs/usage/
\* purpose.md:13): no copy is left where the spec does not select any more.
ObsoleteServed ==
  \A r \in Replicas : Quiet(r) /\ Due(r) =>
    \A l \in Locations :
      store[l].owner = r => \E e \in Wanted(r) : Loc(e) = l

\* Once the changes end, every (Cluster)Replica gets the copies it selects and
\* keeps them, without any periodic reconciliation.
EventuallyServed == <>[](\A r \in Replicas : Due(r) => Served(r))

=============================================================================
