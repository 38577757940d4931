---------------------------- MODULE TriggersProofs ----------------------------
(***************************************************************************)
(* The composition implements SharedInformation, so that what is proved of *)
(* the notification path holds of it as the controllers use it; its types  *)
(* hold; and no change of a (Cluster)Replica, a Cluster or a namespace is  *)
(* missed: every place that is selected has its copy once all events were  *)
(* handled.                                                                *)
(***************************************************************************)
EXTENDS Triggers, PlatformProofs

\* The worker only ever works on a (Cluster)Replica.
WorkerKnown == worker.step # "idle" => worker.key \in Replicas

\* What a process does with the notification path before it dies.
SharedWork ==
  \/ \E t \in {"cluster", "namespace"} :
       SI!Send(t) \/ SI!Drop(t) \/ \E r \in Replicas : SI!EnqueueReplica(t, r)
  \/ \E r \in Replicas : SI!Trigger(r) \/ SI!Take(r)
  \/ SI!Deliver \/ SI!ClearPending \/ SI!ReadReplica \/ SI!Finish

\* A step of the composition that has anything to do with the notification path
\* is one of its steps; the rest leaves it alone.
LEMMA StepUsesShared ==
  ASSUME WorkerKnown, [Next]_vars
  PROVE  Restart \/ SharedWork \/ UNCHANGED shared
<1> USE DEF shared
<1>1. CASE Change
  BY <1>1 DEF Change, ReplicaEdited, ClusterEdited, ClusterUnaltered,
              NamespaceEdited, CopyVanishes
<1>2. ASSUME NEW r \in Replicas, Observe(r) PROVE SharedWork \/ UNCHANGED shared
  BY <1>2 DEF Observe, SharedWork
<1>3. ASSUME NEW r \in Replicas, EnqueueForCluster(r) PROVE SharedWork
  BY <1>3 DEF EnqueueForCluster, SharedWork
<1>4. ASSUME NEW r \in Replicas, EnqueueForNamespace(r) PROVE SharedWork
  BY <1>4 DEF EnqueueForNamespace, SharedWork
<1>5. ASSUME NEW c \in Clusters, HandleCluster(c) PROVE UNCHANGED shared
  BY <1>5 DEF HandleCluster
<1>6. ASSUME NEW c \in Refs, NEW n \in Namespaces, HandleNamespace(c, n)
      PROVE  UNCHANGED shared
  BY <1>6 DEF HandleNamespace
<1>7. CASE SharedStep
  BY <1>7 DEF SharedStep, SharedWork
<1>8. CASE PassStep
  <2>1. CASE ReadReplica
    BY <2>1 DEF ReadReplica, SharedWork
  <2>2. CASE Resolve \/ TrackInStatus \/ Sync
    BY <2>2 DEF Resolve, TrackInStatus, Sync
  <2>3. CASE UpdateStatus
    BY <2>3 DEF UpdateStatus, SharedWork, WorkerKnown
  <2>4. CASE EndPass
    BY <2>4 DEF EndPass, SharedWork
  <2> QED BY <1>8, <2>1, <2>2, <2>3, <2>4 DEF PassStep
<1>9. CASE UNCHANGED vars
  BY <1>9 DEF vars
<1> QED BY <1>1, <1>2, <1>3, <1>4, <1>5, <1>6, <1>7, <1>8, <1>9 DEF Next

\* Only Take gives the worker a (Cluster)Replica, and it keeps it to the end.
LEMMA WorkerStaysKnown ==
  ASSUME WorkerKnown, SI!Next \/ UNCHANGED shared
  PROVE  WorkerKnown'
<1> USE DEF WorkerKnown
<1>1. CASE UNCHANGED shared
  BY <1>1 DEF shared
<1>2. ASSUME NEW k \in Replicas, SI!Take(k) PROVE WorkerKnown'
  BY <1>2 DEF SI!Take
<1>3. CASE SI!ClearPending
  BY <1>3 DEF SI!ClearPending
<1>4. CASE SI!ReadReplica
  BY <1>4 DEF SI!ReadReplica
<1>5. CASE SI!Finish \/ SI!Reset
  BY <1>5 DEF SI!Finish, SI!Reset
<1>6. CASE UNCHANGED worker
  BY <1>6
<1>7. SI!Next => \/ UNCHANGED worker
                 \/ \E k \in Replicas : SI!Take(k)
                 \/ SI!ClearPending \/ SI!ReadReplica \/ SI!Finish \/ SI!Reset
  BY DEF SI!Next, SI!EnqueueReplica, SI!Send, SI!Drop, SI!Trigger, SI!Deliver
<1> QED BY <1>1, <1>2, <1>3, <1>4, <1>5, <1>6, <1>7

\* The cluster handler, the namespace controller, the watch on (Cluster)Replicas,
\* the passes and restarts use the pending marks, the channel and the workqueue
\* exactly as SharedInformation has it, for any number of (Cluster)Replicas,
\* Clusters and namespaces: no notification bypasses the marks, and no pass reads
\* before it has cleared its own (82-153).
THEOREM TriggersUseShared == Spec => UsesSharedInformation
<1>1. Init => SI!Init /\ WorkerKnown
  BY DEF Init, SI!Init, WorkerKnown
<1>2. WorkerKnown /\ [Next]_vars => WorkerKnown' /\ [SI!Next]_(SI!vars)
  <2> SUFFICES ASSUME WorkerKnown, [Next]_vars
               PROVE  WorkerKnown' /\ [SI!Next]_(SI!vars)
    OBVIOUS
  <2>1. SI!Next \/ UNCHANGED shared
    BY StepUsesShared DEF Restart, SharedWork, SI!Next
  <2> QED BY <2>1, WorkerStaysKnown DEF shared, SI!vars, SI!history
<1> QED BY <1>1, <1>2, PTL DEF Spec, UsesSharedInformation, SI!Spec

------------------------------------------------------------------------------
(* What is proved of the notification path holds of the composition. *)

SIP == INSTANCE SharedInformationProofs
         WITH Keys <- Replicas, Threads <- {"cluster", "namespace"}

\* The notification path and the module with the proofs about it are one: its
\* steps are the same, ...
LEMMA SharedSteps == (SI!Next => SIP!Next) /\ (SharedWork => SIP!Working)
  BY DEF SI!Next, SIP!Next, SI!Send, SIP!Send, SI!Drop, SIP!Drop, SI!EnqueueReplica,
         SIP!EnqueueReplica, SI!Trigger, SIP!Trigger, SI!Take, SIP!Take, SI!Deliver,
         SIP!Deliver, SI!ClearPending, SIP!ClearPending, SI!ReadReplica,
         SIP!ReadReplica, SI!Finish, SIP!Finish, SI!Reset, SIP!Reset, SI!history,
         SIP!history, SharedWork, SIP!Working

\* ... and so are its behaviours.
LEMMA SharedIsProved == SI!Spec => SIP!Spec
<1>1. SI!Init => SIP!Init
  BY DEF SI!Init, SIP!Init
<1>2. [SI!Next]_(SI!vars) => [SIP!Next]_(SIP!vars)
  BY SharedSteps DEF SI!vars, SIP!vars, SI!history, SIP!history
<1> QED BY <1>1, <1>2, PTL DEF SI!Spec, SIP!Spec

\* So its types and its main invariant hold here.
LEMMA SharedInvariants == Spec => [](SI!TypeOK /\ SI!PendingIsCarried)
<1>1. SIP!Spec => []SIP!TypeOK /\ []SIP!PendingIsCarried
  BY SIP!TypeCorrect, SIP!PendingIsCarriedAlways, BoundsAssumption
<1>2. SIP!TypeOK => SI!TypeOK
  BY DEF SI!TypeOK, SIP!TypeOK, SI!Calls, SIP!Calls, SI!Reconciles, SIP!Reconciles
<1>3. SIP!PendingIsCarried => SI!PendingIsCarried
  BY DEF SI!PendingIsCarried, SIP!PendingIsCarried, SI!Carried, SIP!Carried,
         SI!InCall, SIP!InCall, SI!InChannel, SIP!InChannel
<1> QED
  BY <1>1, <1>2, <1>3, TriggersUseShared, SharedIsProved, PTL DEF UsesSharedInformation

------------------------------------------------------------------------------
(* Types *)

PassShape ==
  [step : {"resolve", "track", "sync", "status", "end"}, rep : ReplicaObjects,
   old : SUBSET Entries, list : [Clusters -> Places(States)] \cup {<<>>},
   plan : SUBSET Entries, failed : SUBSET Entries, retry : BOOLEAN]

\* The informer lags behind, and ends with what the server has.
WatchTypeOK ==
  /\ watch \in [Replicas -> Seq(ReplicaObjects)]
  /\ \A r \in Replicas : watch[r] # <<>> /\ watch[r][Len(watch[r])] = replica[r]

TypeInv ==
  /\ PlatformTypeOK /\ ClusterHandlerTypeOK /\ NamespaceControllerTypeOK
  /\ WatchTypeOK
  /\ pass \in PassShape
  /\ pass.step # "end" => pass.list \in [Clusters -> Places(States)]

\* Publishing what changed keeps the informer's versions in order.
LEMMA PublishTypes ==
  ASSUME WatchTypeOK, replica' \in [Replicas -> ReplicaObjects], Publish
  PROVE  WatchTypeOK'
<1>1. ASSUME NEW r \in Replicas
      PROVE  /\ watch'[r] \in Seq(ReplicaObjects) /\ watch'[r] # <<>>
             /\ watch'[r][Len(watch'[r])] = replica'[r]
  <2>1. watch[r] \in Seq(ReplicaObjects) /\ replica'[r] \in ReplicaObjects
    BY DEF WatchTypeOK
  <2>2. CASE replica'[r] = replica[r]
    BY <2>2 DEF WatchTypeOK, Publish
  <2>3. CASE replica'[r] # replica[r]
    <3>1. watch'[r] = Append(watch[r], replica'[r])
      BY <2>3 DEF Publish
    <3> QED BY <2>1, <3>1
  <2> QED BY <2>2, <2>3
<1>2. watch' = [r \in Replicas |-> watch'[r]]
  BY DEF Publish
<1> QED BY <1>1, <1>2 DEF WatchTypeOK

\* A (Cluster)Replica that does not exist is nowhere in the cache, and no pass
\* is over it.
Existing ==
  /\ \A r \in Replicas : replica[r].phase = "absent" =>
       /\ replica[r] = NoReplica
       /\ \A i \in DOMAIN watch[r] : watch[r][i].phase = "absent"
  /\ pass.step # "end" => /\ worker.step = "running"
                          /\ replica[worker.key].phase # "absent"

\* A restart announces what exists.
LEMMA RestartTypes ==
  ASSUME TypeInv, Existing, Restart
  PROVE  TypeInv' /\ Existing'
<1>1. /\ watch' = [r \in Replicas |-> Announced(r)] /\ pass' = NoPass
      /\ UNCHANGED <<replica, clusters, namespaces, store, source>>
      /\ edits' = edits + 1
  BY DEF Restart, Edit, platform
<1>2. edits \in Nat
  BY DEF TypeInv, PlatformTypeOK
<1>3. PlatformTypeOK'
  BY <1>1, <1>2 DEF TypeInv, PlatformTypeOK
<1>4. ClusterHandlerTypeOK' /\ NamespaceControllerTypeOK'
  BY DEF Restart, ClusterHandlerTypeOK, NamespaceControllerTypeOK
<1>5. NoPass \in PassShape /\ NoPass.step = "end"
  BY NoneTypes DEF NoPass, PassShape
<1>6. ASSUME NEW r \in Replicas
      PROVE  /\ Announced(r) \in Seq(ReplicaObjects) /\ Announced(r) # <<>>
             /\ Announced(r)[Len(Announced(r))] = replica[r]
             /\ replica[r].phase = "absent" =>
                  \A i \in DOMAIN Announced(r) : Announced(r)[i].phase = "absent"
  <2>1. /\ replica[r] \in ReplicaObjects /\ NoReplica \in ReplicaObjects
        /\ replica[r].phase = "absent" => replica[r] = NoReplica
    BY NoneTypes DEF TypeInv, PlatformTypeOK, Existing
  <2>2. CASE replica[r].phase = "absent"
    BY <2>1, <2>2 DEF Announced
  <2>3. CASE replica[r].phase # "absent"
    BY <2>1, <2>3 DEF Announced
  <2> QED BY <2>2, <2>3
<1>7. WatchTypeOK'
  BY <1>1, <1>6 DEF WatchTypeOK
<1>8. Existing'
  BY <1>1, <1>5, <1>6 DEF Existing
<1> QED BY <1>1, <1>3, <1>4, <1>5, <1>7, <1>8 DEF TypeInv

\* Publishing keeps what does not exist out of the cache.
LEMMA PublishExisting ==
  ASSUME WatchTypeOK, Existing, replica' \in [Replicas -> ReplicaObjects], Publish,
         \A r \in Replicas : replica'[r] = replica[r] \/ replica'[r].phase # "absent"
  PROVE  \A r \in Replicas : replica'[r].phase = "absent" =>
           /\ replica'[r] = NoReplica
           /\ \A i \in DOMAIN watch'[r] : watch'[r][i].phase = "absent"
  BY DEF Existing, Publish

\* A target selects namespaces, or none.
LEMMA SelectedSpaces ==
  ASSUME NEW t \in Targets, NEW list, NEW c \in Targeted(t, list),
         NEW n \in SelectedNamespaces(t, c)
  PROVE  n \in Spaces
<1>1. CASE t.on = "nextTo"
  <2>1. c \in Clusters
    BY <1>1 DEF Targeted, Matches
  <2> QED BY <1>1, <2>1, PlacesAssumption DEF SelectedNamespaces, Spaces
<1>2. CASE t.on # "nextTo"
  <2>1. t.by \in {"none", "identities", "labels", "invalid"} /\ t.names \subseteq Namespaces
    BY DEF Targets
  <2> QED BY <1>2, <2>1 DEF SelectedNamespaces, Spaces
<1> QED BY <1>1, <1>2

\* Entries that a spec selects are entries.
LEMMA SelectionType ==
  ASSUME NEW s \in SpecShape, NEW list
  PROVE  \A x \in Selection(s, list) : x[2] \in Entries
<1> SUFFICES ASSUME NEW i \in DOMAIN s.targets, NEW c \in Targeted(s.targets[i], list),
                    NEW n \in SelectedNamespaces(s.targets[i], c)
             PROVE  EntryOf(s, s.targets[i], c, n) \in Entries
  BY DEF Selection
<1>1. s.targets[i] \in Targets
  BY DEF SpecShape
<1>2. c \in Refs /\ Host \in Refs
  BY DEF Targeted, Matches, Refs
<1>3. n \in Spaces
  BY <1>1, SelectedSpaces
<1>4. KeyOf(s, c, n) \in Entries
  BY <1>2, <1>3 DEF KeyOf, Entries, SpecShape
<1>5. \A e \in Entries, d \in Refs : [e EXCEPT !.cluster = d] \in Entries
  BY DEF Entries
<1> QED BY <1>2, <1>4, <1>5 DEF EntryOf

\* Taking the first of several versions leaves the others in order.
LEMMA TailFacts ==
  ASSUME NEW S, NEW q \in Seq(S), Len(q) > 1
  PROVE  /\ Tail(q) \in Seq(S) /\ Tail(q) # <<>> /\ Len(Tail(q)) = Len(q) - 1
         /\ Tail(q)[Len(Tail(q))] = q[Len(q)]
         /\ \A i \in DOMAIN Tail(q) : i + 1 \in DOMAIN q /\ Tail(q)[i] = q[i + 1]
         /\ \A i \in DOMAIN q : i > 1 => i - 1 \in DOMAIN Tail(q)
<1>1. /\ Len(q) \in Nat /\ DOMAIN q = 1..Len(q) /\ q # <<>>
  OBVIOUS
<1>2. /\ Len(Tail(q)) = Len(q) - 1 /\ Tail(q) \in Seq(S)
      /\ \A i \in 1..(Len(q) - 1) : Tail(q)[i] = q[i + 1]
      /\ DOMAIN Tail(q) = 1..(Len(q) - 1)
  BY <1>1
<1>3. Tail(q)[Len(Tail(q))] = q[Len(q)]
  <2>1. Len(q) - 1 \in 1..(Len(q) - 1) /\ (Len(q) - 1) + 1 = Len(q)
    BY <1>1
  <2>2. Tail(q)[Len(q) - 1] = q[(Len(q) - 1) + 1]
    BY <1>2, <2>1
  <2> QED BY <1>2, <2>1, <2>2
<1>4. /\ \A i \in DOMAIN Tail(q) : i + 1 \in DOMAIN q
      /\ \A i \in DOMAIN q : i > 1 => i - 1 \in DOMAIN Tail(q)
  BY <1>1, <1>2
<1>5. Tail(q) # <<>>
  <2>1. Len(<<>>) = 0
    OBVIOUS
  <2>2. Len(Tail(q)) # 0
    BY <1>1, <1>2
  <2> QED BY <2>1, <2>2, Zenon
<1> QED BY <1>2, <1>3, <1>4, <1>5

\* Events about namespaces are about namespaces of known clusters.
LEMMA NamespaceEventTypes ==
  ASSUME NamespaceControllerTypeOK, namespaceTodo' = namespaceTodo,
         NEW created \in SUBSET (Refs \X Namespaces),
         NEW others \in SUBSET (Refs \X Namespaces), NamespaceEvents(created, others)
  PROVE  NamespaceControllerTypeOK'
<1>1. starting' \in {starting, FALSE}
  BY DEF NamespaceEvents
<1>2. /\ namespaceQueue' \subseteq namespaceQueue \cup others \cup created
      /\ unseen' \subseteq unseen \cup created
  BY DEF NamespaceEvents
<1> QED BY <1>1, <1>2 DEF NamespaceControllerTypeOK

\* Steps that change neither (Cluster)Replicas nor the pass.
LEMMA BystanderTypes ==
  ASSUME TypeInv, Existing, UNCHANGED <<replica, watch, pass>>,
         UNCHANGED worker \/ pass.step = "end",
         PlatformTypeOK', ClusterHandlerTypeOK', NamespaceControllerTypeOK'
  PROVE  TypeInv' /\ Existing'
<1>1. WatchTypeOK'
  BY DEF TypeInv, WatchTypeOK
<1>2. Existing'
  BY DEF Existing
<1> QED BY <1>1, <1>2 DEF TypeInv

\* The user's changes, and the events they cause.
LEMMA ChangeTypes ==
  ASSUME TypeInv, Existing, SI!TypeOK, Change
  PROVE  TypeInv' /\ Existing'
<1> DEFINE Goal == TypeInv' /\ Existing'
<1> USE DEF shared, clusterHandler, namespaceController
<1>1. PlatformTypeOK /\ ClusterHandlerTypeOK /\ NamespaceControllerTypeOK /\ WatchTypeOK
  BY DEF TypeInv
<1>2. ASSUME NEW r \in Replicas, NEW s \in Specs, ReplicaEdited(r, s) PROVE Goal
  <2>1. /\ UserStep /\ Publish
        /\ UNCHANGED <<clusterHandler, namespaceController, pass, worker>>
    BY <1>2 DEF ReplicaEdited, UserStep
  <2>2. PlatformTypeOK'
    BY <1>1, <2>1, UserTypes
  <2>3. replica \in [Replicas -> ReplicaObjects] /\ replica' \in [Replicas -> ReplicaObjects]
    BY <1>1, <2>2 DEF PlatformTypeOK
  <2>4. /\ \A q \in Replicas : q # r => replica'[q] = replica[q]
        /\ replica'[r].phase # "absent"
    <3>1. CASE CreateReplica(r, s)
      <4>1. NewReplica(s).phase = "live"
        BY NoneTypes DEF NewReplica, ReplicaObjects
      <4> QED BY <2>3, <3>1, <4>1 DEF CreateReplica
    <3>2. ASSUME NEW op \in {"none", "ignore", "reconcile"}, EditReplica(r, s, op)
          PROVE  /\ \A q \in Replicas : q # r => replica'[q] = replica[q]
                 /\ replica'[r].phase # "absent"
      <4>1. replica' = [replica EXCEPT ![r] = [[replica[r] EXCEPT !.spec = s] EXCEPT !.op = op]]
        BY <2>3, <3>2 DEF EditReplica
      <4>2. [[replica[r] EXCEPT !.spec = s] EXCEPT !.op = op].phase = replica[r].phase
        BY <2>3 DEF ReplicaObjects
      <4> QED BY <2>3, <3>2, <4>1, <4>2 DEF EditReplica
    <3> QED BY <1>2, <3>1, <3>2 DEF ReplicaEdited
  <2>5. WatchTypeOK'
    BY <1>1, <2>1, <2>3, PublishTypes
  <2>6. \A q \in Replicas : replica'[q].phase = "absent" =>
          /\ replica'[q] = NoReplica
          /\ \A i \in DOMAIN watch'[q] : watch'[q][i].phase = "absent"
    BY <1>1, <2>1, <2>3, <2>4, PublishExisting
  <2>7. Existing'
    <3>1. pass.step # "end" => worker.key \in Replicas
      BY DEF Existing, SI!TypeOK, SI!Reconciles
    <3> QED BY <2>1, <2>4, <2>6, <3>1 DEF Existing
  <2>8. ClusterHandlerTypeOK' /\ NamespaceControllerTypeOK'
    BY <1>1, <2>1 DEF ClusterHandlerTypeOK, NamespaceControllerTypeOK
  <2> QED BY <2>1, <2>2, <2>5, <2>7, <2>8 DEF TypeInv
<1>3. ASSUME NEW c \in Clusters, ClusterEdited(c) PROVE Goal
  <2>1. /\ UserStep
        /\ UNCHANGED <<watch, pass, worker, clusterStates, clusterTodo, namespaceController>>
        /\ clusterQueue' = clusterQueue \cup {c}
        /\ replica' = replica
    BY <1>3 DEF ClusterEdited, UserStep, EditCluster, ClusterGone
  <2>2. ClusterHandlerTypeOK' /\ NamespaceControllerTypeOK'
    BY <1>1, <2>1 DEF ClusterHandlerTypeOK, NamespaceControllerTypeOK
  <2> QED BY <1>1, <2>1, <2>2, UserTypes, BystanderTypes
<1>4. ASSUME NEW c \in Clusters, ClusterUnaltered(c) PROVE Goal
  <2>1. /\ UNCHANGED <<watch, pass, worker, clusterStates, clusterTodo, namespaceController>>
        /\ clusterQueue' = clusterQueue \cup {c}
        /\ UNCHANGED <<replica, clusters, namespaces, store, source>>
        /\ edits' = edits + 1
    BY <1>4 DEF ClusterUnaltered, Edit, platform
  <2>2. ClusterHandlerTypeOK' /\ NamespaceControllerTypeOK'
    BY <1>1, <2>1 DEF ClusterHandlerTypeOK, NamespaceControllerTypeOK
  <2>3. edits \in Nat
    BY <1>1 DEF PlatformTypeOK
  <2>4. PlatformTypeOK'
    BY <1>1, <2>1, <2>3 DEF PlatformTypeOK
  <2> QED BY <2>1, <2>2, <2>4, BystanderTypes
<1>5. ASSUME NEW c \in Refs, NEW n \in Namespaces, NamespaceEdited(c, n) PROVE Goal
  <2>1. /\ UserStep
        /\ UNCHANGED <<watch, pass, worker, clusterHandler, namespaceTodo>>
        /\ replica' = replica
        /\ NamespaceEvents({<<c, n>>}, {}) \/ NamespaceEvents({}, {<<c, n>>})
    BY <1>5 DEF NamespaceEdited, UserStep, EditNamespace, NamespaceGone
  <2>2. ClusterHandlerTypeOK' /\ NamespaceControllerTypeOK'
    BY <1>1, <2>1, NamespaceEventTypes DEF ClusterHandlerTypeOK
  <2> QED BY <1>1, <2>1, <2>2, UserTypes, BystanderTypes
<1>6. ASSUME NEW l \in Locations, CopyVanishes(l) PROVE Goal
  <2>1. /\ UserStep
        /\ UNCHANGED <<watch, pass, worker, clusterHandler, namespaceController>>
        /\ replica' = replica
    BY <1>6 DEF CopyVanishes, UserStep, Vanish
  <2>2. ClusterHandlerTypeOK' /\ NamespaceControllerTypeOK'
    BY <1>1, <2>1 DEF ClusterHandlerTypeOK, NamespaceControllerTypeOK
  <2> QED BY <1>1, <2>1, <2>2, UserTypes, BystanderTypes
<1> QED BY <1>2, <1>3, <1>4, <1>5, <1>6, RestartTypes DEF Change

\* What the informer, the handlers and the notification path do.
LEMMA EventTypes ==
  ASSUME TypeInv, Existing, SI!TypeOK,
         \/ \E r \in Replicas : Observe(r) \/ EnqueueForCluster(r) \/ EnqueueForNamespace(r)
         \/ \E c \in Clusters : HandleCluster(c)
         \/ \E c \in Refs, n \in Namespaces : HandleNamespace(c, n)
         \/ SharedStep \/ EndPass \/ UNCHANGED vars
  PROVE  TypeInv' /\ Existing'
<1> DEFINE Goal == TypeInv' /\ Existing'
<1> USE DEF shared, clusterHandler, namespaceController
<1>1. PlatformTypeOK /\ ClusterHandlerTypeOK /\ NamespaceControllerTypeOK /\ WatchTypeOK
  BY DEF TypeInv
<1>2. ASSUME NEW r \in Replicas, Observe(r) PROVE Goal
  <2>1. /\ UNCHANGED <<platform, edits, pass, clusterHandler, namespaceController, worker>>
        /\ watch' = [watch EXCEPT ![r] = Tail(@)] /\ Len(watch[r]) > 1
    BY <1>2 DEF Observe, SI!Trigger
  <2>2. /\ Tail(watch[r]) \in Seq(ReplicaObjects) /\ Tail(watch[r]) # <<>>
        /\ Tail(watch[r])[Len(Tail(watch[r]))] = watch[r][Len(watch[r])]
        /\ \A i \in DOMAIN Tail(watch[r]) :
             i + 1 \in DOMAIN watch[r] /\ Tail(watch[r])[i] = watch[r][i + 1]
    BY <1>1, <2>1, TailFacts DEF WatchTypeOK
  <2>3. WatchTypeOK'
    BY <1>1, <2>1, <2>2 DEF WatchTypeOK, platform
  <2>4. Existing'
    BY <1>1, <2>1, <2>2 DEF Existing, WatchTypeOK, platform
  <2>5. PlatformTypeOK' /\ ClusterHandlerTypeOK' /\ NamespaceControllerTypeOK'
    BY <1>1, <2>1 DEF PlatformTypeOK, ClusterHandlerTypeOK, NamespaceControllerTypeOK,
       platform
  <2> QED BY <2>1, <2>3, <2>4, <2>5 DEF TypeInv
<1>3. ASSUME NEW r \in Replicas, EnqueueForCluster(r) \/ EnqueueForNamespace(r) PROVE Goal
  <2>1. /\ UNCHANGED <<platform, edits, watch, pass, worker, clusterQueue, clusterStates>>
        /\ UNCHANGED <<namespaceQueue, starting, unseen>>
        /\ clusterTodo' \subseteq clusterTodo /\ namespaceTodo' \subseteq namespaceTodo
    BY <1>3 DEF EnqueueForCluster, EnqueueForNamespace, SI!EnqueueReplica
  <2>2. PlatformTypeOK' /\ ClusterHandlerTypeOK' /\ NamespaceControllerTypeOK'
    BY <1>1, <2>1 DEF PlatformTypeOK, ClusterHandlerTypeOK, NamespaceControllerTypeOK,
       platform
  <2> QED BY <2>1, <2>2, BystanderTypes DEF platform
<1>4. ASSUME NEW c \in Clusters, HandleCluster(c) PROVE Goal
  <2>1. UNCHANGED <<platform, edits, watch, pass, worker, namespaceController>>
    BY <1>4 DEF HandleCluster
  <2>2. /\ clusterQueue' \subseteq clusterQueue
        /\ clusterTodo' \subseteq Replicas
        /\ clusterStates' \in [Clusters -> Places({"live", "deleting"}) \cup {NoState}]
    <3>1. clusters[c].state = "live" => clusters[c] \in Places({"live", "deleting"})
      BY <1>1 DEF PlatformTypeOK, Places
    <3> QED BY <1>1, <1>4, <3>1 DEF HandleCluster, HandleCreateOrUpdate, HandleClusterDelete,
       AfterDeletion, TakeCluster, ClusterHandlerTypeOK, Associated, Listed, RememberState
  <2>3. PlatformTypeOK' /\ ClusterHandlerTypeOK' /\ NamespaceControllerTypeOK'
    BY <1>1, <2>1, <2>2 DEF PlatformTypeOK, ClusterHandlerTypeOK,
       NamespaceControllerTypeOK, platform
  <2> QED BY <2>1, <2>3, BystanderTypes DEF platform
<1>5. ASSUME NEW c \in Refs, NEW n \in Namespaces, HandleNamespace(c, n) PROVE Goal
  <2>1. /\ UNCHANGED <<platform, edits, watch, pass, worker, clusterHandler>>
        /\ UNCHANGED <<starting, unseen>>
        /\ namespaceQueue' \subseteq namespaceQueue /\ namespaceTodo' \subseteq Replicas
    BY <1>5 DEF HandleNamespace, ReconcileNamespace, Listed
  <2>2. PlatformTypeOK' /\ ClusterHandlerTypeOK' /\ NamespaceControllerTypeOK'
    BY <1>1, <2>1 DEF PlatformTypeOK, ClusterHandlerTypeOK, NamespaceControllerTypeOK,
       platform
  <2> QED BY <2>1, <2>2, BystanderTypes DEF platform
<1>6. CASE SharedStep \/ EndPass \/ UNCHANGED vars
  <2>1. UNCHANGED <<platform, edits, watch, pass, clusterHandler, namespaceController>>
    BY <1>6 DEF SharedStep, EndPass, vars
  <2>2. UNCHANGED worker \/ pass.step = "end"
    <3>1. pass.step # "end" => worker.step = "running"
      BY DEF Existing
    <3> QED BY <1>6, <3>1 DEF SharedStep, EndPass, vars, SI!Send, SI!Drop, SI!Deliver,
         SI!Take, SI!ClearPending
  <2>3. PlatformTypeOK' /\ ClusterHandlerTypeOK' /\ NamespaceControllerTypeOK'
    BY <1>1, <2>1 DEF PlatformTypeOK, ClusterHandlerTypeOK, NamespaceControllerTypeOK,
       platform
  <2> QED BY <2>1, <2>2, <2>3, BystanderTypes DEF platform
<1> QED BY <1>2, <1>3, <1>4, <1>5, <1>6

\* What a pass writes are objects.
LEMMA WrittenTypes ==
  ASSUME PlatformTypeOK, worker.key \in Replicas, NEW synced
  PROVE  Written(synced) \in [Locations -> Objects]
<1>1. \A o \in {"live", "deleting"} :
         [[NoObject EXCEPT !.owner = worker.key] EXCEPT !.state = o] \in Objects
  BY NoneTypes, ObjectUpdates DEF States
<1>2. \A o : [NoObject EXCEPT !.owner = worker.key, !.state = o]
               = [[NoObject EXCEPT !.owner = worker.key] EXCEPT !.state = o]
  BY DEF NoObject
<1>3. store \in [Locations -> Objects]
  BY DEF PlatformTypeOK
<1> QED BY <1>1, <1>2, <1>3 DEF Written

\* The steps of a pass.
LEMMA PassTypes ==
  ASSUME TypeInv, Existing, SI!TypeOK,
         ReadReplica \/ Resolve \/ TrackInStatus \/ Sync \/ UpdateStatus
  PROVE  TypeInv' /\ Existing'
<1> DEFINE Goal == TypeInv' /\ Existing'
           r == worker.key
<1> USE DEF shared, clusterHandler, namespaceController
<1>1. /\ PlatformTypeOK /\ ClusterHandlerTypeOK /\ NamespaceControllerTypeOK /\ WatchTypeOK
      /\ pass \in PassShape
  BY DEF TypeInv
<1>2. /\ r \in Replicas /\ replica \in [Replicas -> ReplicaObjects]
      /\ replica[r] \in ReplicaObjects
  <2>1. worker.step # "idle"
    BY DEF Existing, ReadReplica, SI!ReadReplica, Resolve, TrackInStatus, Sync, UpdateStatus
  <2>2. r \in Replicas
    BY <2>1 DEF SI!TypeOK, SI!Reconciles
  <2> QED BY <1>1, <2>2 DEF PlatformTypeOK
<1>3. CASE ReadReplica
  <2> DEFINE seen == Cached[r]
  <2>1. /\ seen \in ReplicaObjects
        /\ replica[r].phase = "absent" => seen.phase = "absent"
    <3>1. watch[r] \in Seq(ReplicaObjects) /\ watch[r] # <<>>
      BY <1>1, <1>2 DEF WatchTypeOK
    <3>2. Head(watch[r]) = watch[r][1] /\ 1 \in DOMAIN watch[r]
          /\ watch[r][1] \in ReplicaObjects
      BY <3>1
    <3> QED BY <1>2, <3>2 DEF Cached, Existing
  <2>2. /\ replica' \in {replica, [replica EXCEPT ![r].op = "none"]}
        /\ Publish
        /\ UNCHANGED <<clusters, namespaces, store, source, edits, clusterHandler,
                       namespaceController>>
        /\ worker' = [worker EXCEPT !.step = "running"]
    BY <1>3 DEF ReadReplica, SI!ReadReplica
  <2>3. /\ replica' \in [Replicas -> ReplicaObjects] /\ replica'[r] \in ReplicaObjects
        /\ replica'[r].phase = replica[r].phase
        /\ \A q \in Replicas : q # r => replica'[q] = replica[q]
    <3>1. [replica[r] EXCEPT !.op = "none"] \in ReplicaObjects
          /\ [replica[r] EXCEPT !.op = "none"].phase = replica[r].phase
      BY <1>2 DEF ReplicaObjects
    <3> QED BY <1>2, <2>2, <3>1
  <2>4. \A q \in Replicas : replica'[q] = replica[q] \/ replica'[q].phase # "absent"
    <3>1. CASE replica[r].phase = "absent"
      BY <1>3, <2>1, <3>1 DEF ReadReplica
    <3>2. CASE replica[r].phase # "absent"
      BY <2>3, <3>2
    <3> QED BY <3>1, <3>2
  <2>5. WatchTypeOK'
    BY <1>1, <2>2, <2>3, PublishTypes
  <2>6. \A q \in Replicas : replica'[q].phase = "absent" =>
          /\ replica'[q] = NoReplica
          /\ \A i \in DOMAIN watch'[q] : watch'[q][i].phase = "absent"
    BY <1>1, <2>2, <2>3, <2>4, PublishExisting
  <2>7. pass.step = "end"
    <3>1. worker.step # "running"
      BY <1>3 DEF ReadReplica, SI!ReadReplica
    <3> QED BY <3>1 DEF Existing
  <2>8. worker'.step = "running" /\ worker'.key = r
    BY <2>2, <1>3 DEF SI!TypeOK, SI!Reconciles, ReadReplica, SI!ReadReplica
  <2>9. /\ pass' \in PassShape
        /\ pass'.step # "end" => /\ pass'.list \in [Clusters -> Places(States)]
                                 /\ replica'[r].phase # "absent"
    <3>1. CASE seen.phase # "absent" /\ seen.op # "ignore"
      <4> DEFINE rep == IF seen.op = "reconcile" THEN replica'[r] ELSE seen
      <4>1. pass' = [NoPass EXCEPT !.step = "resolve", !.list = clusters,
                                   !.rep = rep, !.old = rep.status]
        BY <1>3, <3>1 DEF ReadReplica
      <4>2. rep \in ReplicaObjects
        BY <2>1, <2>3
      <4>3. rep.status \in SUBSET Entries
        BY <4>2 DEF ReplicaObjects
      <4>4. clusters \in [Clusters -> Places(States)]
        BY <1>1 DEF PlatformTypeOK, States
      <4> HIDE DEF rep
      <4>5. pass' \in PassShape /\ pass'.list = clusters
        BY <4>1, <4>2, <4>3, <4>4 DEF NoPass, PassShape
      <4> QED BY <2>1, <2>3, <3>1, <4>4, <4>5
    <3>2. CASE ~(seen.phase # "absent" /\ seen.op # "ignore")
      BY <1>1, <1>3, <2>7, <3>2 DEF ReadReplica
    <3> QED BY <3>1, <3>2
  <2>10. PlatformTypeOK' /\ ClusterHandlerTypeOK' /\ NamespaceControllerTypeOK'
    BY <1>1, <2>2, <2>3 DEF PlatformTypeOK, ClusterHandlerTypeOK, NamespaceControllerTypeOK
  <2>11. Existing'
    BY <2>6, <2>8, <2>9 DEF Existing
  <2> QED BY <2>5, <2>9, <2>10, <2>11 DEF TypeInv
<1>4. CASE Resolve
  <2> DEFINE s == pass.rep.spec
             selection == Selection(s, pass.list)
             good == {x \in selection : Syncable(r, x[1], x[2])}
             created == {<<x[2].cluster, x[2].namespace>> :
                           x \in {y \in good : NamespaceMissing(y[2])}}
  <2>1. s \in SpecShape /\ pass.rep.status \in SUBSET Entries
    BY <1>1, SpecsAssumption DEF PassShape, ReplicaObjects
  <2>2. \A x \in selection : x[2] \in Entries
    BY <2>1, SelectionType
  <2>3. created \in SUBSET (Refs \X Namespaces)
    <3> HIDE DEF selection
    <3> QED BY <2>2 DEF NamespaceMissing, Entries, Spaces
  <2>4. PICK failed \in SUBSET Entries, retry \in BOOLEAN :
          pass' = [pass EXCEPT !.step = "track", !.plan = {x[2] : x \in good},
                               !.failed = failed, !.retry = retry]
    <3> DEFINE lost == {c \in Clusters : /\ pass.list[c].state = "live" /\ ~Reachable(c)
                                /\ \E i \in DOMAIN s.targets :
                                     c \in Matches(s.targets[i], pass.list)}
               failed == {x[2] : x \in selection \ good}
                                \cup {e \in pass.rep.status : e.cluster \in lost}
               retry == selection # good \/ lost # {}
    <3>1. pass' = [pass EXCEPT !.step = "track", !.plan = {x[2] : x \in good},
                               !.failed = failed, !.retry = retry]
      BY <1>4 DEF Resolve
    <3>2. failed \in SUBSET Entries
      <4> HIDE DEF selection, good, lost
      <4> QED BY <2>1, <2>2
    <3>3. retry \in BOOLEAN
      OBVIOUS
    <3> HIDE DEF failed, retry
    <3> QED BY <3>1, <3>2, <3>3
  <2>5. {x[2] : x \in good} \in SUBSET Entries
    <3> HIDE DEF selection
    <3> QED BY <2>2
  <2> HIDE DEF s, selection, good, created
  <2>6. pass' \in PassShape /\ pass'.list = pass.list /\ pass'.step = "track"
    BY <1>1, <2>4, <2>5 DEF PassShape
  <2>7. /\ namespaces' = [c \in Refs |-> [n \in Namespaces |->
                         IF <<c, n>> \in created
                         THEN [namespaces[c][n] EXCEPT !.state = "live"]
                         ELSE namespaces[c][n]]]
        /\ NamespaceEvents(created, {}) /\ namespaceTodo' = namespaceTodo
        /\ UNCHANGED <<replica, clusters, store, source, edits, clusterHandler,
                       watch, shared>>
    BY <1>4 DEF Resolve, s, selection, good, created
  <2>8. namespaces' \in [Refs -> [Namespaces -> Places(States)]]
    <3>1. namespaces \in [Refs -> [Namespaces -> Places(States)]]
      BY <1>1 DEF PlatformTypeOK, States
    <3>2. \A c \in Refs, n \in Namespaces :
            [namespaces[c][n] EXCEPT !.state = "live"] \in Places(States)
      BY <3>1, PlaceUpdates DEF States
    <3> QED BY <2>7, <3>1, <3>2
  <2>9. NamespaceControllerTypeOK'
    BY <1>1, <2>3, <2>7, NamespaceEventTypes
  <2>10. PlatformTypeOK'
    BY <1>1, <2>7, <2>8 DEF PlatformTypeOK, States
  <2>11. ClusterHandlerTypeOK' /\ WatchTypeOK'
    BY <1>1, <2>7 DEF ClusterHandlerTypeOK, WatchTypeOK
  <2>12. Existing' /\ pass.step # "end"
    BY <1>4, <2>7 DEF Existing, Resolve
  <2>13. pass.list \in [Clusters -> Places(States)]
    BY <2>12 DEF TypeInv
  <2> QED BY <2>6, <2>9, <2>10, <2>11, <2>12, <2>13 DEF TypeInv
<1>5. CASE TrackInStatus \/ UpdateStatus
  <2>1. PICK list \in SUBSET Entries :
          replica' \in {replica, [replica EXCEPT ![r].status = list]}
    <3>1. pass.rep.status \cup pass.plan \in SUBSET Entries
          /\ pass.rep.status \in SUBSET Entries
      BY <1>1 DEF PassShape, ReplicaObjects
    <3>2. CASE TrackInStatus
      BY <3>1, <3>2 DEF TrackInStatus
    <3>3. CASE UpdateStatus
      BY <3>1, <3>3 DEF UpdateStatus
    <3> QED BY <1>5, <3>2, <3>3
  <2>2. /\ Publish
        /\ UNCHANGED <<clusters, namespaces, store, source, edits, clusterHandler,
                       namespaceController>>
        /\ pass.step # "end"
    BY <1>5 DEF TrackInStatus, UpdateStatus
  <2>3. /\ replica' \in [Replicas -> ReplicaObjects]
        /\ replica'[r].phase = replica[r].phase
        /\ \A q \in Replicas : q # r => replica'[q] = replica[q]
    <3>1. [replica[r] EXCEPT !.status = list] \in ReplicaObjects
          /\ [replica[r] EXCEPT !.status = list].phase = replica[r].phase
      BY <1>2 DEF ReplicaObjects
    <3> QED BY <1>2, <2>1, <3>1
  <2>4. replica[r].phase # "absent"
    BY <2>2 DEF Existing
  <2>5. WatchTypeOK'
    BY <1>1, <2>2, <2>3, PublishTypes
  <2>6. \A q \in Replicas : replica'[q].phase = "absent" =>
          /\ replica'[q] = NoReplica
          /\ \A i \in DOMAIN watch'[q] : watch'[q][i].phase = "absent"
    <3>1. \A q \in Replicas : replica'[q] = replica[q] \/ replica'[q].phase # "absent"
      BY <2>3, <2>4
    <3> QED BY <1>1, <2>2, <2>3, <3>1, PublishExisting
  <2>7. /\ pass' \in PassShape
        /\ pass'.step # "end" => pass'.list = pass.list /\ worker' = worker
    <3>1. CASE TrackInStatus
      <4> DEFINE l == pass.rep.status \cup pass.plan
      <4>1. l \in SUBSET Entries
        BY <1>1 DEF PassShape, ReplicaObjects
      <4>2. pass' = [[[pass EXCEPT !.step = "sync"] EXCEPT
                        !.rep = [pass.rep EXCEPT !.status = l]] EXCEPT !.old = l]
        BY <1>1, <3>1 DEF TrackInStatus, PassShape
      <4> HIDE DEF l
      <4>3. [pass.rep EXCEPT !.status = l] \in ReplicaObjects
        BY <1>1, <4>1, ReplicaUpdates DEF PassShape
      <4>4. pass' \in PassShape /\ pass'.list = pass.list
        BY <1>1, <4>1, <4>2, <4>3 DEF PassShape
      <4> QED BY <3>1, <4>4 DEF TrackInStatus
    <3>2. CASE UpdateStatus
      <4>1. NoPass \in PassShape /\ NoPass.step = "end"
        BY NoneTypes DEF NoPass, PassShape
      <4> QED BY <3>2, <4>1 DEF UpdateStatus
    <3> QED BY <1>5, <3>1, <3>2
  <2>8. PlatformTypeOK' /\ ClusterHandlerTypeOK' /\ NamespaceControllerTypeOK'
    BY <1>1, <2>2, <2>3 DEF PlatformTypeOK, ClusterHandlerTypeOK, NamespaceControllerTypeOK
  <2>9. Existing'
    BY <2>2, <2>3, <2>4, <2>6, <2>7 DEF Existing
  <2>10. pass.list \in [Clusters -> Places(States)]
    BY <2>2 DEF TypeInv
  <2> QED BY <2>5, <2>7, <2>8, <2>9, <2>10 DEF TypeInv
<1>6. CASE Sync
  <2>1. /\ UNCHANGED <<replica, clusters, namespaces, source, edits, clusterHandler,
                       namespaceController, watch, shared>>
        /\ pass.step = "sync"
    BY <1>6 DEF Sync
  <2>2. store' \in [Locations -> Objects]
    <3> DEFINE written == Written({e \in pass.plan : CanWrite(e)})
    <3>1. written \in [Locations -> Objects]
      BY <1>1, <1>2, WrittenTypes
    <3>2. \A l \in Locations :
            store'[l] \in {written[l], [written[l] EXCEPT !.state = "deleting"]}
      BY <1>6 DEF Sync
    <3>3. store' = [l \in Locations |-> store'[l]]
      BY <1>6 DEF Sync
    <3> HIDE DEF written
    <3>4. \A o \in Objects : [o EXCEPT !.state = "deleting"] \in Objects
      BY ObjectUpdates DEF States
    <3> QED BY <3>1, <3>2, <3>3, <3>4
  <2>3. PICK done \in SUBSET Entries, retry \in BOOLEAN :
          pass' = [[[pass EXCEPT !.step = "status"] EXCEPT
                      !.rep = [pass.rep EXCEPT !.status = pass.rep.status \ done]] EXCEPT
                     !.retry = retry]
    <3> DEFINE obsolete == pass.rep.status \ (pass.plan \cup pass.failed)
               synced == {e \in pass.plan : CanWrite(e)}
               pruned == {e \in obsolete : /\ e.cluster \in Clusters
                                           /\ pass.list[e.cluster].state = "absent"}
               dying == {e \in obsolete \ pruned :
                           /\ Reachable(e.cluster)
                           /\ IsManaged(Written(synced)[Loc(e)], worker.key)}
               lost == {e \in obsolete \ pruned : ~Reachable(e.cluster)}
               done == obsolete \ (dying \cup lost)
               retry == pass.retry \/ synced # pass.plan \/ done # obsolete
    <3>1. pass' = [pass EXCEPT !.step = "status", !.rep.status = @ \ done, !.retry = retry]
      BY <1>6 DEF Sync
    <3>2. retry \in BOOLEAN /\ done \in SUBSET Entries
      BY <1>1 DEF PassShape, ReplicaObjects
    <3> HIDE DEF done, retry
    <3>3. pass' = [[[pass EXCEPT !.step = "status"] EXCEPT
                      !.rep = [pass.rep EXCEPT !.status = pass.rep.status \ done]] EXCEPT
                     !.retry = retry]
      BY <1>1, <3>1 DEF PassShape
    <3> QED BY <3>2, <3>3
  <2>4. [pass.rep EXCEPT !.status = pass.rep.status \ done] \in ReplicaObjects
    <3>1. pass.rep \in ReplicaObjects /\ pass.rep.status \in SUBSET Entries
      BY <1>1 DEF PassShape, ReplicaObjects
    <3> QED BY <3>1, ReplicaUpdates
  <2>5. /\ pass' \in PassShape /\ pass'.list = pass.list /\ pass'.step = "status"
    BY <1>1, <2>3, <2>4 DEF PassShape
  <2>6. PlatformTypeOK' /\ ClusterHandlerTypeOK' /\ NamespaceControllerTypeOK' /\ WatchTypeOK'
    BY <1>1, <2>1, <2>2 DEF PlatformTypeOK, ClusterHandlerTypeOK, NamespaceControllerTypeOK,
       WatchTypeOK
  <2>7. Existing'
    BY <2>1, <2>5 DEF Existing
  <2>8. pass.list \in [Clusters -> Places(States)]
    BY <2>1 DEF TypeInv
  <2> QED BY <2>5, <2>6, <2>7, <2>8 DEF TypeInv
<1> QED BY <1>3, <1>4, <1>5, <1>6

\* When the process starts, the informers have yet to tell it anything.
LEMMA InitTypes == Init => TypeInv /\ Existing
<1> SUFFICES ASSUME Init PROVE TypeInv /\ Existing
  OBVIOUS
<1>1. PlatformTypeOK
  <2>1. replica \in [Replicas -> ReplicaObjects]
    BY NoneTypes DEF Init, PlatformInit
  <2>2. clusters \in [Clusters -> Places(States)]
        /\ namespaces \in [Refs -> [Namespaces -> Places(States)]]
    BY DEF Init, PlatformInit, Places, States
  <2>3. store \in [Locations -> Objects] /\ source \in Contents \cup {Missing}
        /\ edits \in Nat
    BY NoneTypes DEF Init, PlatformInit
  <2> QED BY <2>1, <2>2, <2>3 DEF PlatformTypeOK, States
<1>2. ClusterHandlerTypeOK /\ NamespaceControllerTypeOK
  BY DEF Init, ClusterHandlerInit, NamespaceControllerInit, ClusterHandlerTypeOK,
     NamespaceControllerTypeOK
<1>3. NoPass \in PassShape /\ NoPass.step = "end"
  BY NoneTypes DEF NoPass, PassShape
<1>4. ASSUME NEW r \in Replicas
      PROVE  /\ replica[r].phase = "absent" => replica[r] = NoReplica
             /\ Announced(r) \in Seq(ReplicaObjects) /\ Announced(r) # <<>>
             /\ Announced(r)[Len(Announced(r))] = replica[r]
             /\ replica[r].phase = "absent" =>
                  \A i \in DOMAIN Announced(r) : Announced(r)[i].phase = "absent"
  <2>1. replica[r] \in ReplicaObjects /\ NoReplica \in ReplicaObjects
    BY <1>1, NoneTypes DEF PlatformTypeOK
  <2>2. replica[r].phase = "absent" => replica[r] = NoReplica
    <3>1. \A s \in Specs : NewReplica(s).phase # "absent"
      BY NoneTypes DEF NewReplica, ReplicaObjects
    <3> QED BY <3>1 DEF Init, PlatformInit
  <2>3. CASE replica[r].phase = "absent"
    BY <2>1, <2>2, <2>3 DEF Announced
  <2>4. CASE replica[r].phase # "absent"
    BY <2>1, <2>4 DEF Announced
  <2> QED BY <2>2, <2>3, <2>4
<1>5. WatchTypeOK
  BY <1>4 DEF Init, WatchTypeOK
<1>6. Existing
  BY <1>3, <1>4 DEF Init, Existing
<1> QED BY <1>1, <1>2, <1>3, <1>5, <1>6 DEF Init, TypeInv

\* The types hold, together with what they rest on.
LEMMA TypesHold == Spec => [](TypeInv /\ Existing /\ SI!TypeOK)
<1> DEFINE Types == TypeInv /\ Existing
<1>1. Init => Types
  BY InitTypes
<1>2. Types /\ SI!TypeOK /\ [Next]_vars => Types'
  BY ChangeTypes, EventTypes, PassTypes DEF Next, PassStep
<1>3. Types => TypeInv /\ Existing
  OBVIOUS
<1> HIDE DEF Types
<1> QED BY <1>1, <1>2, <1>3, SharedInvariants, PTL DEF Spec

\* Only a pass that writes finds copies in deletion.
LEMMA RevivedSteps ==
  ASSUME [Next]_vars
  PROVE  Sync \/ revived' = revived
<1>1. CASE Change
  BY <1>1 DEF Change, ReplicaEdited, ClusterEdited, ClusterUnaltered, NamespaceEdited,
     CopyVanishes, Restart
<1>2. CASE ~Change
  BY <1>2 DEF Next, PassStep, Observe, EnqueueForCluster, EnqueueForNamespace,
     HandleCluster, HandleNamespace, SharedStep, ReadReplica, Resolve, TrackInStatus,
     UpdateStatus, EndPass, vars
<1> QED BY <1>1, <1>2

\* They are at places of (Cluster)Replicas.
LEMMA RevivedTypes ==
  ASSUME TypeInv, Existing, SI!TypeOK, [Next]_vars,
         revived \in SUBSET (Replicas \X Locations)
  PROVE  revived' \in SUBSET (Replicas \X Locations)
<1>1. CASE Sync
  <2>1. worker.key \in Replicas
    BY <1>1 DEF Sync, SI!TypeOK, SI!Reconciles
  <2>2. \A e \in pass.plan : Loc(e) \in Locations
    BY LocType DEF TypeInv, PassShape
  <2>3. \A x \in revived' : x \in revived \/ \E e \in pass.plan : x = <<worker.key, Loc(e)>>
    BY <1>1 DEF Sync
  <2> QED BY <2>1, <2>2, <2>3
<1> QED BY <1>1, RevivedSteps

\* Whatever users change and in whatever order events, the cache and passes follow,
\* every variable keeps the shape the code gives it, and the versions the informer
\* has yet to see end with the one on the server (971-993): for any number of
\* (Cluster)Replicas, Clusters, namespaces and targets, any capacity and any lag.
THEOREM TypeCorrect == Spec => []TypeOK
<1> DEFINE Marks == revived \in SUBSET (Replicas \X Locations)
<1>1. TypeInv /\ Existing /\ SI!TypeOK /\ Marks => TypeOK
  <2> SUFFICES ASSUME TypeInv, SI!TypeOK, Marks PROVE TypeOK
    OBVIOUS
  <2>1. /\ PlatformTypeOK /\ ClusterHandlerTypeOK /\ NamespaceControllerTypeOK
        /\ WatchTypeOK /\ pass \in PassShape
    BY DEF TypeInv
  <2>2. /\ pass.step \in {"resolve", "track", "sync", "status", "end"}
        /\ pass.rep \in ReplicaObjects
    BY <2>1 DEF PassShape
  <2>3. \A r \in Replicas : /\ watch[r] \in Seq(ReplicaObjects)
                            /\ watch[r] # <<>>
                            /\ watch[r][Len(watch[r])] = replica[r]
    BY <2>1 DEF WatchTypeOK
  <2> QED BY <2>1, <2>2, <2>3 DEF TypeOK
<1>2. Init => Marks
  BY DEF Init
<1>3. TypeInv /\ Existing /\ SI!TypeOK /\ Marks /\ [Next]_vars => Marks'
  BY RevivedTypes
<1> HIDE DEF Marks
<1> QED BY <1>1, <1>2, <1>3, TypesHold, PTL DEF Spec

------------------------------------------------------------------------------
(* The versions of a (Cluster)Replica on their way to the informer *)

\* A pass over this version would do something.
Ready(v) == v.phase # "absent" /\ v.op # "ignore"

\* Of the versions q, one after number i will cause an event that passes.
TriggersIn(q, i) == \E j \in i..(Len(q) - 1) : Passes(q[j], q[j + 1])

\* A new version that is to be reconciled passes, or asks for what the last did.
Link(v, w) == Ready(w) => Passes(v, w) \/ (Ready(v) /\ v.spec = w.spec)

\* So whoever looks at an old version will be called again, or sees what is asked
\* for on the server.
Settled(q) ==
  Ready(q[Len(q)]) =>
    \A i \in DOMAIN q : TriggersIn(q, i) \/ (Ready(q[i]) /\ q[i].spec = q[Len(q)].spec)

\* What appending to a sequence does.
LEMMA AppendFacts ==
  ASSUME NEW S, NEW q \in Seq(S), NEW x \in S
  PROVE  /\ Append(q, x) \in Seq(S) /\ Append(q, x) # <<>>
         /\ Len(Append(q, x)) = Len(q) + 1
         /\ DOMAIN Append(q, x) = 1..(Len(q) + 1) /\ DOMAIN q = 1..Len(q) /\ Len(q) \in Nat
         /\ \A i \in 1..Len(q) : Append(q, x)[i] = q[i]
         /\ Append(q, x)[Len(q) + 1] = x
  OBVIOUS

\* Publishing a version that is linked to the last one.
LEMMA SettledAppend ==
  ASSUME NEW q \in Seq(ReplicaObjects), q # <<>>, Settled(q),
         NEW w \in ReplicaObjects, Link(q[Len(q)], w)
  PROVE  /\ Settled(Append(q, w))
         /\ TriggersIn(q, 1) => TriggersIn(Append(q, w), 1)
         /\ Ready(w) /\ ~TriggersIn(Append(q, w), 1) =>
              Ready(q[Len(q)]) /\ q[Len(q)].spec = w.spec
<1> DEFINE p == Append(q, w)
           n == Len(q)
<1>1. /\ Len(p) = n + 1 /\ DOMAIN p = 1..(n + 1) /\ DOMAIN q = 1..n /\ n \in Nat
      /\ \A i \in 1..n : p[i] = q[i]
      /\ p[n + 1] = w
  BY AppendFacts
<1>2. n \in 1..n
  BY <1>1
<1> HIDE DEF p, n
<1>3. ASSUME NEW i \in 1..n, TriggersIn(q, i) PROVE TriggersIn(p, i)
  <2>1. PICK j \in i..(n - 1) : Passes(q[j], q[j + 1])
    BY <1>3 DEF TriggersIn, n
  <2>2. j \in 1..n /\ j + 1 \in 1..n /\ j \in i..(Len(p) - 1)
    BY <1>1, <2>1
  <2>3. p[j] = q[j] /\ p[j + 1] = q[j + 1]
    BY <1>1, <2>2
  <2> QED BY <2>1, <2>2, <2>3 DEF TriggersIn
<1>4. ASSUME Passes(q[n], w), NEW i \in 1..n PROVE TriggersIn(p, i)
  <2>1. n \in i..(Len(p) - 1) /\ p[n] = q[n] /\ p[n + 1] = w
    BY <1>1, <1>2
  <2> QED BY <1>4, <2>1 DEF TriggersIn
<1>5. ASSUME Ready(w), NEW i \in 1..(n + 1)
      PROVE  TriggersIn(p, i) \/ (Ready(p[i]) /\ p[i].spec = w.spec)
  <2>1. CASE i = n + 1
    BY <1>1, <1>5, <2>1
  <2>2. CASE i \in 1..n
    <3>1. CASE Passes(q[n], w)
      BY <1>4, <2>2, <3>1
    <3>2. CASE ~Passes(q[n], w)
      <4>1. Ready(q[n]) /\ q[n].spec = w.spec
        BY <1>5, <3>2 DEF Link, n
      <4>2. TriggersIn(q, i) \/ (Ready(q[i]) /\ q[i].spec = q[n].spec)
        BY <1>1, <2>2, <4>1 DEF Settled, n
      <4> QED BY <1>1, <1>3, <2>2, <4>1, <4>2
    <3> QED BY <3>1, <3>2
  <2> QED BY <1>1, <2>1, <2>2
<1>6. Settled(p)
  BY <1>1, <1>5 DEF Settled
<1>7. TriggersIn(q, 1) => TriggersIn(p, 1)
  BY <1>1, <1>2, <1>3
<1>8. Ready(w) /\ ~TriggersIn(p, 1) => Ready(q[n]) /\ q[n].spec = w.spec
  BY <1>1, <1>2, <1>4 DEF Link, n
<1> QED BY <1>6, <1>7, <1>8 DEF p, n

\* The informer sees the next version.
LEMMA SettledTail ==
  ASSUME NEW q \in Seq(ReplicaObjects), Len(q) > 1, Settled(q)
  PROVE  /\ Settled(Tail(q))
         /\ TriggersIn(q, 1) => Passes(q[1], q[2]) \/ TriggersIn(Tail(q), 1)
<1> DEFINE p == Tail(q)
           n == Len(q)
<1>1. /\ n \in Nat /\ n > 1 /\ DOMAIN q = 1..n /\ DOMAIN p = 1..(n - 1)
      /\ Len(p) = n - 1
      /\ \A i \in 1..(n - 1) : p[i] = q[i + 1]
  OBVIOUS
<1> HIDE DEF p, n
<1>2. ASSUME NEW i \in 1..(n - 1), TriggersIn(q, i + 1) PROVE TriggersIn(p, i)
  <2>1. PICK j \in (i + 1)..(n - 1) : Passes(q[j], q[j + 1])
    BY <1>2 DEF TriggersIn, n
  <2>2. j - 1 \in i..(Len(p) - 1) /\ j - 1 \in 1..(n - 1) /\ j \in 1..(n - 1)
        /\ (j - 1) + 1 = j
    BY <1>1, <2>1
  <2>3. p[j - 1] = q[j] /\ p[(j - 1) + 1] = q[j + 1]
    BY <1>1, <2>2
  <2> QED BY <2>1, <2>2, <2>3 DEF TriggersIn
<1>3. p[Len(p)] = q[n]
  <2>1. n - 1 \in 1..(n - 1) /\ (n - 1) + 1 = n
    BY <1>1
  <2> QED BY <1>1, <2>1
<1>4. Settled(p)
  <2> SUFFICES ASSUME Ready(q[n]), NEW i \in 1..(n - 1)
               PROVE  TriggersIn(p, i) \/ (Ready(p[i]) /\ p[i].spec = q[n].spec)
    BY <1>1, <1>3 DEF Settled
  <2>1. i + 1 \in 1..n /\ p[i] = q[i + 1]
    BY <1>1
  <2>2. TriggersIn(q, i + 1) \/ (Ready(q[i + 1]) /\ q[i + 1].spec = q[n].spec)
    BY <1>1, <2>1 DEF Settled, n
  <2> QED BY <1>2, <2>1, <2>2
<1>5. ASSUME TriggersIn(q, 1) PROVE Passes(q[1], q[2]) \/ TriggersIn(p, 1)
  <2>1. PICK j \in 1..(n - 1) : Passes(q[j], q[j + 1])
    BY <1>5 DEF TriggersIn, n
  <2>2. CASE j = 1
    BY <2>1, <2>2
  <2>3. CASE j # 1
    <3>1. j \in (1 + 1)..(Len(q) - 1) /\ 1 \in 1..(n - 1)
      BY <1>1, <2>1, <2>3 DEF n
    <3>2. TriggersIn(q, 1 + 1)
      BY <2>1, <3>1 DEF TriggersIn
    <3> QED BY <1>2, <3>1, <3>2
  <2> QED BY <2>2, <2>3
<1> QED BY <1>4, <1>5 DEF p

\* A process that starts learns of every (Cluster)Replica there is.
LEMMA SettledAnnounced ==
  ASSUME NEW r \in Replicas, replica[r] \in ReplicaObjects
  PROVE  /\ Settled(Announced(r))
         /\ Ready(replica[r]) => TriggersIn(Announced(r), 1)
<1>1. NoReplica \in ReplicaObjects /\ NoReplica.phase = "absent"
  BY NoneTypes DEF NoReplica
<1>2. CASE replica[r].phase = "absent"
  <2>1. Announced(r) = <<NoReplica>>
    BY <1>2 DEF Announced
  <2>2. Len(Announced(r)) = 1 /\ Announced(r)[1] = NoReplica
    BY <2>1
  <2> QED BY <1>1, <1>2, <2>2 DEF Settled, Ready
<1>3. CASE replica[r].phase # "absent"
  <2>1. Announced(r) = <<NoReplica, replica[r]>>
    BY <1>3 DEF Announced
  <2>2. /\ Len(Announced(r)) = 2 /\ Announced(r)[1] = NoReplica
        /\ Announced(r)[2] = replica[r] /\ DOMAIN Announced(r) = 1..2
    BY <2>1
  <2>3. ASSUME Ready(replica[r]) PROVE TriggersIn(Announced(r), 1)
    <3>1. Passes(NoReplica, replica[r])
      BY <1>1, <2>3 DEF Passes, Ready
    <3>2. 1 \in 1..(Len(Announced(r)) - 1) /\ 1 + 1 = 2
      BY <2>2
    <3> QED BY <2>2, <3>1, <3>2 DEF TriggersIn
  <2>4. Settled(Announced(r))
    <3> SUFFICES ASSUME Ready(replica[r]), NEW i \in 1..2
                 PROVE  TriggersIn(Announced(r), i)
                          \/ (Ready(Announced(r)[i]) /\ Announced(r)[i].spec = replica[r].spec)
      BY <2>2 DEF Settled
    <3>1. CASE i = 1
      BY <2>3, <3>1
    <3>2. CASE i = 2
      BY <2>2, <3>2
    <3> QED BY <3>1, <3>2
  <2> QED BY <2>3, <2>4
<1> QED BY <1>2, <1>3

\* An edit never takes the reconcile annotation away together with a change of the
\* spec: such an update passes no event filter, as it looks like the removal of the
\* annotation by the controller itself (971-993).
KeepsReconcile ==
  \A r \in Replicas :
    /\ replica'[r].spec # replica[r].spec
    /\ replica[r].op = "reconcile"
    => replica'[r].op \in {"reconcile", "ignore"}

\* Every new version of a (Cluster)Replica is linked to the last one.
LEMMA Linked ==
  ASSUME TypeInv, Existing, SI!TypeOK, KeepsReconcile, NEW r \in Replicas,
         \/ \E q \in Replicas, s \in Specs : ReplicaEdited(q, s)
         \/ ReadReplica \/ TrackInStatus \/ UpdateStatus
  PROVE  /\ Publish
         /\ replica \in [Replicas -> ReplicaObjects]
         /\ replica'[r] \in ReplicaObjects
         /\ replica'[r] # replica[r] => Link(replica[r], replica'[r])
<1>1. Publish
  BY DEF ReplicaEdited, ReadReplica, TrackInStatus, UpdateStatus
<1>2. replica \in [Replicas -> ReplicaObjects] /\ replica'[r] \in ReplicaObjects
  <2>1. TypeInv'
    <3>1. CASE \E q \in Replicas, s \in Specs : ReplicaEdited(q, s)
      BY <3>1, ChangeTypes DEF Change
    <3>2. CASE ReadReplica \/ TrackInStatus \/ UpdateStatus
      BY <3>2, PassTypes
    <3> QED BY <3>1, <3>2
  <2> QED BY <2>1 DEF TypeInv, PlatformTypeOK
<1>3. ASSUME replica'[r].spec = replica[r].spec, replica'[r].op = replica[r].op,
             replica'[r].phase = replica[r].phase
      PROVE  Link(replica[r], replica'[r])
  BY <1>3 DEF Link, Ready
<1>4. ASSUME NEW q \in Replicas, NEW s \in Specs, ReplicaEdited(q, s),
             replica'[r] # replica[r]
      PROVE  Link(replica[r], replica'[r])
  <2>1. CASE CreateReplica(q, s)
    <3>1. replica[r].phase = "absent"
      BY <1>2, <1>4, <2>1 DEF CreateReplica
    <3> QED BY <3>1 DEF Link, Passes, Ready
  <2>2. ASSUME NEW op \in {"none", "ignore", "reconcile"}, EditReplica(q, s, op)
        PROVE  Link(replica[r], replica'[r])
    <3>1. replica' = [replica EXCEPT ![q] = [[replica[q] EXCEPT !.spec = s] EXCEPT !.op = op]]
      BY <1>2, <2>2 DEF EditReplica
    <3>2. /\ q = r /\ replica[r].phase # "absent"
          /\ replica'[r] = [[replica[r] EXCEPT !.spec = s] EXCEPT !.op = op]
      BY <1>2, <1>4, <2>2, <3>1 DEF EditReplica
    <3>3. replica[r] \in ReplicaObjects
      BY <1>2
    <3>4. /\ replica'[r].spec = s /\ replica'[r].op = op
          /\ replica'[r].phase = replica[r].phase
      BY <3>2, <3>3 DEF ReplicaObjects
    <3>5. s # replica[r].spec \/ op # replica[r].op
      BY <1>4, <3>2, <3>3 DEF ReplicaObjects
    <3> QED BY <3>2, <3>4, <3>5 DEF Link, Passes, Ready, KeepsReconcile
  <2> QED BY <1>4, <2>1, <2>2 DEF ReplicaEdited
<1>5. ASSUME ReadReplica, replica'[r] # replica[r]
      PROVE  Link(replica[r], replica'[r])
  <2>1. /\ worker.key = r
        /\ replica' = [replica EXCEPT ![r] = [replica[r] EXCEPT !.op = "none"]]
        /\ Cached[r].phase # "absent"
    BY <1>2, <1>5 DEF ReadReplica
  <2>2. replica[r] \in ReplicaObjects /\ replica[r].phase # "absent"
    <3>1. watch[r] \in Seq(ReplicaObjects) /\ watch[r] # <<>>
      BY DEF TypeInv, WatchTypeOK
    <3>2. Head(watch[r]) = watch[r][1] /\ 1 \in DOMAIN watch[r]
      BY <3>1
    <3> QED BY <1>2, <2>1, <3>2 DEF Existing, Cached
  <2>3. /\ replica'[r].spec = replica[r].spec /\ replica'[r].op = "none"
        /\ replica'[r].phase = replica[r].phase
    BY <1>2, <2>1, <2>2 DEF ReplicaObjects
  <2>4. replica[r].op \in {"none", "ignore", "reconcile"}
    BY <2>2 DEF ReplicaObjects
  <2> QED BY <2>2, <2>3, <2>4 DEF Link, Passes, Ready
<1>6. ASSUME TrackInStatus \/ UpdateStatus, replica'[r] # replica[r]
      PROVE  Link(replica[r], replica'[r])
  <2>1. PICK list : replica' = [replica EXCEPT ![r] = [replica[r] EXCEPT !.status = list]]
    BY <1>2, <1>6 DEF TrackInStatus, UpdateStatus
  <2>2. /\ replica'[r].spec = replica[r].spec /\ replica'[r].op = replica[r].op
        /\ replica'[r].phase = replica[r].phase
    BY <1>2, <2>1 DEF ReplicaObjects
  <2> QED BY <1>3, <2>2
<1> QED BY <1>1, <1>2, <1>4, <1>5, <1>6

\* What happens to the versions of a (Cluster)Replica in a step.
LEMMA VersionStep ==
  ASSUME TypeInv, Existing, SI!TypeOK, KeepsReconcile, [Next]_vars, NEW r \in Replicas
  PROVE  \/ Restart
         \/ Observe(r)
         \/ watch'[r] = watch[r] /\ replica'[r] = replica[r]
         \/ /\ watch'[r] = Append(watch[r], replica'[r])
            /\ Link(replica[r], replica'[r]) /\ replica'[r] \in ReplicaObjects
<1> DEFINE Goal == \/ Restart
                   \/ Observe(r)
                   \/ watch'[r] = watch[r] /\ replica'[r] = replica[r]
                   \/ /\ watch'[r] = Append(watch[r], replica'[r])
                      /\ Link(replica[r], replica'[r]) /\ replica'[r] \in ReplicaObjects
<1>1. CASE \/ \E q \in Replicas, s \in Specs : ReplicaEdited(q, s)
           \/ ReadReplica \/ TrackInStatus \/ UpdateStatus
  <2>1. /\ Publish /\ replica'[r] \in ReplicaObjects
        /\ replica'[r] # replica[r] => Link(replica[r], replica'[r])
    BY <1>1, Linked
  <2> QED BY <2>1 DEF Publish
<1>2. CASE UNCHANGED <<watch, replica>>
  BY <1>2
<1>3. ASSUME NEW q \in Replicas, Observe(q) PROVE Goal
  <2>1. watch' = [watch EXCEPT ![q] = Tail(@)] /\ replica' = replica
    BY <1>3 DEF Observe, platform
  <2>2. watch \in [Replicas -> Seq(ReplicaObjects)]
    BY DEF TypeInv, WatchTypeOK
  <2> QED BY <1>3, <2>1, <2>2
<1>4. CASE Change
  <2>1. \/ \E q \in Replicas, s \in Specs : ReplicaEdited(q, s)
        \/ Restart
        \/ UNCHANGED <<watch, replica>>
    BY <1>4 DEF Change, ClusterEdited, ClusterUnaltered, NamespaceEdited, CopyVanishes,
       platform, EditCluster, ClusterGone, EditNamespace, NamespaceGone, Vanish
  <2> QED BY <1>1, <1>2, <2>1
<1>5. CASE \/ \E q \in Replicas : EnqueueForCluster(q) \/ EnqueueForNamespace(q)
           \/ \E c \in Clusters : HandleCluster(c)
           \/ \E c \in Refs, n \in Namespaces : HandleNamespace(c, n)
           \/ SharedStep \/ Resolve \/ Sync \/ EndPass \/ UNCHANGED vars
  <2>1. UNCHANGED <<watch, replica>>
    BY <1>5 DEF EnqueueForCluster, EnqueueForNamespace, HandleCluster, HandleNamespace,
       SharedStep, Resolve, Sync, EndPass, vars, platform
  <2> QED BY <1>2, <2>1
<1>6. \/ Change
      \/ \/ \E q \in Replicas, s \in Specs : ReplicaEdited(q, s)
         \/ ReadReplica \/ TrackInStatus \/ UpdateStatus
      \/ \E q \in Replicas : Observe(q)
      \/ \/ \E q \in Replicas : EnqueueForCluster(q) \/ EnqueueForNamespace(q)
         \/ \E c \in Clusters : HandleCluster(c)
         \/ \E c \in Refs, n \in Namespaces : HandleNamespace(c, n)
         \/ SharedStep \/ Resolve \/ Sync \/ EndPass \/ UNCHANGED vars
  BY DEF Next, PassStep
<1> QED BY <1>1, <1>3, <1>4, <1>5, <1>6

\* Whoever looks at an old version will be called again, or sees what is asked for.
Settling == \A r \in Replicas : Settled(watch[r])

\* The informer's versions stay linked: nothing is published that a watch could skip.
LEMMA SettlingStep ==
  ASSUME TypeInv, Existing, SI!TypeOK, KeepsReconcile, [Next]_vars, Settling
  PROVE  Settling'
<1> SUFFICES ASSUME NEW r \in Replicas PROVE Settled(watch'[r])
  BY DEF Settling
<1>1. /\ watch[r] \in Seq(ReplicaObjects) /\ watch[r] # <<>>
      /\ watch[r][Len(watch[r])] = replica[r] /\ replica[r] \in ReplicaObjects
  BY DEF TypeInv, WatchTypeOK, PlatformTypeOK
<1>2. CASE Restart
  <2>1. watch'[r] = Announced(r)
    BY <1>2 DEF Restart
  <2> QED BY <1>1, <2>1, SettledAnnounced
<1>3. CASE Observe(r)
  <2>1. Len(watch[r]) > 1 /\ watch'[r] = Tail(watch[r])
    BY <1>3 DEF Observe, TypeInv, WatchTypeOK
  <2> QED BY <1>1, <2>1, SettledTail DEF Settling
<1>4. CASE watch'[r] = watch[r]
  BY <1>4 DEF Settling
<1>5. CASE /\ watch'[r] = Append(watch[r], replica'[r])
           /\ Link(replica[r], replica'[r]) /\ replica'[r] \in ReplicaObjects
  BY <1>1, <1>5, SettledAppend DEF Settling
<1> QED BY <1>2, <1>3, <1>4, <1>5, VersionStep

------------------------------------------------------------------------------
(* A pass over a (Cluster)Replica that has yet to read it *)

\* The notification path has a request for r.
Requested(r) ==
  \/ r \in queue
  \/ SI!InChannel(r)
  \/ SI!InCall(r, {"send", "drop"})
  \/ worker.step \in {"taken", "cleared"} /\ worker.key = r

\* A pass over r will read it after this.
Awaited(r) ==
  \/ Requested(r)
  \/ r \in clusterTodo \cup namespaceTodo
  \/ TriggersIn(watch[r], 1)

\* A request stays until the pass reads r or the request is dropped.
LEMMA RequestedStep ==
  ASSUME SI!TypeOK, SharedWork \/ UNCHANGED shared, NEW r \in Replicas, Requested(r)
  PROVE  \/ Requested(r)'
         \/ r \in dropped'
         \/ SI!ReadReplica /\ worker.key = r
<1> USE DEF SI!Carried, Requested
<1>1. CASE UNCHANGED shared
  BY <1>1 DEF shared, SI!InChannel, SI!InCall
<1>2. CASE SharedWork /\ worker.step = "cleared" /\ worker.key = r
  BY <1>2 DEF SharedWork, SI!EnqueueReplica, SI!Send, SI!Drop, SI!Trigger, SI!Take,
     SI!Deliver, SI!ClearPending, SI!Finish
<1>3. ASSUME NEW t \in {"cluster", "namespace"}, SI!Drop(t), thread[t].key = r
      PROVE  r \in dropped'
  BY <1>3 DEF SI!Drop
<1>4. CASE SI!ClearPending /\ worker.key = r
  <2>1. worker'.step = "cleared" /\ worker'.key = r
    BY <1>4 DEF SI!ClearPending, SI!TypeOK, SI!Reconciles
  <2> QED BY <2>1
<1>5. ASSUME SharedWork, SI!Carried(r), SI!ClearPending => worker.key # r,
             \A t \in {"cluster", "namespace"} : SI!Drop(t) => thread[t].key # r
      PROVE  SI!Carried(r)'
  <2>1. SIP!TypeOK
    BY DEF SI!TypeOK, SIP!TypeOK, SI!Calls, SIP!Calls, SI!Reconciles, SIP!Reconciles
  <2>2. SIP!Working
    BY <1>5, SharedSteps
  <2>3. SIP!Carried(r)
    BY <1>5 DEF SIP!Carried, SI!InCall, SIP!InCall, SI!InChannel, SIP!InChannel
  <2>4. /\ SIP!ClearPending => worker.key # r
        /\ \A t \in {"cluster", "namespace"} : SIP!Drop(t) => thread[t].key # r
    BY <1>5 DEF SI!ClearPending, SIP!ClearPending, SI!Drop, SIP!Drop,
       SI!history, SIP!history
  <2>5. SIP!Carried(r)'
    BY <2>1, <2>2, <2>3, <2>4, SIP!CarriedOn, BoundsAssumption
  <2> QED BY <2>5 DEF SIP!Carried, SI!InCall, SIP!InCall, SI!InChannel, SIP!InChannel
<1> QED BY <1>1, <1>2, <1>3, <1>4, <1>5

\* What the handlers are about to request stays until they have.
LEMMA TodoStep ==
  ASSUME [Next]_vars, NEW r \in Replicas, r \in clusterTodo \cup namespaceTodo
  PROVE  \/ r \in (clusterTodo \cup namespaceTodo)'
         \/ r \in pendingReplicas'
         \/ Restart
<1> DEFINE Goal == \/ r \in (clusterTodo \cup namespaceTodo)'
                   \/ r \in pendingReplicas'
                   \/ Restart
<1>1. CASE UNCHANGED <<clusterTodo, namespaceTodo>>
  BY <1>1
<1>2. CASE Change
  <2>1. Restart \/ UNCHANGED <<clusterTodo, namespaceTodo>>
    BY <1>2 DEF Change, ReplicaEdited, ClusterEdited, ClusterUnaltered, NamespaceEdited,
       CopyVanishes, clusterHandler, namespaceController
  <2> QED BY <1>1, <2>1
<1>3. ASSUME NEW q \in Replicas, EnqueueForCluster(q) \/ EnqueueForNamespace(q) PROVE Goal
  <2>1. CASE q = r
    BY <1>3, <2>1 DEF EnqueueForCluster, EnqueueForNamespace, SI!EnqueueReplica
  <2>2. CASE q # r
    BY <1>3, <2>2 DEF EnqueueForCluster, EnqueueForNamespace, clusterHandler,
       namespaceController
  <2> QED BY <2>1, <2>2
<1>4. ASSUME NEW c \in Clusters, HandleCluster(c) PROVE Goal
  <2>1. clusterTodo = {} /\ UNCHANGED namespaceTodo
    BY <1>4 DEF HandleCluster, namespaceController, HandleCreateOrUpdate,
       HandleClusterDelete, AfterDeletion, TakeCluster
  <2> QED BY <2>1
<1>5. ASSUME NEW c \in Refs, NEW n \in Namespaces, HandleNamespace(c, n) PROVE Goal
  <2>1. namespaceTodo = {} /\ UNCHANGED clusterTodo
    BY <1>5 DEF HandleNamespace, clusterHandler, ReconcileNamespace
  <2> QED BY <2>1
<1>6. CASE (\E q \in Replicas : Observe(q)) \/ SharedStep \/ PassStep \/ UNCHANGED vars
  <2>1. UNCHANGED <<clusterTodo, namespaceTodo>>
    BY <1>6 DEF Observe, SharedStep, PassStep, ReadReplica, Resolve, TrackInStatus, Sync,
       UpdateStatus, EndPass, vars, clusterHandler, namespaceController
  <2> QED BY <1>1, <2>1
<1> QED BY <1>2, <1>3, <1>4, <1>5, <1>6 DEF Next

\* Only the read of a (Cluster)Replica starts the work on it.
LEMMA WorkerStep ==
  ASSUME SI!TypeOK, [Next]_vars
  PROVE  ReadReplica \/ UNCHANGED worker \/ worker'.step # "running"
<1> USE DEF shared
<1>1. CASE Change
  <2>1. CASE Restart
    BY <2>1 DEF Restart, SI!Reset
  <2>2. ~Restart => UNCHANGED shared
    BY <1>1 DEF Change, ReplicaEdited, ClusterEdited, ClusterUnaltered, NamespaceEdited,
       CopyVanishes
  <2> QED BY <2>1, <2>2
<1>2. CASE SharedStep
  BY <1>2 DEF SharedStep, SI!Send, SI!Drop, SI!Deliver, SI!Take, SI!ClearPending,
     SI!TypeOK, SI!Reconciles
<1>3. CASE UpdateStatus \/ EndPass
  BY <1>3 DEF UpdateStatus, EndPass, SI!Trigger, SI!Finish
<1>4. CASE \/ \E r \in Replicas : Observe(r) \/ EnqueueForCluster(r) \/ EnqueueForNamespace(r)
           \/ \E c \in Clusters : HandleCluster(c)
           \/ \E c \in Refs, n \in Namespaces : HandleNamespace(c, n)
           \/ Resolve \/ TrackInStatus \/ Sync \/ UNCHANGED vars
  BY <1>4 DEF Observe, SI!Trigger, EnqueueForCluster, EnqueueForNamespace,
     SI!EnqueueReplica, HandleCluster, HandleNamespace, Resolve, TrackInStatus, Sync, vars
<1> QED BY <1>1, <1>2, <1>3, <1>4 DEF Next, PassStep

\* What the notification path sees as a read is the read that starts a pass.
LEMMA ReadsInPass ==
  ASSUME SI!TypeOK, [Next]_vars, SI!ReadReplica
  PROVE  ReadReplica
<1>1. worker.step = "cleared" /\ worker'.step = "running"
  BY DEF SI!ReadReplica, SI!TypeOK, SI!Reconciles
<1> QED BY <1>1, WorkerStep

\* A pass that has yet to read r stays to come until it reads it, unless a request
\* is dropped.
LEMMA AwaitedStep ==
  ASSUME TypeInv, Existing, SI!TypeOK, SI!PendingIsCarried', KeepsReconcile, [Next]_vars,
         Settling, NEW r \in Replicas, Awaited(r), Ready(replica'[r])
  PROVE  Awaited(r)' \/ r \in dropped' \/ (ReadReplica /\ worker.key = r)
<1>1. /\ watch[r] \in Seq(ReplicaObjects) /\ watch[r] # <<>>
      /\ watch[r][Len(watch[r])] = replica[r] /\ replica[r] \in ReplicaObjects
      /\ Settled(watch[r])
  BY DEF TypeInv, WatchTypeOK, PlatformTypeOK, Settling
<1>2. CASE Restart
  <2>1. watch'[r] = Announced(r) /\ replica' = replica
    BY <1>2 DEF Restart, platform
  <2>2. TriggersIn(watch'[r], 1)
    BY <1>1, <2>1, SettledAnnounced
  <2> QED BY <2>2 DEF Awaited
<1>3. Restart \/ SharedWork \/ UNCHANGED shared
  <2>1. WorkerKnown
    BY DEF WorkerKnown, SI!TypeOK, SI!Reconciles
  <2> QED BY <2>1, StepUsesShared
<1>4. CASE Requested(r) /\ ~Restart
  BY <1>3, <1>4, RequestedStep, ReadsInPass DEF Awaited
<1>5. CASE r \in clusterTodo \cup namespaceTodo
  <2>1. r \in pendingReplicas' => Requested(r)'
    BY DEF SI!PendingIsCarried, SI!Carried, Requested
  <2> QED BY <1>2, <1>5, <2>1, TodoStep DEF Awaited
<1>6. CASE TriggersIn(watch[r], 1) /\ ~Restart
  <2>1. CASE Observe(r)
    <3>1. /\ Len(watch[r]) > 1 /\ watch'[r] = Tail(watch[r])
          /\ Passes(watch[r][1], watch[r][2]) => r \in queue'
      BY <2>1 DEF Observe, TypeInv, WatchTypeOK, SI!Trigger, shared
    <3>2. Passes(watch[r][1], watch[r][2]) \/ TriggersIn(watch'[r], 1)
      BY <1>1, <1>6, <3>1, SettledTail
    <3> QED BY <3>1, <3>2 DEF Awaited, Requested
  <2>2. CASE watch'[r] = watch[r]
    BY <1>6, <2>2 DEF Awaited
  <2>3. CASE /\ watch'[r] = Append(watch[r], replica'[r])
             /\ Link(replica[r], replica'[r]) /\ replica'[r] \in ReplicaObjects
    <3>1. TriggersIn(watch'[r], 1)
      BY <1>1, <1>6, <2>3, SettledAppend
    <3> QED BY <3>1 DEF Awaited
  <2> QED BY <1>6, <2>1, <2>2, <2>3, VersionStep
<1> QED BY <1>2, <1>4, <1>5, <1>6 DEF Awaited

\* r is to be reconciled and nothing is under way that leads to another pass over
\* it: what the last pass has done, or the running one will do, must be enough.
Up(r) == Ready(replica[r]) /\ r \notin dropped /\ ~Awaited(r)

\* Then the informer knows what r asks for.
LEMMA CachedCurrent ==
  ASSUME TypeInv, Settling, NEW r \in Replicas, Ready(replica[r]), ~TriggersIn(watch[r], 1)
  PROVE  /\ Cached[r] = watch[r][1]
         /\ Ready(Cached[r]) /\ Cached[r].spec = replica[r].spec
         /\ r \in Listed(Cached)
<1>1. /\ watch[r] \in Seq(ReplicaObjects) /\ watch[r] # <<>>
      /\ watch[r][Len(watch[r])] = replica[r] /\ Settled(watch[r])
  BY DEF TypeInv, WatchTypeOK, Settling
<1>2. Head(watch[r]) = watch[r][1] /\ 1 \in DOMAIN watch[r]
  BY <1>1
<1>3. Cached[r] = watch[r][1]
  BY <1>2 DEF Cached
<1>4. Ready(watch[r][1]) /\ watch[r][1].spec = replica[r].spec
  BY <1>1, <1>2 DEF Settled
<1> QED BY <1>3, <1>4 DEF Listed, Ready

\* r gets there only through a pass that reads it; as long as it is there, what it
\* asks for stays the same.
LEMMA UpStep ==
  ASSUME TypeInv, Existing, SI!TypeOK, SI!PendingIsCarried', KeepsReconcile, [Next]_vars,
         Settling, NEW r \in Replicas, Up(r)', ~(ReadReplica /\ worker.key = r)
  PROVE  Up(r) /\ ~Restart /\ replica'[r].spec = replica[r].spec
<1>1. /\ watch[r] \in Seq(ReplicaObjects) /\ watch[r] # <<>>
      /\ watch[r][Len(watch[r])] = replica[r] /\ replica[r] \in ReplicaObjects
      /\ Settled(watch[r])
  BY DEF TypeInv, WatchTypeOK, PlatformTypeOK, Settling
<1>2. Ready(replica'[r]) /\ r \notin dropped' /\ ~Awaited(r)' /\ ~TriggersIn(watch'[r], 1)
  BY DEF Up, Awaited
<1>3. ~Restart
  <2>1. Restart => watch'[r] = Announced(r) /\ replica' = replica
    BY DEF Restart, platform
  <2> QED BY <1>1, <1>2, <2>1, SettledAnnounced
<1>4. Ready(replica[r]) /\ replica'[r].spec = replica[r].spec
  <2>1. CASE Observe(r) \/ replica'[r] = replica[r]
    BY <1>2, <2>1 DEF Observe, platform
  <2>2. CASE /\ watch'[r] = Append(watch[r], replica'[r])
             /\ Link(replica[r], replica'[r]) /\ replica'[r] \in ReplicaObjects
    BY <1>1, <1>2, <2>2, SettledAppend
  <2> QED BY <1>3, <2>1, <2>2, VersionStep
<1>5. r \notin dropped
  <2>1. WorkerKnown
    BY DEF WorkerKnown, SI!TypeOK, SI!Reconciles
  <2>2. SharedWork \/ UNCHANGED shared
    BY <1>3, <2>1, StepUsesShared
  <2>3. SI!ReadReplica => worker.key # r
    BY ReadsInPass
  <2> QED BY <1>2, <2>2, <2>3 DEF SharedWork, shared, SI!EnqueueReplica, SI!Send, SI!Drop,
     SI!Trigger, SI!Take, SI!Deliver, SI!ClearPending, SI!ReadReplica, SI!Finish, SI!history
<1>6. ~Awaited(r)
  BY <1>2, AwaitedStep
<1> QED BY <1>3, <1>4, <1>5, <1>6 DEF Up

------------------------------------------------------------------------------
(* What the steps of a pass do to the clusters *)

\* What a pass that resolves its targets can sync, and the namespaces it creates.
Chosen ==
  {x \in Selection(pass.rep.spec, pass.list) : Syncable(worker.key, x[1], x[2])}
Created ==
  {<<x[2].cluster, x[2].namespace>> : x \in {y \in Chosen : NamespaceMissing(y[2])}}

\* What deployResources has resolved is what it goes on to deploy; what it could
\* not resolve makes it ask for another pass.
LEMMA ResolveFacts ==
  ASSUME TypeInv, Resolve
  PROVE  /\ pass.step = "resolve" /\ pass'.step = "track"
         /\ pass'.rep = pass.rep /\ pass'.list = pass.list
         /\ pass'.plan = {x[2] : x \in Chosen}
         /\ Selection(pass.rep.spec, pass.list) # Chosen => pass'.retry
         /\ Created \in SUBSET (Refs \X Namespaces)
         /\ \A c \in Refs, n \in Namespaces :
              IF <<c, n>> \in Created
              THEN /\ namespaces[c][n].state = "absent" /\ namespaces'[c][n].state = "live"
                   /\ namespaces'[c][n].label = namespaces[c][n].label
              ELSE namespaces'[c][n] = namespaces[c][n]
         /\ NamespaceEvents(Created, {})
         /\ UNCHANGED <<replica, clusters, store, clusterQueue, clusterStates, shared>>
<1>1. pass.rep.spec \in SpecShape
  BY SpecsAssumption DEF TypeInv, PassShape, ReplicaObjects
<1>2. \A x \in Chosen : x[2] \in Entries
  BY <1>1, SelectionType DEF Chosen
<1>3. Created \in SUBSET (Refs \X Namespaces)
  BY <1>2 DEF Created, NamespaceMissing, Entries, Spaces
<1>4. \A p \in Created : namespaces[p[1]][p[2]].state = "absent"
  BY DEF Created, NamespaceMissing, NamespaceState
<1>5. /\ namespaces' = [c \in Refs |-> [n \in Namespaces |->
                         IF <<c, n>> \in Created
                         THEN [namespaces[c][n] EXCEPT !.state = "live"]
                         ELSE namespaces[c][n]]]
      /\ NamespaceEvents(Created, {})
      /\ UNCHANGED <<replica, clusters, store, clusterQueue, clusterStates, shared>>
      /\ pass.step = "resolve"
  BY DEF Resolve, Created, Chosen, clusterHandler
<1>6. \A c \in Refs, n \in Namespaces : namespaces[c][n] \in Places(States)
  BY DEF TypeInv, PlatformTypeOK, States
<1>7. \A p \in Places(States) : LET q == [p EXCEPT !.state = "live"]
                                IN q.state = "live" /\ q.label = p.label
  BY DEF Places
<1>8. \E failed : \E retry :
         /\ pass' = [pass EXCEPT !.step = "track", !.plan = {x[2] : x \in Chosen},
                                 !.failed = failed, !.retry = retry]
         /\ Selection(pass.rep.spec, pass.list) # Chosen => retry
  <2> DEFINE s == pass.rep.spec
             selection == Selection(s, pass.list)
             lost == {c \in Clusters : /\ pass.list[c].state = "live" /\ ~Reachable(c)
                                /\ \E i \in DOMAIN s.targets :
                                     c \in Matches(s.targets[i], pass.list)}
             failed == {x[2] : x \in selection \ Chosen}
                                \cup {e \in pass.rep.status : e.cluster \in lost}
             retry == selection # Chosen \/ lost # {}
  <2>1. pass' = [pass EXCEPT !.step = "track", !.plan = {x[2] : x \in Chosen},
                             !.failed = failed, !.retry = retry]
    BY DEF Resolve, Chosen
  <2>2. selection # Chosen => retry
    OBVIOUS
  <2> HIDE DEF failed, retry
  <2> QED BY <2>1, <2>2
<1>9. /\ pass'.step = "track" /\ pass'.rep = pass.rep /\ pass'.list = pass.list
      /\ pass'.plan = {x[2] : x \in Chosen}
      /\ Selection(pass.rep.spec, pass.list) # Chosen => pass'.retry
  <2> HIDE DEF Chosen
  <2> QED BY <1>8 DEF TypeInv, PassShape
<1>10. ASSUME NEW c \in Refs, NEW n \in Namespaces
       PROVE  IF <<c, n>> \in Created
              THEN /\ namespaces[c][n].state = "absent" /\ namespaces'[c][n].state = "live"
                   /\ namespaces'[c][n].label = namespaces[c][n].label
              ELSE namespaces'[c][n] = namespaces[c][n]
  <2>1. CASE <<c, n>> \in Created
    <3>1. namespaces'[c][n] = [namespaces[c][n] EXCEPT !.state = "live"]
      BY <1>5, <2>1
    <3>2. namespaces[c][n].state = "absent"
      BY <1>4, <2>1
    <3> QED BY <1>6, <1>7, <2>1, <3>1, <3>2
  <2>2. CASE <<c, n>> \notin Created
    BY <1>5, <2>2
  <2> QED BY <2>1, <2>2
<1> QED BY <1>3, <1>5, <1>9, <1>10

\* No two (Cluster)Replicas are told apart by their namespaces alone, and no two
\* resources denote the same object in different versions.
DistinctNames ==
  \A q, r \in Replicas : q.kind = r.kind /\ q.name = r.name => q = r
OneVersion == \A k, m \in Resources : ObjectOf[k] = ObjectOf[m] => k = m

\* Syncing asks for another pass where it may not write, and touches only what it
\* has planned to write or what carries the labels of its (Cluster)Replica.
LEMMA SyncFacts ==
  ASSUME TypeInv, Sync
  PROVE  /\ pass.step = "sync" /\ pass'.step = "status"
         /\ pass'.rep.spec = pass.rep.spec /\ pass'.list = pass.list
         /\ pass.retry => pass'.retry
         /\ pass'.retry \/ \A e \in pass.plan : CanWrite(e)
         /\ \A l \in Locations :
              \/ store'[l] = store[l]
              \/ \E e \in pass.plan : Loc(e) = l
              \/ IsManaged(store[l], worker.key) /\ store'[l].owner = store[l].owner
         /\ \A q, l : q # worker.key /\ <<q, l>> \in revived => <<q, l>> \in revived'
         /\ UNCHANGED <<replica, clusters, namespaces, clusterQueue, clusterStates,
                        namespaceQueue, unseen, shared>>
<1> DEFINE synced == {e \in pass.plan : CanWrite(e)}
           written == Written(synced)
           obsolete == pass.rep.status \ (pass.plan \cup pass.failed)
           pruned == {e \in obsolete : /\ e.cluster \in Clusters
                                       /\ pass.list[e.cluster].state = "absent"}
           dying == {e \in obsolete \ pruned : /\ Reachable(e.cluster)
                                              /\ IsManaged(written[Loc(e)], worker.key)}
           lost == {e \in obsolete \ pruned : ~Reachable(e.cluster)}
           done == obsolete \ (dying \cup lost)
           retry == pass.retry \/ synced # pass.plan \/ done # obsolete
<1>1. /\ pass.step = "sync"
      /\ pass' = [pass EXCEPT !.step = "status", !.rep.status = @ \ done, !.retry = retry]
      /\ UNCHANGED <<replica, clusters, namespaces, clusterQueue, clusterStates,
                     namespaceQueue, unseen, shared>>
  BY DEF Sync, clusterHandler, namespaceController
<1>2. /\ pass.retry => retry
      /\ synced # pass.plan => retry
  OBVIOUS
<1>3. store' = [l \in Locations |-> IF \E e \in dying : Loc(e) = l
                                   THEN [written[l] EXCEPT !.state = "deleting"]
                                   ELSE written[l]]
  BY DEF Sync
<1>4. \A l \in Locations : (\E e \in pass.plan : Loc(e) = l) \/ written[l] = store[l]
  BY DEF Written
<1>5. \A e \in dying : IsManaged(written[Loc(e)], worker.key)
  OBVIOUS
<1>6. \A q, l : q # worker.key /\ <<q, l>> \in revived => <<q, l>> \in revived'
  BY DEF Sync
<1>7. store \in [Locations -> Objects]
  BY DEF TypeInv, PlatformTypeOK
<1>8. \A o \in Objects : [o EXCEPT !.state = "deleting"].owner = o.owner
  BY DEF Objects
<1> HIDE DEF written, dying, done, retry
<1>9. ASSUME NEW l \in Locations
      PROVE  \/ store'[l] = store[l]
             \/ \E e \in pass.plan : Loc(e) = l
             \/ IsManaged(store[l], worker.key) /\ store'[l].owner = store[l].owner
  BY <1>3, <1>4, <1>5, <1>7, <1>8
<1>10. /\ pass'.step = "status" /\ pass'.rep.spec = pass.rep.spec /\ pass'.list = pass.list
       /\ pass'.retry = retry
  BY <1>1 DEF TypeInv, PassShape, ReplicaObjects
<1>11. pass'.retry \/ \A e \in pass.plan : CanWrite(e)
  BY <1>2, <1>10
<1> QED BY <1>1, <1>2, <1>6, <1>9, <1>10, <1>11

\* Syncing leaves a copy wherever it may write, and it is there to stay unless the
\* copy it met was in deletion: none of the entries whose copies are to be deleted
\* names the same place.
LEMMA SyncLeaves ==
  ASSUME TypeInv, Sync, OneVersion, NEW e \in pass.plan, CanWrite(e)
  PROVE  \/ <<worker.key, Loc(e)>> \in revived'
         \/ store'[Loc(e)].owner = worker.key /\ store'[Loc(e)].state = "live"
<1> DEFINE synced == {f \in pass.plan : CanWrite(f)}
           written == Written(synced)
           obsolete == pass.rep.status \ (pass.plan \cup pass.failed)
           pruned == {f \in obsolete : /\ f.cluster \in Clusters
                                       /\ pass.list[f.cluster].state = "absent"}
           dying == {f \in obsolete \ pruned : /\ Reachable(f.cluster)
                                              /\ IsManaged(written[Loc(f)], worker.key)}
<1>1. store' = [l \in Locations |-> IF \E f \in dying : Loc(f) = l
                                   THEN [written[l] EXCEPT !.state = "deleting"]
                                   ELSE written[l]]
  BY DEF Sync
<1>2. CASE store[Loc(e)].state = "deleting"
  BY <1>2 DEF Sync
<1>3. CASE store[Loc(e)].state # "deleting"
  <2>1. e \in Entries /\ Loc(e) \in Locations /\ pass.rep.status \subseteq Entries
    BY LocType DEF TypeInv, PassShape, ReplicaObjects
  <2>2. \A f \in dying : f \in Entries /\ f # e
    BY <2>1
  <2>3. \A f \in Entries : Loc(f) = Loc(e) => f = e
    BY <2>1 DEF Loc, Entries, OneVersion
  <2>4. store'[Loc(e)] = written[Loc(e)]
    BY <1>1, <2>1, <2>2, <2>3
  <2>5. written[Loc(e)] = [NoObject EXCEPT !.owner = worker.key, !.state = "live"]
    BY <1>3, <2>1 DEF Written
  <2> QED BY <2>4, <2>5 DEF NoObject
<1> QED BY <1>2, <1>3

\* The cluster handler never remembers a state, so it never suppresses an event.
NoStates == \A c \in Clusters : clusterStates[c] = NoState

\* What a pass will write is its own or nobody's.
PlanFree ==
  pass.step \in {"track", "sync"} =>
    \A e \in pass.plan : store[Loc(e)].owner \in {NoOwner, worker.key}

\* Few steps change namespaces or objects.
LEMMA PlaceSteps ==
  ASSUME [Next]_vars
  PROVE  \/ UNCHANGED <<namespaces, store>>
         \/ \E c \in Clusters : ClusterGone(c)
         \/ \E c \in Refs, n \in Namespaces, x \in Places({"live", "deleting"}) :
              EditNamespace(c, n, x)
         \/ \E c \in Refs, n \in Namespaces : NamespaceGone(c, n)
         \/ \E l \in Locations : Vanish(l)
         \/ Resolve
         \/ Sync
<1>1. CASE Change
  BY <1>1 DEF Change, ReplicaEdited, ClusterEdited, ClusterUnaltered, NamespaceEdited,
     CopyVanishes, Restart, platform, CreateReplica, EditReplica, EditCluster
<1>2. CASE ~Change
  BY <1>2 DEF Next, PassStep, Observe, EnqueueForCluster, EnqueueForNamespace,
     HandleCluster, HandleNamespace, SharedStep, ReadReplica, TrackInStatus, UpdateStatus,
     EndPass, platform, vars
<1> QED BY <1>1, <1>2

\* No event makes the cluster handler remember a state (handler.go 54).
LEMMA NoStatesStep ==
  ASSUME TypeInv, [Next]_vars, NoStates
  PROVE  NoStates'
<1> USE DEF NoStates, clusterHandler
<1>1. CASE Change
  BY <1>1 DEF Change, ReplicaEdited, ClusterEdited, ClusterUnaltered, NamespaceEdited,
     CopyVanishes, Restart
<1>2. ASSUME NEW c \in Clusters, HandleCluster(c) PROVE NoStates'
  BY <1>2 DEF HandleCluster, HandleCreateOrUpdate, HandleClusterDelete, AfterDeletion,
     RememberState, TypeInv, ClusterHandlerTypeOK
<1>3. CASE ~Change /\ ~\E c \in Clusters : HandleCluster(c)
  BY <1>3 DEF Next, PassStep, Observe, EnqueueForCluster, EnqueueForNamespace,
     HandleNamespace, SharedStep, ReadReplica, Resolve, TrackInStatus, Sync,
     UpdateStatus, EndPass, vars
<1> QED BY <1>1, <1>2, <1>3

\* What informers and passes have seen last is what a settled sequence starts with.
LEMMA SettledHead ==
  ASSUME NEW q \in Seq(ReplicaObjects), q # <<>>, Settled(q), Ready(q[Len(q)]),
         ~TriggersIn(q, 1)
  PROVE  Ready(q[1]) /\ q[1].spec = q[Len(q)].spec
<1>1. 1 \in DOMAIN q
  OBVIOUS
<1> QED BY <1>1 DEF Settled

\* What a step does to the pass.
LEMMA PassSteps ==
  ASSUME Existing, [Next]_vars
  PROVE  \/ pass' = pass /\ (worker' = worker \/ pass.step = "end")
         \/ Restart \/ UpdateStatus
         \/ ReadReplica
         \/ Resolve \/ TrackInStatus \/ Sync
<1> USE DEF shared
<1>1. pass.step # "end" => worker.step = "running"
  BY DEF Existing
<1>2. CASE Change
  BY <1>2 DEF Change, ReplicaEdited, ClusterEdited, ClusterUnaltered, NamespaceEdited,
     CopyVanishes
<1>3. CASE SharedStep
  BY <1>1, <1>3 DEF SharedStep, SI!Send, SI!Drop, SI!Deliver, SI!Take, SI!ClearPending
<1>4. CASE ~Change /\ ~SharedStep
  BY <1>4 DEF Next, PassStep, Observe, EnqueueForCluster, EnqueueForNamespace,
     HandleCluster, HandleNamespace, EndPass, vars, SI!Trigger, SI!EnqueueReplica
<1> QED BY <1>2, <1>3, <1>4

\* Tracking in the status changes no plan and no place.
LEMMA TrackFacts ==
  ASSUME TypeInv, TrackInStatus
  PROVE  /\ pass.step = "track" /\ pass'.step = "sync"
         /\ pass'.rep.spec = pass.rep.spec /\ pass'.list = pass.list
         /\ pass'.plan = pass.plan /\ pass'.retry = pass.retry
         /\ UNCHANGED <<clusters, namespaces, store, clusterQueue, clusterStates,
                        namespaceQueue, unseen, shared>>
<1> DEFINE list == pass.rep.status \cup pass.plan
<1>1. /\ pass' = [pass EXCEPT !.step = "sync", !.rep.status = list, !.old = list]
      /\ pass.step = "track"
      /\ UNCHANGED <<clusters, namespaces, store, clusterQueue, clusterStates,
                     namespaceQueue, unseen, shared>>
  BY DEF TrackInStatus, clusterHandler, namespaceController
<1> HIDE DEF list
<1> QED BY <1>1 DEF TypeInv, PassShape, ReplicaObjects

\* Only a pass that syncs makes copies somebody's.
LEMMA OwnerSteps ==
  ASSUME TypeInv, [Next]_vars, ~Sync, NEW l \in Locations
  PROVE  store'[l].owner \in {store[l].owner, NoOwner}
<1>1. NoObject.owner = NoOwner
  BY DEF NoObject
<1>2. store \in [Locations -> Objects]
  BY DEF TypeInv, PlatformTypeOK
<1>3. \A o \in Objects : [o EXCEPT !.state = "deleting"].owner = o.owner
  BY DEF Objects
<1>4. ASSUME NEW c \in Clusters, ClusterGone(c)
      PROVE  store'[l].owner \in {store[l].owner, NoOwner}
  BY <1>1, <1>2, <1>4 DEF ClusterGone
<1>5. ASSUME NEW c \in Refs, NEW n \in Namespaces, NEW x \in Places({"live", "deleting"}),
             EditNamespace(c, n, x)
      PROVE  store'[l].owner = store[l].owner
  BY <1>2, <1>3, <1>5 DEF EditNamespace
<1>6. ASSUME NEW k \in Locations, Vanish(k) PROVE store'[l].owner \in {store[l].owner, NoOwner}
  BY <1>1, <1>2, <1>6 DEF Vanish
<1>7. CASE Resolve \/ \E c \in Refs, n \in Namespaces : NamespaceGone(c, n)
  BY <1>7 DEF Resolve, NamespaceGone
<1> QED BY <1>4, <1>5, <1>6, <1>7, PlaceSteps

\* What a pass plans to write stays its own or nobody's: no other pass runs meanwhile.
LEMMA PlanFreeStep ==
  ASSUME TypeInv, Existing, [Next]_vars, PlanFree
  PROVE  PlanFree'
<1>2. \A e \in pass.plan : Loc(e) \in Locations
  BY LocType DEF TypeInv, PassShape
<1>3. CASE pass' = pass /\ (worker' = worker \/ pass.step = "end")
  <2>1. ~Sync
    BY <1>3, SyncFacts
  <2> QED BY <1>2, <1>3, <2>1, OwnerSteps DEF PlanFree
<1>4. CASE Restart \/ UpdateStatus
  BY <1>4 DEF Restart, UpdateStatus, NoPass, PlanFree
<1>5. CASE ReadReplica
  <2>1. pass.step = "end"
    BY <1>5 DEF Existing, ReadReplica, SI!ReadReplica
  <2>2. pass'.step \in {"end", "resolve"}
    BY <1>5, <2>1 DEF ReadReplica, NoPass
  <2> QED BY <2>2 DEF PlanFree
<1>6. CASE Resolve
  <2>1. pass'.plan = {x[2] : x \in Chosen} /\ UNCHANGED <<store, worker>>
    BY <1>6, ResolveFacts DEF shared
  <2>2. \A x \in Chosen : store[Loc(x[2])].owner \in {NoOwner, worker.key}
    BY DEF Chosen, Syncable
  <2> QED BY <2>1, <2>2 DEF PlanFree
<1>7. CASE TrackInStatus
  BY <1>7, TrackFacts DEF PlanFree, shared
<1>8. CASE Sync
  BY <1>8, SyncFacts DEF PlanFree
<1> QED BY <1>3, <1>4, <1>5, <1>6, <1>7, <1>8, PassSteps

\* A change of a Cluster is followed by an event, which stays until it is handled.
LEMMA ClusterSteps ==
  ASSUME TypeInv, [Next]_vars, ~Restart, NEW c \in Clusters
  PROVE  /\ clusters'[c] = clusters[c] \/ c \in clusterQueue'
         /\ c \in clusterQueue => c \in clusterQueue' \/ HandleCluster(c)
<1> USE DEF clusterHandler, platform
<1>1. clusters \in [Clusters -> Places(States)]
  BY DEF TypeInv, PlatformTypeOK, States
<1>2. ASSUME NEW d \in Clusters, ClusterEdited(d)
      PROVE  /\ clusters'[c] = clusters[c] \/ c \in clusterQueue'
             /\ c \in clusterQueue => c \in clusterQueue'
  BY <1>1, <1>2 DEF ClusterEdited, EditCluster, ClusterGone
<1>3. ASSUME NEW d \in Clusters, HandleCluster(d)
      PROVE  /\ clusters'[c] = clusters[c]
             /\ c \in clusterQueue => c \in clusterQueue' \/ HandleCluster(c)
  <2>1. clusterQueue' = clusterQueue \ {d} /\ clusters' = clusters
    BY <1>3 DEF HandleCluster, HandleCreateOrUpdate, HandleClusterDelete, AfterDeletion,
       TakeCluster
  <2> QED BY <1>3, <2>1
<1>4. CASE Change /\ ~\E d \in Clusters : ClusterEdited(d)
  BY <1>4 DEF Change, ReplicaEdited, ClusterUnaltered, NamespaceEdited, CopyVanishes,
     CreateReplica, EditReplica, EditNamespace, NamespaceGone, Vanish
<1>5. CASE ~Change /\ ~\E d \in Clusters : HandleCluster(d)
  BY <1>5 DEF Next, PassStep, Observe, EnqueueForCluster, EnqueueForNamespace,
     HandleNamespace, SharedStep, ReadReplica, Resolve, TrackInStatus, Sync,
     UpdateStatus, EndPass, vars
<1> QED BY <1>2, <1>3, <1>4, <1>5 DEF Change

\* If the handler does not ask for a pass over r, r does not select the Cluster.
LEMMA ClusterHandled ==
  ASSUME TypeInv, Settling, NoStates, NEW r \in Replicas, Up(r), NEW c \in Clusters,
         HandleCluster(c), r \notin clusterTodo'
  PROVE  clusters[c].state = "absent" \/ ~SelectsCluster(replica[r], c)
<1>1. r \in Listed(Cached) /\ Cached[r].spec = replica[r].spec
  BY CachedCurrent DEF Up, Awaited
<1>2. SelectsCluster(Cached[r], c) <=> SelectsCluster(replica[r], c)
  BY <1>1 DEF SelectsCluster
<1>3. ClusterStateChanged(c)
  BY DEF NoStates, ClusterStateChanged
<1>4. clusters[c].state \in {"absent", "live", "deleting"}
  BY DEF TypeInv, PlatformTypeOK, Places
<1>5. clusters[c].state # "absent" => clusterTodo' = Associated(Cached, c)
  BY <1>3, <1>4 DEF HandleCluster, HandleCreateOrUpdate, HandleClusterDelete, AfterDeletion
<1> QED BY <1>1, <1>2, <1>5 DEF Associated

------------------------------------------------------------------------------
(* The pass over a (Cluster)Replica, once nothing else leads to one *)

Running(r) == worker.step = "running" /\ worker.key = r

\* It works on what r asks for, and has listed every Cluster that r selects as it
\* is now, unless an event about the Cluster is still to be handled.
ListCurrent(r, c) ==
  \/ c \in clusterQueue
  \/ clusters[c].state # "live"
  \/ ~SelectsCluster(replica[r], c)
  \/ pass.list[c] = clusters[c]
PassCurrent ==
  \A r \in Replicas : Up(r) /\ Running(r) =>
    /\ pass.step # "end" /\ pass.rep.spec = replica[r].spec
    /\ \A c \in Clusters : ListCurrent(r, c)

\* The read that starts such a pass.
LEMMA ReadFacts ==
  ASSUME TypeInv, TypeInv', Settling', ReadReplica, NEW r \in Replicas, worker.key = r, Up(r)'
  PROVE  /\ pass'.step = "resolve" /\ pass'.list = clusters
         /\ pass'.rep.spec = replica'[r].spec
         /\ UNCHANGED <<clusters, namespaces, store, clusterQueue, clusterStates,
                        namespaceQueue, unseen>>
<1>1. /\ watch[r] \in Seq(ReplicaObjects) /\ watch[r] # <<>>
      /\ watch'[r] \in Seq(ReplicaObjects) /\ watch'[r] # <<>>
      /\ watch'[r][Len(watch'[r])] = replica'[r] /\ replica'[r] \in ReplicaObjects
      /\ Settled(watch'[r])
  BY DEF TypeInv, WatchTypeOK, PlatformTypeOK, Settling
<1>2. Ready(replica'[r]) /\ ~TriggersIn(watch'[r], 1)
  BY DEF Up, Awaited
<1>3. Ready(watch'[r][1]) /\ watch'[r][1].spec = replica'[r].spec
  BY <1>1, <1>2, SettledHead
<1>4. watch'[r][1] = Cached[r]
  <2>1. watch'[r] \in {watch[r], Append(watch[r], replica'[r])}
    BY DEF ReadReplica, Publish
  <2>2. Append(watch[r], replica'[r])[1] = watch[r][1] /\ Head(watch[r]) = watch[r][1]
    BY <1>1
  <2> QED BY <2>1, <2>2 DEF Cached
<1> DEFINE rep == IF Cached[r].op = "reconcile" THEN replica'[r] ELSE Cached[r]
<1>5. /\ pass' = [NoPass EXCEPT !.step = "resolve", !.list = clusters,
                                !.rep = rep, !.old = rep.status]
      /\ UNCHANGED <<clusters, namespaces, store, clusterQueue, clusterStates,
                     namespaceQueue, unseen>>
  BY <1>3, <1>4 DEF ReadReplica, Ready, clusterHandler, namespaceController
<1>6. rep.spec = replica'[r].spec
  BY <1>3, <1>4
<1> HIDE DEF rep
<1> QED BY <1>5, <1>6 DEF NoPass

\* While nothing else leads to a pass over r, one goes on step by step.
LEMMA RunningStep ==
  ASSUME TypeInv, Existing, SI!TypeOK, [Next]_vars, ~Restart, NEW r \in Replicas,
         Up(r)', Running(r)', ~(ReadReplica /\ worker.key = r)
  PROVE  /\ Running(r) /\ worker' = worker
         /\ pass' = pass \/ Resolve \/ TrackInStatus \/ Sync \/ pass.step = "end"
<1>1. worker' = worker
  <2>1. CASE ReadReplica
    <3>1. worker'.key = worker.key
      BY <2>1 DEF ReadReplica, SI!ReadReplica, SI!TypeOK, SI!Reconciles
    <3> QED BY <2>1, <3>1 DEF Running
  <2> QED BY <2>1, WorkerStep DEF Running
<1>2. ~ReadReplica
  BY <1>1 DEF ReadReplica, SI!ReadReplica, Running
<1>3. ~UpdateStatus
  <2> SUFFICES ASSUME UpdateStatus PROVE FALSE
    OBVIOUS
  <2>1. SI!Trigger(r)
    BY <1>1 DEF UpdateStatus, SI!Finish, Running
  <2> QED BY <2>1 DEF SI!Trigger, Up, Awaited, Requested
<1> QED BY <1>1, <1>2, <1>3, PassSteps DEF Running

\* A pass over r that nothing is going to follow works with what r and the Clusters
\* look like now.
LEMMA PassCurrentStep ==
  ASSUME TypeInv, TypeInv', Existing, SI!TypeOK, SI!PendingIsCarried', KeepsReconcile,
         [Next]_vars, Settling, Settling', NoStates, PassCurrent
  PROVE  PassCurrent'
<1> SUFFICES ASSUME NEW r \in Replicas, Up(r)', Running(r)'
             PROVE  /\ pass'.step # "end" /\ pass'.rep.spec = replica'[r].spec
                    /\ \A c \in Clusters : ListCurrent(r, c)'
  BY DEF PassCurrent
<1>1. CASE ReadReplica /\ worker.key = r
  BY <1>1, ReadFacts DEF ListCurrent
<1>2. CASE ~(ReadReplica /\ worker.key = r)
  <2>1. Up(r) /\ ~Restart /\ replica'[r].spec = replica[r].spec
    BY <1>2, UpStep
  <2>2. /\ Running(r) /\ worker' = worker
        /\ pass' = pass \/ Resolve \/ TrackInStatus \/ Sync \/ pass.step = "end"
    BY <1>2, <2>1, RunningStep
  <2>3. /\ pass.step # "end" /\ pass.rep.spec = replica[r].spec
        /\ \A c \in Clusters : ListCurrent(r, c)
    BY <2>1, <2>2 DEF PassCurrent
  <2>4. pass'.step # "end" /\ pass'.rep.spec = pass.rep.spec /\ pass'.list = pass.list
    BY <2>2, <2>3, ResolveFacts, TrackFacts, SyncFacts
  <2>5. ASSUME NEW c \in Clusters PROVE ListCurrent(r, c)'
    <3>1. /\ clusters'[c] = clusters[c] \/ c \in clusterQueue'
          /\ c \in clusterQueue => c \in clusterQueue' \/ HandleCluster(c)
      BY <2>1, ClusterSteps
    <3>2. SelectsCluster(replica[r], c)' <=>
            \E i \in DOMAIN replica[r].spec.targets :
              /\ replica[r].spec.targets[i].on # "hosting"
              /\ clusters'[c].label \in replica[r].spec.targets[i].selector
      BY <2>1 DEF SelectsCluster
    <3>3. CASE HandleCluster(c)
      <4>1. r \notin clusterTodo'
        BY DEF Up, Awaited
      <4>2. clusters[c].state = "absent" \/ ~SelectsCluster(replica[r], c)
        BY <2>1, <3>3, <4>1, ClusterHandled
      <4>3. clusters' = clusters
        BY <3>3 DEF HandleCluster, platform
      <4> QED BY <3>2, <4>2, <4>3 DEF ListCurrent, SelectsCluster
    <3>4. CASE ~HandleCluster(c)
      <4>1. ListCurrent(r, c)
        BY <2>3
      <4> QED BY <2>4, <3>1, <3>2, <3>4, <4>1 DEF ListCurrent, SelectsCluster
    <3> QED BY <3>3, <3>4
  <2> QED BY <2>1, <2>3, <2>4, <2>5
<1> QED BY <1>1, <1>2

------------------------------------------------------------------------------
(* The places that a (Cluster)Replica selects *)

\* A target selects Cluster c, and on it namespace n whose state is x.
OnCluster(t, c, list) ==
  IF t.on = "hosting" THEN c = Host
  ELSE c \in Clusters /\ list[c].state = "live" /\ list[c].label \in t.selector
InNamespace(t, c, n, x) ==
  IF t.on = "nextTo" THEN n = NamespaceOf[c]
  ELSE \/ t.by = "none" /\ n = NoNamespace
       \/ t.by = "identities" /\ n \in t.names
       \/ /\ t.by = "labels" /\ n \in Namespaces
          /\ x.state # "absent" /\ x.label \in t.nsLabels

\* Which clusters a target selects, before and after a step.
LEMMA ClusterSelected ==
  ASSUME NEW t \in Targets, NEW c \in Refs
  PROVE  /\ c \in Targeted(t, clusters) <=> OnCluster(t, c, clusters)
         /\ (c \in Targeted(t, clusters))' <=> OnCluster(t, c, clusters')
         /\ \A list : OnCluster(t, c, list) /\ Reachable(c) => c \in Targeted(t, list)
         /\ OnCluster(t, c, clusters) => Reachable(c)
  BY PlacesAssumption DEF Targeted, Matches, OnCluster, Reachable, Refs

\* Which namespaces of a cluster a target selects, before and after a step.
LEMMA NamespaceSelected ==
  ASSUME NEW t \in Targets, NEW c \in Refs, NEW n \in Spaces
  PROVE  /\ n \in SelectedNamespaces(t, c) <=> InNamespace(t, c, n, namespaces[c][n])
         /\ (n \in SelectedNamespaces(t, c))' <=> InNamespace(t, c, n, namespaces'[c][n])
<1>1. t.by \in {"none", "identities", "labels", "invalid"}
  BY DEF Targets
<1>2. CASE t.on = "nextTo"
  BY <1>2 DEF SelectedNamespaces, InNamespace
<1>3. CASE t.on # "nextTo" /\ t.by = "none"
  BY <1>3 DEF SelectedNamespaces, InNamespace
<1>4. CASE t.on # "nextTo" /\ t.by = "identities"
  BY <1>4 DEF SelectedNamespaces, InNamespace
<1>5. CASE t.on # "nextTo" /\ t.by \in {"labels", "invalid"}
  <2>1. /\ SelectedNamespaces(t, c) = {m \in Namespaces : /\ NamespaceState(c, m) # "absent"
                                                          /\ SelectorMatches(t, c, m)}
        /\ SelectedNamespaces(t, c)' = {m \in Namespaces : /\ NamespaceState(c, m)' # "absent"
                                                           /\ SelectorMatches(t, c, m)'}
    BY <1>5 DEF SelectedNamespaces
  <2> QED BY <1>5, <2>1 DEF InNamespace, NamespaceState, SelectorMatches
<1> QED BY <1>1, <1>2, <1>3, <1>4, <1>5

\* Resources without a namespace selector are cluster-scoped: their templates name
\* no namespace of their own.
OwnNamespaces ==
  \A s \in Specs : \A i \in DOMAIN s.targets :
    s.targets[i].on # "nextTo" /\ s.targets[i].by = "none" => s.home = NoNamespace

\* What the entry says that a target creates for a selected place.
LEMMA EntryFacts ==
  ASSUME OwnNamespaces, NEW s \in Specs, NEW i \in DOMAIN s.targets, NEW c \in Refs,
         NEW n \in Spaces, NEW x, InNamespace(s.targets[i], c, n, x),
         s.targets[i].on = "nextTo" => c \in Clusters
  PROVE  LET t == s.targets[i]
             e == EntryOf(s, t, c, n)
         IN /\ t \in Targets /\ e \in Entries
            /\ e.cluster = IF t.on = "nextTo" THEN Host ELSE c
            /\ t.on = "nextTo" => e.namespace = NamespaceOf[c]
            /\ e.namespace = NoNamespace => n = NoNamespace
            /\ n = NoNamespace => e.namespace = NoNamespace /\ t.on # "nextTo" /\ t.by = "none"
            /\ n # NoNamespace => n \in Namespaces /\ e.namespace = n
<1> DEFINE t == s.targets[i]
           e == EntryOf(s, t, c, n)
<1>1. s \in SpecShape /\ t \in Targets
  BY SpecsAssumption DEF SpecShape
<1>2. n = NoNamespace => t.on # "nextTo" /\ t.by = "none"
  <2>1. NoNamespace \notin Namespaces /\ NamespaceOf \in [Clusters -> Namespaces]
    BY PlacesAssumption
  <2>2. t.names \subseteq Namespaces
    BY <1>1 DEF Targets
  <2> HIDE DEF t
  <2> QED BY <2>1, <2>2 DEF InNamespace, t
<1>3. KeyOf(s, c, n) \in Entries
  BY <1>1 DEF KeyOf, Entries, SpecShape, Spaces
<1>4. /\ e \in Entries /\ e.cluster = IF t.on = "nextTo" THEN Host ELSE c
      /\ e.namespace = KeyOf(s, c, n).namespace
  <2>1. \A k \in Entries, d \in Refs : LET x1 == [k EXCEPT !.cluster = d]
                                       IN x1 \in Entries /\ x1.cluster = d
                                          /\ x1.namespace = k.namespace
    BY DEF Entries
  <2>2. Host \in Refs
    BY DEF Refs
  <2> HIDE DEF t
  <2> QED BY <1>3, <2>1, <2>2 DEF EntryOf
<1>5. e.namespace = IF n = NoNamespace THEN s.home ELSE n
  BY <1>4 DEF KeyOf
<1>6. n = NoNamespace => s.home = NoNamespace
  BY <1>2 DEF OwnNamespaces
<1>7. t.on = "nextTo" => n = NamespaceOf[c]
  BY DEF InNamespace
<1> HIDE DEF t, e
<1>8. /\ t \in Targets /\ e \in Entries
      /\ e.cluster = IF t.on = "nextTo" THEN Host ELSE c
      /\ t.on = "nextTo" => e.namespace = NamespaceOf[c]
      /\ e.namespace = NoNamespace => n = NoNamespace
      /\ n = NoNamespace => e.namespace = NoNamespace /\ t.on # "nextTo" /\ t.by = "none"
      /\ n # NoNamespace => n \in Namespaces /\ e.namespace = n
  BY <1>1, <1>2, <1>4, <1>5, <1>6, <1>7 DEF Spaces
<1> QED BY <1>8 DEF t, e

\* A change of a namespace is followed by an event, which stays until it is handled,
\* unless the namespace was created in the second in which the process started or
\* its cluster is gone.
LEMMA NamespaceSteps ==
  ASSUME TypeInv, [Next]_vars, ~Restart, NEW c \in Refs, NEW n \in Namespaces
  PROVE  /\ \/ namespaces'[c][n] = namespaces[c][n]
            \/ <<c, n>> \in namespaceQueue' \cup unseen'
            \/ c \in Clusters /\ clusters'[c].state = "absent"
         /\ <<c, n>> \in unseen => <<c, n>> \in unseen' \cup namespaceQueue'
         /\ <<c, n>> \in namespaceQueue => <<c, n>> \in namespaceQueue' \/ HandleNamespace(c, n)
<1> USE DEF namespaceController, platform
<1> DEFINE p == <<c, n>>
           Held == /\ p \in unseen => p \in unseen' \cup namespaceQueue'
                   /\ p \in namespaceQueue => p \in namespaceQueue'
           Same == namespaces'[c][n] = namespaces[c][n]
           Told == p \in namespaceQueue' \cup unseen'
<1>1. namespaces \in [Refs -> [Namespaces -> Places(States)]]
      /\ clusters \in [Clusters -> Places(States)]
  BY DEF TypeInv, PlatformTypeOK, States
<1>2. ASSUME NEW created, NEW others, NamespaceEvents(created, others)
      PROVE  Held /\ (p \in created \cup others => Told)
  BY <1>2 DEF NamespaceEvents
<1>3. ASSUME NEW d \in Refs, NEW m \in Namespaces, NamespaceEdited(d, m)
      PROVE  Held /\ (Same \/ Told)
  <2>1. \/ NamespaceEvents({<<d, m>>}, {})
        \/ NamespaceEvents({}, {<<d, m>>})
    BY <1>3 DEF NamespaceEdited
  <2>2. ~(d = c /\ m = n) => Same
    BY <1>1, <1>3 DEF NamespaceEdited, EditNamespace, NamespaceGone
  <2> HIDE DEF Held, Same, Told
  <2>3. Held /\ (p = <<d, m>> => Told)
    BY <1>2, <2>1
  <2> QED BY <2>2, <2>3
<1>4. CASE Resolve
  <2>1. NamespaceEvents(Created, {}) /\ (p \notin Created => Same)
    BY <1>4, ResolveFacts
  <2> HIDE DEF Held, Same, Told
  <2> QED BY <1>2, <2>1 DEF Held, Same, Told
<1>5. ASSUME NEW d \in Clusters, ClusterEdited(d)
      PROVE  Held /\ (Same \/ (c \in Clusters /\ clusters'[c].state = "absent"))
  <2>1. Held
    BY <1>5 DEF ClusterEdited
  <2>2. CASE ClusterGone(d)
    <3>1. c # d => Same
      BY <1>1, <2>2 DEF ClusterGone
    <3>2. c = d => c \in Clusters /\ clusters'[c].state = "absent"
      <4>1. clusters'[d] = [clusters[d] EXCEPT !.state = "absent"]
        BY <1>1, <2>2 DEF ClusterGone
      <4> QED BY <1>1, <4>1 DEF Places
    <3> QED BY <2>1, <3>1, <3>2
  <2>3. CASE ~ClusterGone(d)
    BY <1>5, <2>1, <2>3 DEF ClusterEdited, EditCluster
  <2> QED BY <2>2, <2>3
<1>6. ASSUME NEW d \in Refs, NEW m \in Namespaces, HandleNamespace(d, m)
      PROVE  /\ Same /\ unseen' = unseen
             /\ p \in namespaceQueue => p \in namespaceQueue' \/ HandleNamespace(c, n)
  <2>1. namespaceQueue' = namespaceQueue \ {<<d, m>>} /\ Same /\ unseen' = unseen
    BY <1>6 DEF HandleNamespace, ReconcileNamespace
  <2> QED BY <1>6, <2>1
<1>7. CASE /\ Change
           /\ ~\E d \in Refs, m \in Namespaces : NamespaceEdited(d, m)
           /\ ~\E d \in Clusters : ClusterEdited(d)
  <2>1. Same /\ Held
    BY <1>7 DEF Change, ReplicaEdited, ClusterUnaltered, CopyVanishes, CreateReplica,
       EditReplica, Vanish
  <2> QED BY <2>1
<1>8. CASE /\ ~Change /\ ~Resolve
           /\ ~\E d \in Refs, m \in Namespaces : HandleNamespace(d, m)
  <2>1. UNCHANGED <<namespaces, namespaceQueue, unseen>>
    BY <1>8 DEF Next, PassStep, Observe, EnqueueForCluster, EnqueueForNamespace,
       HandleCluster, SharedStep, ReadReplica, TrackInStatus, Sync, UpdateStatus,
       EndPass, vars
  <2> QED BY <2>1
<1> QED BY <1>3, <1>4, <1>5, <1>6, <1>7, <1>8

\* If the namespace controller does not ask for a pass over r, none of r's targets
\* selects the namespace by itself.
LEMMA NamespaceHandled ==
  ASSUME TypeInv, Settling, NEW r \in Replicas, Up(r), NEW c \in Refs, NEW n \in Namespaces,
         HandleNamespace(c, n), r \notin namespaceTodo', namespaces[c][n].state # "absent",
         NEW i \in DOMAIN replica[r].spec.targets, replica[r].spec.targets[i].on # "nextTo"
  PROVE  ~InNamespace(replica[r].spec.targets[i], c, n, namespaces[c][n])
<1>1. r \in Listed(Cached) /\ Cached[r].spec = replica[r].spec
  BY CachedCurrent DEF Up, Awaited
<1>2. ~Relevant(Cached[r], c, n)
  BY <1>1 DEF HandleNamespace, ReconcileNamespace, NamespaceState
<1>3. ~SelectorMatches(replica[r].spec.targets[i], c, n)
  BY <1>1, <1>2 DEF Relevant, SelectsNamespace
<1> QED BY <1>3, PlacesAssumption DEF SelectorMatches, InNamespace

------------------------------------------------------------------------------
(* Every selected place is covered *)

\* A copy is expected there.
Asked(t, e) ==
  \/ t.on = "nextTo"
  \/ e.namespace = NoNamespace
  \/ /\ NamespaceState(e.cluster, e.namespace) = "live"
     /\ <<e.cluster, e.namespace>> \notin unseen

\* The copy of r is there to stay, or r has written it when it was in deletion.
Kept(r, l) ==
  \/ <<r, l>> \in revived
  \/ store[l].owner = r /\ store[l].state = "live"

\* The running pass over r will write it, or end with a retry; without a running
\* pass, r has it.
InHand(r, e) ==
  IF Running(r)
  THEN \/ pass.step = "resolve"
       \/ pass.retry
       \/ pass.step \in {"track", "sync"} /\ e \in pass.plan
       \/ pass.step = "status" /\ Kept(r, Loc(e))
  ELSE Kept(r, Loc(e))

\* An event is to be handled that leads to another pass.
Told(t, c, e) ==
  \/ c \in clusterQueue
  \/ t.on # "nextTo" /\ <<e.cluster, e.namespace>> \in namespaceQueue

Selects(t, c, n, e) ==
  OnCluster(t, c, clusters) /\ InNamespace(t, c, n, namespaces[c][n]) /\ Asked(t, e)
Cover(r, s, t, c, n) ==
  LET e == EntryOf(s, t, c, n)
  IN Selects(t, c, n, e) => InHand(r, e) \/ Told(t, c, e)
Covered ==
  \A r \in Replicas : Up(r) =>
    \A i \in DOMAIN replica[r].spec.targets, c \in Refs, n \in Spaces :
      Cover(r, replica[r].spec, replica[r].spec.targets[i], c, n)

\* A place that is selected was so before the step, or an event tells of it.
LEMMA SelectsStep ==
  ASSUME TypeInv, [Next]_vars, ~Restart, OwnNamespaces, NEW s \in Specs,
         NEW i \in DOMAIN s.targets, NEW c \in Refs, NEW n \in Spaces,
         Selects(s.targets[i], c, n, EntryOf(s, s.targets[i], c, n))'
  PROVE  LET t == s.targets[i]
             e == EntryOf(s, t, c, n)
         IN Selects(t, c, n, e) \/ Told(t, c, e)'
<1> DEFINE t == s.targets[i]
           e == EntryOf(s, t, c, n)
<1>1. /\ OnCluster(t, c, clusters') /\ InNamespace(t, c, n, namespaces'[c][n])
      /\ \/ t.on = "nextTo"
         \/ e.namespace = NoNamespace
         \/ /\ namespaces'[e.cluster][e.namespace].state = "live"
            /\ <<e.cluster, e.namespace>> \notin unseen'
  BY DEF Selects, Asked, NamespaceState
<1>2. t.on = "nextTo" => c \in Clusters
  BY <1>1 DEF OnCluster
<1>3. /\ e.cluster = IF t.on = "nextTo" THEN Host ELSE c
      /\ e.namespace = NoNamespace => n = NoNamespace
      /\ n = NoNamespace => e.namespace = NoNamespace /\ t.on # "nextTo" /\ t.by = "none"
      /\ n # NoNamespace => n \in Namespaces /\ e.namespace = n
  BY <1>1, <1>2, EntryFacts
<1> HIDE DEF t, e
<1> SUFFICES ASSUME ~Told(t, c, e)' PROVE Selects(t, c, n, e)
  BY DEF t, e
<1>4. /\ c \notin clusterQueue'
      /\ t.on # "nextTo" => <<e.cluster, e.namespace>> \notin namespaceQueue'
  BY DEF Told
<1>5. OnCluster(t, c, clusters)
  <2>1. CASE t.on = "hosting"
    BY <1>1, <2>1 DEF OnCluster
  <2>2. CASE t.on # "hosting"
    <3>1. c \in Clusters
      BY <1>1, <2>2 DEF OnCluster
    <3>2. clusters'[c] = clusters[c]
      BY <1>4, <3>1, ClusterSteps
    <3> QED BY <1>1, <3>2 DEF OnCluster
  <2> QED BY <2>1, <2>2
<1>6. CASE t.on = "nextTo"
  BY <1>1, <1>5, <1>6 DEF Selects, InNamespace, Asked
<1>7. CASE t.on # "nextTo" /\ n = NoNamespace
  BY <1>1, <1>3, <1>5, <1>7 DEF Selects, InNamespace, Asked
<1>8. CASE t.on # "nextTo" /\ n # NoNamespace
  <2>1. /\ n \in Namespaces /\ e.namespace = n /\ e.cluster = c
        /\ namespaces'[c][n].state = "live" /\ <<c, n>> \notin unseen'
        /\ <<c, n>> \notin namespaceQueue'
    BY <1>1, <1>3, <1>4, <1>8
  <2>2. ~(c \in Clusters /\ clusters'[c].state = "absent")
    BY <1>1, PlacesAssumption DEF OnCluster
  <2>3. namespaces'[c][n] = namespaces[c][n] /\ <<c, n>> \notin unseen
    BY <2>1, <2>2, NamespaceSteps
  <2> QED BY <1>1, <1>5, <2>1, <2>3 DEF Selects, Asked, NamespaceState
<1> QED BY <1>6, <1>7, <1>8

\* An event that tells of a selected place of r leads to a pass over r, unless it
\* stays to be handled.
LEMMA ToldStep ==
  ASSUME TypeInv, [Next]_vars, ~Restart, OwnNamespaces, Settling, NoStates,
         NEW r \in Replicas, Up(r), r \notin clusterTodo', r \notin namespaceTodo',
         NEW s \in Specs, s = replica[r].spec, NEW i \in DOMAIN s.targets, NEW c \in Refs,
         NEW n \in Spaces, NEW t, t = s.targets[i], NEW e, e = EntryOf(s, t, c, n),
         Selects(t, c, n, e), Told(t, c, e)
  PROVE  Told(t, c, e)'
<1>2. OnCluster(t, c, clusters) /\ InNamespace(t, c, n, namespaces[c][n]) /\ Asked(t, e)
  BY DEF Selects
<1>3. /\ e.cluster = IF t.on = "nextTo" THEN Host ELSE c
      /\ e.namespace = NoNamespace => n = NoNamespace
      /\ n = NoNamespace => e.namespace = NoNamespace
      /\ n # NoNamespace => n \in Namespaces /\ e.namespace = n
  BY <1>2, EntryFacts DEF OnCluster
<1>4. CASE c \in clusterQueue
  <2>1. c \in Clusters
    BY <1>4 DEF TypeInv, ClusterHandlerTypeOK
  <2>2. t.on # "hosting" /\ clusters[c].state = "live" /\ clusters[c].label \in t.selector
    BY <1>2, <2>1, PlacesAssumption DEF OnCluster
  <2>3. SelectsCluster(replica[r], c)
    BY <2>2 DEF SelectsCluster
  <2>4. ~HandleCluster(c)
    BY <2>1, <2>2, <2>3, ClusterHandled
  <2>5. c \in clusterQueue'
    BY <1>4, <2>1, <2>4, ClusterSteps
  <2> QED BY <2>5 DEF Told
<1>5. CASE t.on # "nextTo" /\ <<e.cluster, e.namespace>> \in namespaceQueue
  <2>1. n \in Namespaces /\ e.namespace = n /\ e.cluster = c /\ <<c, n>> \in namespaceQueue
        /\ n # NoNamespace
    <3>1. e.namespace \in Namespaces
      BY <1>5 DEF TypeInv, NamespaceControllerTypeOK
    <3> QED BY <1>3, <1>5, <3>1, PlacesAssumption
  <2>2. namespaces[c][n].state = "live"
    BY <1>2, <1>5, <2>1 DEF Asked, NamespaceState
  <2>3. ~HandleNamespace(c, n)
    BY <1>2, <1>5, <2>1, <2>2, NamespaceHandled
  <2>4. <<c, n>> \in namespaceQueue'
    BY <2>1, <2>3, NamespaceSteps
  <2> QED BY <1>5, <2>1, <2>4 DEF Told
<1> QED BY <1>4, <1>5 DEF Told

\* A copy stays where it is selected before and after the step: only the pass over
\* its (Cluster)Replica deletes it, and no other takes it over.
LEMMA CopyStays ==
  ASSUME TypeInv, [Next]_vars, OwnNamespaces, DistinctNames, SI!TypeOK, PlanFree,
         NEW r \in Replicas, Sync => worker.key # r, NEW s \in Specs,
         NEW i \in DOMAIN s.targets, NEW c \in Refs, NEW n \in Spaces,
         NEW t, t = s.targets[i], NEW e, e = EntryOf(s, t, c, n), Selects(t, c, n, e),
         Selects(t, c, n, e)', Kept(r, Loc(e))
  PROVE  Kept(r, Loc(e))'
<1>1. /\ OnCluster(t, c, clusters) /\ InNamespace(t, c, n, namespaces[c][n])
      /\ OnCluster(t, c, clusters') /\ Asked(t, e)'
  BY DEF Selects
<1>2. /\ e \in Entries
      /\ e.cluster = IF t.on = "nextTo" THEN Host ELSE c
      /\ t.on = "nextTo" => e.namespace = NamespaceOf[c] /\ c \in Clusters
  BY <1>1, EntryFacts DEF OnCluster
<1> DEFINE l == Loc(e)
<1>3. l \in Locations /\ l[1] = e.cluster /\ l[2] = e.namespace
  BY <1>2, LocType DEF Loc
<1> HIDE DEF l
<1>4. /\ store \in [Locations -> Objects] /\ clusters \in [Clusters -> Places(States)]
      /\ namespaces \in [Refs -> [Namespaces -> Places(States)]]
  BY DEF TypeInv, PlatformTypeOK, States
<1>5. CASE <<r, l>> \in revived
  <2>1. <<r, l>> \in revived'
    BY <1>5, RevivedSteps, SyncFacts
  <2> QED BY <2>1 DEF Kept, l
<1>6. CASE store[l].owner = r /\ store[l].state = "live"
  <2> DEFINE Goal == store'[l].owner = r /\ store'[l].state = "live"
  <2>1. ASSUME NEW d \in Clusters, ClusterGone(d) PROVE Goal
    <3>1. clusters'[d].state = "absent"
      <4>1. clusters'[d] = [clusters[d] EXCEPT !.state = "absent"]
        BY <1>4, <2>1 DEF ClusterGone
      <4> QED BY <1>4, <4>1 DEF Places
    <3>2. l[1] # d
      BY <1>1, <1>2, <1>3, <3>1, PlacesAssumption DEF OnCluster
    <3> QED BY <1>3, <1>6, <2>1, <3>2 DEF ClusterGone
  <2>2. ASSUME NEW d \in Refs, NEW m \in Namespaces, NEW x \in Places({"live", "deleting"}),
               EditNamespace(d, m, x)
        PROVE  Goal
    <3>1. namespaces'[d][m] = x
      BY <1>4, <2>2 DEF EditNamespace
    <3>2. ~(x.state = "deleting" /\ l[1] = d /\ l[2] = m)
      <4> SUFFICES ASSUME x.state = "deleting", l[1] = d, l[2] = m PROVE FALSE
        OBVIOUS
      <4>1. t.on # "nextTo"
        BY <1>2, <1>3, <2>2 DEF EditNamespace
      <4>2. e.namespace # NoNamespace
        BY <1>3, PlacesAssumption
      <4>3. namespaces'[d][m].state = "live"
        BY <1>1, <1>3, <4>1, <4>2 DEF Asked, NamespaceState
      <4> QED BY <3>1, <4>3
    <3> QED BY <1>3, <1>6, <2>2, <3>2 DEF EditNamespace
  <2>3. ASSUME NEW k \in Locations, Vanish(k) PROVE Goal
    <3>1. l # k
      BY <1>6, <2>3 DEF Vanish
    <3> QED BY <1>3, <1>4, <1>6, <2>3, <3>1 DEF Vanish
  <2>4. ASSUME Resolve \/ \E d \in Refs, m \in Namespaces : NamespaceGone(d, m) PROVE Goal
    BY <1>6, <2>4 DEF Resolve, NamespaceGone
  <2>5. ASSUME Sync PROVE Goal
    <3>1. worker.key # r /\ pass.step = "sync" /\ worker.key \in Replicas
      BY <2>5 DEF Sync, SI!TypeOK, SI!Reconciles
    <3>2. \A k \in pass.plan : Loc(k) # l
      BY <1>6, <3>1, ReplicasAssumption DEF PlanFree
    <3>3. ~IsManaged(store[l], worker.key)
      BY <1>6, <3>1 DEF IsManaged, DistinctNames
    <3> QED BY <1>3, <1>6, <2>5, <3>2, <3>3, SyncFacts
  <2>6. ASSUME UNCHANGED <<namespaces, store>> PROVE Goal
    BY <1>6, <2>6
  <2>7. Goal
    BY <2>1, <2>2, <2>3, <2>4, <2>5, <2>6, PlaceSteps
  <2> QED BY <2>7 DEF Kept, l
<1> QED BY <1>5, <1>6 DEF Kept, l

\* What the pass has in hand it keeps in hand, until it has left a copy.
LEMMA InHandStep ==
  ASSUME TypeInv, Existing, SI!TypeOK, [Next]_vars, ~Restart, OwnNamespaces,
         DistinctNames, OneVersion, PlanFree, PassCurrent, NEW r \in Replicas, Up(r), Up(r)',
         ~(ReadReplica /\ worker.key = r),
         NEW s \in Specs, s = replica[r].spec, NEW i \in DOMAIN s.targets, NEW c \in Refs,
         NEW n \in Spaces, NEW t, t = s.targets[i], NEW e, e = EntryOf(s, t, c, n),
         Selects(t, c, n, e), Selects(t, c, n, e)', InHand(r, e)
  PROVE  InHand(r, e)' \/ Told(t, c, e)'
<1>2. OnCluster(t, c, clusters) /\ InNamespace(t, c, n, namespaces[c][n]) /\ Asked(t, e)
  BY DEF Selects
<1>3. t.on = "nextTo" => c \in Clusters
  BY <1>2 DEF OnCluster
<1>4. t \in Targets /\ e \in Entries
  BY <1>2, EntryFacts DEF OnCluster
<1>5. ASSUME Kept(r, Loc(e)), Sync => worker.key # r
      PROVE  Kept(r, Loc(e))'
  BY <1>5, CopyStays
<1>6. CASE Running(r)'
  <2>1. /\ Running(r) /\ worker' = worker
        /\ pass' = pass \/ Resolve \/ TrackInStatus \/ Sync \/ pass.step = "end"
    BY <1>6, RunningStep
  <2>2. /\ pass.step # "end" /\ pass.rep.spec = replica[r].spec
        /\ \A d \in Clusters : ListCurrent(r, d)
    BY <2>1 DEF PassCurrent
  <2>3. \/ pass.step = "resolve"
        \/ pass.retry
        \/ pass.step \in {"track", "sync"} /\ e \in pass.plan
        \/ pass.step = "status" /\ Kept(r, Loc(e))
    BY <2>1 DEF InHand
  <2>4. CASE pass' = pass
    <3>1. ~Sync
      BY <2>4, SyncFacts
    <3>2. Kept(r, Loc(e)) => Kept(r, Loc(e))'
      BY <1>5, <3>1
    <3> QED BY <1>6, <2>3, <2>4, <3>2 DEF InHand
  <2>5. CASE Resolve
    <3>1. CASE c \in clusterQueue
      BY <2>5, <3>1, ResolveFacts DEF Told
    <3>2. CASE c \notin clusterQueue
      <4>1. OnCluster(t, c, pass.list)
        <5>1. CASE t.on = "hosting"
          BY <1>2, <5>1 DEF OnCluster
        <5>2. CASE t.on # "hosting"
          <6>1. c \in Clusters /\ clusters[c].state = "live" /\ clusters[c].label \in t.selector
            BY <1>2, <5>2 DEF OnCluster
          <6>2. SelectsCluster(replica[r], c)
            BY <5>2, <6>1 DEF SelectsCluster
          <6>3. pass.list[c] = clusters[c]
            BY <2>2, <3>2, <6>1, <6>2 DEF ListCurrent
          <6> QED BY <1>2, <5>2, <6>1, <6>3 DEF OnCluster
        <5> QED BY <5>1, <5>2
      <4>2. c \in Targeted(t, pass.list)
        BY <1>2, <1>4, <4>1, ClusterSelected
      <4>3. n \in SelectedNamespaces(t, c)
        BY <1>2, <1>4, NamespaceSelected
      <4>4. <<t, e>> \in Selection(pass.rep.spec, pass.list)
        BY <2>2, <4>2, <4>3 DEF Selection
      <4>5. /\ pass'.plan = {x[2] : x \in Chosen} /\ pass'.step = "track"
            /\ Selection(pass.rep.spec, pass.list) # Chosen => pass'.retry
        BY <2>5, ResolveFacts
      <4>6. <<t, e>> \in Chosen => e \in pass'.plan
        <5>1. <<t, e>>[2] = e
          OBVIOUS
        <5> QED BY <4>5, <5>1
      <4>7. pass'.retry \/ e \in pass'.plan
        BY <4>4, <4>5, <4>6
      <4> QED BY <1>6, <4>5, <4>7 DEF InHand
    <3> QED BY <3>1, <3>2
  <2>6. CASE TrackInStatus
    BY <1>6, <2>3, <2>6, TrackFacts DEF InHand
  <2>7. CASE Sync
    <3>1. /\ pass'.step = "status"
          /\ pass.retry => pass'.retry
          /\ pass'.retry \/ \A k \in pass.plan : CanWrite(k)
          /\ pass.step = "sync"
      BY <2>7, SyncFacts
    <3>2. worker.key = r
      BY <2>1 DEF Running
    <3>3. e \in pass.plan /\ CanWrite(e) => Kept(r, Loc(e))'
      BY <2>7, <3>2, SyncLeaves DEF Kept
    <3> QED BY <1>6, <2>3, <3>1, <3>3 DEF InHand
  <2> QED BY <2>1, <2>2, <2>4, <2>5, <2>6, <2>7
<1>7. CASE ~Running(r)' /\ Running(r)
  <2>1. pass.step # "end" /\ worker.step = "running" /\ worker.key = r
    BY <1>7 DEF PassCurrent, Running
  <2>2. UpdateStatus
    <3>1. worker' # worker
      BY <1>7 DEF Running
    <3>2. ~ReadReplica
      BY <2>1 DEF ReadReplica, SI!ReadReplica
    <3>3. ~Resolve /\ ~TrackInStatus /\ ~Sync
      BY <3>1, ResolveFacts, TrackFacts, SyncFacts DEF shared
    <3> QED BY <2>1, <3>1, <3>2, <3>3, PassSteps
  <2>3. ~pass.retry /\ pass.step = "status" /\ UNCHANGED <<store, revived>>
    <3>1. r \notin queue /\ r \notin queue'
      BY DEF Up, Awaited, Requested
    <3> QED BY <2>1, <2>2, <3>1 DEF UpdateStatus, SI!Trigger
  <2> QED BY <1>7, <2>3 DEF InHand, Kept
<1>8. CASE ~Running(r)' /\ ~Running(r)
  <2>1. Sync => worker.key # r
    BY <1>8 DEF Sync, Running
  <2>2. Kept(r, Loc(e))'
    BY <1>5, <1>8, <2>1 DEF InHand
  <2> QED BY <1>8, <2>2 DEF InHand
<1> QED BY <1>6, <1>7, <1>8

\* Every selected place stays covered: it has its copy, the running pass has it in
\* hand, or something leads to another pass.
LEMMA CoveredStep ==
  ASSUME TypeInv, TypeInv', Existing, SI!TypeOK, SI!PendingIsCarried', KeepsReconcile,
         [Next]_vars, OwnNamespaces, DistinctNames, OneVersion, Settling, Settling',
         NoStates, PlanFree, PassCurrent, Covered
  PROVE  Covered'
<1> SUFFICES ASSUME NEW r \in Replicas, Up(r)',
                    NEW s, s = replica'[r].spec,
                    NEW i \in DOMAIN s.targets, NEW c \in Refs, NEW n \in Spaces
             PROVE  Cover(r, s, s.targets[i], c, n)'
  BY DEF Covered
<1>1. CASE ReadReplica /\ worker.key = r
  <2>1. pass'.step = "resolve"
    BY <1>1, ReadFacts
  <2>2. Running(r)'
    BY <1>1 DEF ReadReplica, SI!ReadReplica, Running, SI!TypeOK, SI!Reconciles
  <2> QED BY <2>1, <2>2 DEF Cover, InHand
<1>2. CASE ~(ReadReplica /\ worker.key = r)
  <2>1. Up(r) /\ ~Restart /\ replica'[r].spec = replica[r].spec
    BY <1>2, UpStep
  <2> DEFINE t == s.targets[i]
             e == EntryOf(s, t, c, n)
  <2>2. s \in Specs /\ s = replica[r].spec
    BY <2>1 DEF TypeInv, PlatformTypeOK, ReplicaObjects
  <2>3. Cover(r, s, t, c, n)
    BY <2>1, <2>2 DEF Covered
  <2> SUFFICES ASSUME Selects(t, c, n, e)' PROVE InHand(r, e)' \/ Told(t, c, e)'
    BY <2>1 DEF Cover
  <2>5. r \notin clusterTodo' /\ r \notin namespaceTodo'
    BY DEF Up, Awaited
  <2>6. Selects(t, c, n, e) \/ Told(t, c, e)'
    BY <2>1, <2>2, SelectsStep
  <2>7. Selects(t, c, n, e) => InHand(r, e) \/ Told(t, c, e)
    BY <2>3 DEF Cover
  <2> HIDE DEF t, e
  <2>8. CASE Selects(t, c, n, e) /\ Told(t, c, e)
    BY <2>1, <2>2, <2>5, <2>8, ToldStep DEF t, e
  <2>9. CASE Selects(t, c, n, e) /\ InHand(r, e)
    BY <1>2, <2>1, <2>2, <2>9, InHandStep DEF t, e
  <2> QED BY <2>6, <2>7, <2>8, <2>9
<1> QED BY <1>1, <1>2

\* Together these are inductive.
Delivery ==
  /\ Settling /\ NoStates
  /\ PlanFree /\ PassCurrent /\ Covered

\* A process that starts has everything ahead of it.
LEMMA DeliveryInit == Init => Delivery
<1> SUFFICES ASSUME Init PROVE Delivery
  OBVIOUS
<1>1. TypeInv
  BY InitTypes
<1>2. ASSUME NEW r \in Replicas PROVE Settled(watch[r]) /\ ~Up(r)
  <2>1. replica[r] \in ReplicaObjects
    BY <1>1 DEF TypeInv, PlatformTypeOK
  <2>2. watch[r] = Announced(r)
    BY DEF Init
  <2> QED BY <2>1, <2>2, SettledAnnounced DEF Up, Awaited
<1>5. NoStates /\ PlanFree
  BY DEF Init, ClusterHandlerInit, NoStates, PlanFree, NoPass
<1> QED BY <1>2, <1>5 DEF Delivery, Settling, PassCurrent, Covered

\* When nothing is under way that leads to a pass over r, and the running pass is
\* not over r, then r has a copy everywhere it selects.
LEMMA DeliveryServes ==
  ASSUME TypeInv, Delivery, OwnNamespaces, NEW r \in Replicas, Quiet(r), Due(r)
  PROVE  Served(r)
<1>1. Len(watch[r]) = 1 => ~TriggersIn(watch[r], 1)
  BY DEF TriggersIn
<1>2. Up(r) /\ ~Running(r)
  BY <1>1 DEF Quiet, Due, Up, Ready, Awaited, Requested, Running
<1> DEFINE s == replica[r].spec
<1>3. s \in Specs /\ s \in SpecShape
  BY SpecsAssumption DEF TypeInv, PlatformTypeOK, ReplicaObjects
<1> SUFFICES ASSUME NEW i \in DOMAIN s.targets, NEW c \in Targeted(s.targets[i], clusters),
                    NEW n \in SelectedNamespaces(s.targets[i], c),
                    LET e == EntryOf(s, s.targets[i], c, n)
                    IN \/ e.namespace = NoNamespace
                       \/ /\ NamespaceState(e.cluster, e.namespace) = "live"
                          /\ <<e.cluster, e.namespace>> \notin unseen
             PROVE  LET e == EntryOf(s, s.targets[i], c, n)
                    IN store[Loc(e)].owner # NoOwner \/ <<r, Loc(e)>> \in revived
  BY DEF Served, Wanted, Selection
<1> DEFINE t == s.targets[i]
           e == EntryOf(s, t, c, n)
<1>4. t \in Targets /\ c \in Refs
  BY <1>3 DEF SpecShape, Targeted, Matches, Refs
<1>5. OnCluster(t, c, clusters) /\ Reachable(c)
  BY <1>4, ClusterSelected
<1>6. n \in Spaces
  BY <1>3, <1>4, SelectedSpaces
<1>7. InNamespace(t, c, n, namespaces[c][n])
  BY <1>4, <1>6, NamespaceSelected
<1>8. Asked(t, e)
  BY DEF Asked
<1>9. Selects(t, c, n, e)
  BY <1>5, <1>7, <1>8 DEF Selects
<1>10. Cover(r, s, t, c, n)
  BY <1>2, <1>4, <1>6 DEF Delivery, Covered
<1>11. ~Told(t, c, e)
  <2>1. t.on # "nextTo" => e.cluster = c
    BY <1>3, <1>4, <1>5, <1>6, <1>7, EntryFacts DEF OnCluster
  <2>2. c \notin clusterQueue
    BY DEF Quiet
  <2> HIDE DEF s, t, e
  <2>3. t.on # "nextTo" => <<e.cluster, e.namespace>> \notin namespaceQueue
    <3>1. \A x \in namespaceQueue : ~Reachable(x[1])
      BY DEF Quiet
    <3>2. <<e.cluster, e.namespace>>[1] = e.cluster
      OBVIOUS
    <3> QED BY <1>5, <2>1, <3>1, <3>2
  <2> QED BY <2>2, <2>3 DEF Told
<1> HIDE DEF s, t, e
<1>12. Kept(r, Loc(e))
  BY <1>2, <1>9, <1>10, <1>11 DEF Cover, InHand, e
<1> QED BY <1>12, ReplicasAssumption DEF Kept, e, t

\* No change is missed, for any number of (Cluster)Replicas, Clusters, namespaces and
\* targets, any capacity of the channel and any lag of the cache: when the events of
\* all changes were handled and no pass is left to run, a (Cluster)Replica has a copy
\* everywhere it selects (handler.go 126-167, namespace/controller.go 119-150,
\* 971-993), provided that no notification was dropped, that no edit takes the
\* reconcile annotation away together with a change of the spec, and that resources
\* without a namespace selector are cluster-scoped.  Without either of the last two
\* the property fails; it would also fail where (Cluster)Replicas of the same kind
\* share a name (894) or a resource is renamed to another version of itself (796-800).
\* A copy that was in deletion when it was last written is not counted on (523-525).
THEOREM EveryMatchServed ==
  ASSUME OwnNamespaces, DistinctNames, OneVersion
  PROVE  Spec /\ [][KeepsReconcile]_vars => []NewMatchesServed
<1>1. Init => Delivery
  BY DeliveryInit
<1>2. /\ TypeInv /\ Existing /\ SI!TypeOK /\ TypeInv' /\ SI!PendingIsCarried'
      /\ Delivery /\ [Next]_vars /\ [KeepsReconcile]_vars
      => Delivery'
  <2> SUFFICES ASSUME TypeInv, Existing, SI!TypeOK, TypeInv', SI!PendingIsCarried',
                      Delivery, [Next]_vars, [KeepsReconcile]_vars
               PROVE  Delivery'
    OBVIOUS
  <2>1. KeepsReconcile
    BY DEF KeepsReconcile, vars, platform
  <2>2. Settling /\ NoStates /\ PlanFree /\ PassCurrent /\ Covered
    BY DEF Delivery
  <2>3. Settling'
    BY <2>1, <2>2, SettlingStep
  <2>4. NoStates' /\ PlanFree'
    BY <2>2, NoStatesStep, PlanFreeStep
  <2>5. PassCurrent'
    BY <2>1, <2>2, <2>3, PassCurrentStep
  <2>6. Covered'
    BY <2>1, <2>2, <2>3, CoveredStep
  <2> QED BY <2>3, <2>4, <2>5, <2>6 DEF Delivery
<1>3. TypeInv /\ Delivery => NewMatchesServed
  BY DeliveryServes DEF NewMatchesServed
<1> QED BY <1>1, <1>2, <1>3, TypesHold, SharedInvariants, PTL DEF Spec

=============================================================================
