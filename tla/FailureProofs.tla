---------------------------- MODULE FailureProofs ----------------------------
(***************************************************************************)
(* What a pass may not delete and may not pass over: entries whose handling*)
(* failed in it, objects it has just synced, and targets that it has seen  *)
(* before without handling them.                                           *)
(***************************************************************************)
EXTENDS ReplicaControllerProofs

Looping == {"target", "cluster", "space", "track", "write"}
Iterating == {"space", "track", "write"}
Deleting == {"obsolete", "remove", "release"}

\* The local state that a step outside the loops and the deletion leaves alone.
pass == <<pc, rep, clusterList, sources, targets, targetDef, matchedClusters,
          clusterRef, rendered, conflictDetection, managedResources,
          seenClusterConditions, seenTargetConditions, resourcesToDelete, failed>>

------------------------------------------------------------------------------
(* Which specs the theorems are about. *)

\* No two targets of a spec select the same cluster: of several conditions for
\* a cluster the last one counts, so a target that succeeds on a cluster would
\* hide that an earlier one failed on it.
ClustersApart(s) ==
  \A i, j \in DOMAIN s.targets, list \in [Clusters -> Places(States)] :
    i # j => Matches(s.targets[i], list) \cap Matches(s.targets[j], list) = {}

\* Every failure leaves a condition under which the deletion finds it: a target
\* next to its Cluster has its condition under another name than its entry, and
\* a selector or template that cannot be evaluated leaves none.
FailuresSeen(s) ==
  /\ s.templated => Unrenderable = {}
  /\ \A i \in DOMAIN s.targets :
       s.targets[i].on # "nextTo" /\ s.targets[i].by # "invalid"

\* Targets of a spec whose resources can have the same key name their copies in the
\* same way, and either all of them or none may skip what is in the way.  The key
\* names the cluster, so a target on the hosting cluster shares none with another.
Skips(t) == t.conflict = "Skip" \/ t.missing = "Skip"
TargetsAlike(s) ==
  \A i, j \in DOMAIN s.targets :
    (s.targets[i].on = "hosting" <=> s.targets[j].on = "hosting") =>
    /\ s.targets[i].on = "nextTo" <=> s.targets[j].on = "nextTo"
    /\ Skips(s.targets[i]) <=> Skips(s.targets[j])

\* Each resource is an object of its own: no two versions of one.
OneVersion == \A k, m \in Resources : ObjectOf[k] = ObjectOf[m] => k = m

------------------------------------------------------------------------------
(* The invariants *)

\* Between passes and before the loops nothing has failed or was rendered;
\* outside the deletion there is nothing to delete.
Fresh ==
  /\ pc \in {"idle", "list", "finalize", "sources", "delete"} => failed = {}
  /\ pc \in {"idle", "list", "finalize", "sources"} => conflictDetection = {}
  /\ pc \notin Deleting => resourcesToDelete = {}

\* What was synced is not to be deleted.
NotSynced == managedResources \cap resourcesToDelete = {}

\* The current cluster is one of those left, and none of those is selected
\* again by a target to come.
ApartAhead ==
  /\ pc \in Looping =>
       \A i, j \in DOMAIN targets :
         i # j => Matches(targets[i], clusterList) \cap Matches(targets[j], clusterList) = {}
  /\ pc \in Looping \ {"target"} =>
       \A i \in DOMAIN targets : matchedClusters \cap Matches(targets[i], clusterList) = {}
  /\ pc \in Iterating => clusterRef \in matchedClusters

\* A failed entry has a condition of its own, or its cluster has one that says
\* False and is not visited again.
FailedProtected ==
  pc \in Looping \cup {"plan"} =>
    \A e \in failed :
      \/ e \in seenTargetConditions
      \/ /\ seenClusterConditions[e.cluster] = "False"
         /\ pc # "plan" => /\ e.cluster \notin matchedClusters
                           /\ \A i \in DOMAIN targets :
                                e.cluster \notin Matches(targets[i], clusterList)

\* So none is planned for deletion, unless everything is.
FailedSpared == rep.phase = "deleting" \/ failed \cap resourcesToDelete = {}

\* The targets that can have resources with key k, ...
Sharing(k) ==
  {i \in DOMAIN rep.spec.targets : rep.spec.targets[i].on = "hosting" <=> k.cluster = Host}
AnyNextTo(k) == \E i \in Sharing(k) : rep.spec.targets[i].on = "nextTo"
NoneSkips(k) == \A i \in Sharing(k) : ~Skips(rep.spec.targets[i])
\* ... and the entry that they have in the status.
EntryWith(k) == IF AnyNextTo(k) THEN [k EXCEPT !.cluster = Host] ELSE k

\* What was rendered was synced or failed, or is being synced.
RenderedHandled ==
  pc \in Looping =>
    \A d \in conflictDetection : NoneSkips(d.key) =>
      \/ EntryWith(d.key) \in managedResources \cup failed
      \/ pc \in {"track", "write"} /\ d.key = rendered.key

------------------------------------------------------------------------------
(* How the steps of a pass move the loops *)

\* The status patch does not change the spec that the pass works on.
LEMMA SpecKept ==
  ASSUME TypeOK, TrackInStatus
  PROVE  rep'.spec = rep.spec
<1> DEFINE list == rep.status \cup {rendered.entry}
<1>1. rep' \in {[replica[cur] EXCEPT !.status = list, !.spec = rep.spec],
               [rep EXCEPT !.status = list]}
  BY Zenon DEF TrackInStatus
<1>2. replica[cur] \in ReplicaObjects /\ rep \in ReplicaObjects
  BY DEF TypeOK, PlatformTypeOK, PassTypeOK, TrackInStatus
<1>3. /\ [replica[cur] EXCEPT !.status = list, !.spec = rep.spec].spec = rep.spec
      /\ [rep EXCEPT !.status = list].spec = rep.spec
  BY <1>2 DEF ReplicaObjects
<1> QED BY <1>1, <1>3

\* The rest of the targets after the first one is taken.
LEMMA TailFacts ==
  ASSUME TypeOK, targets # <<>>
  PROVE  /\ 1 \in DOMAIN targets /\ Head(targets) = targets[1]
         /\ \A i \in DOMAIN Tail(targets) :
              i + 1 \in DOMAIN targets /\ Tail(targets)[i] = targets[i + 1] /\ i + 1 # 1
         /\ \A i, j \in DOMAIN Tail(targets) : i # j => i + 1 # j + 1
  BY DEF TypeOK, PassTypeOK

\* The key and the entry of a resource are the same unless it is placed next to
\* its Cluster.
LEMMA KeyIsEntry ==
  ASSUME NEW n \in Spaces
  PROVE  /\ targetDef.on # "nextTo" => Current(n).entry = Current(n).key
         /\ targetDef.on = "nextTo" =>
              Current(n).entry = [Current(n).key EXCEPT !.cluster = Host]
         /\ Current(n).space = n
<1>1. KeyOf(rep.spec, clusterRef, n).cluster = clusterRef
  BY DEF KeyOf
<1>2. [KeyOf(rep.spec, clusterRef, n) EXCEPT !.cluster = clusterRef]
        = KeyOf(rep.spec, clusterRef, n)
  BY DEF KeyOf
<1> QED BY <1>1, <1>2 DEF Current, Rendering, EntryOf

\* Users, the informer cache and stuttering leave the pass alone.
LEMMA PassKept ==
  ASSUME \/ \E r \in Replicas : CacheSync(r)
         \/ UserStep /\ UNCHANGED <<cached, faults, locals>>
         \/ UNCHANGED vars
  PROVE  UNCHANGED pass
  BY DEF CacheSync, vars, locals, listed, object, loop, results, pass

\* A pass starts fresh, and is planned to delete only what it has not synced.
LEMMA FreshStep ==
  ASSUME TypeOK, Fresh, NotSynced, [Next]_vars
  PROVE  Fresh' /\ NotSynced'
<1> DEFINE Early == {"idle", "list", "finalize", "sources", "delete"}
<1>1. ASSUME UNCHANGED pass PROVE Fresh' /\ NotSynced'
  BY <1>1 DEF pass, Fresh, NotSynced
<1>2. ASSUME EndPass PROVE Fresh' /\ NotSynced'
  BY <1>2 DEF EndPass, Fresh, NotSynced, Deleting
<1>3. ASSUME pc \in Early, pc' \notin Deleting,
             pc' = "delete" => pc = "list",
             pc' \in Early => pc' # "idle" /\ pc # "delete",
             UNCHANGED <<failed, conflictDetection, managedResources, resourcesToDelete>>
      PROVE  Fresh' /\ NotSynced'
  BY <1>3 DEF Fresh, NotSynced, Deleting
<1>4. ASSUME NEW r \in Replicas, Start(r) PROVE Fresh' /\ NotSynced'
  <2>1. /\ pc = "idle" /\ pc' = "list"
        /\ UNCHANGED <<failed, conflictDetection, managedResources, resourcesToDelete>>
    BY <1>4 DEF Start, results
  <2> QED BY <1>3, <2>1 DEF Deleting
<1>5. CASE ListClusters \/ EnsureFinalizer \/ FetchSources
  <2>1. /\ pc \in {"list", "finalize", "sources"}
        /\ pc' \in {"finalize", "delete", "status", "sources", "target"}
        /\ pc' = "delete" => pc = "list"
        /\ UNCHANGED <<failed, conflictDetection, managedResources, resourcesToDelete>>
    BY <1>5 DEF ListClusters, EnsureFinalizer, FetchSources, results
  <2> QED BY <1>3, <2>1 DEF Deleting
<1>6. CASE HandleDelete
  <2>1. CASE EndPass
    BY <1>2, <2>1
  <2>2. CASE ~EndPass
    <3>1. /\ pc = "delete" /\ pc' \in {"plan", "status"}
          /\ UNCHANGED <<failed, conflictDetection, managedResources, resourcesToDelete>>
      BY <1>6, <2>2 DEF HandleDelete, results
    <3> QED BY <1>3, <3>1 DEF Deleting
  <2> QED BY <2>1, <2>2
<1>7. ASSUME \/ NextTarget
             \/ \E c \in Refs : SkipDeletingCluster(c) \/ ResolveNamespaces(c)
                                \/ ClusterUnavailable(c)
             \/ EndCluster \/ EndTarget
             \/ \E n \in Spaces : RenderFails(n) \/ RenderedBefore(n) \/ Decline(n)
                                  \/ Accept(n)
             \/ TrackInStatus \/ CreateOrUpdate
      PROVE  Fresh' /\ NotSynced'
  <2>1. /\ pc \in Looping /\ pc' \in Looping \cup {"plan"}
        /\ resourcesToDelete' = resourcesToDelete
    BY <1>7 DEF NextTarget, SkipDeletingCluster, ResolveNamespaces, ClusterUnavailable,
       EndCluster, EndTarget, RenderFails, RenderedBefore, Decline, Accept,
       TrackInStatus, CreateOrUpdate, GiveUpTarget, results, Looping
  <2> QED BY <2>1 DEF Fresh, NotSynced, Looping, Deleting
<1>8. CASE PlanDeletion
  <2>1. /\ pc' = "obsolete" /\ managedResources' = managedResources
        /\ resourcesToDelete' \subseteq rep.status \ managedResources
    BY <1>8 DEF PlanDeletion, results, Obsolete
  <2> QED BY <2>1 DEF Fresh, NotSynced, Deleting
<1>9. ASSUME \/ \E c \in Refs : ObsoleteUnreachable(c)
             \/ \E e \in Entries : Forget(e) \/ Await(e) \/ Decide(e)
             \/ RemoveObject \/ ReleaseObject
      PROVE  Fresh' /\ NotSynced'
  <2>1. /\ pc' \in Deleting /\ managedResources' = managedResources
        /\ resourcesToDelete' \subseteq resourcesToDelete
    BY <1>9 DEF ObsoleteUnreachable, Forget, Await, Decide, RemoveObject, ReleaseObject,
       results, Deleting
  <2> QED BY <2>1 DEF Fresh, NotSynced, Deleting
<1>10. CASE EndDeletion
  <2>1. /\ pc' = "status" /\ resourcesToDelete = {}
        /\ UNCHANGED <<managedResources, resourcesToDelete>>
    BY <1>10 DEF EndDeletion, results
  <2> QED BY <2>1 DEF Fresh, NotSynced, Deleting
<1>11. CASE UpdateStatus \/ Crash
  BY <1>2, <1>11 DEF UpdateStatus, Crash
<1> QED
  <2>1. CASE PassStep
    BY <1>5, <1>6, <1>7, <1>8, <1>9, <1>10, <1>11, <2>1 DEF PassStep
  <2> QED BY <1>1, <1>4, <1>11, <2>1, PassKept DEF Next

\* Before the first pass nothing has failed and nothing is to be deleted.
LEMMA FreshInit == Init => Fresh /\ NotSynced
  BY DEF Init, Idle, Fresh, NotSynced, Deleting

\* Where a resource has one version only, what a pass deletes as obsolete is
\* never an object that it has just synced.  (Run version_change shows what
\* happens otherwise.)
THEOREM OneVersionKeepsSynced ==
  ASSUME OneVersion
  PROVE  Spec => []SyncedNotDeleted
<1>1. ASSUME TypeOK, NotSynced PROVE SyncedNotDeleted
  <2> SUFFICES ASSUME NEW e \in resourcesToDelete, NEW m \in managedResources,
                      Loc(e) = Loc(m)
               PROVE  FALSE
    BY DEF SyncedNotDeleted
  <2>1. e \in Entries /\ m \in Entries
    BY <1>1 DEF TypeOK, PassTypeOK
  <2>2. /\ e.cluster = m.cluster /\ e.namespace = m.namespace
        /\ ObjectOf[e.resource] = ObjectOf[m.resource]
    BY DEF Loc
  <2>3. e.resource = m.resource
    BY <2>1, <2>2, OneVersion DEF OneVersion, Entries
  <2>4. e = m
    BY <2>1, <2>2, <2>3 DEF Entries
  <2> QED BY <1>1, <2>4 DEF NotSynced
<1> QED BY <1>1, FreshInit, FreshStep, TypeCorrect, PTL DEF Spec

------------------------------------------------------------------------------
(* What failed is not deleted *)

\* The loops visit each cluster at most once.
LEMMA ApartStep ==
  ASSUME TypeOK, ApartAhead, \A s \in Specs : ClustersApart(s), [Next]_vars
  PROVE  ApartAhead'
<1>1. ASSUME pc' \notin Looping PROVE ApartAhead'
  BY <1>1 DEF ApartAhead, Looping, Iterating
<1>2. ASSUME UNCHANGED pass PROVE ApartAhead'
  BY <1>2 DEF pass, ApartAhead, Matches
<1>3. CASE FetchSources
  <2>1. CASE pc' = "target"
    <3>1. targets' = rep.spec.targets /\ clusterList' = clusterList
      BY <1>3, <2>1 DEF FetchSources
    <3>2. rep.spec \in Specs /\ clusterList \in [Clusters -> Places(States)]
      BY DEF TypeOK, PassTypeOK, ReplicaObjects, States
    <3>3. ClustersApart(rep.spec)
      BY <3>2
    <3>4. \A i, j \in DOMAIN rep.spec.targets :
            i # j => Matches(rep.spec.targets[i], clusterList)
                       \cap Matches(rep.spec.targets[j], clusterList) = {}
      BY <3>2, <3>3, Zenon DEF ClustersApart
    <3> QED BY <2>1, <3>1, <3>4 DEF ApartAhead, Looping, Iterating
  <2> QED BY <1>1, <1>3, <2>1 DEF FetchSources, Looping
<1>4. CASE NextTarget
  <2>1. CASE targets # <<>>
    <3>1. /\ pc = "target" /\ pc' = "cluster" /\ clusterList' = clusterList
          /\ targets' = Tail(targets)
          /\ matchedClusters' = Matches(Head(targets), clusterList)
      BY <1>4, <2>1 DEF NextTarget, listed
    <3>2. \A i, j \in DOMAIN targets :
            i # j => Matches(targets[i], clusterList) \cap Matches(targets[j], clusterList) = {}
      BY <3>1 DEF ApartAhead, Looping
    <3> QED BY <2>1, <3>1, <3>2, TailFacts DEF ApartAhead, Looping, Iterating
  <2>2. CASE targets = <<>>
    BY <1>1, <1>4, <2>2 DEF NextTarget, Looping
  <2> QED BY <2>1, <2>2
<1>5. ASSUME NEW c \in Refs, SkipDeletingCluster(c) \/ ClusterUnavailable(c)
      PROVE  ApartAhead'
  <2>1. /\ pc = "cluster" /\ pc' = pc /\ matchedClusters' \subseteq matchedClusters
        /\ UNCHANGED <<targets, clusterList>>
    BY <1>5 DEF SkipDeletingCluster, ClusterUnavailable, listed
  <2> QED BY <2>1 DEF ApartAhead, Looping, Iterating
<1>6. ASSUME NEW c \in Refs, ResolveNamespaces(c) PROVE ApartAhead'
  <2>1. /\ pc = "cluster" /\ pc' = "space" /\ clusterRef' = c /\ c \in matchedClusters
        /\ UNCHANGED <<targets, clusterList, matchedClusters>>
    BY <1>6 DEF ResolveNamespaces, listed
  <2> QED BY <2>1 DEF ApartAhead, Looping, Iterating
<1>7. CASE EndCluster \/ EndTarget
  <2>1. /\ pc \in Looping \ {"target"} /\ pc' \in {"target", "cluster"}
        /\ matchedClusters' \subseteq matchedClusters
        /\ UNCHANGED <<targets, clusterList>>
    BY <1>7 DEF EndCluster, EndTarget, listed, Looping
  <2> QED BY <2>1 DEF ApartAhead, Looping, Iterating
<1>8. ASSUME \/ \E n \in Spaces : RenderFails(n) \/ RenderedBefore(n) \/ Decline(n)
                                  \/ Accept(n)
             \/ TrackInStatus \/ CreateOrUpdate
      PROVE  ApartAhead'
  <2>1. /\ pc \in Iterating /\ pc' \in Iterating
        /\ UNCHANGED <<targets, clusterList, matchedClusters, clusterRef>>
    BY <1>8 DEF RenderFails, RenderedBefore, Decline, Accept, TrackInStatus,
       CreateOrUpdate, GiveUpTarget, listed, loop, outer, Iterating
  <2> QED BY <2>1 DEF ApartAhead, Looping, Iterating
<1>9. ASSUME \/ \E r \in Replicas : Start(r)
             \/ ListClusters \/ EnsureFinalizer \/ HandleDelete \/ PlanDeletion
             \/ \E c \in Refs : ObsoleteUnreachable(c)
             \/ \E e \in Entries : Forget(e) \/ Await(e) \/ Decide(e)
             \/ RemoveObject \/ ReleaseObject \/ EndDeletion \/ UpdateStatus \/ Crash
      PROVE  ApartAhead'
  <2>1. pc' \notin Looping
    BY <1>9 DEF Start, ListClusters, EnsureFinalizer, HandleDelete, PlanDeletion,
       ObsoleteUnreachable, Forget, Await, Decide, RemoveObject, ReleaseObject,
       EndDeletion, UpdateStatus, Crash, EndPass, Looping
  <2> QED BY <1>1, <2>1
<1> QED
  <2>1. CASE PassStep
    BY <1>3, <1>4, <1>5, <1>6, <1>7, <1>8, <1>9, <2>1 DEF PassStep
  <2> QED BY <1>2, <1>9, <2>1, PassKept DEF Next

\* Specs whose failures are all seen when the deletion is planned.
Orderly == \A s \in Specs : ClustersApart(s) /\ FailuresSeen(s)

\* In the loops over an orderly spec a resource has one name, and it renders.
LEMMA OrderlyTarget ==
  ASSUME TypeOK, LoopPosition, Orderly, pc \in Looping \ {"target"}
  PROVE  targetDef.on # "nextTo" /\ targetDef.by # "invalid" /\ ~Unrendered
<1>1. rep.spec \in Specs
  BY DEF TypeOK, PassTypeOK, ReplicaObjects
<1>2. FailuresSeen(rep.spec)
  BY <1>1 DEF Orderly
<1>3. PICK i \in DOMAIN rep.spec.targets : rep.spec.targets[i] = targetDef
  BY DEF LoopPosition, InSpec, Looping
<1> QED BY <1>2, <1>3 DEF FailuresSeen, Unrendered

\* An entry that failed keeps a condition until the deletion is planned.
LEMMA ProtectedStep ==
  ASSUME TypeOK, TypeOK', LoopPosition, Fresh, ApartAhead, FailedProtected, Orderly,
         [Next]_vars
  PROVE  FailedProtected'
<1> DEFINE Ahead(c) ==
      c \in matchedClusters \/ \E i \in DOMAIN targets : c \in Matches(targets[i], clusterList)
    Safe(e) ==
      \/ e \in seenTargetConditions
      \/ seenClusterConditions[e.cluster] = "False" /\ ~Ahead(e.cluster)
<1>1. ASSUME pc' \notin Looping \cup {"plan"} PROVE FailedProtected'
  BY <1>1 DEF FailedProtected
<1>2. ASSUME UNCHANGED pass PROVE FailedProtected'
  BY <1>2 DEF pass, FailedProtected, Matches
<1>3. ASSUME failed' = {} PROVE FailedProtected'
  BY <1>3 DEF FailedProtected
<1>4. ASSUME pc \in Looping PROVE \A e \in failed : Safe(e)
  BY <1>4 DEF FailedProtected, Looping
<1>5. ASSUME pc' \in Looping, \A e \in failed' : Safe(e)' PROVE FailedProtected'
  BY <1>5 DEF FailedProtected, Looping
<1>6. CASE FetchSources
  BY <1>3, <1>6 DEF FetchSources, results, Fresh
<1>7. CASE HandleDelete
  BY <1>3, <1>7 DEF HandleDelete, results, Fresh, EndPass
<1>8. CASE NextTarget
  <2>1. CASE targets # <<>>
    <3>1. /\ pc \in Looping /\ pc' \in Looping /\ targets' = Tail(targets)
          /\ matchedClusters' = Matches(Head(targets), clusterList)
          /\ UNCHANGED <<clusterList, failed, seenTargetConditions, seenClusterConditions>>
      BY <1>8, <2>1 DEF NextTarget, listed, results, Looping
    <3>2. \A c \in Refs : Ahead(c)' => Ahead(c)
      BY <2>1, <3>1, TailFacts
    <3>3. \A e \in failed : e.cluster \in Refs
      BY DEF TypeOK, PassTypeOK, Entries
    <3>4. \A e \in failed : Safe(e) => Safe(e)'
      BY <3>1, <3>2, <3>3
    <3> HIDE DEF Safe
    <3> QED BY <1>4, <1>5, <3>1, <3>4
  <2>2. CASE targets = <<>>
    <3>1. /\ pc \in Looping /\ pc' = "plan"
          /\ UNCHANGED <<failed, seenTargetConditions, seenClusterConditions>>
      BY <1>8, <2>2 DEF NextTarget, results, Looping
    <3> QED BY <1>4, <3>1 DEF FailedProtected, Looping
  <2> QED BY <2>1, <2>2
<1>9. ASSUME NEW c \in Refs, ClusterUnavailable(c) PROVE FailedProtected'
  <2>1. /\ pc = "cluster" /\ pc' = pc /\ c \in matchedClusters
        /\ UNCHANGED <<targets, clusterList, seenTargetConditions>>
        /\ matchedClusters' = matchedClusters \ {c}
        /\ seenClusterConditions' = [seenClusterConditions EXCEPT ![c] = "False"]
        /\ failed' = failed \cup EntriesOn(c)
    BY <1>9 DEF ClusterUnavailable, listed
  <2>2. ~Ahead(c)'
    BY <2>1 DEF ApartAhead, Looping
  <2>3. \A e \in failed' : e.cluster \in Refs
    BY DEF TypeOK, PassTypeOK, Entries
  <2>4. /\ seenClusterConditions'[c] = "False"
        /\ \A d \in Refs : d # c => seenClusterConditions'[d] = seenClusterConditions[d]
    BY <2>1 DEF TypeOK, PassTypeOK
  <2>5. \A d \in Refs : Ahead(d)' => Ahead(d)
    BY <2>1
  <2>6. ASSUME NEW e \in failed' PROVE Safe(e)'
    <3>1. CASE e.cluster = c
      BY <2>2, <2>4, <3>1
    <3>2. CASE e.cluster # c
      <4>1. e \in failed
        BY <2>1, <3>2 DEF EntriesOn
      <4>2. Safe(e)
        BY <1>4, <2>1, <4>1 DEF Looping
      <4> QED BY <2>1, <2>3, <2>4, <2>5, <3>2, <4>2
    <3> QED BY <3>1, <3>2
  <2> HIDE DEF Safe
  <2> QED BY <1>5, <2>1, <2>6 DEF Looping
<1>10. CASE EndCluster
  <2>1. /\ pc = "space" /\ pc' = "cluster"
        /\ UNCHANGED <<targets, clusterList, seenTargetConditions, failed>>
        /\ matchedClusters' = matchedClusters \ {clusterRef}
        /\ seenClusterConditions' = [seenClusterConditions EXCEPT ![clusterRef] = "True"]
    BY <1>10 DEF EndCluster, listed
  <2>2. Ahead(clusterRef) /\ clusterRef \in Refs
    BY <2>1 DEF ApartAhead, Iterating, TypeOK, PassTypeOK
  <2>3. \A e \in failed : e.cluster \in Refs
    BY DEF TypeOK, PassTypeOK, Entries
  <2>4. \A d \in Refs : d # clusterRef => seenClusterConditions'[d] = seenClusterConditions[d]
    BY <2>1 DEF TypeOK, PassTypeOK
  <2>5. \A d \in Refs : Ahead(d)' => Ahead(d)
    BY <2>1
  <2>6. \A e \in failed : Safe(e)
    BY <1>4, <2>1 DEF Looping
  <2>7. \A e \in failed' : Safe(e)'
    BY <2>1, <2>2, <2>3, <2>4, <2>5, <2>6
  <2> HIDE DEF Safe
  <2> QED BY <1>5, <2>1, <2>7 DEF Looping
<1>11. ASSUME pc \in Looping, pc' \in Looping, matchedClusters' \subseteq matchedClusters,
              UNCHANGED <<targets, clusterList, seenClusterConditions>>,
              seenTargetConditions \subseteq seenTargetConditions',
              failed' \subseteq failed \cup seenTargetConditions'
       PROVE  FailedProtected'
  <2>1. \A e \in failed : Safe(e)
    BY <1>4, <1>11
  <2>2. \A e \in failed' : Safe(e)'
    BY <1>11, <2>1
  <2> HIDE DEF Safe
  <2> QED BY <1>5, <1>11, <2>2
<1>12. ASSUME NEW c \in Refs, SkipDeletingCluster(c) \/ ResolveNamespaces(c)
       PROVE  FailedProtected'
  <2>1. pc = "cluster"
    BY <1>12 DEF SkipDeletingCluster, ResolveNamespaces
  <2>2. targetDef.on # "nextTo" /\ targetDef.by # "invalid"
    BY <2>1, OrderlyTarget DEF Looping
  <2>3. /\ pc' \in Looping /\ matchedClusters' \subseteq matchedClusters
        /\ UNCHANGED <<targets, clusterList, seenClusterConditions, seenTargetConditions,
                       failed>>
    BY <1>12, <2>2 DEF SkipDeletingCluster, ResolveNamespaces, listed, results, Looping
  <2> QED BY <1>11, <2>1, <2>3 DEF Looping
<1>13. CASE EndTarget
  <2>1. /\ pc = "cluster" /\ pc' = "target"
        /\ UNCHANGED <<targets, clusterList, seenClusterConditions, seenTargetConditions,
                       failed, matchedClusters>>
    BY <1>13 DEF EndTarget, listed, results
  <2> QED BY <1>11, <2>1 DEF Looping
<1>14. ASSUME NEW n \in Spaces, RenderFails(n) \/ RenderedBefore(n) \/ Decline(n) \/ Accept(n)
       PROVE  FailedProtected'
  <2>1. pc = "space"
    BY <1>14 DEF RenderFails, RenderedBefore, Decline, Accept
  <2>2. ~Unrendered /\ Current(n).entry = Current(n).key
    BY <2>1, OrderlyTarget, KeyIsEntry DEF Looping
  <2>3. /\ pc' \in {"space", "track", "write"}
        /\ UNCHANGED <<targets, clusterList, seenClusterConditions, matchedClusters>>
        /\ seenTargetConditions \subseteq seenTargetConditions'
        /\ \/ failed' = failed
           \/ /\ failed' = failed \cup {Current(n).entry}
              /\ Current(n).key \in seenTargetConditions'
    BY <1>14, <2>2 DEF RenderFails, RenderedBefore, Decline, Accept, listed, loop, outer
  <2> QED BY <1>11, <2>1, <2>2, <2>3 DEF Looping
<1>15. CASE TrackInStatus \/ CreateOrUpdate
  <2>1. /\ pc \in {"track", "write"} /\ pc' \in {"space", "write"}
        /\ UNCHANGED <<targets, clusterList, seenClusterConditions, matchedClusters>>
        /\ seenTargetConditions \subseteq seenTargetConditions'
        /\ \/ failed' = failed
           \/ /\ failed' = failed \cup {rendered.entry}
              /\ rendered.key \in seenTargetConditions'
    BY <1>15 DEF TrackInStatus, CreateOrUpdate, GiveUpTarget, listed, outer
  <2>2. rendered.entry = rendered.key
    <3>1. rendered = Current(rendered.space) /\ rendered.space \in Spaces
      BY <2>1 DEF LoopPosition, TypeOK, PassTypeOK, Renderings
    <3> QED BY <2>1, <3>1, OrderlyTarget, KeyIsEntry DEF Looping
  <2> QED BY <1>11, <2>1, <2>2 DEF Looping
<1>16. ASSUME \/ \E r \in Replicas : Start(r)
              \/ ListClusters \/ EnsureFinalizer \/ PlanDeletion
              \/ \E c \in Refs : ObsoleteUnreachable(c)
              \/ \E e \in Entries : Forget(e) \/ Await(e) \/ Decide(e)
              \/ RemoveObject \/ ReleaseObject \/ EndDeletion \/ UpdateStatus \/ Crash
       PROVE  FailedProtected'
  <2>1. pc' \notin Looping \cup {"plan"}
    BY <1>16 DEF Start, ListClusters, EnsureFinalizer, PlanDeletion,
       ObsoleteUnreachable, Forget, Await, Decide, RemoveObject, ReleaseObject,
       EndDeletion, UpdateStatus, Crash, EndPass, Looping
  <2> QED BY <1>1, <2>1
<1> QED
  <2>1. CASE PassStep
    BY <1>6, <1>7, <1>8, <1>9, <1>10, <1>12, <1>13, <1>14, <1>15, <1>16, <2>1 DEF PassStep
  <2> QED BY <1>2, <1>16, <2>1, PassKept DEF Next

\* The plan spares what failed, and nothing is added to it afterwards.
LEMMA SparedStep ==
  ASSUME TypeOK, Fresh', FailedProtected, FailedSpared, [Next]_vars
  PROVE  FailedSpared'
<1>1. ASSUME pc' \notin Deleting PROVE FailedSpared'
  BY <1>1 DEF Fresh, FailedSpared
<1>2. ASSUME UNCHANGED pass PROVE FailedSpared'
  BY <1>2 DEF pass, FailedSpared
<1>3. rep \in ReplicaObjects
  BY DEF TypeOK, PassTypeOK
<1>4. \A list \in SUBSET Entries : [rep EXCEPT !.status = list].phase = rep.phase
  BY <1>3 DEF ReplicaObjects
<1>5. rep.status \in SUBSET Entries
  BY <1>3 DEF ReplicaObjects
<1>6. CASE PlanDeletion
  <2>1. /\ pc = "plan" /\ failed' = failed
        /\ rep' = [rep EXCEPT !.status = @ \ Pruned]
        /\ resourcesToDelete' = (Obsolete \ Pruned) \ Spared
    BY <1>6 DEF PlanDeletion, results
  <2>2. rep'.phase = rep.phase
    BY <1>4, <1>5, <2>1
  <2>3. ASSUME NEW e \in failed, e \in Obsolete, rep.phase # "deleting" PROVE e \in Spared
    BY <2>1, <2>3 DEF FailedProtected, Spared, Unhealthy
  <2> QED BY <2>1, <2>2, <2>3 DEF FailedSpared
<1>7. ASSUME \/ \E c \in Refs : ObsoleteUnreachable(c)
             \/ \E e \in Entries : Forget(e) \/ Await(e) \/ Decide(e)
             \/ RemoveObject \/ ReleaseObject
      PROVE  FailedSpared'
  <2>1. failed' = failed /\ resourcesToDelete' \subseteq resourcesToDelete
    BY <1>7 DEF ObsoleteUnreachable, Forget, Await, Decide, RemoveObject, ReleaseObject,
       results
  <2>2. \/ rep' = rep
        \/ \E e \in Entries : rep' = [rep EXCEPT !.status = rep.status \ {e}]
        \/ rep' = [rep EXCEPT !.status = rep.status \ {rendered.entry}]
    BY <1>7, Zenon DEF ObsoleteUnreachable, Forget, Await, Decide, RemoveObject,
       ReleaseObject, object
  <2>3. rep'.phase = rep.phase
    <3>1. CASE rep' = rep
      BY <3>1
    <3>2. ASSUME NEW e, rep' = [rep EXCEPT !.status = rep.status \ {e}]
          PROVE  rep'.phase = rep.phase
      <4>1. rep.status \ {e} \in SUBSET Entries
        BY <1>5
      <4> QED BY <1>4, <3>2, <4>1
    <3> QED BY <2>2, <3>1, <3>2
  <2> QED BY <2>1, <2>3 DEF FailedSpared
<1>8. ASSUME \/ \E r \in Replicas : Start(r)
             \/ ListClusters \/ EnsureFinalizer \/ FetchSources \/ NextTarget
             \/ \E c \in Refs : SkipDeletingCluster(c) \/ ResolveNamespaces(c)
                                \/ ClusterUnavailable(c)
             \/ EndCluster \/ EndTarget
             \/ \E n \in Spaces : RenderFails(n) \/ RenderedBefore(n) \/ Decline(n)
                                  \/ Accept(n)
             \/ TrackInStatus \/ CreateOrUpdate \/ HandleDelete \/ EndDeletion
             \/ UpdateStatus \/ Crash
      PROVE  FailedSpared'
  <2>1. pc' \notin Deleting
    BY <1>8 DEF Start, ListClusters, EnsureFinalizer, FetchSources, NextTarget,
       SkipDeletingCluster, ResolveNamespaces, ClusterUnavailable, EndCluster, EndTarget,
       RenderFails, RenderedBefore, Decline, Accept, TrackInStatus, CreateOrUpdate,
       GiveUpTarget, HandleDelete, EndDeletion, UpdateStatus, Crash, EndPass, Deleting
  <2> QED BY <1>1, <2>1
<1> QED
  <2>1. CASE PassStep
    BY <1>6, <1>7, <1>8, <2>1 DEF PassStep
  <2> QED BY <1>2, <1>8, <2>1, PassKept DEF Next

\* Where no two targets of a spec select the same cluster, none is placed next
\* to its Cluster and all selectors and templates can be evaluated, a copy that
\* could not be handled in a pass is not deleted by it - whatever failed: the
\* access to its cluster, the policies, the status patch or the write.  (Run
\* template_failure shows what happens when a template fails.)
THEOREM OrderlyKeepFailed ==
  ASSUME Orderly
  PROVE  Spec => []FailedNotDeleted
<1> DEFINE Inv == /\ LoopPosition /\ Fresh /\ NotSynced
                  /\ ApartAhead /\ FailedProtected /\ FailedSpared
<1>1. Init => Inv
  <2> SUFFICES ASSUME Init PROVE Inv
    OBVIOUS
  <2>1. LoopPosition
    BY DEF Init, Idle, LoopPosition
  <2>2. ApartAhead /\ FailedProtected /\ FailedSpared
    BY DEF Init, Idle, ApartAhead, FailedProtected, FailedSpared, Looping, Iterating
  <2> QED BY <2>1, <2>2, FreshInit
<1>2. TypeOK /\ TypeOK' /\ Inv /\ [Next]_vars => Inv'
  <2> SUFFICES ASSUME TypeOK, TypeOK', Inv, [Next]_vars PROVE Inv'
    OBVIOUS
  <2>1. \A s \in Specs : ClustersApart(s)
    BY Orderly DEF Orderly
  <2> QED
    BY <2>1, Orderly, LoopPositionStep, FreshStep, ApartStep, ProtectedStep, SparedStep
<1>3. Inv => FailedNotDeleted
  BY DEF FailedSpared, FailedNotDeleted
<1> QED BY <1>1, <1>2, <1>3, TypeCorrect, PTL DEF Spec

------------------------------------------------------------------------------
(* What is passed over was handled *)

\* The target in hand is like all others of its spec that share its keys.
LEMMA AlikeTarget ==
  ASSUME TypeOK, LoopPosition, \A s \in Specs : TargetsAlike(s),
         pc \in Iterating, NEW n \in Spaces
  PROVE  /\ AnyNextTo(Current(n).key) <=> targetDef.on = "nextTo"
         /\ NoneSkips(Current(n).key) <=> ~Skips(targetDef)
<1>1. rep.spec \in Specs
  BY DEF TypeOK, PassTypeOK, ReplicaObjects
<1>2. TargetsAlike(rep.spec)
  BY <1>1
<1>3. PICK i \in DOMAIN rep.spec.targets : rep.spec.targets[i] = targetDef
  BY DEF LoopPosition, InSpec, Iterating
<1>4. targetDef.on = "hosting" <=> Current(n).key.cluster = Host
  BY DEF LoopPosition, OnListed, Iterating, Current, Rendering, KeyOf
<1>5. i \in Sharing(Current(n).key)
  BY <1>3, <1>4 DEF Sharing
<1>6. \A j \in Sharing(Current(n).key) :
        /\ rep.spec.targets[j].on = "nextTo" <=> targetDef.on = "nextTo"
        /\ Skips(rep.spec.targets[j]) <=> Skips(targetDef)
  BY <1>2, <1>3, <1>4 DEF TargetsAlike, Sharing
<1> QED BY <1>3, <1>5, <1>6 DEF AnyNextTo, NoneSkips

\* So their entries follow from their keys.
LEMMA AlikeEntry ==
  ASSUME TypeOK, LoopPosition, \A s \in Specs : TargetsAlike(s),
         pc \in Iterating, NEW n \in Spaces
  PROVE  Current(n).entry = EntryWith(Current(n).key)
  BY AlikeTarget, KeyIsEntry DEF EntryWith

\* What conflict detection knows of was synced or has failed.
LEMMA RenderedStep ==
  ASSUME TypeOK, LoopPosition, Fresh, RenderedHandled,
         \A s \in Specs : TargetsAlike(s), [Next]_vars
  PROVE  RenderedHandled'
<1> DEFINE Done(k) == EntryWith(k) \in managedResources \cup failed
<1>1. ASSUME pc' \notin Looping PROVE RenderedHandled'
  BY <1>1 DEF RenderedHandled
<1>2. ASSUME UNCHANGED pass PROVE RenderedHandled'
  BY <1>2 DEF pass, RenderedHandled, AnyNextTo, NoneSkips, Sharing, EntryWith
<1>3. CASE FetchSources
  BY <1>3 DEF FetchSources, results, Fresh, RenderedHandled
<1>4. ASSUME rep'.spec = rep.spec
      PROVE  \A k \in Entries : /\ NoneSkips(k)' = NoneSkips(k)
                                /\ EntryWith(k)' = EntryWith(k)
  BY <1>4 DEF NoneSkips, AnyNextTo, Sharing, EntryWith
<1>5. \A d \in conflictDetection : d.key \in Entries
  BY DEF TypeOK, PassTypeOK
<1>6. ASSUME \/ NextTarget
             \/ \E c \in Refs : SkipDeletingCluster(c) \/ ResolveNamespaces(c)
                                \/ ClusterUnavailable(c)
             \/ EndCluster \/ EndTarget
             \/ \E n \in Spaces : RenderFails(n) \/ RenderedBefore(n)
      PROVE  RenderedHandled'
  <2>1. /\ pc \in {"target", "cluster", "space"}
        /\ UNCHANGED <<rep, conflictDetection, managedResources>>
        /\ failed \subseteq failed'
    BY <1>6 DEF NextTarget, SkipDeletingCluster, ResolveNamespaces, ClusterUnavailable,
       EndCluster, EndTarget, RenderFails, RenderedBefore, object, results
  <2> QED BY <1>4, <1>5, <2>1 DEF RenderedHandled, Looping
<1>7. ASSUME NEW n \in Spaces, Decline(n) PROVE RenderedHandled'
  <2> DEFINE x == Current(n)
  <2>1. /\ pc = "space" /\ UNCHANGED <<rep, managedResources>>
        /\ conflictDetection' = conflictDetection \cup {[key |-> x.key, raw |-> x.raw]}
        /\ failed \subseteq failed'
        /\ Verdict(targetDef, x.entry) = "skip" \/ x.entry \in failed'
    BY <1>7 DEF Decline, object
  <2>2. Verdict(targetDef, x.entry) = "skip" => Skips(targetDef)
    BY DEF Verdict, ConflictVerdict, NamespaceVerdict, Skips
  <2>3. /\ NoneSkips(x.key) => ~Skips(targetDef)
        /\ x.entry = EntryWith(x.key)
    BY <2>1, AlikeTarget, AlikeEntry DEF Iterating
  <2>4. x.key \in Entries
    BY RenderingType DEF Renderings
  <2>5. ASSUME NEW d \in conflictDetection', NoneSkips(d.key)
        PROVE  (EntryWith(d.key) \in managedResources \cup failed)'
    <3>1. CASE d \in conflictDetection
      BY <1>4, <1>5, <2>1, <2>5, <3>1 DEF RenderedHandled, Looping
    <3>2. CASE d = [key |-> x.key, raw |-> x.raw]
      BY <1>4, <2>1, <2>2, <2>3, <2>4, <2>5, <3>2
    <3> QED BY <2>1, <3>1, <3>2
  <2>6. \A d \in conflictDetection' : d.key \in Entries
    BY <1>5, <2>1, <2>4
  <2> HIDE DEF x
  <2> QED BY <1>4, <2>1, <2>5, <2>6 DEF RenderedHandled
<1>8. ASSUME NEW n \in Spaces, Accept(n) PROVE RenderedHandled'
  <2> DEFINE x == Current(n)
  <2>1. /\ pc = "space" /\ UNCHANGED <<rep, managedResources, failed>>
        /\ pc' \in {"track", "write"}
        /\ conflictDetection' = conflictDetection \cup {[key |-> x.key, raw |-> x.raw]}
        /\ rendered' = x
    BY <1>8 DEF Accept, object
  <2> HIDE DEF x
  <2>2. \A d \in conflictDetection' : d \in conflictDetection \/ d.key = rendered'.key
    BY <2>1
  <2>3. x.key \in Entries
    BY RenderingType DEF Renderings, x
  <2> QED BY <1>4, <1>5, <2>1, <2>2, <2>3 DEF RenderedHandled, Looping
<1>9. CASE TrackInStatus \/ CreateOrUpdate
  <2>1. /\ pc \in {"track", "write"} /\ conflictDetection' = conflictDetection
        /\ managedResources \subseteq managedResources' /\ failed \subseteq failed'
        /\ \/ pc' = "write" /\ rendered' = rendered
           \/ rendered.entry \in managedResources' \cup failed'
    BY <1>9 DEF TrackInStatus, CreateOrUpdate, GiveUpTarget
  <2>2. rep'.spec = rep.spec
    BY <1>9, SpecKept DEF CreateOrUpdate, object
  <2>3. rendered.entry = EntryWith(rendered.key)
    <3>1. rendered = Current(rendered.space) /\ rendered.space \in Spaces
      BY <2>1 DEF LoopPosition, TypeOK, PassTypeOK, Renderings
    <3> QED BY <2>1, <3>1, AlikeEntry DEF Iterating
  <2>4. rendered.key \in Entries
    BY DEF TypeOK, PassTypeOK, Renderings
  <2>5. ASSUME NEW d \in conflictDetection, NoneSkips(d.key)
        PROVE  \/ (EntryWith(d.key) \in managedResources \cup failed)'
               \/ pc' = "write" /\ d.key = rendered'.key
    <3>1. Done(d.key) \/ d.key = rendered.key
      BY <2>1, <2>5 DEF RenderedHandled, Looping
    <3>2. EntryWith(d.key)' = EntryWith(d.key)
      BY <1>4, <1>5, <2>2
    <3> QED BY <2>1, <2>3, <3>1, <3>2
  <2> QED BY <1>4, <1>5, <2>1, <2>2, <2>5 DEF RenderedHandled
<1>10. ASSUME \/ \E r \in Replicas : Start(r)
              \/ ListClusters \/ EnsureFinalizer \/ HandleDelete \/ PlanDeletion
              \/ \E c \in Refs : ObsoleteUnreachable(c)
              \/ \E e \in Entries : Forget(e) \/ Await(e) \/ Decide(e)
              \/ RemoveObject \/ ReleaseObject \/ EndDeletion \/ UpdateStatus \/ Crash
       PROVE  RenderedHandled'
  <2>1. pc' \notin Looping
    BY <1>10 DEF Start, ListClusters, EnsureFinalizer, HandleDelete, PlanDeletion,
       ObsoleteUnreachable, Forget, Await, Decide, RemoveObject, ReleaseObject,
       EndDeletion, UpdateStatus, Crash, EndPass, Looping
  <2> QED BY <1>1, <2>1
<1> QED
  <2>1. CASE PassStep
    BY <1>3, <1>6, <1>7, <1>8, <1>9, <1>10, <2>1 DEF PassStep
  <2> QED BY <1>2, <1>10, <2>1, PassKept DEF Next

\* Where targets of a spec that share keys are alike, a target that is passed over because
\* the same bytes were rendered for it before was synced in this pass or has
\* failed in it.
THEOREM AlikeIdenticalHandled ==
  ASSUME \A s \in Specs : TargetsAlike(s)
  PROVE  Spec => IdenticalWasHandled
<1> DEFINE Inv == LoopPosition /\ Fresh /\ NotSynced /\ RenderedHandled
<1>1. Init => Inv
  <2>1. Init => LoopPosition /\ RenderedHandled
    BY DEF Init, Idle, LoopPosition, RenderedHandled, Looping
  <2> QED BY <2>1, FreshInit
<1>2. TypeOK /\ Inv /\ [Next]_vars => Inv'
  BY LoopPositionStep, FreshStep, RenderedStep
<1>3. ASSUME TypeOK, Inv
      PROVE  \A n \in Spaces :
               RenderedBefore(n) /\ targetDef.conflict # "Skip" /\ targetDef.missing # "Skip"
                 => Current(n).entry \in managedResources \cup failed'
  <2> SUFFICES ASSUME NEW n \in Spaces, RenderedBefore(n),
                      targetDef.conflict # "Skip", targetDef.missing # "Skip"
               PROVE  Current(n).entry \in managedResources \cup failed'
    OBVIOUS
  <2>1. pc = "space" /\ Handled(Current(n)) /\ failed \subseteq failed'
    BY DEF RenderedBefore
  <2>2. NoneSkips(Current(n).key) /\ Current(n).entry = EntryWith(Current(n).key)
    BY <1>3, <2>1, AlikeTarget, AlikeEntry DEF Iterating, Skips
  <2>3. PICK d \in conflictDetection : d.key = Current(n).key
    BY <2>1 DEF Handled
  <2>4. EntryWith(d.key) \in managedResources \cup failed
    BY <1>3, <2>1, <2>2, <2>3 DEF RenderedHandled, Looping
  <2> QED BY <2>1, <2>2, <2>3, <2>4
<1> QED BY <1>1, <1>2, <1>3, TypeCorrect, PTL DEF Spec, IdenticalWasHandled

=============================================================================
