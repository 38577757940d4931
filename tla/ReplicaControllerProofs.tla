----------------------- MODULE ReplicaControllerProofs -----------------------
(***************************************************************************)
(* Safety of the replica controller for any set of (Cluster)Replicas,      *)
(* clusters, namespaces, resources and specs, and for any number of edits  *)
(* and faults.                                                             *)
(***************************************************************************)
EXTENDS ReplicaController, PlatformProofs

\* The values that stand for "nothing" have the types of their variables.
LEMMA NothingTypes ==
  /\ NoReplica \in ReplicaObjects
  /\ \A s \in Specs : NewReplica(s) \in ReplicaObjects
  /\ NoObject \in Objects
  /\ NoTarget \in Targets
  /\ NoEntry \in Entries
  /\ NoRendering \in Renderings
  /\ NoClusters \in [Clusters -> Places(States)]
  /\ NoConditions \in [Refs -> {"none", "True", "False"}]
<1>1. NoTarget \in Targets
  BY DEF NoTarget, Targets
<1>2. NoEntry \in Entries
  BY ResourcesAssumption DEF NoEntry, Entries, Refs, Spaces
<1>3. NoRendering \in Renderings
  BY <1>2 DEF NoRendering, Renderings, Spaces
<1>4. NoClusters \in [Clusters -> Places(States)]
  BY LabelsAssumption DEF NoClusters, Places, States
<1>5. NoConditions \in [Refs -> {"none", "True", "False"}]
  BY DEF NoConditions
<1> QED BY <1>1, <1>2, <1>3, <1>4, <1>5, NoneTypes

\* What a spec renders has an entry, a key and a content.
LEMMA RenderingType ==
  ASSUME TypeOK, NEW n \in Spaces
  PROVE  /\ Current(n) \in Renderings
         /\ Current(n).raw \in Raws
         /\ Current(n).space = n
<1>1. rep.spec \in SpecShape
  BY SpecsAssumption DEF TypeOK, PassTypeOK, ReplicaObjects
<1>2. clusterRef \in Refs /\ sources \in Contents \cup {Missing}
  BY DEF TypeOK, PassTypeOK
<1>3. KeyOf(rep.spec, clusterRef, n) \in Entries
  BY <1>1, <1>2 DEF KeyOf, Entries, SpecShape
<1>4. EntryOf(rep.spec, targetDef, clusterRef, n) \in Entries
  <2>1. \A e \in Entries, c \in Refs : [e EXCEPT !.cluster = c] \in Entries
    BY DEF Entries
  <2>2. Host \in Refs
    BY DEF Refs
  <2> QED BY <1>2, <1>3, <2>1, <2>2 DEF EntryOf
<1>5. RawOf(rep.spec, clusterRef, n) \in Raws
  BY <1>2 DEF RawOf, Raws, Refs, Spaces
<1> QED BY <1>3, <1>4, <1>5 DEF Current, Rendering, Renderings

\* The end of a pass leaves the values that stand for "nothing".
LEMMA EndPassTypes == EndPass => PassTypeOK'
  BY NothingTypes DEF EndPass, PassTypeOK, NoTarget, States, Refs

\* After Reconcile's first read there is a (Cluster)Replica to work on, ...
LEMMA StartTypes ==
  ASSUME TypeOK, NEW r \in Replicas, Start(r)
  PROVE  TypeOK'
<1>1. View(r) \in ReplicaObjects
  BY DEF TypeOK, PlatformTypeOK, View
<1>2. replica' \in [Replicas -> ReplicaObjects] /\ rep' \in ReplicaObjects
  <2>1. CASE View(r).op = "reconcile"
    <3>1. [replica[r] EXCEPT !.op = "none"] \in ReplicaObjects
      BY ReplicaUpdates DEF TypeOK, PlatformTypeOK
    <3>2. replica' \in [Replicas -> ReplicaObjects]
      BY <2>1, <3>1 DEF Start, TypeOK, PlatformTypeOK
    <3>3. View(r).status \in SUBSET Entries /\ replica'[r].status \in SUBSET Entries
      BY <1>1, <3>2 DEF ReplicaObjects
    <3>4. Refreshed(View(r), replica'[r]) \in ReplicaObjects
      BY <3>2, <3>3, ReplicaUpdates DEF Refreshed
    <3> QED BY <2>1, <3>2, <3>4 DEF Start
  <2>2. CASE View(r).op # "reconcile"
    BY <1>1, <2>2 DEF Start, TypeOK, PlatformTypeOK
  <2> QED BY <2>1, <2>2
<1>3. old' \in SUBSET Entries
  BY <1>2 DEF Start, ReplicaObjects
<1>4. PlatformTypeOK'
  BY <1>2 DEF Start, TypeOK, PlatformTypeOK, world
<1>5. PassTypeOK'
  BY <1>2, <1>3, ReplicasAssumption
     DEF Start, TypeOK, PassTypeOK, world, loop, results
<1> QED BY <1>4, <1>5 DEF Start, TypeOK, world

\* ... and the steps up to the loop over the targets, ...
LEMMA PrologueTypes ==
  ASSUME TypeOK, ListClusters \/ EnsureFinalizer \/ FetchSources \/ HandleDelete
  PROVE  TypeOK'
<1> USE DEF TypeOK, api, platform, world, listed, object, loop, results, Fault
<1>1. CASE ListClusters
  BY <1>1 DEF ListClusters, PlatformTypeOK, PassTypeOK
<1>2. CASE EnsureFinalizer
  <2> DEFINE held == [replica EXCEPT ![cur].finalizer = TRUE]
  <2>1. cur \in Replicas
    BY <1>2 DEF EnsureFinalizer, PassTypeOK
  <2>2. [replica[cur] EXCEPT !.finalizer = TRUE] \in ReplicaObjects
    BY <2>1, ReplicaUpdates DEF PlatformTypeOK
  <2>3. held \in [Replicas -> ReplicaObjects]
    BY <2>2 DEF PlatformTypeOK
  <2>4. Refreshed(rep, held[cur]) \in ReplicaObjects
    <3>1. rep.status \in SUBSET Entries /\ held[cur].status \in SUBSET Entries
      BY <2>1, <2>3 DEF PassTypeOK, ReplicaObjects
    <3> QED BY <2>1, <2>3, <3>1, ReplicaUpdates DEF Refreshed
  <2>5. Refreshed(rep, held[cur]).status \in SUBSET Entries
    BY <2>4 DEF ReplicaObjects
  <2>6. \/ rep' = Refreshed(rep, held[cur]) /\ replica' = held /\ old' = rep'.status
        \/ UNCHANGED object /\ replica' \in {replica, held}
    BY <1>2, Zenon DEF EnsureFinalizer
  <2>7. faults' \in Nat /\ pc' \in {"sources", "status"}
    BY <1>2 DEF EnsureFinalizer
  <2> HIDE DEF held
  <2>8. /\ replica' \in [Replicas -> ReplicaObjects]
        /\ rep' \in ReplicaObjects
        /\ old' \in SUBSET Entries
    BY <2>3, <2>4, <2>5, <2>6 DEF PlatformTypeOK, PassTypeOK
  <2> QED BY <1>2, <2>1, <2>7, <2>8 DEF EnsureFinalizer, PlatformTypeOK, PassTypeOK
<1>3. CASE FetchSources
  <2>1. rep.spec.targets \in Seq(Targets)
    <3>1. rep.spec \in SpecShape
      BY SpecsAssumption DEF PassTypeOK, ReplicaObjects
    <3> QED BY <3>1 DEF SpecShape
  <2> QED BY <1>3, <2>1 DEF FetchSources, PlatformTypeOK, PassTypeOK
<1>4. CASE HandleDelete
  <2> DEFINE released == [replica EXCEPT ![cur] = WithoutFinalizer(@)]
  <2>1. cur \in Replicas
    BY <1>4 DEF HandleDelete, PassTypeOK
  <2>2. WithoutFinalizer(replica[cur]) \in ReplicaObjects
    BY <2>1, ReplicaUpdates, NothingTypes DEF WithoutFinalizer, PlatformTypeOK
  <2>3. released \in [Replicas -> ReplicaObjects]
    BY <2>2 DEF PlatformTypeOK
  <2>4. PlatformTypeOK' /\ cached' = cached /\ faults' \in Nat
    BY <1>4, <2>3 DEF HandleDelete, PlatformTypeOK
  <2>5. PassTypeOK'
    BY <1>4, <2>1, EndPassTypes DEF HandleDelete, PassTypeOK
  <2> QED BY <2>4, <2>5
<1> QED BY <1>1, <1>2, <1>3, <1>4

\* ... the loops over targets, clusters and namespaces, ...
LEMMA LoopTypes ==
  ASSUME TypeOK,
         \/ NextTarget \/ EndCluster \/ EndTarget
         \/ \E c \in Refs : \/ SkipDeletingCluster(c) \/ ResolveNamespaces(c)
                            \/ ClusterUnavailable(c)
  PROVE  TypeOK'
<1> USE DEF TypeOK, PlatformTypeOK, api, platform, listed, object, results, Fault
<1>1. CASE NextTarget
  <2>1. CASE targets # <<>>
    <3>1. Head(targets) \in Targets /\ Tail(targets) \in Seq(Targets)
      BY <2>1 DEF PassTypeOK
    <3>2. /\ Matches(Head(targets), clusterList) \in SUBSET Refs
          /\ Head(targets).on = "nextTo" => Matches(Head(targets), clusterList) \subseteq Clusters
      BY DEF Matches, Refs
    <3> QED BY <1>1, <2>1, <3>1, <3>2 DEF NextTarget, PassTypeOK
  <2>2. CASE targets = <<>>
    BY <1>1, <2>2 DEF NextTarget, PassTypeOK
  <2> QED BY <2>1, <2>2
<1>2. CASE EndCluster
  BY <1>2 DEF EndCluster, PassTypeOK, Refs
<1>3. CASE EndTarget
  BY <1>3, NothingTypes DEF EndTarget, PassTypeOK, NoTarget
<1>4. ASSUME NEW c \in Refs, SkipDeletingCluster(c) PROVE TypeOK'
  BY <1>4 DEF SkipDeletingCluster, PassTypeOK
<1>5. ASSUME NEW c \in Refs, ResolveNamespaces(c) PROVE TypeOK'
  <2>1. targetDef \in Targets /\ rep.status \subseteq Entries
    BY DEF PassTypeOK, ReplicaObjects
  <2>2. targetDef.on = "nextTo" => c \in Clusters
    BY <1>5 DEF ResolveNamespaces, PassTypeOK
  <2>3. SelectedNamespaces(targetDef, c) \in SUBSET Spaces
    BY <2>1, <2>2, PlacesAssumption DEF SelectedNamespaces, Spaces, Targets
  <2>4. EntriesOn(c) \in SUBSET Entries
    BY <2>1 DEF EntriesOn
  <2> QED BY <1>5, <2>3, <2>4 DEF ResolveNamespaces, PassTypeOK
<1>6. ASSUME NEW c \in Refs, ClusterUnavailable(c) PROVE TypeOK'
  <2>1. EntriesOn(c) \in SUBSET Entries
    BY DEF EntriesOn, PassTypeOK, ReplicaObjects
  <2> QED BY <1>6, <2>1 DEF ClusterUnavailable, PassTypeOK
<1> QED BY <1>1, <1>2, <1>3, <1>4, <1>5, <1>6

\* ... the handling of one target resource up to the decision to sync it, ...
LEMMA TargetTypes ==
  ASSUME TypeOK, NEW n \in Spaces,
         RenderFails(n) \/ RenderedBefore(n) \/ Decline(n) \/ Accept(n)
  PROVE  TypeOK'
<1>1. /\ Current(n) \in Renderings
      /\ Current(n).entry \in Entries
      /\ Current(n).key \in Entries
      /\ Current(n).raw \in Raws
  BY RenderingType DEF Renderings
<1>2. [key |-> Current(n).key, raw |-> Current(n).raw] \in [key : Entries, raw : Raws]
  BY <1>1
<1> USE DEF TypeOK, api, platform, listed, object, outer, loop, Fault
<1>3. CASE RenderFails(n)
  BY <1>1, <1>3 DEF RenderFails, PlatformTypeOK, PassTypeOK
<1>4. CASE RenderedBefore(n)
  BY <1>1, <1>4 DEF RenderedBefore, PlatformTypeOK, PassTypeOK
<1>5. CASE Decline(n)
  BY <1>1, <1>2, <1>5 DEF Decline, PlatformTypeOK, PassTypeOK
<1>6. CASE Accept(n)
  <2>1. PassTypeOK'
    BY <1>1, <1>2, <1>6 DEF Accept, PassTypeOK
  <2>2. namespaces' \in [Refs -> [Namespaces -> Places(States)]]
    <3> DEFINE c == Current(n).entry.cluster
               m == Current(n).entry.namespace
    <3>1. CASE Verdict(targetDef, Current(n).entry) = "create"
      <4>1. c \in Refs /\ m \in Namespaces
        BY <1>1, <3>1 DEF Verdict, ConflictVerdict, NamespaceVerdict, Entries, Spaces
      <4>2. [namespaces[c][m] EXCEPT !.state = "live"] \in Places(States)
        BY <4>1, PlaceUpdates DEF PlatformTypeOK, States
      <4> QED BY <1>6, <3>1, <4>1, <4>2 DEF Accept, PlatformTypeOK, States
    <3>2. CASE Verdict(targetDef, Current(n).entry) # "create"
      BY <1>6, <3>2 DEF Accept, PlatformTypeOK, States
    <3> QED BY <3>1, <3>2
  <2> QED BY <1>6, <2>1, <2>2 DEF Accept, PlatformTypeOK, States
<1> QED BY <1>3, <1>4, <1>5, <1>6

\* ... its entry in the status and its object, ...
LEMMA SyncTypes ==
  ASSUME TypeOK, TrackInStatus \/ CreateOrUpdate
  PROVE  TypeOK'
<1> USE DEF TypeOK, api, platform, world, listed, object, outer, Fault
<1>1. /\ rendered.entry \in Entries /\ rendered.key \in Entries
      /\ rendered.raw \in Raws \cup {NoContent}
      /\ rep.status \cup {rendered.entry} \in SUBSET Entries
      /\ NoRendering \in Renderings
  BY NothingTypes DEF PassTypeOK, Renderings, ReplicaObjects
<1>2. CASE TrackInStatus
  <2> DEFINE list == rep.status \cup {rendered.entry}
             patched == [replica EXCEPT ![cur].status = list]
  <2>1. cur \in Replicas
    BY <1>2 DEF TrackInStatus, PassTypeOK
  <2>2. /\ [replica[cur] EXCEPT !.status = list] \in ReplicaObjects
        /\ [rep EXCEPT !.status = list] \in ReplicaObjects
    BY <1>1, <2>1, ReplicaUpdates DEF PlatformTypeOK, PassTypeOK
  <2>3. patched \in [Replicas -> ReplicaObjects]
    BY <2>2 DEF PlatformTypeOK
  <2>4. [replica[cur] EXCEPT !.status = list, !.spec = rep.spec] \in ReplicaObjects
    <3>1. rep.spec \in Specs
      BY DEF PassTypeOK, ReplicaObjects
    <3> QED BY <2>2, <3>1, ReplicaUpdates
  <2>5. /\ replica' \in {replica, patched}
        /\ rep' \in {[replica[cur] EXCEPT !.status = list, !.spec = rep.spec],
                    [rep EXCEPT !.status = list]}
        /\ old' \in {old, list}
    BY <1>2, Zenon DEF TrackInStatus
  <2> HIDE DEF patched
  <2>6. /\ replica' \in [Replicas -> ReplicaObjects]
        /\ rep' \in ReplicaObjects
        /\ old' \in SUBSET Entries
    BY <1>1, <2>2, <2>3, <2>4, <2>5 DEF PlatformTypeOK, PassTypeOK
  <2>7. /\ faults' \in Nat /\ pc' \in {"write", "space"}
        /\ rendered' \in Renderings
        /\ targetNamespaces' \in SUBSET Spaces
        /\ seenTargetConditions' \in SUBSET Entries
        /\ failed' \in SUBSET Entries
        /\ managedResources' = managedResources
    BY <1>1, <1>2 DEF TrackInStatus, GiveUpTarget, PassTypeOK
  <2> QED BY <1>2, <2>1, <2>6, <2>7 DEF TrackInStatus, PlatformTypeOK, PassTypeOK
<1>3. CASE CreateOrUpdate
  <2> DEFINE e == rendered.entry
             synced == [store EXCEPT ![Loc(e)] = Written(@)]
  <2>1. cur \in Replicas
    BY <1>3 DEF CreateOrUpdate, PassTypeOK
  <2>2. Written(store[Loc(e)]) \in Objects
    BY <1>1, <2>1, LocType DEF Written, PlatformTypeOK, Objects
  <2>3. synced \in [Locations -> Objects]
    BY <2>2 DEF PlatformTypeOK
  <2>4. store' \in {store, synced}
    BY <1>3, Zenon DEF CreateOrUpdate
  <2> HIDE DEF synced
  <2>5. store' \in [Locations -> Objects]
    BY <2>3, <2>4 DEF PlatformTypeOK
  <2>6. /\ faults' \in Nat /\ pc' = "space"
        /\ rendered' \in Renderings
        /\ targetNamespaces' \in SUBSET Spaces
        /\ seenTargetConditions' \in SUBSET Entries
        /\ failed' \in SUBSET Entries
        /\ managedResources' \in SUBSET Entries
    BY <1>1, <1>3 DEF CreateOrUpdate, GiveUpTarget, PassTypeOK
  <2> QED BY <1>3, <2>1, <2>5, <2>6 DEF CreateOrUpdate, PlatformTypeOK, PassTypeOK
<1> QED BY <1>2, <1>3

\* ... the deletion of obsolete resources, ...
LEMMA DeletionTypes ==
  ASSUME TypeOK,
         \/ PlanDeletion \/ RemoveObject \/ ReleaseObject \/ EndDeletion
         \/ \E c \in Refs : ObsoleteUnreachable(c)
         \/ \E e \in Entries : Forget(e) \/ Await(e) \/ Decide(e)
  PROVE  TypeOK'
<1> USE DEF TypeOK, api, platform, world, listed, object, loop, results, Fault
<1>1. \A S : [rep EXCEPT !.status = rep.status \ S] \in ReplicaObjects
  <2>1. \A S : rep.status \ S \in SUBSET Entries
    BY DEF PassTypeOK, ReplicaObjects
  <2> QED BY <2>1, ReplicaUpdates DEF PassTypeOK
<1>2. CASE PlanDeletion
  <2>1. rep' \in ReplicaObjects
    BY <1>1, <1>2 DEF PlanDeletion
  <2>2. resourcesToDelete' \in SUBSET Entries
    BY <1>2 DEF PlanDeletion, Obsolete, PassTypeOK, ReplicaObjects
  <2> QED BY <1>2, <2>1, <2>2 DEF PlanDeletion, PlatformTypeOK, PassTypeOK
<1>3. ASSUME NEW c \in Refs, ObsoleteUnreachable(c) PROVE TypeOK'
  BY <1>3 DEF ObsoleteUnreachable, PlatformTypeOK, PassTypeOK
<1>4. ASSUME NEW e \in Entries, Forget(e) PROVE TypeOK'
  <2>1. rep' \in ReplicaObjects
    BY <1>1, <1>4 DEF Forget
  <2> QED BY <1>4, <2>1 DEF Forget, PlatformTypeOK, PassTypeOK
<1>5. ASSUME NEW e \in Entries, Await(e) PROVE TypeOK'
  BY <1>5 DEF Await, PlatformTypeOK, PassTypeOK
<1>6. ASSUME NEW e \in Entries, Decide(e) PROVE TypeOK'
  <2>1. rendered' \in Renderings
    BY <1>6 DEF Decide, PassTypeOK, Renderings
  <2> QED BY <1>6, <2>1 DEF Decide, PlatformTypeOK, PassTypeOK
<1>7. rendered.entry \in Entries /\ NoRendering \in Renderings
  BY NothingTypes DEF PassTypeOK, Renderings
<1>8. CASE RemoveObject
  <2> DEFINE l == Loc(rendered.entry)
             removed == [store EXCEPT ![l].state =
                                        IF @ = "absent" THEN @ ELSE "deleting"]
  <2>1. store[l] \in Objects
    BY <1>7, LocType DEF PlatformTypeOK
  <2>2. [store[l] EXCEPT !.state = IF @ = "absent" THEN @ ELSE "deleting"] \in Objects
    BY <2>1, ObjectUpdates DEF States
  <2>3. removed \in [Locations -> Objects]
    BY <2>2 DEF PlatformTypeOK
  <2>4. store' \in {store, removed}
    BY <1>8, Zenon DEF RemoveObject
  <2> HIDE DEF removed
  <2>5. store' \in [Locations -> Objects]
    BY <2>3, <2>4 DEF PlatformTypeOK
  <2>6. faults' \in Nat
    BY <1>8 DEF RemoveObject
  <2> QED BY <1>7, <1>8, <2>5, <2>6 DEF RemoveObject, PlatformTypeOK, PassTypeOK
<1>9. CASE ReleaseObject
  <2> DEFINE l == Loc(rendered.entry)
             stripped == [store EXCEPT ![l].owner = NoOwner, ![l].keep = FALSE]
  <2>1. store[l] \in Objects
    BY <1>7, LocType DEF PlatformTypeOK
  <2>2. [store[l] EXCEPT !.owner = NoOwner] \in Objects
    BY <2>1, ObjectUpdates
  <2>3. [[store[l] EXCEPT !.owner = NoOwner] EXCEPT !.keep = FALSE] \in Objects
    BY <2>2, ObjectUpdates
  <2>4. stripped \in [Locations -> Objects]
    BY <1>7, <2>3, LocType DEF PlatformTypeOK
  <2>5. store' \in {store, stripped} /\ rep' \in {rep, [rep EXCEPT !.status = @ \ {rendered.entry}]}
    BY <1>9, Zenon DEF ReleaseObject
  <2> HIDE DEF stripped
  <2>6. store' \in [Locations -> Objects] /\ rep' \in ReplicaObjects
    BY <1>1, <2>4, <2>5 DEF PlatformTypeOK, PassTypeOK
  <2>7. faults' \in Nat
    BY <1>9 DEF ReleaseObject
  <2> QED BY <1>7, <1>9, <2>6, <2>7 DEF ReleaseObject, PlatformTypeOK, PassTypeOK
<1>10. CASE EndDeletion
  BY <1>10 DEF EndDeletion, PlatformTypeOK, PassTypeOK
<1> QED BY <1>2, <1>3, <1>4, <1>5, <1>6, <1>8, <1>9, <1>10

\* ... the end of a pass, and the informer.
LEMMA EpilogueTypes ==
  ASSUME TypeOK, UpdateStatus \/ Crash \/ \E r \in Replicas : CacheSync(r)
  PROVE  TypeOK'
<1> USE DEF TypeOK, platform, world, Fault
<1>1. CASE UpdateStatus
  <2> DEFINE list == rep.status \cup managedResources
             patched == [replica EXCEPT ![cur].status = IF list = old THEN @ ELSE list]
  <2>1. cur \in Replicas
    BY <1>1 DEF UpdateStatus, PassTypeOK
  <2>2. list \in SUBSET Entries /\ replica[cur].status \in SUBSET Entries
    BY <2>1 DEF PlatformTypeOK, PassTypeOK, ReplicaObjects
  <2>3. [replica[cur] EXCEPT !.status = IF list = old THEN @ ELSE list] \in ReplicaObjects
    BY <2>1, <2>2, ReplicaUpdates DEF PlatformTypeOK
  <2>4. patched \in [Replicas -> ReplicaObjects]
    BY <2>3 DEF PlatformTypeOK
  <2>5. replica' \in {replica, patched}
    BY <1>1, Zenon DEF UpdateStatus
  <2> HIDE DEF patched
  <2>6. replica' \in [Replicas -> ReplicaObjects]
    BY <2>4, <2>5 DEF PlatformTypeOK
  <2>7. PassTypeOK' /\ faults' \in Nat
    BY <1>1, EndPassTypes DEF UpdateStatus
  <2> QED BY <1>1, <2>6, <2>7 DEF UpdateStatus, PlatformTypeOK
<1>2. CASE Crash
  BY <1>2, EndPassTypes DEF Crash, PlatformTypeOK
<1>3. ASSUME NEW r \in Replicas, CacheSync(r) PROVE TypeOK'
  BY <1>3 DEF CacheSync, PlatformTypeOK, PassTypeOK, locals, listed, object, loop,
              results
<1> QED BY <1>1, <1>2, <1>3

\* Whatever users, faults and restarts do, the API objects and the local state
\* of a pass keep the shapes the code relies on: in particular a pass never
\* resolves a namespace next to anything but a Cluster.
THEOREM TypeCorrect == Spec => []TypeOK
<1>1. Init => TypeOK
  <2> SUFFICES ASSUME Init PROVE TypeOK
    OBVIOUS
  <2>1. PlatformTypeOK
    BY NothingTypes DEF Init, PlatformInit, PlatformTypeOK, Places
  <2>2. PassTypeOK
    BY NothingTypes DEF Init, Idle, PassTypeOK, NoTarget, States, Refs
  <2> QED BY <2>1, <2>2 DEF Init, TypeOK, PlatformTypeOK
<1>2. TypeOK /\ [Next]_vars => TypeOK'
  <2> SUFFICES ASSUME TypeOK, [Next]_vars PROVE TypeOK'
    OBVIOUS
  <2>1. CASE PassStep
    BY <2>1, PrologueTypes, LoopTypes, TargetTypes, SyncTypes, DeletionTypes,
       EpilogueTypes DEF PassStep
  <2>2. CASE UserStep /\ UNCHANGED <<cached, faults, locals>>
    BY <2>2, UserTypes DEF TypeOK, PassTypeOK, locals, listed, object, loop, results
  <2>3. CASE UNCHANGED vars
    BY <2>3 DEF vars, api, platform, locals, listed, object, loop, results,
                TypeOK, PlatformTypeOK, PassTypeOK
  <2> QED BY <2>1, <2>2, <2>3, StartTypes, EpilogueTypes DEF Next
<1> QED BY <1>1, <1>2, PTL DEF Spec

------------------------------------------------------------------------------
(* Ownership *)

\* Most steps write no object, and do not lead to where one is written.
LEMMA ReadOnlySteps ==
  ASSUME \/ \E r \in Replicas : Start(r)
         \/ ListClusters \/ EnsureFinalizer \/ FetchSources \/ NextTarget
         \/ \E c \in Refs : \/ SkipDeletingCluster(c) \/ ResolveNamespaces(c)
                            \/ ClusterUnavailable(c) \/ ObsoleteUnreachable(c)
         \/ EndCluster \/ EndTarget
         \/ \E n \in Spaces : RenderFails(n) \/ RenderedBefore(n) \/ Decline(n)
         \/ HandleDelete \/ PlanDeletion
         \/ \E e \in Entries : Forget(e) \/ Await(e)
         \/ EndDeletion \/ UpdateStatus \/ Crash
  PROVE  store' = store /\ pc' \notin {"track", "write", "remove", "release"}
<1> USE DEF api, platform
<1>1. ASSUME NEW r \in Replicas, Start(r)
      PROVE  store' = store /\ pc' \notin {"track", "write", "remove", "release"}
  BY <1>1 DEF Start
<1>2. ASSUME ListClusters \/ EnsureFinalizer \/ FetchSources \/ NextTarget
             \/ EndCluster \/ EndTarget
      PROVE  store' = store /\ pc' \notin {"track", "write", "remove", "release"}
  BY <1>2 DEF ListClusters, EnsureFinalizer, FetchSources, NextTarget, EndCluster,
              EndTarget
<1>3. ASSUME NEW c \in Refs,
             \/ SkipDeletingCluster(c) \/ ResolveNamespaces(c)
             \/ ClusterUnavailable(c) \/ ObsoleteUnreachable(c)
      PROVE  store' = store /\ pc' \notin {"track", "write", "remove", "release"}
  BY <1>3 DEF SkipDeletingCluster, ResolveNamespaces, ClusterUnavailable,
              ObsoleteUnreachable
<1>4. ASSUME NEW n \in Spaces, RenderFails(n) \/ RenderedBefore(n) \/ Decline(n)
      PROVE  store' = store /\ pc' \notin {"track", "write", "remove", "release"}
  BY <1>4 DEF RenderFails, RenderedBefore, Decline
<1>5. ASSUME NEW e \in Entries, Forget(e) \/ Await(e)
      PROVE  store' = store /\ pc' \notin {"track", "write", "remove", "release"}
  BY <1>5 DEF Forget, Await
<1>6. ASSUME HandleDelete \/ PlanDeletion \/ EndDeletion \/ UpdateStatus \/ Crash
      PROVE  store' = store /\ pc' \notin {"track", "write", "remove", "release"}
  BY <1>6 DEF HandleDelete, PlanDeletion, EndDeletion, UpdateStatus, Crash, EndPass
<1> QED BY <1>1, <1>2, <1>3, <1>4, <1>5, <1>6

\* Users and other controllers give no object to a (Cluster)Replica.
LEMMA UserOwners ==
  ASSUME TypeOK, AbsentUnowned, UserStep
  PROVE  /\ AbsentUnowned'
         /\ \A l \in Locations : store'[l].owner \in {store[l].owner, NoOwner}
<1> DEFINE Goal(l) ==
      /\ store'[l].owner \in {store[l].owner, NoOwner}
      /\ store'[l].state = "absent" => store'[l].owner = NoOwner
<1> SUFFICES ASSUME NEW l \in Locations PROVE Goal(l)
  BY DEF AbsentUnowned
<1>1. store \in [Locations -> Objects] /\ store[l] \in Objects
  BY DEF TypeOK, PlatformTypeOK
<1>2. store[l].state = "absent" => store[l].owner = NoOwner
  BY DEF AbsentUnowned
<1>3. NoObject.owner = NoOwner
  BY DEF NoObject
<1>4. CASE store' = store
  BY <1>2, <1>4
<1>5. ASSUME NEW c \in Clusters, ClusterGone(c) PROVE Goal(l)
  BY <1>2, <1>3, <1>5 DEF ClusterGone
<1>6. ASSUME NEW c \in Refs, NEW n \in Namespaces,
             NEW x \in Places({"live", "deleting"}), EditNamespace(c, n, x)
      PROVE  Goal(l)
  <2>1. store'[l] \in {store[l], [store[l] EXCEPT !.state = "deleting"]}
    BY <1>6, Zenon DEF EditNamespace
  <2> QED BY <1>1, <1>2, <2>1 DEF Objects
<1>7. ASSUME NEW k \in Locations,
             UserCreates(k) \/ UserDeletes(k) \/ UserKeeps(k) \/ Vanish(k)
      PROVE  Goal(l)
  <2>1. CASE k = l
    BY <1>1, <1>2, <1>3, <1>7, <2>1
       DEF UserCreates, UserDeletes, UserKeeps, Vanish, Objects
  <2>2. CASE k # l
    <3>1. store'[l] = store[l]
      BY <1>1, <1>7, <2>2 DEF UserCreates, UserDeletes, UserKeeps, Vanish
    <3> QED BY <1>2, <3>1
  <2> QED BY <2>1, <2>2
<1> QED
  BY <1>4, <1>5, <1>6, <1>7
     DEF UserStep, CreateReplica, EditReplica, DeleteReplica, EditSource,
         EditCluster, NamespaceGone

\* The ownership a pass has seen still stands when it acts on it, and objects
\* change hands only by way of nobody.
LEMMA OwnershipStep ==
  ASSUME TypeOK, OwnershipInv, [Next]_vars
  PROVE  /\ OwnershipInv'
         /\ \A l \in Locations :
              store[l].owner # NoOwner /\ store'[l].owner # NoOwner
                => store'[l].owner = store[l].owner
<1> DEFINE KeepsOwners ==
      \A l \in Locations : store'[l].owner \in {store[l].owner, NoOwner}
    Goal == OwnershipInv' /\ \A l \in Locations :
              store[l].owner # NoOwner /\ store'[l].owner # NoOwner
                => store'[l].owner = store[l].owner
<1> USE DEF OwnershipInv
<1>1. store \in [Locations -> Objects] /\ rendered \in Renderings
  BY DEF TypeOK, PlatformTypeOK, PassTypeOK
<1>2. Loc(rendered.entry) \in Locations
  BY <1>1, LocType DEF Renderings
<1>3. ASSUME store' = store, pc' \notin {"track", "write", "remove", "release"}
      PROVE  Goal
  BY <1>3 DEF AbsentUnowned, TargetClaimable, ObsoleteManaged
<1>4. ASSUME AbsentUnowned', KeepsOwners, UNCHANGED <<pc, cur, rendered>>
      PROVE  Goal
  BY <1>2, <1>4 DEF TargetClaimable, ObsoleteManaged, IsManaged
<1>5. ASSUME NEW n \in Spaces, Accept(n) PROVE Goal
  <2>1. /\ store' = store /\ cur' = cur /\ rendered' = Current(n)
        /\ pc' \in {"write", "track"}
        /\ Verdict(targetDef, Current(n).entry) \in {"sync", "create"}
    BY <1>5 DEF Accept, listed
  <2>2. Loc(Current(n).entry) \in Locations
    BY RenderingType, LocType DEF Renderings
  <2>3. store[Loc(Current(n).entry)].owner \in {NoOwner, cur}
    BY <2>1, <2>2 DEF Verdict, ConflictVerdict, OwnedByThis, OwnedByOther, AbsentUnowned
  <2> QED BY <2>1, <2>3 DEF AbsentUnowned, TargetClaimable, ObsoleteManaged
<1>6. ASSUME TrackInStatus PROVE Goal
  <2>1. store' = store /\ cur' = cur /\ pc = "track"
    BY <1>6 DEF TrackInStatus, listed
  <2>2. CASE GiveUpTarget
    BY <2>1, <2>2 DEF GiveUpTarget, AbsentUnowned, TargetClaimable, ObsoleteManaged
  <2>3. CASE ~GiveUpTarget
    <3>1. pc' = "write" /\ rendered' = rendered
      BY <1>6, <2>3 DEF TrackInStatus
    <3> QED BY <2>1, <3>1 DEF AbsentUnowned, TargetClaimable, ObsoleteManaged
  <2> QED BY <2>2, <2>3
<1>7. ASSUME CreateOrUpdate PROVE Goal
  <2> DEFINE k == Loc(rendered.entry)
  <2>1. pc = "write" /\ pc' = "space"
        /\ store' \in {store, [store EXCEPT ![k] = Written(store[k])]}
    BY <1>7, Zenon DEF CreateOrUpdate, GiveUpTarget
  <2>2. store[k].owner \in {NoOwner, cur}
    BY <2>1 DEF TargetClaimable
  <2>3. Written(store[k]).owner = cur /\ Written(store[k]).state # "absent"
    BY DEF Written
  <2> QED BY <1>1, <1>2, <2>1, <2>2, <2>3 DEF AbsentUnowned, TargetClaimable, ObsoleteManaged
<1>8. ASSUME NEW e \in Entries, Decide(e) PROVE Goal
  <2>1. /\ store' = store /\ cur' = cur /\ pc' \in {"release", "remove"}
        /\ rendered'.entry = e /\ IsManaged(store[Loc(e)])
    BY <1>1, <1>8 DEF Decide, api, platform, listed, Renderings
  <2> QED BY <2>1 DEF AbsentUnowned, TargetClaimable, ObsoleteManaged, IsManaged
<1>9. ASSUME RemoveObject PROVE Goal
  <2> DEFINE k == Loc(rendered.entry)
             o == [store[k] EXCEPT !.state = IF @ = "absent" THEN @ ELSE "deleting"]
  <2>1. pc' = "obsolete" /\ store' \in {store, [store EXCEPT ![k] = o]}
    BY <1>9, Zenon DEF RemoveObject
  <2>2. o.owner = store[k].owner /\ (o.state = "absent" => store[k].state = "absent")
    BY <1>1, <1>2 DEF Objects
  <2> HIDE DEF o
  <2> QED BY <1>1, <1>2, <2>1, <2>2 DEF AbsentUnowned, TargetClaimable, ObsoleteManaged
<1>10. ASSUME ReleaseObject PROVE Goal
  <2> DEFINE k == Loc(rendered.entry)
             o == [[store[k] EXCEPT !.owner = NoOwner] EXCEPT !.keep = FALSE]
  <2>1. pc' = "obsolete" /\ store' \in {store, [store EXCEPT ![k] = o]}
    BY <1>1, <1>2, <1>10 DEF ReleaseObject
  <2>2. o.owner = NoOwner
    BY <1>1, <1>2 DEF Objects
  <2> HIDE DEF o
  <2> QED BY <1>1, <1>2, <2>1, <2>2 DEF AbsentUnowned, TargetClaimable, ObsoleteManaged
<1>11. ASSUME NEW r \in Replicas, CacheSync(r) PROVE Goal
  BY <1>4, <1>11 DEF CacheSync, locals, listed, AbsentUnowned
<1>12. ASSUME UserStep /\ UNCHANGED <<cached, faults, locals>> PROVE Goal
  BY <1>4, <1>12, UserOwners DEF locals, listed
<1>13. ASSUME UNCHANGED vars PROVE Goal
  BY <1>4, <1>13 DEF vars, api, platform, locals, listed, AbsentUnowned
<1> HIDE DEF Goal
<1> QED
  <2>1. ASSUME PassStep PROVE Goal
    BY <1>3, <1>5, <1>6, <1>7, <1>8, <1>9, <1>10, <2>1, ReadOnlySteps DEF PassStep
  <2>2. Goal
    BY <1>3, <1>11, <1>12, <1>13, <2>1, ReadOnlySteps DEF Next
  <2> QED BY <2>2 DEF Goal

\* At the start there are no objects, and no pass is about to write one.
LEMMA OwnershipInit == Init => OwnershipInv
  BY DEF Init, PlatformInit, Idle, OwnershipInv, AbsentUnowned, TargetClaimable,
         ObsoleteManaged, NoObject

\* "Whichever created the conflicting resource first is managing it": a copy
\* never passes from one (Cluster)Replica to another, even with an informer
\* cache that lags behind.
THEOREM FirstCreatorManages == Spec => NoOwnershipTheft
<1> QED BY OwnershipInit, TypeCorrect, OwnershipStep, PTL DEF Spec, NoOwnershipTheft

\* Where kind and name tell (Cluster)Replicas apart, deleting an obsolete copy
\* and releasing a kept one touch no object of another (Cluster)Replica, though
\* neither call has a precondition.  (Run same_name shows what happens otherwise.)
THEOREM UniqueNamesDeleteOwn ==
  ASSUME UniqueNames
  PROVE  Spec => DeletesOnlyOwn
<1>1. ASSUME TypeOK, OwnershipInv, [Next]_vars
      PROVE  \A l \in Locations :
               pc \in {"remove", "release"} /\ pc' = "obsolete" /\ store'[l] # store[l]
                 => store[l].owner \in {NoOwner, cur}
  <2> SUFFICES ASSUME NEW l \in Locations, pc \in {"remove", "release"},
                      pc' = "obsolete", store'[l] # store[l]
               PROVE  store[l].owner \in {NoOwner, cur}
    OBVIOUS
  <2> DEFINE k == Loc(rendered.entry)
  <2>1. RemoveObject \/ ReleaseObject
    <3>1. ~UNCHANGED pc
      OBVIOUS
    <3>2. /\ ~(UserStep /\ UNCHANGED <<cached, faults, locals>>)
          /\ ~UNCHANGED vars
          /\ \A r \in Replicas : ~CacheSync(r) /\ ~Start(r)
          /\ ~Crash
      BY <1>1, <3>1 DEF locals, vars, CacheSync, Start, Crash, EndPass
    <3>3. PassStep
      BY <1>1, <3>2 DEF Next
    <3> QED
      BY <3>3 DEF PassStep, ListClusters, EnsureFinalizer, FetchSources, NextTarget,
                  SkipDeletingCluster, ResolveNamespaces, ClusterUnavailable,
                  ObsoleteUnreachable, EndCluster, EndTarget, RenderFails,
                  RenderedBefore, Decline, Accept, TrackInStatus, CreateOrUpdate,
                  HandleDelete, PlanDeletion, Forget, Await, Decide, EndDeletion,
                  UpdateStatus
  <2>2. store \in [Locations -> Objects] /\ cur \in Replicas
    BY <1>1 DEF TypeOK, PlatformTypeOK, PassTypeOK
  <2>3. l = k
    BY <2>1, <2>2 DEF RemoveObject, ReleaseObject
  <2>4. \/ store[k].owner = NoOwner
        \/ store[k].owner.kind = cur.kind /\ store[k].owner.name = cur.name
    BY <1>1 DEF OwnershipInv, ObsoleteManaged, IsManaged
  <2>5. store[k].owner \in Replicas \cup {NoOwner}
    BY <2>2, <2>3 DEF Objects
  <2> QED BY <2>2, <2>3, <2>4, <2>5, UniqueNames DEF UniqueNames
<1> QED
  BY <1>1, OwnershipInit, TypeCorrect, OwnershipStep, PTL DEF Spec, DeletesOnlyOwn

------------------------------------------------------------------------------
(* Tracking *)

\* A pass iterates over what it listed and what the spec selects.
LEMMA LoopPositionStep ==
  ASSUME TypeOK, LoopPosition, [Next]_vars
  PROVE  LoopPosition'
<1> DEFINE Looping == {"target", "cluster", "space", "track", "write"}
<1>1. ASSUME pc' \notin Looping PROVE LoopPosition'
  BY <1>1 DEF LoopPosition
<1>2. ASSUME UNCHANGED <<pc, clusterList, rep, targets, targetDef, matchedClusters,
                         clusterRef, targetNamespaces, rendered, sources,
                         conflictDetection>>
      PROVE  LoopPosition'
  BY <1>2 DEF LoopPosition, InSpec, OnListed, Current, Rendering, KeyOf, EntryOf,
              RawOf, Possible, Handled
<1>3. CASE FetchSources
  <2>1. CASE pc' = "target"
    <3>1. targets' = rep.spec.targets /\ rep' = rep
      BY <1>3, <2>1 DEF FetchSources, object
    <3> QED BY <2>1, <3>1 DEF LoopPosition, InSpec
  <2> QED BY <1>1, <1>3, <2>1 DEF FetchSources
<1>4. CASE NextTarget
  <2>1. CASE targets # <<>>
    <3>1. /\ pc = "target" /\ pc' = "cluster" /\ UNCHANGED <<rep, clusterList>>
          /\ targets' = Tail(targets) /\ targetDef' = Head(targets)
          /\ matchedClusters' = Matches(Head(targets), clusterList)
      BY <1>4, <2>1 DEF NextTarget, object, listed
    <3>2. \A i \in DOMAIN targets : InSpec(targets[i])
      BY <3>1 DEF LoopPosition
    <3>3. /\ 1 \in DOMAIN targets /\ Head(targets) = targets[1]
          /\ \A i \in DOMAIN Tail(targets) :
               i + 1 \in DOMAIN targets /\ Tail(targets)[i] = targets[i + 1]
      BY <2>1 DEF TypeOK, PassTypeOK
    <3>4. InSpec(targetDef)' /\ \A i \in DOMAIN targets' : InSpec(targets[i])'
      BY <3>1, <3>2, <3>3 DEF InSpec
    <3>5. \A c \in matchedClusters' : OnListed(c)'
      BY <3>1, PlacesAssumption DEF OnListed, Matches
    <3> QED BY <3>1, <3>4, <3>5 DEF LoopPosition
  <2>2. CASE targets = <<>>
    BY <1>1, <1>4, <2>2 DEF NextTarget
  <2> QED BY <2>1, <2>2
<1>5. ASSUME NEW c \in Refs, SkipDeletingCluster(c) \/ ClusterUnavailable(c)
      PROVE  LoopPosition'
  BY <1>5 DEF SkipDeletingCluster, ClusterUnavailable, LoopPosition, InSpec, OnListed,
              object, listed
<1>6. ASSUME NEW c \in Refs, ResolveNamespaces(c) PROVE LoopPosition'
  <2>1. /\ pc = "cluster" /\ pc' = "space"
        /\ UNCHANGED <<rep, clusterList, targets, targetDef, matchedClusters>>
        /\ clusterRef' = c /\ c \in matchedClusters
        /\ targetNamespaces' = SelectedNamespaces(targetDef, c)
    BY <1>6 DEF ResolveNamespaces, object, listed
  <2>2. OnListed(c)
    BY <2>1 DEF LoopPosition
  <2>3. targetDef.by \in {"none", "identities", "labels", "invalid"}
    BY DEF TypeOK, PassTypeOK, Targets
  <2>4. \A n \in SelectedNamespaces(targetDef, c) : Possible(targetDef, c, n)
    BY <2>2, <2>3 DEF SelectedNamespaces, SelectorMatches, Possible, OnListed
  <2> QED BY <2>1, <2>2, <2>4 DEF LoopPosition, InSpec, OnListed, Possible
<1>7. CASE EndCluster \/ EndTarget
  BY <1>7 DEF EndCluster, EndTarget, LoopPosition, InSpec, OnListed, object, listed
<1>8. ASSUME NEW n \in Spaces, RenderFails(n) \/ RenderedBefore(n) \/ Decline(n)
      PROVE  LoopPosition'
  BY <1>8 DEF RenderFails, RenderedBefore, Decline, LoopPosition, InSpec, OnListed,
              Possible, object, listed, outer
<1>9. ASSUME NEW n \in Spaces, Accept(n) PROVE LoopPosition'
  <2>1. /\ pc = "space" /\ pc' \in {"track", "write"} /\ n \in targetNamespaces
        /\ UNCHANGED <<rep, clusterList, sources, targets, targetDef,
                       matchedClusters, clusterRef, targetNamespaces>>
        /\ rendered' = Current(n)
        /\ [key |-> Current(n).key, raw |-> Current(n).raw] \in conflictDetection'
    BY <1>9 DEF Accept, object, listed, loop
  <2>2. Current(n)' = Current(n)
    BY <2>1 DEF Current, Rendering, KeyOf, EntryOf, RawOf
  <2>3. Current(n).space = n
    BY DEF Current, Rendering
  <2>4. Handled(rendered)'
    BY <2>1 DEF Handled
  <2>5. rendered' = Current(rendered.space)'
    BY <2>1, <2>2, <2>3
  <2>6. Possible(targetDef, clusterRef, rendered.space)'
    BY <2>1, <2>3 DEF LoopPosition, Possible
  <2> QED BY <2>1, <2>4, <2>5, <2>6 DEF LoopPosition, InSpec, OnListed, Possible
<1>10. CASE TrackInStatus
  <2>1. /\ pc = "track"
        /\ UNCHANGED <<clusterList, sources, targets, targetDef, matchedClusters,
                       clusterRef, conflictDetection>>
    BY <1>10 DEF TrackInStatus, listed, outer
  <2>2. rep'.spec = rep.spec
    <3> DEFINE list == rep.status \cup {rendered.entry}
    <3>1. rep' \in {[replica[cur] EXCEPT !.status = list, !.spec = rep.spec],
                   [rep EXCEPT !.status = list]}
      BY <1>10, Zenon DEF TrackInStatus
    <3>2. replica[cur] \in ReplicaObjects /\ rep \in ReplicaObjects
      BY <2>1 DEF TypeOK, PlatformTypeOK, PassTypeOK
    <3>3. /\ [replica[cur] EXCEPT !.status = list, !.spec = rep.spec].spec = rep.spec
          /\ [rep EXCEPT !.status = list].spec = rep.spec
      BY <3>2 DEF ReplicaObjects
    <3> QED BY <3>1, <3>3
  <2>3. CASE GiveUpTarget
    BY <2>1, <2>2, <2>3 DEF GiveUpTarget, LoopPosition, InSpec, OnListed, Possible
  <2>4. CASE ~GiveUpTarget
    <3>1. pc' = "write" /\ rendered' = rendered /\ targetNamespaces' = targetNamespaces
      BY <1>10, <2>4 DEF TrackInStatus
    <3> QED
      BY <2>1, <2>2, <3>1 DEF LoopPosition, InSpec, OnListed, Current, Rendering,
         KeyOf, EntryOf, RawOf, Possible, Handled
  <2> QED BY <2>3, <2>4
<1>11. CASE CreateOrUpdate
  <2>1. /\ pc = "write" /\ pc' = "space" /\ targetNamespaces' \subseteq targetNamespaces
        /\ UNCHANGED <<rep, clusterList, sources, targets, targetDef, matchedClusters,
                       clusterRef>>
    BY <1>11 DEF CreateOrUpdate, GiveUpTarget, object, listed, outer
  <2> QED BY <2>1 DEF LoopPosition, InSpec, OnListed, Possible
<1>12. ASSUME \/ \E r \in Replicas : Start(r)
              \/ ListClusters \/ EnsureFinalizer \/ HandleDelete \/ PlanDeletion
              \/ \E c \in Refs : ObsoleteUnreachable(c)
              \/ \E e \in Entries : Forget(e) \/ Await(e) \/ Decide(e)
              \/ RemoveObject \/ ReleaseObject \/ EndDeletion \/ UpdateStatus \/ Crash
       PROVE  LoopPosition'
  <2>1. pc' \notin Looping
    BY <1>12 DEF Start, ListClusters, EnsureFinalizer, HandleDelete, PlanDeletion,
       ObsoleteUnreachable, Forget, Await, Decide, RemoveObject, ReleaseObject,
       EndDeletion, UpdateStatus, Crash, EndPass
  <2> QED BY <1>1, <2>1
<1>13. ASSUME NEW r \in Replicas, CacheSync(r) PROVE LoopPosition'
  BY <1>2, <1>13 DEF CacheSync, locals, listed, object, loop, results
<1>14. CASE UserStep /\ UNCHANGED <<cached, faults, locals>>
  BY <1>2, <1>14 DEF locals, listed, object, loop, results
<1>15. CASE UNCHANGED vars
  BY <1>2, <1>15 DEF vars, locals, listed, object, loop, results
<1> QED
  <2>1. CASE PassStep
    BY <1>3, <1>4, <1>5, <1>6, <1>7, <1>8, <1>9, <1>10, <1>11, <1>12, <2>1 DEF PassStep
  <2> QED BY <1>12, <1>13, <1>14, <1>15, <2>1 DEF Next

\* Users cannot take a (Cluster)Replica away that is held by the finalizer, nor
\* write its status, which is new only with a new (Cluster)Replica.
LEMMA UserHeld ==
  ASSUME TypeOK, UserStep, NEW r \in Replicas
  PROVE  /\ Held(r) => Held(r)' /\ replica'[r].status = replica[r].status
         /\ replica'[r].status # {} => Held(r) = Held(r)' /\ replica'[r].status = replica[r].status
<1> DEFINE Goal ==
      /\ Held(r) => Held(r)' /\ replica'[r].status = replica[r].status
      /\ replica'[r].status # {} => Held(r) = Held(r)' /\ replica'[r].status = replica[r].status
<1>1. replica \in [Replicas -> ReplicaObjects] /\ replica[r] \in ReplicaObjects
  BY DEF TypeOK, PlatformTypeOK
<1>2. ASSUME replica'[r] = replica[r] PROVE Goal
  BY <1>2 DEF Held
<1>3. NoReplica.status = {}
  BY DEF NoReplica
<1>4. ASSUME NEW q \in Replicas, NEW s \in Specs, CreateReplica(q, s) PROVE Goal
  <2>1. NewReplica(s).status = {}
    BY NothingTypes, <1>3 DEF NewReplica, ReplicaObjects
  <2>2. CASE q = r
    BY <1>1, <1>4, <2>1, <2>2 DEF CreateReplica, Held
  <2>3. CASE q # r
    BY <1>1, <1>2, <1>4, <2>3 DEF CreateReplica
  <2> QED BY <2>2, <2>3
<1>5. ASSUME NEW q \in Replicas, NEW s \in Specs,
             NEW op \in {"none", "ignore", "reconcile"}, EditReplica(q, s, op)
      PROVE  Goal
  <2>1. CASE q = r
    <3>1. replica'[r] = [[replica[r] EXCEPT !.spec = s] EXCEPT !.op = op]
      BY <1>1, <1>5, <2>1 DEF EditReplica
    <3>2. /\ replica'[r].status = replica[r].status
          /\ replica'[r].phase = replica[r].phase
          /\ replica'[r].finalizer = replica[r].finalizer
      BY <1>1, <3>1 DEF ReplicaObjects
    <3> QED BY <3>2 DEF Held
  <2>2. CASE q # r
    BY <1>1, <1>2, <1>5, <2>2 DEF EditReplica
  <2> QED BY <2>1, <2>2
<1>6. ASSUME NEW q \in Replicas, DeleteReplica(q) PROVE Goal
  <2>1. CASE q = r /\ replica[r].finalizer
    <3>1. replica'[r] = [replica[r] EXCEPT !.phase = "deleting"] /\ replica[r].phase = "live"
      BY <1>1, <1>6, <2>1 DEF DeleteReplica
    <3>2. /\ replica'[r].status = replica[r].status
          /\ replica'[r].phase = "deleting"
          /\ replica'[r].finalizer = replica[r].finalizer
      BY <1>1, <3>1 DEF ReplicaObjects
    <3> QED BY <3>1, <3>2 DEF Held
  <2>2. CASE q = r /\ ~replica[r].finalizer
    <3>1. replica'[r] = NoReplica
      BY <1>1, <1>6, <2>2 DEF DeleteReplica
    <3> QED BY <1>3, <2>2, <3>1 DEF Held
  <2>3. CASE q # r
    BY <1>1, <1>2, <1>6, <2>3 DEF DeleteReplica
  <2> QED BY <2>1, <2>2, <2>3
<1>7. ASSUME replica' = replica PROVE Goal
  BY <1>2, <1>7
<1> QED
  BY <1>4, <1>5, <1>6, <1>7
     DEF UserStep, EditSource, EditCluster, ClusterGone, EditNamespace,
         NamespaceGone, UserCreates, UserDeletes, UserKeeps, Vanish

\* A cluster takes its objects with it when it goes.
LEMMA UserGone ==
  ASSUME TypeOK, AbsentUnowned, GoneUnowned, UserStep
  PROVE  GoneUnowned'
<1> SUFFICES ASSUME NEW l \in Locations, l[1] \in Clusters,
                    clusters'[l[1]].state = "absent"
             PROVE  store'[l].owner = NoOwner
  BY DEF GoneUnowned
<1>1. CASE clusters[l[1]].state = "absent"
  BY <1>1, UserOwners DEF GoneUnowned
<1>2. CASE clusters[l[1]].state # "absent"
  <2>1. clusters' # clusters
    BY <1>2
  <2>2. ASSUME NEW c \in Clusters, NEW x \in Places({"live", "deleting"}),
               EditCluster(c, x)
        PROVE  FALSE
    BY <1>2, <2>2 DEF EditCluster, Places, TypeOK, PlatformTypeOK
  <2>3. ASSUME NEW c \in Clusters, ClusterGone(c) PROVE store'[l].owner = NoOwner
    <3>1. l[1] = c
      BY <1>2, <2>3 DEF ClusterGone, TypeOK, PlatformTypeOK
    <3> QED BY <2>3, <3>1 DEF ClusterGone, NoObject
  <2> QED
    BY <2>1, <2>2, <2>3
       DEF UserStep, CreateReplica, EditReplica, DeleteReplica, EditSource,
           EditNamespace, NamespaceGone, UserCreates, UserDeletes, UserKeeps, Vanish
<1> QED BY <1>1, <1>2

\* Copies stay tracked when owners lose objects only and status lists lose
\* nothing.
LEMMA TrackedKept ==
  ASSUME TypeOK, Tracked,
         \A l \in Locations : store'[l].owner \in {store[l].owner, NoOwner},
         \A r \in Replicas :
           Held(r) => Held(r)' /\ replica[r].status \subseteq replica'[r].status
  PROVE  Tracked'
<1> SUFFICES ASSUME NEW l \in Locations, store'[l].owner # NoOwner
             PROVE  /\ replica'[store'[l].owner].phase # "absent"
                    /\ replica'[store'[l].owner].finalizer
                    /\ \E e \in replica'[store'[l].owner].status : Loc(e) = l
  BY DEF Tracked
<1>1. store \in [Locations -> Objects]
  BY DEF TypeOK, PlatformTypeOK
<1>2. PICK r \in Replicas : store'[l].owner = r /\ store[l].owner = r
  BY <1>1 DEF Objects
<1>3. Held(r) /\ \E e \in replica[r].status : Loc(e) = l
  BY <1>2, ReplicasAssumption DEF Tracked, Held
<1>4. Held(r)' /\ \E e \in replica'[r].status : Loc(e) = l
  BY <1>3
<1> QED BY <1>2, <1>4 DEF Held

\* So users cannot break what the pass relies on.
LEMMA UserTracking ==
  ASSUME TypeOK, AbsentUnowned, TrackingInv, UserStep, UNCHANGED <<cached, faults, locals>>
  PROVE  TrackingInv'
<1> USE DEF TrackingInv
<1>1. UNCHANGED <<pc, cur, rep, clusterList, targets, targetDef, matchedClusters,
                  clusterRef, targetNamespaces, rendered, sources,
                  conflictDetection, managedResources>>
  BY DEF locals, listed, object, loop, results
<1>2. pc # "idle" => cur \in Replicas
  BY DEF TypeOK, PassTypeOK
<1>3. \A l \in Locations : store'[l].owner \in {store[l].owner, NoOwner}
  BY UserOwners
<1>4. store \in [Locations -> Objects]
  BY DEF TypeOK, PlatformTypeOK
<1>5. Tracked'
  <2>1. \A r \in Replicas :
          Held(r) => Held(r)' /\ replica[r].status \subseteq replica'[r].status
    BY UserHeld
  <2> QED BY <1>3, <2>1, TrackedKept
<1>6. StatusHeld'
  BY UserHeld DEF StatusHeld
<1>7. GoneUnowned'
  BY UserGone
<1>8. UnlistedUnowned'
  BY <1>1, <1>3, ReplicasAssumption DEF UnlistedUnowned, TypeOK, PassTypeOK
<1>9. pc # "idle" => (Held(cur) => Held(cur)' /\ replica'[cur].status = replica[cur].status)
  BY <1>1, <1>2, UserHeld DEF Held
<1>10. pc # "idle" => replica'[cur].status \subseteq replica[cur].status
  BY <1>2, UserHeld
<1>11. PassHeld'
  BY <1>1, <1>9 DEF PassHeld, Quiet, Held
<1>12. LetGo'
  <2>1. pc # "idle" =>
          \A e \in replica'[cur].status \ rep.status : store'[Loc(e)].owner # cur
    <3>1. ASSUME pc # "idle", NEW e \in replica'[cur].status \ rep.status
          PROVE  store'[Loc(e)].owner # cur
      <4>1. e \in Entries /\ e \in replica[cur].status
        BY <1>2, <1>10, <3>1 DEF TypeOK, PlatformTypeOK, ReplicaObjects
      <4> QED BY <1>2, <1>3, <3>1, <4>1, LocType, ReplicasAssumption DEF LetGo
    <3> QED BY <3>1
  <2> QED BY <1>1, <1>10, <2>1 DEF LetGo
<1>13. LoopPosition'
  BY LoopPositionStep DEF Next
<1>14. InMemoryOnly'
  <2>1. pc \in {"sources", "target", "cluster", "space", "track", "write"}
        => replica'[cur].status = replica[cur].status
    BY <1>9 DEF PassHeld
  <2>2. pc \in {"list", "finalize"} =>
          rep.status = {} \/ replica'[cur].status = replica[cur].status
    BY <1>9 DEF PassHeld, Quiet
  <2>3. pc \in {"target", "cluster", "space", "track", "write"}
        => UNCHANGED <<pc, rep, replica[cur].status, conflictDetection>>
    BY <1>1, <2>1
  <2> QED BY <1>1, <2>1, <2>2, <2>3 DEF InMemoryOnly
<1>15. WriteTracked'
  BY <1>1, <1>9 DEF WriteTracked, PassHeld
<1> QED BY <1>5, <1>6, <1>7, <1>8, <1>11, <1>12, <1>13, <1>14, <1>15

\* Nor do steps that only read, and move on in the loops.
LEMMA ReadingStep ==
  ASSUME TypeOK, TrackingInv, LoopPosition', WriteTracked',
         UNCHANGED <<replica, clusters, store, cur, rep, clusterList, managedResources>>,
         conflictDetection \subseteq conflictDetection',
         \/ pc = "sources" /\ pc' \in {"target", "status"}
         \/ pc = "target" /\ pc' \in {"cluster", "plan"}
         \/ pc = "cluster" /\ pc' \in {"cluster", "space", "target"}
         \/ pc = "space" /\ pc' \in {"space", "cluster", "track", "write"}
         \/ pc = "obsolete" /\ pc' \in {"obsolete", "remove", "release", "status"}
  PROVE  TrackingInv'
<1> USE DEF TrackingInv
<1>1. Tracked' /\ StatusHeld' /\ GoneUnowned'
  BY DEF Tracked, StatusHeld, GoneUnowned, Held
<1>2. UnlistedUnowned'
  BY DEF UnlistedUnowned
<1>3. PassHeld'
  BY DEF PassHeld, Held
<1>4. LetGo'
  BY DEF LetGo
<1>5. InMemoryOnly'
  <2>1. CASE pc = "sources"
    BY <2>1 DEF InMemoryOnly
  <2>2. CASE pc' \in {"target", "cluster", "space", "track", "write"} /\ pc # "sources"
    BY <2>2 DEF InMemoryOnly
  <2>3. CASE pc' \in {"plan", "status", "obsolete", "remove", "release"}
    BY <2>3 DEF InMemoryOnly
  <2> QED BY <2>1, <2>2, <2>3
<1> QED BY <1>1, <1>2, <1>3, <1>4, <1>5

\* Accept writes at once only what the server has in the status already: an
\* entry that is only in memory would have been handled before.
LEMMA AcceptTracking ==
  ASSUME OneKeyPerEntry, TypeOK, TrackingInv, LoopPosition', NEW n \in Spaces, Accept(n)
  PROVE  TrackingInv'
<1>1. /\ pc = "space" /\ n \in targetNamespaces /\ ~Handled(Current(n))
      /\ pc' = IF Current(n).entry \in rep.status THEN "write" ELSE "track"
      /\ rendered' = Current(n)
      /\ UNCHANGED <<replica, clusters, store, cur, rep, clusterList, managedResources>>
      /\ conflictDetection \subseteq conflictDetection'
  BY DEF Accept, listed, object
<1>2. ASSUME Current(n).entry \in rep.status, Current(n).entry \notin replica[cur].status
      PROVE  FALSE
  <2>1. PICK i \in DOMAIN rep.spec.targets, c \in Refs, m \in Spaces :
          /\ Possible(rep.spec.targets[i], c, m)
          /\ Current(n).entry = EntryOf(rep.spec, rep.spec.targets[i], c, m)
          /\ \E d \in conflictDetection : d.key = KeyOf(rep.spec, c, m)
    BY <1>1, <1>2 DEF TrackingInv, InMemoryOnly
  <2>2. PICK j \in DOMAIN rep.spec.targets : rep.spec.targets[j] = targetDef
    BY <1>1 DEF TrackingInv, LoopPosition, InSpec
  <2>3. Possible(rep.spec.targets[j], clusterRef, n)
    BY <1>1, <2>2 DEF TrackingInv, LoopPosition
  <2>4. Current(n).entry = EntryOf(rep.spec, rep.spec.targets[j], clusterRef, n)
    BY <2>2 DEF Current, Rendering
  <2>5. c = clusterRef
    <3>1. rep.spec \in Specs /\ clusterRef \in Refs
      BY DEF TypeOK, PassTypeOK, ReplicaObjects
    <3> QED BY <2>1, <2>3, <2>4, <3>1, OneKeyPerEntry DEF OneKeyPerEntry
  <2>6. ASSUME NEW t, NEW d, NEW k
        PROVE  /\ EntryOf(rep.spec, t, d, k).namespace = KeyOf(rep.spec, d, k).namespace
               /\ EntryOf(rep.spec, t, d, k).resource = KeyOf(rep.spec, d, k).resource
    BY DEF EntryOf, KeyOf
  <2>7. KeyOf(rep.spec, c, m) = KeyOf(rep.spec, clusterRef, n)
    <3>1. /\ KeyOf(rep.spec, c, m).namespace = KeyOf(rep.spec, clusterRef, n).namespace
          /\ KeyOf(rep.spec, c, m).resource = KeyOf(rep.spec, clusterRef, n).resource
      <4>1. EntryOf(rep.spec, rep.spec.targets[i], c, m) =
              EntryOf(rep.spec, rep.spec.targets[j], clusterRef, n)
        BY <2>1, <2>4
      <4>2. /\ EntryOf(rep.spec, rep.spec.targets[i], c, m).namespace =
                 KeyOf(rep.spec, c, m).namespace
            /\ EntryOf(rep.spec, rep.spec.targets[i], c, m).resource =
                 KeyOf(rep.spec, c, m).resource
        BY <2>6
      <4>3. /\ EntryOf(rep.spec, rep.spec.targets[j], clusterRef, n).namespace =
                 KeyOf(rep.spec, clusterRef, n).namespace
            /\ EntryOf(rep.spec, rep.spec.targets[j], clusterRef, n).resource =
                 KeyOf(rep.spec, clusterRef, n).resource
        BY <2>6
      <4> QED BY <4>1, <4>2, <4>3
    <3>2. \A d, k : KeyOf(rep.spec, d, k) =
                     [cluster |-> d, namespace |-> KeyOf(rep.spec, d, k).namespace,
                      resource |-> KeyOf(rep.spec, d, k).resource]
      BY DEF KeyOf
    <3> QED BY <2>5, <3>1, <3>2
  <2>8. Current(n).key = KeyOf(rep.spec, clusterRef, n)
    BY DEF Current, Rendering
  <2> QED BY <1>1, <2>1, <2>7, <2>8 DEF Handled
<1>3. WriteTracked'
  BY <1>1, <1>2 DEF WriteTracked
<1> QED BY <1>1, <1>3, ReadingStep

\* The other steps that only read.
LEMMA ReadingTracking ==
  ASSUME TypeOK, TrackingInv, LoopPosition',
         \/ FetchSources \/ NextTarget \/ EndCluster \/ EndTarget
         \/ \E c \in Refs : \/ SkipDeletingCluster(c) \/ ResolveNamespaces(c)
                            \/ ClusterUnavailable(c) \/ ObsoleteUnreachable(c)
         \/ \E n \in Spaces : RenderFails(n) \/ RenderedBefore(n) \/ Decline(n)
         \/ \E e \in Entries : Await(e) \/ Decide(e)
         \/ EndDeletion
  PROVE  TrackingInv'
<1> DEFINE Reading ==
      /\ UNCHANGED <<replica, clusters, store, cur, rep, clusterList, managedResources>>
      /\ conflictDetection \subseteq conflictDetection'
      /\ \/ pc = "sources" /\ pc' \in {"target", "status"}
         \/ pc = "target" /\ pc' \in {"cluster", "plan"}
         \/ pc = "cluster" /\ pc' \in {"cluster", "space", "target"}
         \/ pc = "space" /\ pc' \in {"space", "cluster"}
         \/ pc = "obsolete" /\ pc' \in {"obsolete", "remove", "release", "status"}
<1> USE DEF api, platform, listed, object, outer, loop, results
<1>1. ASSUME FetchSources \/ NextTarget \/ EndCluster \/ EndTarget \/ EndDeletion
      PROVE  Reading
  BY <1>1 DEF FetchSources, NextTarget, EndCluster, EndTarget, EndDeletion
<1>2. ASSUME NEW c \in Refs,
             \/ SkipDeletingCluster(c) \/ ResolveNamespaces(c)
             \/ ClusterUnavailable(c) \/ ObsoleteUnreachable(c)
      PROVE  Reading
  BY <1>2 DEF SkipDeletingCluster, ResolveNamespaces, ClusterUnavailable,
              ObsoleteUnreachable
<1>3. ASSUME NEW n \in Spaces, RenderFails(n) \/ RenderedBefore(n) \/ Decline(n)
      PROVE  Reading
  BY <1>3 DEF RenderFails, RenderedBefore, Decline
<1>4. ASSUME NEW e \in Entries, Await(e) \/ Decide(e) PROVE Reading
  BY <1>4 DEF Await, Decide
<1>5. Reading
  BY <1>1, <1>2, <1>3, <1>4
<1>6. WriteTracked'
  BY <1>5 DEF WriteTracked
<1> QED BY <1>5, <1>6, ReadingStep

\* With a current cache a pass starts from what the server holds.
LEMMA StartTracking ==
  ASSUME FreshReads, TypeOK, TrackingInv, NEW r \in Replicas, Start(r)
  PROVE  TrackingInv'
<1> USE DEF TrackingInv
<1>1. /\ pc = "idle" /\ pc' = "list" /\ cur' = r
      /\ UNCHANGED <<clusters, store, managedResources>>
      /\ replica[r].phase # "absent"
  BY DEF Start, View, world, results
<1>2. /\ \A q \in Replicas : /\ replica'[q].status = replica[q].status
                             /\ replica'[q].phase = replica[q].phase
                             /\ replica'[q].finalizer = replica[q].finalizer
      /\ rep'.status = replica'[r].status
      /\ rep'.finalizer = replica'[r].finalizer
  <2>1. replica \in [Replicas -> ReplicaObjects]
    BY DEF TypeOK, PlatformTypeOK
  <2>2. CASE View(r).op = "reconcile"
    <3> DEFINE o == [replica[r] EXCEPT !.op = "none"]
    <3>1. replica' = [replica EXCEPT ![r] = o] /\ rep' = Refreshed(replica[r], replica'[r])
      BY <2>2 DEF Start, View
    <3>2. o.status = replica[r].status /\ o.phase = replica[r].phase
          /\ o.finalizer = replica[r].finalizer /\ o \in ReplicaObjects
      <4>1. o \in ReplicaObjects
        BY <2>1, ReplicaUpdates
      <4>2. o.status = replica[r].status /\ o.phase = replica[r].phase
            /\ o.finalizer = replica[r].finalizer
        BY <2>1 DEF ReplicaObjects
      <4> QED BY <4>1, <4>2
    <3> HIDE DEF o
    <3>3. replica'[r] = o
      BY <2>1, <3>1
    <3>4. rep' = [o EXCEPT !.status = IF o.status = {} THEN replica[r].status ELSE o.status]
      BY <3>1, <3>3 DEF Refreshed
    <3>5. rep'.status = o.status /\ rep'.finalizer = o.finalizer
      BY <3>2, <3>4 DEF ReplicaObjects
    <3> QED BY <2>1, <3>1, <3>2, <3>3, <3>5
  <2>3. CASE View(r).op # "reconcile"
    BY <2>3 DEF Start, View
  <2> QED BY <2>2, <2>3
<1>3. Tracked'
  BY <1>1, <1>2, TrackedKept DEF Held
<1>4. StatusHeld'
  BY <1>2 DEF StatusHeld, Held
<1>5. GoneUnowned' /\ UnlistedUnowned'
  BY <1>1 DEF GoneUnowned, UnlistedUnowned
<1>6. PassHeld'
  <2>1. rep'.finalizer => Held(cur)'
    BY <1>1, <1>2 DEF Held
  <2>2. rep'.status # {} => rep'.finalizer
    BY <1>2, <1>4 DEF StatusHeld, Held
  <2>3. managedResources' = {}
    BY <1>1 DEF PassHeld
  <2> QED BY <1>1, <2>1, <2>2, <2>3 DEF PassHeld, Quiet
<1>7. LetGo' /\ InMemoryOnly'
  BY <1>1, <1>2 DEF LetGo, InMemoryOnly
<1>8. LoopPosition' /\ WriteTracked'
  BY <1>1 DEF LoopPosition, WriteTracked
<1> QED BY <1>3, <1>4, <1>5, <1>6, <1>7, <1>8

\* The Clusters that the list lacks have no copies.
LEMMA ListTracking ==
  ASSUME TypeOK, TrackingInv, ListClusters
  PROVE  TrackingInv'
<1> USE DEF TrackingInv
<1>1. /\ pc = "list" /\ pc' \in {"finalize", "delete", "status"}
      /\ pc' # "status" => clusterList' = clusters
      /\ UNCHANGED <<replica, clusters, store, cur, rep, managedResources>>
  BY DEF ListClusters, api, platform, object, results
<1>2. Tracked' /\ StatusHeld' /\ GoneUnowned'
  BY <1>1 DEF Tracked, StatusHeld, GoneUnowned, Held
<1>3. UnlistedUnowned'
  <2>1. cur # NoOwner
    BY <1>1 DEF TypeOK, PassTypeOK
  <2> QED BY <1>1, <2>1 DEF UnlistedUnowned, GoneUnowned
<1>4. PassHeld'
  BY <1>1 DEF PassHeld, Quiet, Held
<1>5. LetGo' /\ InMemoryOnly'
  BY <1>1 DEF LetGo, InMemoryOnly
<1>6. LoopPosition' /\ WriteTracked'
  BY <1>1 DEF LoopPosition, WriteTracked
<1> QED BY <1>2, <1>3, <1>4, <1>5, <1>6

\* From here on the finalizer holds the (Cluster)Replica.
LEMMA FinalizerTracking ==
  ASSUME TypeOK, TrackingInv, EnsureFinalizer
  PROVE  TrackingInv'
<1> USE DEF TrackingInv
<1> DEFINE held == [replica EXCEPT ![cur].finalizer = TRUE]
           o == [replica[cur] EXCEPT !.finalizer = TRUE]
<1>1. /\ pc = "finalize"
      /\ UNCHANGED <<clusters, store, cur, clusterList, managedResources>>
  BY DEF EnsureFinalizer, world, listed, results
<1>2. \/ pc' = "sources" /\ rep' = rep /\ replica' = replica /\ rep.finalizer
      \/ /\ pc' = "sources" /\ replica' = held /\ rep' = Refreshed(rep, held[cur])
         /\ replica[cur].phase # "absent"
      \/ pc' = "status" /\ replica' \in {replica, held} /\ rep' = rep /\ ~rep.finalizer
  BY DEF EnsureFinalizer, object
<1>3. replica \in [Replicas -> ReplicaObjects] /\ cur \in Replicas /\ rep \in ReplicaObjects
  BY <1>1 DEF TypeOK, PlatformTypeOK, PassTypeOK
<1>4. held = [replica EXCEPT ![cur] = o]
  BY <1>3
<1>5. /\ o.status = replica[cur].status /\ o.phase = replica[cur].phase
      /\ o.finalizer /\ o \in ReplicaObjects
  <2>1. o \in ReplicaObjects
    BY <1>3, ReplicaUpdates
  <2>2. o.status = replica[cur].status /\ o.phase = replica[cur].phase /\ o.finalizer
    BY <1>3 DEF ReplicaObjects
  <2> QED BY <2>1, <2>2
<1> HIDE DEF o
<1>6. held[cur] = o
  BY <1>3, <1>4
<1>7. \A q \in Replicas : /\ held[q].status = replica[q].status
                          /\ held[q].phase = replica[q].phase
                          /\ replica[q].finalizer => held[q].finalizer
  BY <1>3, <1>4, <1>5
<1> HIDE DEF held
<1>8. \A q \in Replicas : /\ replica'[q].status = replica[q].status
                          /\ Held(q) => Held(q)'
  <2> TAKE q \in Replicas
  <2>1. CASE replica' = replica
    BY <2>1 DEF Held
  <2>2. CASE replica' = held
    <3>1. replica'[q].status = replica[q].status /\ replica'[q].phase = replica[q].phase
      BY <1>7, <2>2
    <3>2. replica[q].finalizer => replica'[q].finalizer
      BY <1>7, <2>2, Zenon
    <3> QED BY <3>1, <3>2 DEF Held
  <2> QED BY <1>2, <2>1, <2>2
<1>9. rep.status = replica[cur].status
  BY <1>1 DEF LetGo, InMemoryOnly
<1>10. rep'.status = replica'[cur].status
  <2>1. Refreshed(rep, held[cur]).status = o.status
    <3>1. Refreshed(rep, o) = [o EXCEPT !.status = IF o.status = {} THEN rep.status ELSE o.status]
      BY DEF Refreshed
    <3> QED BY <1>5, <1>6, <1>9, <3>1 DEF ReplicaObjects
  <2> QED BY <1>2, <1>3, <1>5, <1>6, <1>7, <1>9, <2>1
<1>11. pc' = "sources" => rep'.finalizer /\ Held(cur)'
  <2>1. Refreshed(rep, o).finalizer
    <3>1. Refreshed(rep, o) = [o EXCEPT !.status = IF o.status = {} THEN rep.status ELSE o.status]
      BY DEF Refreshed
    <3> QED BY <1>5, <3>1 DEF ReplicaObjects
  <2>2. CASE rep' = rep /\ replica' = replica /\ rep.finalizer
    BY <1>1, <2>2 DEF PassHeld, Held
  <2>3. CASE replica' = held /\ rep' = Refreshed(rep, held[cur]) /\ replica[cur].phase # "absent"
    BY <1>1, <1>5, <1>6, <2>1, <2>3 DEF Held
  <2> QED BY <1>2, <2>2, <2>3
<1>12. Tracked'
  BY <1>1, <1>8, TrackedKept
<1>13. StatusHeld'
  BY <1>8 DEF StatusHeld
<1>14. GoneUnowned' /\ UnlistedUnowned'
  BY <1>1, <1>2 DEF GoneUnowned, UnlistedUnowned
<1>15. PassHeld'
  BY <1>1, <1>2, <1>11 DEF PassHeld, Quiet
<1>16. LetGo' /\ InMemoryOnly'
  BY <1>1, <1>2, <1>10 DEF LetGo, InMemoryOnly
<1>17. LoopPosition' /\ WriteTracked'
  BY <1>2 DEF LoopPosition, WriteTracked
<1> QED BY <1>12, <1>13, <1>14, <1>15, <1>16, <1>17

\* A new entry goes to the server before its object is written; if that fails it
\* stays in memory only.
LEMMA StatusTracking ==
  ASSUME TypeOK, TrackingInv, LoopPosition', TrackInStatus
  PROVE  TrackingInv'
<1> USE DEF TrackingInv
<1> DEFINE list == rep.status \cup {rendered.entry}
           patched == [replica EXCEPT ![cur].status = list]
           o == [replica[cur] EXCEPT !.status = list]
<1>1. /\ pc = "track"
      /\ UNCHANGED <<clusters, store, cur, clusterList, conflictDetection>>
  BY DEF TrackInStatus, world, listed
<1>2. \/ /\ pc' = "write" /\ rendered' = rendered /\ managedResources' = managedResources
         /\ replica' = patched
         /\ rep' = [replica[cur] EXCEPT !.status = list, !.spec = rep.spec]
      \/ /\ pc' = "space" /\ managedResources' = managedResources
         /\ replica' \in {replica, patched}
         /\ rep' = [rep EXCEPT !.status = list]
  <2>1. CASE GiveUpTarget
    BY <2>1 DEF TrackInStatus, GiveUpTarget
  <2>2. CASE ~GiveUpTarget
    BY <2>2 DEF TrackInStatus
  <2> QED BY <2>1, <2>2
<1>3. replica \in [Replicas -> ReplicaObjects] /\ cur \in Replicas /\ rep \in ReplicaObjects
      /\ replica[cur] \in ReplicaObjects
  BY <1>1 DEF TypeOK, PlatformTypeOK, PassTypeOK
<1>4. rep.finalizer /\ Held(cur)
  BY <1>1 DEF PassHeld
<1>5. patched = [replica EXCEPT ![cur] = o]
  BY <1>3
<1>6. o.status = list /\ o.phase = replica[cur].phase /\ o.finalizer = replica[cur].finalizer
  BY <1>3 DEF ReplicaObjects
<1>7. /\ rep'.status = list
      /\ rep'.spec = rep.spec
      /\ rep'.finalizer \in {rep.finalizer, replica[cur].finalizer}
  <2>1. CASE rep' = [replica[cur] EXCEPT !.status = list, !.spec = rep.spec]
    BY <1>3, <2>1 DEF ReplicaObjects
  <2>2. CASE rep' = [rep EXCEPT !.status = list]
    BY <1>3, <2>2 DEF ReplicaObjects
  <2> QED BY <1>2, <2>1, <2>2
<1> HIDE DEF o
<1>8. /\ patched[cur].status = list
      /\ \A q \in Replicas : /\ patched[q].phase = replica[q].phase
                             /\ patched[q].finalizer = replica[q].finalizer
                             /\ q # cur => patched[q].status = replica[q].status
  BY <1>3, <1>5, <1>6
<1> HIDE DEF patched
<1>9. replica[cur].status \subseteq rep.status
  BY <1>1 DEF LetGo
<1>10. replica' \in {replica, patched}
  BY <1>2
<1>11. \A q \in Replicas : Held(q) = Held(q)' /\ replica[q].status \subseteq replica'[q].status
  BY <1>8, <1>9, <1>10 DEF Held
<1>12. Tracked'
  BY <1>1, <1>11, TrackedKept
<1>13. StatusHeld'
  <2>1. \A q \in Replicas : q # cur => replica'[q].status = replica[q].status
    BY <1>8, <1>10
  <2> QED BY <1>3, <1>4, <1>11, <2>1 DEF StatusHeld
<1>14. GoneUnowned' /\ UnlistedUnowned'
  BY <1>1, <1>2 DEF GoneUnowned, UnlistedUnowned
<1>15. PassHeld'
  <2>1. rep'.finalizer
    BY <1>4, <1>7 DEF Held
  <2>2. Held(cur)'
    BY <1>1, <1>3, <1>4, <1>11 DEF Held
  <2>3. pc' \in {"write", "space"}
    BY <1>2
  <2> QED BY <2>1, <2>2, <2>3 DEF PassHeld
<1>16. replica'[cur].status \in {replica[cur].status, list}
  BY <1>8, <1>10
<1>17. LetGo'
  <2>1. replica'[cur].status \subseteq rep'.status
    BY <1>7, <1>9, <1>16
  <2> QED BY <1>1, <2>1 DEF LetGo
<1>18. InMemoryOnly'
  <2>1. pc' \in {"write", "space"}
    BY <1>2
  <2> SUFFICES ASSUME NEW e \in rep'.status \ replica'[cur].status
               PROVE  \E i \in DOMAIN rep.spec.targets, c \in Refs, n \in Spaces :
                        /\ Possible(rep.spec.targets[i], c, n)
                        /\ e = EntryOf(rep.spec, rep.spec.targets[i], c, n)
                        /\ \E d \in conflictDetection : d.key = KeyOf(rep.spec, c, n)
    BY <1>1, <1>7, <2>1 DEF InMemoryOnly
  <2>2. CASE e \in rep.status
    BY <1>1, <1>7, <1>16, <2>2 DEF InMemoryOnly
  <2>3. CASE e = rendered.entry
    <3>1. PICK i \in DOMAIN rep.spec.targets : rep.spec.targets[i] = targetDef
      BY <1>1 DEF LoopPosition, InSpec
    <3>2. clusterRef \in Refs /\ rendered.space \in Spaces
      BY DEF TypeOK, PassTypeOK, Renderings
    <3>3. /\ rendered = Current(rendered.space)
          /\ Possible(targetDef, clusterRef, rendered.space)
          /\ Handled(rendered)
      BY <1>1 DEF LoopPosition
    <3>4. /\ rendered.entry = EntryOf(rep.spec, targetDef, clusterRef, rendered.space)
          /\ rendered.key = KeyOf(rep.spec, clusterRef, rendered.space)
      BY <3>3 DEF Current, Rendering
    <3>5. \E d \in conflictDetection : d.key = KeyOf(rep.spec, clusterRef, rendered.space)
      BY <3>3, <3>4 DEF Handled
    <3> QED BY <2>3, <3>1, <3>2, <3>3, <3>4, <3>5
  <2> QED BY <1>7, <2>2, <2>3
<1>19. WriteTracked'
  BY <1>1, <1>2, <1>8 DEF WriteTracked
<1> QED BY <1>12, <1>13, <1>14, <1>15, <1>17, <1>18, <1>19

\* A written object is tracked already, on a cluster that was listed.
LEMMA WriteTracking ==
  ASSUME TypeOK, TrackingInv, LoopPosition', CreateOrUpdate
  PROVE  TrackingInv'
<1> USE DEF TrackingInv
<1> DEFINE e == rendered.entry
           k == Loc(e)
<1>1. /\ pc = "write" /\ pc' = "space"
      /\ UNCHANGED <<replica, clusters, cur, rep, clusterList, conflictDetection>>
  BY DEF CreateOrUpdate, GiveUpTarget, world, listed, object
<1>2. store \in [Locations -> Objects] /\ e \in Entries /\ k \in Locations
      /\ cur \in Replicas
  BY <1>1, LocType DEF TypeOK, PlatformTypeOK, PassTypeOK, Renderings
<1>3. /\ store' \in {store, [store EXCEPT ![k] = Written(store[k])]}
      /\ ~CanWrite(e) => store' = store
  <2>1. store' \in {store, [store EXCEPT ![k] = Written(store[k])]}
    BY Zenon DEF CreateOrUpdate
  <2>2. ~CanWrite(e) => store' = store
    BY DEF CreateOrUpdate
  <2> QED BY <2>1, <2>2, Zenon
<1>4. rep.finalizer /\ Held(cur) /\ e \in replica[cur].status
  BY <1>1 DEF PassHeld, WriteTracked
<1>5. Written(store[k]).owner = cur
  BY DEF Written
<1>6. \A l \in Locations : \/ store'[l].owner = store[l].owner
                           \/ l = k /\ store'[l].owner = cur
  BY <1>2, <1>3, <1>5
<1>7. Tracked'
  <2> SUFFICES ASSUME NEW l \in Locations, store'[l].owner # NoOwner
               PROVE  /\ replica[store'[l].owner].phase # "absent"
                      /\ replica[store'[l].owner].finalizer
                      /\ \E x \in replica[store'[l].owner].status : Loc(x) = l
    BY <1>1 DEF Tracked
  <2>1. CASE store'[l].owner = store[l].owner
    BY <2>1 DEF Tracked
  <2>2. CASE l = k /\ store'[l].owner = cur
    BY <1>4, <2>2 DEF Held
  <2> QED BY <1>6, <2>1, <2>2
<1>8. StatusHeld'
  BY <1>1 DEF StatusHeld, Held
<1>9. k[1] = e.cluster
  BY DEF Loc
<1>10. GoneUnowned'
  <2>1. CASE store' = store
    BY <1>1, <2>1 DEF GoneUnowned
  <2>2. CASE store' # store
    <3>1. e.cluster \in Clusters => clusters[e.cluster].state # "absent"
      BY <1>3, <2>2 DEF CanWrite, Reachable
    <3> QED BY <1>1, <1>6, <1>9, <3>1 DEF GoneUnowned
  <2> QED BY <2>1, <2>2
<1>11. UnlistedUnowned'
  <2>1. rendered = Current(rendered.space) /\ OnListed(clusterRef)
    BY <1>1 DEF LoopPosition
  <2>2. e = EntryOf(rep.spec, targetDef, clusterRef, rendered.space)
    BY <2>1 DEF Current, Rendering
  <2>3. e.cluster \in {Host, clusterRef}
    <3>1. EntryOf(rep.spec, targetDef, clusterRef, rendered.space).cluster
            \in {Host, clusterRef}
      BY DEF EntryOf, KeyOf
    <3> QED BY <2>2, <3>1
  <2>4. e.cluster \in Clusters => clusterList[e.cluster].state # "absent"
    BY <2>1, <2>3, PlacesAssumption DEF OnListed
  <2> QED BY <1>1, <1>6, <1>9, <2>4 DEF UnlistedUnowned
<1>12. PassHeld'
  BY <1>1, <1>4 DEF PassHeld, Held
<1>13. LetGo' /\ InMemoryOnly'
  BY <1>1 DEF LetGo, InMemoryOnly
<1>14. WriteTracked'
  BY <1>1 DEF WriteTracked
<1> QED BY <1>7, <1>8, <1>10, <1>11, <1>12, <1>13, <1>14

\* Entries may be dropped in memory once their objects are not ours.
LEMMA ForgettingStep ==
  ASSUME TypeOK, TrackingInv,
         UNCHANGED <<replica, clusters, cur>>,
         pc \in {"plan", "obsolete", "remove", "release"}, pc' = "obsolete",
         rep'.finalizer = rep.finalizer,
         \A l \in Locations : store'[l].owner \in {store[l].owner, NoOwner},
         \A e \in Entries : e \in rep.status \ rep'.status => store'[Loc(e)].owner # cur
  PROVE  TrackingInv'
<1> USE DEF TrackingInv
<1>1. cur \in Replicas /\ cur # NoOwner
  BY DEF TypeOK, PassTypeOK
<1>2. Tracked'
  BY TrackedKept DEF Held
<1>3. StatusHeld'
  BY DEF StatusHeld, Held
<1>4. GoneUnowned' /\ UnlistedUnowned'
  BY DEF GoneUnowned, UnlistedUnowned
<1>5. PassHeld'
  BY DEF PassHeld, Held
<1>6. LetGo'
  <2> SUFFICES ASSUME NEW e \in replica[cur].status \ rep'.status
               PROVE  store'[Loc(e)].owner # cur
    BY DEF LetGo
  <2>1. e \in Entries
    BY <1>1 DEF TypeOK, PlatformTypeOK, ReplicaObjects
  <2>2. CASE e \in rep.status
    BY <2>1, <2>2
  <2>3. CASE e \notin rep.status
    BY <1>1, <2>1, <2>3, LocType DEF LetGo
  <2> QED BY <2>2, <2>3
<1>7. LoopPosition' /\ InMemoryOnly' /\ WriteTracked'
  BY DEF LoopPosition, InMemoryOnly, WriteTracked
<1> QED BY <1>2, <1>3, <1>4, <1>5, <1>6, <1>7

\* And that is when the deletion of obsolete resources drops them.
LEMMA DeletionTracking ==
  ASSUME TypeOK, TrackingInv,
         \/ PlanDeletion \/ RemoveObject \/ ReleaseObject
         \/ \E e \in Entries : Forget(e)
  PROVE  TrackingInv'
<1> USE DEF TrackingInv, api, platform, world, listed, object, results
<1>1. rep \in ReplicaObjects /\ store \in [Locations -> Objects]
  BY DEF TypeOK, PlatformTypeOK, PassTypeOK
<1>2. ASSUME NEW S
      PROVE  /\ [rep EXCEPT !.status = rep.status \ S].status = rep.status \ S
             /\ [rep EXCEPT !.status = rep.status \ S].finalizer = rep.finalizer
  BY <1>1 DEF ReplicaObjects
<1>3. CASE PlanDeletion
  <2>1. /\ pc = "plan" /\ pc' = "obsolete" /\ UNCHANGED <<replica, clusters, cur, store>>
        /\ rep' = [rep EXCEPT !.status = rep.status \ Pruned]
    BY <1>3 DEF PlanDeletion
  <2>2. rep'.status = rep.status \ Pruned /\ rep'.finalizer = rep.finalizer
    BY <1>2, <2>1
  <2>3. \A e \in Entries : e \in rep.status \ rep'.status => store'[Loc(e)].owner # cur
    BY <2>1, <2>2, LocType DEF Pruned, UnlistedUnowned, Loc
  <2> QED BY <2>1, <2>2, <2>3, ForgettingStep
<1>4. ASSUME NEW e \in Entries, Forget(e) PROVE TrackingInv'
  <2>1. /\ pc = "obsolete" /\ pc' = "obsolete" /\ UNCHANGED <<replica, clusters, cur, store>>
        /\ rep' = [rep EXCEPT !.status = rep.status \ {e}]
        /\ ~IsManaged(store[Loc(e)])
    BY <1>4 DEF Forget
  <2>2. rep'.status = rep.status \ {e} /\ rep'.finalizer = rep.finalizer
    BY <1>2, <2>1
  <2>3. cur # NoOwner
    BY <2>1 DEF TypeOK, PassTypeOK
  <2>4. store[Loc(e)].owner # cur
    BY <2>1, <2>3 DEF IsManaged
  <2> QED BY <2>1, <2>2, <2>4, ForgettingStep
<1> DEFINE k == Loc(rendered.entry)
<1>5. rendered.entry \in Entries /\ k \in Locations
  BY LocType DEF TypeOK, PassTypeOK, Renderings
<1>6. CASE RemoveObject
  <2> DEFINE o == [store[k] EXCEPT !.state = IF @ = "absent" THEN @ ELSE "deleting"]
  <2>1. /\ pc = "remove" /\ pc' = "obsolete" /\ UNCHANGED <<replica, clusters, cur, rep>>
    BY <1>6 DEF RemoveObject
  <2>2. store' \in {store, [store EXCEPT ![k] = o]}
    BY <1>6, Zenon DEF RemoveObject
  <2>3. o.owner = store[k].owner
    BY <1>1, <1>5 DEF Objects
  <2> HIDE DEF o
  <2>4. \A l \in Locations : store'[l].owner \in {store[l].owner, NoOwner}
    BY <1>1, <1>5, <2>2, <2>3
  <2> QED BY <2>1, <2>4, ForgettingStep
<1>7. CASE ReleaseObject
  <2> DEFINE o == [[store[k] EXCEPT !.owner = NoOwner] EXCEPT !.keep = FALSE]
  <2>1. pc = "release" /\ pc' = "obsolete" /\ UNCHANGED <<replica, clusters, cur>>
    BY <1>7 DEF ReleaseObject
  <2>2. \/ rep' = rep /\ store' \in {store, [store EXCEPT ![k] = o]}
        \/ /\ rep' = [rep EXCEPT !.status = rep.status \ {rendered.entry}]
           /\ store' = [store EXCEPT ![k] = o]
    BY <1>1, <1>5, <1>7 DEF ReleaseObject
  <2>3. o.owner = NoOwner
    BY <1>1, <1>5 DEF Objects
  <2> HIDE DEF o
  <2>4. \A l \in Locations : store'[l].owner \in {store[l].owner, NoOwner}
    BY <1>1, <1>5, <2>2, <2>3
  <2>5. cur # NoOwner
    BY <2>1 DEF TypeOK, PassTypeOK
  <2>6. /\ rep'.finalizer = rep.finalizer
        /\ \A e \in Entries : e \in rep.status \ rep'.status => store'[Loc(e)].owner # cur
    BY <1>1, <1>2, <1>5, <2>2, <2>3, <2>5
  <2> QED BY <2>1, <2>4, <2>6, ForgettingStep
<1> QED BY <1>3, <1>4, <1>6, <1>7

\* A pass that ends, or dies, leaves the server's status as good as it was.
LEMMA EndTracking ==
  ASSUME TypeOK, TrackingInv, UpdateStatus \/ Crash
  PROVE  TrackingInv'
<1> USE DEF TrackingInv
<1>1. /\ pc' = "idle" /\ managedResources' = {} /\ UNCHANGED <<clusters, store>>
  BY DEF UpdateStatus, Crash, EndPass, world
<1>2. /\ LetGo' /\ LoopPosition' /\ InMemoryOnly' /\ WriteTracked' /\ PassHeld'
      /\ UnlistedUnowned' /\ GoneUnowned'
  BY <1>1 DEF LetGo, LoopPosition, InMemoryOnly, WriteTracked, PassHeld,
              UnlistedUnowned, GoneUnowned
<1>3. CASE replica' = replica
  BY <1>1, <1>2, <1>3 DEF Tracked, StatusHeld, Held
<1>4. CASE UpdateStatus /\ replica' # replica
  <2> DEFINE list == rep.status \cup managedResources
             o == [replica[cur] EXCEPT !.status = IF list = old THEN @ ELSE list]
  <2>1. pc = "status" /\ replica' = [replica EXCEPT ![cur] = o]
    BY <1>4 DEF UpdateStatus
  <2>2. replica \in [Replicas -> ReplicaObjects] /\ store \in [Locations -> Objects]
        /\ cur \in Replicas /\ replica[cur] \in ReplicaObjects
    BY <2>1 DEF TypeOK, PlatformTypeOK, PassTypeOK
  <2>3. /\ o.status \in {replica[cur].status, list}
        /\ o.phase = replica[cur].phase /\ o.finalizer = replica[cur].finalizer
    BY <2>2 DEF ReplicaObjects
  <2> HIDE DEF o
  <2>4. \A q \in Replicas : /\ replica'[q].phase = replica[q].phase
                            /\ replica'[q].finalizer = replica[q].finalizer
                            /\ q # cur => replica'[q].status = replica[q].status
    BY <2>1, <2>2, <2>3
  <2>5. replica'[cur].status \in {replica[cur].status, list}
    BY <2>1, <2>2, <2>3
  <2>6. StatusHeld'
    <3>1. list # {} => Held(cur)
      BY <2>1 DEF PassHeld, Quiet
    <3>2. \A q \in Replicas : Held(q)' = Held(q)
      BY <2>4 DEF Held
    <3>3. ASSUME NEW q \in Replicas, replica'[q].status # {} PROVE Held(q)
      <4>1. CASE q = cur
        BY <2>2, <2>5, <3>1, <3>3, <4>1 DEF StatusHeld
      <4>2. CASE q # cur
        BY <2>4, <3>3, <4>2 DEF StatusHeld
      <4> QED BY <4>1, <4>2
    <3> QED BY <3>2, <3>3 DEF StatusHeld
  <2>7. Tracked'
    <3> SUFFICES ASSUME NEW l \in Locations, store[l].owner # NoOwner
                 PROVE  /\ replica'[store[l].owner].phase # "absent"
                        /\ replica'[store[l].owner].finalizer
                        /\ \E e \in replica'[store[l].owner].status : Loc(e) = l
      BY <1>1 DEF Tracked
    <3>1. PICK q \in Replicas : store[l].owner = q
      BY <2>2 DEF Objects
    <3>2. replica[q].phase # "absent" /\ replica[q].finalizer
      BY <3>1 DEF Tracked
    <3>3. PICK e \in replica[q].status : Loc(e) = l
      BY <3>1 DEF Tracked
    <3>4. e \in replica'[q].status
      <4>1. CASE q # cur
        BY <2>4, <4>1
      <4>2. CASE q = cur
        <5>1. e \in rep.status
          BY <2>1, <3>1, <3>3, <4>2 DEF LetGo
        <5> QED BY <2>5, <3>3, <4>2, <5>1
      <4> QED BY <4>1, <4>2
    <3>5. replica'[q].phase # "absent" /\ replica'[q].finalizer
      BY <2>4, <3>2
    <3> QED BY <3>1, <3>3, <3>4, <3>5
  <2> QED BY <1>2, <2>6, <2>7
<1> QED BY <1>3, <1>4 DEF Crash

\* The finalizer is taken away only when the status has no entries.
LEMMA HandleDeleteTracking ==
  ASSUME TypeOK, TrackingInv, HandleDelete
  PROVE  TrackingInv'
<1> USE DEF TrackingInv
<1> DEFINE o == WithoutFinalizer(replica[cur])
           released == [replica EXCEPT ![cur] = o]
<1>1. /\ pc = "delete" /\ UNCHANGED <<clusters, store, managedResources>>
  BY DEF HandleDelete, world, results
<1>2. \/ /\ pc' = "plan" /\ rep.status # {}
         /\ UNCHANGED <<replica, cur, rep, clusterList>>
      \/ /\ pc' \in {"idle", "status"} /\ rep.status = {}
         /\ replica' \in {replica, released}
         /\ pc' = "status" => cur' = cur /\ rep' = rep
  BY DEF HandleDelete, EndPass, object
<1>3. replica \in [Replicas -> ReplicaObjects] /\ store \in [Locations -> Objects]
      /\ cur \in Replicas /\ managedResources = {}
  BY <1>1 DEF TypeOK, PlatformTypeOK, PassTypeOK, PassHeld
<1>4. CASE pc' = "plan"
  <2>1. rep.finalizer /\ Held(cur)
    BY <1>1, <1>2, <1>4 DEF PassHeld, Quiet
  <2>2. Tracked' /\ StatusHeld' /\ GoneUnowned' /\ UnlistedUnowned'
    BY <1>1, <1>2, <1>4 DEF Tracked, StatusHeld, Held, GoneUnowned, UnlistedUnowned
  <2>3. PassHeld'
    BY <1>1, <1>2, <1>4, <2>1 DEF PassHeld, Held
  <2>4. LetGo' /\ LoopPosition' /\ InMemoryOnly' /\ WriteTracked'
    BY <1>1, <1>2, <1>4 DEF LetGo, LoopPosition, InMemoryOnly, WriteTracked
  <2> QED BY <2>2, <2>3, <2>4
<1>5. CASE pc' \in {"idle", "status"}
  <2>1. replica[cur].status = {} /\ rep.status = {}
    BY <1>1, <1>2, <1>5 DEF LetGo
  <2>2. o.status = {}
    <3>1. NoReplica.status = {}
      BY DEF NoReplica
    <3>2. [replica[cur] EXCEPT !.finalizer = FALSE].status = replica[cur].status
      BY <1>3 DEF ReplicaObjects
    <3> QED BY <2>1, <3>1, <3>2 DEF WithoutFinalizer
  <2> HIDE DEF o
  <2>3. replica'[cur].status = {}
        /\ \A q \in Replicas : q # cur => replica'[q] = replica[q]
    BY <1>2, <1>3, <1>5, <2>1, <2>2
  <2>4. \A l \in Locations : store[l].owner # cur
    BY <1>3, <2>1, ReplicasAssumption DEF Tracked
  <2>5. Tracked'
    <3> SUFFICES ASSUME NEW l \in Locations, store[l].owner # NoOwner
                 PROVE  /\ replica'[store[l].owner].phase # "absent"
                        /\ replica'[store[l].owner].finalizer
                        /\ \E e \in replica'[store[l].owner].status : Loc(e) = l
      BY <1>1 DEF Tracked
    <3>1. PICK q \in Replicas : store[l].owner = q
      BY <1>3 DEF Objects
    <3>2. replica'[q] = replica[q]
      BY <2>3, <2>4, <3>1
    <3> QED BY <3>1, <3>2 DEF Tracked
  <2>6. StatusHeld'
    BY <2>3 DEF StatusHeld, Held
  <2>7. GoneUnowned' /\ UnlistedUnowned' /\ LoopPosition' /\ InMemoryOnly' /\ WriteTracked'
    BY <1>1, <1>5 DEF GoneUnowned, UnlistedUnowned, LoopPosition, InMemoryOnly, WriteTracked
  <2>8. PassHeld' /\ LetGo'
    BY <1>1, <1>2, <1>3, <1>5, <2>1, <2>3 DEF PassHeld, Quiet, LetGo
  <2> QED BY <2>5, <2>6, <2>7, <2>8
<1> QED BY <1>2, <1>4, <1>5

\* At the start there is nothing to track.
LEMMA TrackingInit == Init => TrackingInv
<1> SUFFICES ASSUME Init PROVE TrackingInv
  OBVIOUS
<1>1. \A l \in Locations : store[l].owner = NoOwner
  BY DEF Init, PlatformInit, NoObject
<1>2. \A r \in Replicas : replica[r].status = {}
  <2>1. NoReplica.status = {} /\ \A s \in Specs : NewReplica(s).status = {}
    BY NothingTypes DEF NoReplica, NewReplica, ReplicaObjects
  <2> QED BY <2>1 DEF Init, PlatformInit
<1>3. pc = "idle" /\ managedResources = {}
  BY DEF Init, Idle
<1> QED BY <1>1, <1>2, <1>3 DEF TrackingInv, Tracked, StatusHeld, GoneUnowned,
           UnlistedUnowned, PassHeld, LetGo, LoopPosition, InMemoryOnly, WriteTracked

\* Together: no step of a pass, of a restart or of a user breaks TrackingInv.
LEMMA TrackingStep ==
  ASSUME FreshReads, OneKeyPerEntry, TypeOK, OwnershipInv, TrackingInv, [Next]_vars
  PROVE  TrackingInv'
<1>1. LoopPosition'
  BY LoopPositionStep DEF TrackingInv
<1>2. AbsentUnowned
  BY DEF OwnershipInv
<1>3. ASSUME PassStep PROVE TrackingInv'
  BY <1>1, <1>3, ListTracking, FinalizerTracking, ReadingTracking,
     AcceptTracking, StatusTracking, WriteTracking, DeletionTracking,
     EndTracking, HandleDeleteTracking DEF PassStep
<1>4. ASSUME UNCHANGED <<api, locals>> PROVE TrackingInv'
  <2> USE <1>4 DEF api, platform, locals, listed, object, loop, results, TrackingInv
  <2>1. Tracked' /\ StatusHeld' /\ GoneUnowned' /\ UnlistedUnowned'
    BY DEF Tracked, StatusHeld, Held, GoneUnowned, UnlistedUnowned
  <2>2. PassHeld' /\ LetGo' /\ WriteTracked'
    BY DEF PassHeld, Quiet, Held, LetGo, WriteTracked
  <2>3. InMemoryOnly'
    BY DEF InMemoryOnly
  <2> QED BY <1>1, <2>1, <2>2, <2>3
<1>5. ASSUME NEW r \in Replicas, CacheSync(r) PROVE FALSE
  BY <1>5 DEF CacheSync
<1> QED
  BY <1>2, <1>3, <1>4, <1>5, UserTracking, StartTracking, EndTracking
     DEF Next, vars

\* With a current cache, and specs whose resources have one key per entry, every
\* copy is in the status of a (Cluster)Replica that the finalizer holds: no
\* failing call, restart, edit or deletion at any point of a pass leaves an
\* object behind that nothing will clean up.  (Run stale_cache shows why the
\* cache has to be current.)
THEOREM CopiesAreTracked ==
  ASSUME FreshReads, OneKeyPerEntry
  PROVE  Spec => []Tracked
<1>1. TrackingInv => Tracked
  BY DEF TrackingInv
<1> QED
  BY <1>1, TrackingInit, TrackingStep, TypeCorrect, OwnershipInit, OwnershipStep, PTL
     DEF Spec

=============================================================================
