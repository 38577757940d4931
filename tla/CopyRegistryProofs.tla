-------------------------- MODULE CopyRegistryProofs --------------------------
(***************************************************************************)
(* ReplicaController implements CopyRegistry: a step either writes one     *)
(* status list and no object, claims one object, or lets owners lose some. *)
(***************************************************************************)
EXTENDS ReplicaControllerProofs

\* At most one (Cluster)Replica is written, and no object.
OneList ==
  /\ store' = store
  /\ \E r \in Replicas : \A q \in Replicas : q # r => replica'[q] = replica[q]

\* No (Cluster)Replica is written, and no object gets an owner.
OwnersLose ==
  /\ replica' = replica
  /\ \A l \in Locations : store'[l].owner \in {store[l].owner, NoOwner}

\* A list that still covers all copies may be written.
LEMMA OneListRewrites ==
  ASSUME TypeOK, TypeOK', Tracked', OneList
  PROVE  CR!Next
<1>1. PICK r \in Replicas : \A q \in Replicas : q # r => replica'[q] = replica[q]
  BY DEF OneList
<1> DEFINE list == replica'[r].status
<1>2. list \in SUBSET Entries
  BY DEF TypeOK, PlatformTypeOK, ReplicaObjects
<1>3. CR!Covers(list, r)
  <2> SUFFICES ASSUME NEW l \in Locations, store[l].owner = r
               PROVE  \E e \in list : PlaceOf[e] = l
    BY DEF CR!Covers, owners
  <2>1. PICK e \in list : Loc(e) = l
    BY ReplicasAssumption DEF Tracked, OneList
  <2> QED BY <1>2, <2>1 DEF PlaceOf
<1>4. lists' = [lists EXCEPT ![r] = list]
  BY <1>1 DEF lists
<1>5. owners' = owners
  BY DEF owners, OneList
<1> QED BY <1>2, <1>3, <1>4, <1>5 DEF CR!Next, CR!Rewrite

\* Owners that are lost are all the registry sees of such a step.
LEMMA OwnersLoseLoses ==
  ASSUME OwnersLose
  PROVE  CR!Next
<1> DEFINE gone == {l \in Locations : store'[l].owner = NoOwner}
<1>1. lists' = lists
  BY DEF lists, OwnersLose
<1>2. owners' = [l \in Locations |-> IF l \in gone THEN NoOwner ELSE owners[l]]
  BY DEF owners, OwnersLose
<1> QED BY <1>1, <1>2 DEF CR!Next, CR!Lose

\* What is written was registered before, and belonged to this (Cluster)Replica
\* or to nobody.
LEMMA WriteClaims ==
  ASSUME TypeOK, OwnershipInv, WriteTracked, CreateOrUpdate
  PROVE  CR!Next
<1> DEFINE e == rendered.entry
           k == Loc(e)
<1>1. /\ pc = "write" /\ replica' = replica /\ cur \in Replicas
      /\ store' \in {store, [store EXCEPT ![k] = Written(store[k])]}
  BY Zenon DEF CreateOrUpdate, GiveUpTarget, TypeOK, PassTypeOK
<1>2. /\ e \in Entries /\ k \in Locations /\ store \in [Locations -> Objects]
      /\ Written(store[k]).owner = cur
  BY LocType DEF TypeOK, PlatformTypeOK, PassTypeOK, Renderings, Written
<1>3. e \in replica[cur].status /\ store[k].owner \in {NoOwner, cur}
  BY <1>1 DEF WriteTracked, OwnershipInv, TargetClaimable
<1>4. CASE store' = store \/ store[k].owner = cur
  <2>1. \A l \in Locations : store'[l].owner = store[l].owner
    BY <1>1, <1>2, <1>4
  <2> QED BY <1>1, <2>1, OwnersLoseLoses DEF OwnersLose
<1>5. CASE store' # store /\ store[k].owner = NoOwner
  <2>1. store' = [store EXCEPT ![k] = Written(store[k])]
    BY <1>1, <1>5
  <2>2. owners' = [owners EXCEPT ![PlaceOf[e]] = cur]
    BY <1>2, <2>1 DEF owners, PlaceOf
  <2>3. lists' = lists /\ e \in lists[cur] /\ owners[PlaceOf[e]] = NoOwner
    BY <1>1, <1>2, <1>3, <1>5 DEF lists, owners, PlaceOf
  <2> QED BY <1>1, <1>2, <2>2, <2>3 DEF CR!Next, CR!Claim
<1> QED BY <1>1, <1>3, <1>4, <1>5

\* Users write one (Cluster)Replica at a time and give objects to none.
LEMMA UserRegistry ==
  ASSUME TypeOK, AbsentUnowned, UserStep
  PROVE  OneList \/ OwnersLose
<1>1. replica \in [Replicas -> ReplicaObjects]
  BY DEF TypeOK, PlatformTypeOK
<1>2. CASE replica' = replica
  BY <1>2, UserOwners DEF OwnersLose
<1>3. ASSUME NEW r \in Replicas, NEW s \in Specs, CreateReplica(r, s) PROVE OneList
  BY <1>1, <1>3 DEF CreateReplica, OneList
<1>4. ASSUME NEW r \in Replicas, NEW s \in Specs,
             NEW op \in {"none", "ignore", "reconcile"}, EditReplica(r, s, op)
      PROVE  OneList
  BY <1>1, <1>4 DEF EditReplica, OneList
<1>5. ASSUME NEW r \in Replicas, DeleteReplica(r) PROVE OneList
  BY <1>1, <1>5 DEF DeleteReplica, OneList
<1> QED
  BY <1>2, <1>3, <1>4, <1>5
     DEF UserStep, EditSource, EditCluster, ClusterGone, EditNamespace, NamespaceGone,
         UserCreates, UserDeletes, UserKeeps, Vanish

\* The steps of a pass, of the cache and of a restart, but for the write.
LEMMA PassRegistry ==
  ASSUME TypeOK, Next, ~CreateOrUpdate, ~(UserStep /\ UNCHANGED <<cached, faults, locals>>)
  PROVE  OneList \/ OwnersLose
<1> USE DEF api, platform, world
<1>1. /\ replica \in [Replicas -> ReplicaObjects] /\ store \in [Locations -> Objects]
      /\ Loc(rendered.entry) \in Locations
      /\ pc # "idle" => cur \in Replicas
  BY LocType DEF TypeOK, PlatformTypeOK, PassTypeOK, Renderings
<1>2. ASSUME UNCHANGED <<replica, store>> PROVE OneList \/ OwnersLose
  BY <1>2 DEF OwnersLose
<1>3. ASSUME NEW r \in Replicas, Start(r) PROVE OneList
  BY <1>1, <1>3 DEF Start, OneList
<1>4. CASE EnsureFinalizer \/ TrackInStatus \/ HandleDelete \/ UpdateStatus
  <2>1. store' = store /\ cur \in Replicas
    BY <1>1, <1>4 DEF EnsureFinalizer, TrackInStatus, HandleDelete, UpdateStatus
  <2>2. \A q \in Replicas : q # cur => replica'[q] = replica[q]
    BY <1>1, <1>4 DEF EnsureFinalizer, TrackInStatus, HandleDelete, UpdateStatus
  <2> QED BY <2>1, <2>2 DEF OneList
<1>5. CASE RemoveObject
  <2> DEFINE k == Loc(rendered.entry)
             o == [store[k] EXCEPT !.state = IF @ = "absent" THEN @ ELSE "deleting"]
  <2>1. replica' = replica /\ store' \in {store, [store EXCEPT ![k] = o]}
    BY <1>5, Zenon DEF RemoveObject
  <2>2. o.owner = store[k].owner
    BY <1>1 DEF Objects
  <2> HIDE DEF o
  <2> QED BY <1>1, <2>1, <2>2 DEF OwnersLose
<1>6. CASE ReleaseObject
  <2> DEFINE k == Loc(rendered.entry)
             o == [[store[k] EXCEPT !.owner = NoOwner] EXCEPT !.keep = FALSE]
  <2>1. replica' = replica /\ store' \in {store, [store EXCEPT ![k] = o]}
    BY <1>1, <1>6 DEF ReleaseObject
  <2>2. o.owner = NoOwner
    BY <1>1 DEF Objects
  <2> HIDE DEF o
  <2> QED BY <1>1, <2>1, <2>2 DEF OwnersLose
<1>7. ASSUME \/ ListClusters \/ FetchSources \/ NextTarget \/ EndCluster \/ EndTarget
             \/ PlanDeletion \/ EndDeletion \/ Crash
      PROVE  UNCHANGED <<replica, store>>
  BY <1>7 DEF ListClusters, FetchSources, NextTarget, EndCluster, EndTarget,
              PlanDeletion, EndDeletion, Crash
<1>8. ASSUME NEW c \in Refs,
             \/ SkipDeletingCluster(c) \/ ResolveNamespaces(c)
             \/ ClusterUnavailable(c) \/ ObsoleteUnreachable(c)
      PROVE  UNCHANGED <<replica, store>>
  BY <1>8 DEF SkipDeletingCluster, ResolveNamespaces, ClusterUnavailable,
              ObsoleteUnreachable
<1>9. ASSUME NEW n \in Spaces, RenderFails(n) \/ RenderedBefore(n) \/ Decline(n) \/ Accept(n)
      PROVE  UNCHANGED <<replica, store>>
  BY <1>9 DEF RenderFails, RenderedBefore, Decline, Accept
<1>10. ASSUME NEW e \in Entries, Forget(e) \/ Await(e) \/ Decide(e)
       PROVE  UNCHANGED <<replica, store>>
  BY <1>10 DEF Forget, Await, Decide
<1>11. ASSUME NEW r \in Replicas, CacheSync(r) PROVE UNCHANGED <<replica, store>>
  BY <1>11 DEF CacheSync
<1> QED
  BY <1>2, <1>3, <1>4, <1>5, <1>6, <1>7, <1>8, <1>9, <1>10, <1>11 DEF Next, PassStep

\* With a current cache, and specs whose resources have one key per entry, the
\* replica controller keeps the promise of CopyRegistry, whatever users, failing
\* calls and restarts do between any two of its calls: it claims only what is
\* nobody's and registered in the status already (508-647), and never writes a
\* list that leaves a copy out (637, 719, 125).
THEOREM ControllerImplementsRegistry ==
  ASSUME FreshReads, OneKeyPerEntry
  PROVE  Spec => ImplementsRegistry
<1>1. Init => CR!Init
  <2> SUFFICES ASSUME Init PROVE CR!Init
    OBVIOUS
  <2>1. \A l \in Locations : store[l].owner = NoOwner
    BY DEF Init, PlatformInit, NoObject
  <2>2. \A r \in Replicas : replica[r].status = {}
    <3>1. NoReplica.status = {} /\ \A s \in Specs : NewReplica(s).status = {}
      BY NothingTypes DEF NoReplica, NewReplica, ReplicaObjects
    <3> QED BY <3>1 DEF Init, PlatformInit
  <2> QED BY <2>1, <2>2 DEF CR!Init, owners, lists
<1>2. ASSUME TypeOK, TypeOK', OwnershipInv, TrackingInv, TrackingInv', [Next]_vars
      PROVE  [CR!Next]_(CR!vars)
  <2>1. Tracked' /\ WriteTracked /\ AbsentUnowned
    BY <1>2 DEF TrackingInv, OwnershipInv
  <2>2. CASE CreateOrUpdate
    BY <1>2, <2>1, <2>2, WriteClaims
  <2>3. CASE UserStep /\ UNCHANGED <<cached, faults, locals>>
    BY <1>2, <2>1, <2>3, UserRegistry, OneListRewrites, OwnersLoseLoses
  <2>4. CASE UNCHANGED vars
    BY <2>4 DEF vars, api, platform, CR!vars, owners, lists
  <2> QED BY <1>2, <2>1, <2>2, <2>3, <2>4, PassRegistry, OneListRewrites, OwnersLoseLoses
<1> QED
  BY <1>1, <1>2, TrackingInit, TrackingStep, TypeCorrect, OwnershipInit, OwnershipStep, PTL
     DEF Spec, ImplementsRegistry, CR!Spec

=============================================================================
