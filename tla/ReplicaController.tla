-------------------------- MODULE ReplicaController --------------------------
(***************************************************************************)
(* One instance of the controller for Replicas and ClusterReplicas         *)
(* (internal/replica/controller.go), working on the objects of Platform    *)
(* while users and other controllers change them.                          *)
(*                                                                         *)
(* The controller runs one reconciliation ("pass") at a time.  A pass is   *)
(* split at every API call whose outcome a concurrent change can alter, so *)
(* that the environment interleaves exactly where it can in the program.   *)
(* A pass may start at any moment: which event, interval or requeue        *)
(* triggers it is the business of other parts of the system.               *)
(***************************************************************************)
EXTENDS Platform

CONSTANTS
  FreshReads,  \* TRUE: the informer cache is current when a pass reads it
  MaxFaults    \* bound on failing API calls and restarts

ASSUME ControllerAssumption == FreshReads \in BOOLEAN /\ MaxFaults \in Nat

VARIABLES
  cached,  \* the (Cluster)Replicas as the informer cache last saw them
  faults,  \* how many calls have failed
  \* Local state of the pass in progress.
  pc,                    \* its next step; "idle" between passes
  cur,                   \* the replica being reconciled
  rep,                   \* rr.Object
  old,                   \* the status list in rr.OldObject
  clusterList,           \* the Clusters listed at the start of the pass
  sources,               \* the source content that was read
  targets, targetDef,    \* target definitions to come, and the current one
  matchedClusters, clusterRef, targetNamespaces,
  rendered,              \* the target resource being handled
  conflictDetection,     \* what was rendered so far, and how
  managedResources,      \* what was synced so far
  seenClusterConditions, \* cluster conditions to be written, last one wins
  seenTargetConditions,  \* targets for which a condition will be written
  resourcesToDelete,
  failed                 \* history: entries whose handling failed in this pass

api == <<platform, cached>>
world == <<cached, clusters, namespaces, source, edits>>
listed == <<cur, clusterList, sources>>
object == <<rep, old>>
outer == <<targets, targetDef, matchedClusters, clusterRef>>
loop == <<targets, targetDef, matchedClusters, clusterRef, targetNamespaces>>
results == <<conflictDetection, managedResources, seenClusterConditions,
             seenTargetConditions, failed>>
locals == <<pc, listed, object, loop, rendered, results, resourcesToDelete>>
vars == <<api, edits, faults, locals>>

------------------------------------------------------------------------------
(* Between passes the local state has a fixed value. *)

Renderings ==
  [entry : Entries, key : Entries, space : Spaces, raw : Raws \cup {NoContent}]

NoTarget ==
  [on |-> "hosting", selector |-> {}, by |-> "none", names |-> {},
   nsLabels |-> {}, conflict |-> "Fail", missing |-> "Fail"]
NoEntry ==
  [cluster |-> Host, namespace |-> NoNamespace,
   resource |-> CHOOSE k \in Resources : TRUE]
NoRendering ==
  [entry |-> NoEntry, key |-> NoEntry, space |-> NoNamespace, raw |-> NoContent]
NoClusters ==
  [c \in Clusters |-> [state |-> "absent", label |-> CHOOSE l \in Labels : TRUE]]
NoConditions == [c \in Refs |-> "none"]

Idle ==
  /\ pc = "idle" /\ cur = NoOwner /\ rep = NoReplica /\ old = {}
  /\ clusterList = NoClusters /\ sources = Missing
  /\ targets = <<>> /\ targetDef = NoTarget /\ matchedClusters = {}
  /\ clusterRef = Host /\ targetNamespaces = {} /\ rendered = NoRendering
  /\ conflictDetection = {} /\ managedResources = {} /\ failed = {}
  /\ seenClusterConditions = NoConditions /\ seenTargetConditions = {}
  /\ resourcesToDelete = {}

EndPass ==
  /\ pc' = "idle" /\ cur' = NoOwner /\ rep' = NoReplica /\ old' = {}
  /\ clusterList' = NoClusters /\ sources' = Missing
  /\ targets' = <<>> /\ targetDef' = NoTarget /\ matchedClusters' = {}
  /\ clusterRef' = Host /\ targetNamespaces' = {} /\ rendered' = NoRendering
  /\ conflictDetection' = {} /\ managedResources' = {} /\ failed' = {}
  /\ seenClusterConditions' = NoConditions /\ seenTargetConditions' = {}
  /\ resourcesToDelete' = {}

Init == PlatformInit /\ cached = replica /\ faults = 0 /\ Idle

------------------------------------------------------------------------------
(* What the pass asks of the API servers. *)

\* A call fails although nothing in the model prevents it from succeeding.
Fault == faults < MaxFaults /\ faults' = faults + 1

\* The (Cluster)Replica as platformCluster.GetClient().Get returns it.
View(r) == IF FreshReads THEN replica[r] ELSE cached[r]

\* rr.Object after a patch: the response is decoded into it, and an empty list
\* is omitted from the response, which leaves the list in memory as it was.
Refreshed(mem, server) ==
  [server EXCEPT !.status = IF @ = {} THEN mem.status ELSE @]

------------------------------------------------------------------------------
(* Reconcile and reconcile: read the object, list the Clusters, dispatch. *)

\* A pass that finds no object, finds the ignore annotation, or cannot read the
\* object or remove its reconcile annotation ends without any effect.
\* The patch that removes the annotation does so whatever its value is by then.
Start(r) ==
  /\ pc = "idle"
  /\ View(r).phase # "absent"
  /\ View(r).op # "ignore"
  /\ IF View(r).op = "reconcile"
     THEN /\ replica[r].phase # "absent"
          /\ replica' = [replica EXCEPT ![r].op = "none"]
          /\ rep' = Refreshed(View(r), replica'[r])
     ELSE /\ rep' = View(r)
          /\ UNCHANGED replica
  /\ old' = rep'.status
  /\ cur' = r
  /\ pc' = "list"
  /\ UNCHANGED <<world, loop, results, store, faults, clusterList, sources,
                 rendered, resourcesToDelete>>

ListClusters ==
  /\ pc = "list"
  /\ \/ /\ clusterList' = clusters
        /\ pc' = IF rep.phase = "live" THEN "finalize" ELSE "delete"
        /\ UNCHANGED faults
     \/ /\ Fault
        /\ pc' = "status"
        /\ UNCHANGED clusterList
  /\ UNCHANGED <<api, object, loop, results, edits, cur, sources, rendered,
                 resourcesToDelete>>

------------------------------------------------------------------------------
(* handleCreateOrUpdate *)

\* The patch may be applied although the call reports a failure.
EnsureFinalizer ==
  LET held == [replica EXCEPT ![cur].finalizer = TRUE]
      present == replica[cur].phase # "absent"
  IN /\ pc = "finalize"
     /\ \/ /\ rep.finalizer
           /\ pc' = "sources"
           /\ UNCHANGED <<object, replica, faults>>
        \/ /\ ~rep.finalizer /\ present
           /\ replica' = held
           /\ rep' = Refreshed(rep, held[cur])
           /\ old' = rep'.status
           /\ pc' = "sources"
           /\ UNCHANGED faults
        \/ /\ ~rep.finalizer
           /\ \/ present /\ Fault /\ replica' \in {replica, held}
              \/ ~present /\ UNCHANGED <<replica, faults>>
           /\ pc' = "status"
           /\ UNCHANGED object
     /\ UNCHANGED <<world, listed, loop, results, store, rendered,
                    resourcesToDelete>>

\* A template that does not parse (or is missing although there are several
\* sources) and a source that cannot be read end the pass: nothing is deleted.
FetchSources ==
  /\ pc = "sources"
  /\ \/ /\ rep.spec.parses
        /\ source # Missing
        /\ sources' = source
        /\ targets' = rep.spec.targets
        /\ pc' = "target"
        /\ UNCHANGED faults
     \/ /\ ~rep.spec.parses \/ source = Missing
        /\ pc' = "status"
        /\ UNCHANGED <<sources, targets, faults>>
     \/ /\ rep.spec.parses
        /\ Fault
        /\ pc' = "status"
        /\ UNCHANGED <<sources, targets>>
  /\ UNCHANGED <<api, object, results, edits, cur, clusterList, targetDef,
                 matchedClusters, clusterRef, targetNamespaces, rendered,
                 resourcesToDelete>>

NextTarget ==
  /\ pc = "target"
  /\ \/ /\ targets # <<>>
        /\ targetDef' = Head(targets)
        /\ targets' = Tail(targets)
        /\ matchedClusters' = Matches(Head(targets), clusterList)
        /\ pc' = "cluster"
     \/ /\ targets = <<>>
        /\ pc' = "plan"
        /\ UNCHANGED <<targets, targetDef, matchedClusters>>
  /\ UNCHANGED <<api, listed, object, results, edits, faults, clusterRef,
                 targetNamespaces, rendered, resourcesToDelete>>

\* The entries a cluster's copies have in the status.
EntriesOn(c) == {e \in rep.status : e.cluster = c}

\* The Cluster is in deletion: its copies become obsolete.
SkipDeletingCluster(c) ==
  /\ pc = "cluster"
  /\ c \in matchedClusters \cap Clusters
  /\ clusterList[c].state = "deleting"
  /\ matchedClusters' = matchedClusters \ {c}
  /\ UNCHANGED <<api, listed, object, results, edits, faults, pc, targets,
                 targetDef, clusterRef, targetNamespaces, rendered,
                 resourcesToDelete>>

ResolveNamespaces(c) ==
  /\ pc = "cluster"
  /\ c \in matchedClusters
  /\ c \in Clusters => clusterList[c].state # "deleting"
  /\ targetDef.on = "nextTo" \/ Reachable(c)
  /\ clusterRef' = c
  /\ targetNamespaces' = SelectedNamespaces(targetDef, c)
  /\ failed' = IF targetDef.on # "nextTo" /\ targetDef.by = "invalid"
               THEN failed \cup EntriesOn(c) ELSE failed
  /\ pc' = "space"
  /\ UNCHANGED <<api, listed, object, edits, faults, targets, targetDef,
                 matchedClusters, rendered, conflictDetection, managedResources,
                 seenClusterConditions, seenTargetConditions,
                 resourcesToDelete>>

\* No access to the cluster, or its namespaces cannot be listed.
ClusterUnavailable(c) ==
  /\ pc = "cluster"
  /\ c \in matchedClusters
  /\ c \in Clusters => clusterList[c].state # "deleting"
  /\ targetDef.on # "nextTo"
  /\ \/ ~Reachable(c) /\ UNCHANGED faults
     \/ Fault
  /\ seenClusterConditions' = [seenClusterConditions EXCEPT ![c] = "False"]
  /\ failed' = failed \cup EntriesOn(c)
  /\ matchedClusters' = matchedClusters \ {c}
  /\ UNCHANGED <<api, listed, object, edits, pc, targets, targetDef, clusterRef,
                 targetNamespaces, rendered, conflictDetection,
                 managedResources, seenTargetConditions, resourcesToDelete>>

\* All namespaces were handled: the cluster's condition is True.
EndCluster ==
  /\ pc = "space"
  /\ targetNamespaces = {}
  /\ seenClusterConditions' =
       [seenClusterConditions EXCEPT ![clusterRef] = "True"]
  /\ matchedClusters' = matchedClusters \ {clusterRef}
  /\ clusterRef' = Host
  /\ pc' = "cluster"
  /\ UNCHANGED <<api, listed, object, edits, faults, targets, targetDef,
                 targetNamespaces, rendered, conflictDetection,
                 managedResources, seenTargetConditions, failed,
                 resourcesToDelete>>

EndTarget ==
  /\ pc = "cluster"
  /\ matchedClusters = {}
  /\ targetDef' = NoTarget
  /\ pc' = "target"
  /\ UNCHANGED <<api, listed, object, results, edits, faults, targets,
                 matchedClusters, clusterRef, targetNamespaces, rendered,
                 resourcesToDelete>>

------------------------------------------------------------------------------
(* The body of the loop over target namespaces: one target resource. *)

RawOf(s, c, n) ==
  [content   |-> sources,
   cluster   |-> IF "cluster" \in s.varies THEN c ELSE Host,
   namespace |-> IF "namespace" \in s.varies THEN n ELSE NoNamespace]

Rendering(s, t, c, n) ==
  [key |-> KeyOf(s, c, n), entry |-> EntryOf(s, t, c, n), space |-> n,
   raw |-> RawOf(s, c, n)]

Current(n) == Rendering(rep.spec, targetDef, clusterRef, n)
Unrendered == rep.spec.templated /\ sources \in Unrenderable
\* Mutant: what an earlier pass has handled counts as handled in this one.
HandledEarlier(x) == x.entry \in rep.status

Handled(x) == \E d \in conflictDetection : d.key = x.key

\* An execution or unmarshalling error sets no condition for the target.
RenderFails(n) ==
  /\ pc = "space"
  /\ n \in targetNamespaces
  /\ Unrendered
  /\ failed' = failed \cup {Current(n).entry}
  /\ targetNamespaces' = targetNamespaces \ {n}
  /\ UNCHANGED <<api, listed, object, outer, edits, faults, pc, rendered,
                 conflictDetection, managedResources, seenClusterConditions,
                 seenTargetConditions, resourcesToDelete>>

\* The same target was rendered before.  Identical bytes are skipped, different
\* ones are an error; either way the target gets a condition.
RenderedBefore(n) ==
  /\ pc = "space"
  /\ n \in targetNamespaces
  /\ ~Unrendered
  /\ Handled(Current(n))
  /\ seenTargetConditions' = seenTargetConditions \cup {Current(n).key}
  /\ failed' = IF \E d \in conflictDetection : /\ d.key = Current(n).key
                                               /\ d.raw # Current(n).raw
               THEN failed \cup {Current(n).entry} ELSE failed
  /\ targetNamespaces' = targetNamespaces \ {n}
  /\ UNCHANGED <<api, listed, object, outer, edits, faults, pc, rendered,
                 conflictDetection, managedResources, seenClusterConditions,
                 resourcesToDelete>>

OwnedByThis(o) == o.owner = cur
\* Mutant: the owner of an existing object is not looked at.
OwnedByNobody(o) == FALSE

OwnedByOther(o) == ~OwnedByThis(o) /\ o.owner # NoOwner

\* What the conflict policy makes of an object that is already there.
ConflictVerdict(t, o) ==
  IF \/ OwnedByThis(o)
     \/ t.conflict = "Overwrite" /\ o.state # "deleting" /\ ~OwnedByOther(o)
  THEN "sync"
  ELSE IF t.conflict = "Skip" THEN "skip" ELSE "fail"

\* What the namespace policy makes of the namespace of an object that is not.
NamespaceVerdict(t, c, n) ==
  IF n = NoNamespace \/ NamespaceState(c, n) = "live" THEN "sync"
  ELSE IF t.missing = "Create" /\ NamespaceState(c, n) = "absent" THEN "create"
  ELSE IF t.missing = "Skip" THEN "skip" ELSE "fail"

Verdict(t, e) ==
  IF ~Reachable(e.cluster) THEN "fail"
  ELSE IF store[Loc(e)].state # "absent" THEN ConflictVerdict(t, store[Loc(e)])
       ELSE NamespaceVerdict(t, e.cluster, e.namespace)

\* A target that a policy or a failing call keeps from being synced.
Decline(n) ==
  LET x == Current(n)
      v == Verdict(targetDef, x.entry)
  IN /\ pc = "space"
     /\ n \in targetNamespaces
     /\ ~Unrendered
     /\ ~Handled(x)
     /\ conflictDetection' = conflictDetection \cup {[key |-> x.key, raw |-> x.raw]}
     /\ \/ v = "skip" /\ UNCHANGED <<faults, failed>>
        \/ v = "fail" /\ failed' = failed \cup {x.entry} /\ UNCHANGED faults
        \/ Fault /\ failed' = failed \cup {x.entry}
     /\ seenTargetConditions' = seenTargetConditions \cup {x.key}
     /\ targetNamespaces' = targetNamespaces \ {n}
     /\ UNCHANGED <<api, listed, object, outer, edits, pc, rendered,
                    managedResources, seenClusterConditions, resourcesToDelete>>

\* A target that may be synced: it has to be in the status before it is written.
Accept(n) ==
  LET x == Current(n)
      v == Verdict(targetDef, x.entry)
  IN /\ pc = "space"
     /\ n \in targetNamespaces
     /\ ~Unrendered
     /\ ~Handled(x)
     /\ v \in {"sync", "create"}
     /\ conflictDetection' = conflictDetection \cup {[key |-> x.key, raw |-> x.raw]}
     /\ namespaces' =
          IF v = "create"
          THEN [namespaces EXCEPT ![x.entry.cluster][x.entry.namespace].state = "live"]
          ELSE namespaces
     /\ rendered' = x
     /\ pc' = IF x.entry \in rep.status THEN "write" ELSE "track"
     /\ UNCHANGED <<listed, object, loop, replica, cached, clusters, store,
                    source, edits, faults, managedResources,
                    seenClusterConditions, seenTargetConditions, failed,
                    resourcesToDelete>>

\* The rest of the iteration after a failed call: a condition for the target.
GiveUpTarget ==
  /\ failed' = failed \cup {rendered.entry}
  /\ seenTargetConditions' = seenTargetConditions \cup {rendered.key}
  /\ targetNamespaces' = targetNamespaces \ {rendered.space}
  /\ rendered' = NoRendering
  /\ pc' = "space"
  /\ UNCHANGED managedResources

\* The status patch replaces the whole list on the server by the one in memory.
\* When it fails, the new entry stays in memory and OldObject is not renewed.
TrackInStatus ==
  LET list == rep.status \cup {rendered.entry}
      patched == [replica EXCEPT ![cur].status = list]
      present == replica[cur].phase # "absent"
  IN /\ pc = "track"
     /\ \/ /\ present
           /\ replica' = patched
           /\ rep' = [replica[cur] EXCEPT !.status = list, !.spec = rep.spec]
           /\ old' = list
           /\ pc' = "write"
           /\ UNCHANGED <<faults, rendered, targetNamespaces, managedResources,
                          seenTargetConditions, failed>>
        \/ /\ \/ present /\ Fault /\ replica' \in {replica, patched}
              \/ ~present /\ UNCHANGED <<replica, faults>>
           /\ rep' = [rep EXCEPT !.status = list]
           /\ GiveUpTarget
           /\ UNCHANGED old
     /\ UNCHANGED <<world, listed, outer, store, conflictDetection,
                    seenClusterConditions, resourcesToDelete>>

\* The object after CreateOrUpdate: our labels and content, and the deletion
\* policy label if the object has one.
Written(o) ==
  [state   |-> IF o.state = "absent" THEN "live" ELSE o.state,
   owner   |-> cur,
   content |-> rendered.raw,
   keep    |-> o.keep]

\* CreateOrUpdate reads the object again and writes it with its resource
\* version, so it is one step; an outdated read is one more failure.
CreateOrUpdate ==
  LET e == rendered.entry
      synced == [store EXCEPT ![Loc(e)] = Written(@)]
  IN /\ pc = "write"
     /\ \/ /\ CanWrite(e)
           /\ store' = synced
           /\ managedResources' = managedResources \cup {e}
           /\ seenTargetConditions' = seenTargetConditions \cup {rendered.key}
           /\ targetNamespaces' = targetNamespaces \ {rendered.space}
           /\ rendered' = NoRendering
           /\ pc' = "space"
           /\ UNCHANGED <<faults, failed>>
        \/ /\ \/ CanWrite(e) /\ Fault /\ store' \in {store, synced}
              \/ ~CanWrite(e) /\ UNCHANGED <<store, faults>>
           /\ GiveUpTarget
     /\ UNCHANGED <<world, listed, object, outer, replica, conflictDetection,
                    seenClusterConditions, resourcesToDelete>>

------------------------------------------------------------------------------
(* handleDelete *)

\* Removing the last finalizer makes the API server drop the object.
WithoutFinalizer(o) ==
  IF o.phase = "deleting" THEN NoReplica ELSE [o EXCEPT !.finalizer = FALSE]

\* With entries left in the status the pass goes on to delete their objects.
HandleDelete ==
  LET released == [replica EXCEPT ![cur] = WithoutFinalizer(@)]
      present == replica[cur].phase # "absent"
  IN /\ pc = "delete"
     /\ \/ /\ rep.status # {}
           /\ pc' = "plan"
           /\ UNCHANGED <<object, replica, faults, cur, clusterList>>
        \/ /\ rep.status = {} /\ present
           /\ replica' = released
           /\ UNCHANGED faults
           /\ EndPass
        \/ /\ rep.status = {}
           /\ \/ present /\ Fault /\ replica' \in {replica, released}
              \/ ~present /\ UNCHANGED <<replica, faults>>
           /\ pc' = "status"
           /\ UNCHANGED <<object, cur, clusterList>>
     /\ UNCHANGED <<world, loop, results, store, sources, rendered,
                    resourcesToDelete>>

------------------------------------------------------------------------------
(* deleteObsoleteResources *)

\* Tracked but not synced in this pass.
Obsolete == rep.status \ managedResources

\* Mutant: entries on clusters that are gone are kept.
PrunedNever == {}

\* Entries whose Cluster resource is gone: forgotten, nothing to delete.
Pruned == {e \in Obsolete : /\ e.cluster \in Clusters
                            /\ clusterList[e.cluster].state = "absent"}

\* Entries spared because their cluster or they themselves got a condition.
Unhealthy(e) ==
  rep.phase # "deleting" /\ seenClusterConditions[e.cluster] = "False"
\* Mutant: an unhealthy cluster does not protect its entries.
SparedTargetsOnly == Obsolete \cap seenTargetConditions

Spared == {e \in Obsolete : Unhealthy(e) \/ e \in seenTargetConditions}

PlanDeletion ==
  /\ pc = "plan"
  /\ rep' = [rep EXCEPT !.status = @ \ Pruned]
  /\ resourcesToDelete' = (Obsolete \ Pruned) \ Spared
  /\ pc' = "obsolete"
  /\ UNCHANGED <<api, listed, loop, results, edits, faults, old, rendered>>

\* No access to the cluster: all of its obsolete resources stay in the status.
ObsoleteUnreachable(c) ==
  /\ pc = "obsolete"
  /\ \E e \in resourcesToDelete : e.cluster = c
  /\ \/ ~Reachable(c) /\ UNCHANGED faults
     \/ Fault
  /\ resourcesToDelete' = {e \in resourcesToDelete : e.cluster # c}
  /\ UNCHANGED <<api, listed, object, loop, results, edits, pc, rendered>>

\* Mutants: any (Cluster)Replica's object counts as managed; none does, as the
\* kind is compared without being lowered.
IsManagedByProvider(o) == o.owner # NoOwner
IsManagedCased(o) == FALSE

\* The labels name this (Cluster)Replica's kind and name.
IsManaged(o) ==
  o.owner # NoOwner /\ o.owner.kind = cur.kind /\ o.owner.name = cur.name

\* The object is gone or not ours: the entry is dropped from the status.
Forget(e) ==
  /\ pc = "obsolete"
  /\ e \in resourcesToDelete
  /\ Reachable(e.cluster)
  /\ ~IsManaged(store[Loc(e)])
  /\ resourcesToDelete' = resourcesToDelete \ {e}
  /\ rep' = [rep EXCEPT !.status = @ \ {e}]
  /\ UNCHANGED <<api, listed, loop, results, edits, faults, pc, old, rendered>>

\* The object is on its way out already, or cannot be read: the entry stays.
Await(e) ==
  /\ pc = "obsolete"
  /\ e \in resourcesToDelete
  /\ Reachable(e.cluster)
  /\ \/ /\ IsManaged(store[Loc(e)])
        /\ ~store[Loc(e)].keep
        /\ store[Loc(e)].state = "deleting"
        /\ UNCHANGED faults
     \/ Fault
  /\ resourcesToDelete' = resourcesToDelete \ {e}
  /\ UNCHANGED <<api, listed, object, loop, results, edits, pc, rendered>>

\* The object read is ours: decide from its labels what the next call does.
Decide(e) ==
  /\ pc = "obsolete"
  /\ e \in resourcesToDelete
  /\ Reachable(e.cluster)
  /\ IsManaged(store[Loc(e)])
  /\ store[Loc(e)].keep \/ store[Loc(e)].state = "live"
  /\ pc' = IF store[Loc(e)].keep THEN "release" ELSE "remove"
  /\ rendered' = [rendered EXCEPT !.entry = e]
  /\ UNCHANGED <<api, listed, object, loop, results, edits, faults,
                 resourcesToDelete>>

\* Delete carries no precondition and ignores that the object is gone.  The
\* entry stays in the status until a later pass finds the object gone.
RemoveObject ==
  LET e == rendered.entry
      removed == [store EXCEPT ![Loc(e)].state =
                                 IF @ = "absent" THEN @ ELSE "deleting"]
  IN /\ pc = "remove"
     /\ \/ Reachable(e.cluster) /\ store' = removed /\ UNCHANGED faults
        \/ Reachable(e.cluster) /\ Fault /\ store' \in {store, removed}
        \/ ~Reachable(e.cluster) /\ UNCHANGED <<store, faults>>
     /\ resourcesToDelete' = resourcesToDelete \ {e}
     /\ rendered' = NoRendering
     /\ pc' = "obsolete"
     /\ UNCHANGED <<world, listed, object, loop, results, replica>>

\* Deletion policy Keep: the object loses the controller's labels and the
\* policy label, and with that its entry in the status.
ReleaseObject ==
  LET e == rendered.entry
      stripped == [store EXCEPT ![Loc(e)].owner = NoOwner, ![Loc(e)].keep = FALSE]
      reached == Reachable(e.cluster) /\ store[Loc(e)].state # "absent"
  IN /\ pc = "release"
     /\ \/ /\ reached
           /\ store' = stripped
           /\ rep' = [rep EXCEPT !.status = @ \ {e}]
           /\ UNCHANGED faults
        \/ reached /\ Fault /\ store' \in {store, stripped} /\ UNCHANGED rep
        \/ ~reached /\ UNCHANGED <<store, rep, faults>>
     /\ resourcesToDelete' = resourcesToDelete \ {e}
     /\ rendered' = NoRendering
     /\ pc' = "obsolete"
     /\ UNCHANGED <<world, listed, loop, results, replica, old>>

EndDeletion ==
  /\ pc = "obsolete"
  /\ resourcesToDelete = {}
  /\ pc' = "status"
  /\ UNCHANGED <<api, listed, object, loop, results, edits, faults, rendered,
                 resourcesToDelete>>

------------------------------------------------------------------------------
(* The end of a pass *)

\* The final patch writes the list only if it differs from the one in OldObject.
UpdateStatus ==
  LET list == rep.status \cup managedResources
      patched == [replica EXCEPT ![cur].status = IF list = old THEN @ ELSE list]
  IN /\ pc = "status"
     /\ \/ replica[cur].phase # "absent" /\ replica' = patched /\ UNCHANGED faults
        \/ replica[cur].phase # "absent" /\ Fault /\ replica' = replica
        \/ replica[cur].phase = "absent" /\ UNCHANGED <<replica, faults>>
     /\ EndPass
     /\ UNCHANGED <<world, store>>

\* The process dies and is restarted: its cache is filled anew.
Crash ==
  /\ pc # "idle"
  /\ Fault
  /\ cached' = IF FreshReads THEN cached ELSE replica
  /\ EndPass
  /\ UNCHANGED <<replica, clusters, namespaces, store, source, edits>>

\* The informer receives the current version of a (Cluster)Replica.
CacheSync(r) ==
  /\ ~FreshReads
  /\ cached[r] # replica[r]
  /\ cached' = [cached EXCEPT ![r] = replica[r]]
  /\ UNCHANGED <<locals, replica, clusters, namespaces, store, source, edits,
                 faults>>

------------------------------------------------------------------------------
PassStep ==
  \/ ListClusters \/ EnsureFinalizer \/ FetchSources \/ NextTarget
  \/ \E c \in Refs : \/ SkipDeletingCluster(c) \/ ResolveNamespaces(c)
                     \/ ClusterUnavailable(c) \/ ObsoleteUnreachable(c)
  \/ EndCluster \/ EndTarget
  \/ \E n \in Spaces : RenderFails(n) \/ RenderedBefore(n) \/ Decline(n) \/ Accept(n)
  \/ TrackInStatus \/ CreateOrUpdate \/ HandleDelete \/ PlanDeletion
  \/ \E e \in Entries : Forget(e) \/ Await(e) \/ Decide(e)
  \/ RemoveObject \/ ReleaseObject \/ EndDeletion \/ UpdateStatus

Next ==
  \/ \E r \in Replicas : Start(r) \/ CacheSync(r)
  \/ PassStep
  \/ Crash
  \/ UserStep /\ UNCHANGED <<cached, faults, locals>>

Spec == Init /\ [][Next]_vars

------------------------------------------------------------------------------
(* Properties *)

\* The local state of a pass is what the code declares; only between passes is
\* there no (Cluster)Replica to work on.
PassTypeOK ==
  /\ pc \in {"idle", "list", "finalize", "sources", "target", "cluster", "space",
             "track", "write", "delete", "plan", "obsolete", "remove", "release",
             "status"}
  /\ cur \in Replicas \cup {NoOwner}
  /\ cur = NoOwner <=> pc = "idle"
  /\ rep \in ReplicaObjects
  /\ old \in SUBSET Entries
  /\ clusterList \in [Clusters -> Places({"absent", "live", "deleting"})]
  /\ sources \in Contents \cup {Missing}
  /\ targets \in Seq(Targets)
  /\ targetDef \in Targets
  /\ matchedClusters \in SUBSET Refs
  /\ targetDef.on = "nextTo" => matchedClusters \subseteq Clusters
  /\ clusterRef \in Refs
  /\ targetNamespaces \in SUBSET Spaces
  /\ rendered \in Renderings
  /\ conflictDetection \in SUBSET [key : Entries, raw : Raws]
  /\ managedResources \in SUBSET Entries
  /\ seenClusterConditions \in [Refs -> {"none", "True", "False"}]
  /\ seenTargetConditions \in SUBSET Entries
  /\ resourcesToDelete \in SUBSET Entries
  /\ failed \in SUBSET Entries

\* Every variable of the API servers and of the pass has the shape the code
\* gives it.
TypeOK ==
  /\ PlatformTypeOK
  /\ cached \in [Replicas -> ReplicaObjects]
  /\ faults \in Nat
  /\ PassTypeOK

\* Track of every copy: an object that carries a (Cluster)Replica's labels is in
\* the status list that the API server holds for it, and the (Cluster)Replica is
\* still there and held by its finalizer.  So neither a failing call nor a crash
\* between the status patch (635-644) and the write (646-674), nor a deletion
\* that races with either, leaves an object behind that nothing will clean up.
Tracked ==
  \A l \in Locations :
    store[l].owner # NoOwner =>
      /\ replica[store[l].owner].phase # "absent"
      /\ replica[store[l].owner].finalizer
      /\ \E e \in replica[store[l].owner].status : Loc(e) = l

\* "Whichever created the conflicting resource first is managing it": no step
\* hands an object of one (Cluster)Replica to another one, whatever happens
\* between the ownership check (517-577) and the write (646-674).
NoOwnershipTheft ==
  [][\A l \in Locations :
       store[l].owner # NoOwner /\ store'[l].owner # NoOwner
         => store'[l].owner = store[l].owner]_vars

\* Deleting an obsolete resource or releasing a kept one (915-929, 897-914)
\* touches no object that belongs to another (Cluster)Replica.
DeletesOnlyOwn ==
  [][\A l \in Locations :
       pc \in {"remove", "release"} /\ pc' = "obsolete" /\ store'[l] # store[l]
         => store[l].owner \in {NoOwner, cur}]_vars

\* "This is to avoid deleting resources that failed to be created/updated"
\* (825-826): a copy that could not be handled in this pass is not deleted by it.
FailedNotDeleted ==
  \A e \in failed \cap resourcesToDelete :
    store[Loc(e)].owner = cur => rep.phase = "deleting"

\* "We skip the resource updating logic as this should already have been handled
\* in a previous iteration" (471): a target that is passed over as an identical
\* copy was synced in this pass, or failed or was skipped.
IdenticalWasHandled ==
  [][\A n \in Spaces :
       RenderedBefore(n) /\ targetDef.conflict # "Skip" /\ targetDef.missing # "Skip"
         => Current(n).entry \in managedResources \cup failed']_vars

\* "deleteObsoleteResources deletes resources that are no longer managed by the
\* (Cluster)Replica" (733): an object the pass has just synced is not among them.
SyncedNotDeleted ==
  \A e \in resourcesToDelete, m \in managedResources : Loc(e) # Loc(m)

\* The objects' labels and the status lists, as CopyRegistry has them.
owners == [l \in Locations |-> store[l].owner]
lists == [r \in Replicas |-> replica[r].status]
PlaceOf == [e \in Entries |-> Loc(e)]
CR == INSTANCE CopyRegistry WITH owner <- owners, listed <- lists

\* With a current cache, whatever the pass, the users, failing calls and restarts
\* do, each of their steps is one that CopyRegistry allows, or none: copies are
\* claimed only after their entry was written (632-647), and entries dropped
\* only after their copy is gone or released (891-934).
ImplementsRegistry == CR!Spec

------------------------------------------------------------------------------
(* What the proofs assume of the constants, and the invariants they use. *)

\* The kind and the name already tell (Cluster)Replicas apart.
UniqueNames ==
  \A r, q \in Replicas : r.kind = q.kind /\ r.name = q.name => r = q

\* Target t can be iterated over cluster c and target namespace n.
Possible(t, c, n) ==
  /\ t.on = "hosting" <=> c = Host
  /\ \/ t.on = "nextTo" /\ n = NamespaceOf[c]
     \/ t.on # "nextTo" /\ t.by = "none" /\ n = NoNamespace
     \/ t.on # "nextTo" /\ t.by = "identities" /\ n \in t.names
     \/ t.on # "nextTo" /\ t.by = "labels" /\ n \in Namespaces

\* Within a spec, resources with the same entry in the status belong to the same
\* Cluster: for instance no two Clusters that a spec places the same resource
\* next to live in one namespace.
OneKeyPerEntry ==
  \A s \in Specs : \A i, j \in DOMAIN s.targets :
    \A c, d \in Refs, n, m \in Spaces :
      /\ Possible(s.targets[i], c, n)
      /\ Possible(s.targets[j], d, m)
      /\ EntryOf(s, s.targets[i], c, n) = EntryOf(s, s.targets[j], d, m)
      => c = d

\* A place without an object has no owner.
AbsentUnowned == \A l \in Locations : store[l].state = "absent" => store[l].owner = NoOwner

\* Between the ownership check and the write the object stays ours or nobody's.
TargetClaimable ==
  pc \in {"track", "write"} => store[Loc(rendered.entry)].owner \in {NoOwner, cur}

\* Between reading an obsolete object and acting on it likewise.
ObsoleteManaged ==
  pc \in {"remove", "release"} =>
    \/ store[Loc(rendered.entry)].owner = NoOwner
    \/ IsManaged(store[Loc(rendered.entry)])

Held(r) == replica[r].phase # "absent" /\ replica[r].finalizer

\* A status list is never without the finalizer.
StatusHeld == \A r \in Replicas : replica[r].status # {} => Held(r)

\* A cluster without Cluster resource has no owned objects, ...
GoneUnowned ==
  \A l \in Locations :
    l[1] \in Clusters /\ clusters[l[1]].state = "absent" => store[l].owner = NoOwner

\* ... and one that was not listed has none of this (Cluster)Replica.
UnlistedUnowned ==
  pc \in {"finalize", "sources", "target", "cluster", "space", "track", "write",
          "delete", "plan"}
  => \A l \in Locations :
       l[1] \in Clusters /\ clusterList[l[1]].state = "absent"
         => store[l].owner # cur

\* The pass has nothing to write to the status.
Quiet == rep.status = {} /\ managedResources = {}

\* A pass that has anything to write holds the finalizer, in memory and on the
\* API server.
PassHeld ==
  /\ pc \notin {"idle", "status"} /\ rep.finalizer => Held(cur)
  /\ pc # "idle" => \/ rep.finalizer /\ Held(cur)
                    \/ pc \in {"list", "finalize", "delete", "status"} /\ Quiet
  /\ pc \in {"idle", "list", "finalize", "sources", "delete"} => managedResources = {}

\* Entries on the server that the pass has let go of have no object any more;
\* until the deletion of obsolete resources begins it lets go of none.
LetGo ==
  /\ pc # "idle" => \A e \in replica[cur].status \ rep.status : store[Loc(e)].owner # cur
  /\ pc \in {"list", "finalize", "sources", "target", "cluster", "space", "track",
             "write", "delete"}
     => replica[cur].status \subseteq rep.status

\* Where the loops over targets, clusters and namespaces are.
InSpec(t) == \E i \in DOMAIN rep.spec.targets : rep.spec.targets[i] = t
OnListed(c) ==
  /\ targetDef.on = "hosting" <=> c = Host
  /\ c \in Clusters => clusterList[c].state # "absent"
LoopPosition ==
  /\ pc \in {"target", "cluster", "space", "track", "write"}
     => \A i \in DOMAIN targets : InSpec(targets[i])
  /\ pc \in {"cluster", "space", "track", "write"}
     => InSpec(targetDef) /\ \A c \in matchedClusters : OnListed(c)
  /\ pc \in {"space", "track", "write"}
     => /\ OnListed(clusterRef)
        /\ \A n \in targetNamespaces : Possible(targetDef, clusterRef, n)
  /\ pc \in {"track", "write"}
     => /\ rendered = Current(rendered.space)
        /\ Possible(targetDef, clusterRef, rendered.space)
        /\ Handled(rendered)

\* An entry that is only in memory, because the patch to add it failed, stems
\* from a resource that conflict detection will not let through again.
InMemoryOnly ==
  /\ pc \in {"list", "finalize", "sources"} => rep.status \subseteq replica[cur].status
  /\ pc \in {"target", "cluster", "space", "track", "write"}
     => \A e \in rep.status \ replica[cur].status :
          \E i \in DOMAIN rep.spec.targets, c \in Refs, n \in Spaces :
            /\ Possible(rep.spec.targets[i], c, n)
            /\ e = EntryOf(rep.spec, rep.spec.targets[i], c, n)
            /\ \E d \in conflictDetection : d.key = KeyOf(rep.spec, c, n)

\* What is about to be written is in the status on the API server.
WriteTracked == pc = "write" => rendered.entry \in replica[cur].status

TrackingInv ==
  /\ Tracked /\ StatusHeld /\ GoneUnowned /\ UnlistedUnowned /\ PassHeld
  /\ LetGo /\ LoopPosition /\ InMemoryOnly /\ WriteTracked
OwnershipInv == AbsentUnowned /\ TargetClaimable /\ ObsoleteManaged

------------------------------------------------------------------------------
(* Liveness *)

\* The single worker never stops in the middle of a pass, a (Cluster)Replica
\* that needs another pass gets one (errors and pending deletions requeue it,
\* 110-133), and an object in deletion is eventually dropped.
Fairness ==
  /\ WF_vars(PassStep)
  /\ \A r \in Replicas : SF_vars(Start(r))
  /\ WF_vars((\E l \in Locations : Vanish(l)) /\ UNCHANGED <<cached, faults, locals>>)
FairSpec == Spec /\ Fairness

\* Deletion completes (703-731): once a (Cluster)Replica is in deletion its
\* copies are cleaned up and it disappears - though calls fail, the controller
\* restarts and clusters come and go - unless it is annotated to be ignored.
DeletionCompletes ==
  \A r \in Replicas :
    replica[r].phase = "deleting"
      ~> (replica[r].phase = "absent" \/ replica[r].op = "ignore")

=============================================================================
