# Verification of the Resource Replicator

TLA+ models of `platform-service-resource-replicator`, TLC configurations that
check them on small instances, and TLAPS proofs. Line numbers without a file name
refer to `src/internal/replica/controller.go`.

## The system

A *Replica* (namespaced) or *ClusterReplica* (cluster-scoped) names source
resources on the platform cluster, an optional Go template and a list of target
definitions. The operator copies the source, rendered by the template, to every
place the target definitions select, and removes copies that are not selected any
more. "(Cluster)Replica" stands for both kinds.

| Component | State | Operations | Talks to |
|---|---|---|---|
| replica controller, `internal/replica` | none between passes but the requeue store; within a pass: the object read, its copy `OldObject`, the Cluster list, `conflictDetection`, `managedResources`, conditions to be, `resourcesToDelete` | `Reconcile`: `handleCreateOrUpdate` or `handleDelete`, then `deleteObsoleteResources`, then the status update | platform API server through an informer cache, target clusters through the provider |
| shared notification, `internal/shared` | pending set, channel of 1000 | `EnqueueReplica`, `ClearPending` | called by the cluster handler and the namespace controller; feeds the workqueue of the replica controller |
| cluster handler, `internal/cluster` | `clusterStates` | `HandleCreateOrUpdate`, `HandleDelete`, `AfterDeletion` | lists (Cluster)Replicas, calls `EnqueueReplica` |
| namespace controller, `internal/namespace` | its start time | `Reconcile` on every change or deletion of a namespace, and on creations after the start | lists (Cluster)Replicas, calls `EnqueueReplica` |
| API types, `api/core/v1alpha1` | spec, status list of created resources, labels of a copy | list operations, selectors, policy defaults | used by all |
| setup, CRDs, generated code, documentation helper | none | | |

The status list `status.replicas` is the only record of where copies are, and the
finalizer keeps a (Cluster)Replica until that list is empty. The labels on a copy
name its owner. All of the correctness of the operator rests on these three staying
consistent while users change everything concurrently, calls fail and the process
restarts between any two API calls.

What makes this hard:

* a pass makes many API calls, and users, other controllers and the API servers
  act between any two of them;
* every call may fail, or take effect although its response is lost, and the rest
  of the pass goes on with what is in memory;
* the (Cluster)Replica is read through a cache that may lag behind the
  controller's own writes;
* what must not be deleted is derived from conditions, whose keys and coverage
  differ between kinds of targets and of failures;
* notifications travel through a bounded, deduplicating channel filled by several
  goroutines with the lock released in between;
* an event handler looks at a cached (Cluster)Replica and decides whether it
  concerns it, while a pass over it reads other state at other times: each may
  leave a change to the other;
* conditions outlive the pass that set them, and decide about phase and polling.

What makes each component correct:

* replica controller: a copy is never left without a status entry and a finalizer
  that will clean it up; no (Cluster)Replica takes over or deletes what belongs to
  another one; a copy that could not be handled is not deleted for that reason; a
  synced copy is not deleted; deletion completes; polling goes on as long as there
  is something to wait for, and no longer; what is not served is tried again;
* shared notification: a pending mark is always going to be removed; a request is
  never lost silently;
* cluster handler and namespace controller: every event that changes what a
  (Cluster)Replica has to do leads to a pass;
* status list: it behaves like a set of entries.

## Modules

| Module | Models |
|---|---|
| `Platform` | the API objects, the selectors, and the changes users and other controllers make |
| `ReplicaController` | extends `Platform`: one replica controller instance, call by call |
| `CopyRegistry` | what `ReplicaController` promises: objects, their owners and the lists |
| `ReplicaStatus` | conditions, phase, status list and requeueing, one step per pass |
| `CreatedResources` | `status.replicas` as nested lists with the operations of `utils.go` |
| `EntrySet` | what `CreatedResources` promises: a set of entries |
| `SharedInformation` | `internal/shared` and the way into the workqueue |
| `ClusterHandler`, `NamespaceController` | which (Cluster)Replicas an event enqueues |
| `Triggers` | extends these two, contains `SharedInformation`: from a change to the passes that act on it |
| `MC...` | the specs, identities and places that the configurations use |
| `...Proofs` | theorems about the module of that name; `PlatformProofs` has lemmas about `Platform` that several need, `FailureProofs` what `ReplicaController` does with failed and with synced copies |

Three refinements tie the modules together: `ReplicaController` implements
`CopyRegistry` (`ImplementsRegistry`), `CreatedResources` implements `EntrySet`
(`ActsAsSet`), which justifies that all other modules use a set of entries, and
`Triggers` implements `SharedInformation` (`UsesSharedInformation`), so that what
is proved about the latter holds for the composed system.

### Platform

`replica` holds the (Cluster)Replicas (phase, spec, finalizer, operation
annotation, status list), `clusters` the Cluster resources, `namespaces` the
namespaces of every cluster, `store` the objects that targets can denote, `source`
the content of the source. An entry of the status list is a cluster, a namespace
and a *resource*, which is group, version, kind and name; `ObjectOf` maps a resource
to the API object, which versions of one kind share. `Host` is the hosting platform
cluster, the nil cluster reference in the code.

A spec is reduced to what the control flow depends on: does the template parse, is
there one, which template data its output varies with, which namespace and resource
the output names (`home`, `resource`), and the target definitions with their
selectors and policies. A label selector is the set of labels it accepts.

The user actions are external to the repository. They are bounded by `MaxEdits`;
finishing a deletion (`Vanish`, `NamespaceGone`, `ClusterGone`) is not. A Cluster resource is taken
to disappear together with its cluster, and a platform namespace that holds Cluster
resources stays.

### ReplicaController

A pass is a sequence of steps, and `pc` names the next one. It is split at the
API calls whose outcome concurrent changes can alter.

| Step | Code |
|---|---|
| `Start` | `Reconcile`, `reconcile` up to 187: read, operation annotation |
| `ListClusters` | 189-207 |
| `EnsureFinalizer`, `FetchSources` | 233-291 |
| `NextTarget`, `SkipDeletingCluster`, `ResolveNamespaces`, `ClusterUnavailable`, `EndCluster`, `EndTarget` | the loops over target definitions and clusters, 297-379, 691-700 |
| `RenderFails`, `RenderedBefore`, `Decline`, `Accept` | one target namespace up to the decision to sync, 381-632 |
| `TrackInStatus`, `CreateOrUpdate` | 634-644, 646-688 |
| `HandleDelete` | 703-731 |
| `PlanDeletion` | what is obsolete, pruned and spared, 736-856 |
| `ObsoleteUnreachable`, `Forget`, `Await`, `Decide`, `RemoveObject`, `ReleaseObject`, `EndDeletion` | the deletion loop, 858-942 |
| `UpdateStatus` | 209-224 and the status patch, 91-138 |
| `Crash`, `CacheSync` | restart of the process, progress of the informer |

`failed` is a history variable: the entries whose handling failed in this pass.
`Fault` is a failing call, bounded by `MaxFaults`; for writes it includes the call
that took effect although the response was lost (a namespace that was created so is
covered by a user creating it right after). `FreshReads = FALSE` lets the informer
cache lag behind by any number of versions, in the order of the versions.

Abstractions:

* a pass may start at any time; which event triggers it is left to the other
  components, so safety holds for every trigger;
* there is one worker (controller-runtime's default) and one instance; leader
  election is off by default (`run.go` 61), so a deployment must not run two pods;
* several sources are one content; a source that cannot be read ends the pass like
  a missing one;
* the status list is a set of entries, which `CreatedResources` justifies; a target
  condition is identified by the same three fields, so the shortening of condition types to 300 characters is left out;
* conditions of earlier passes, the phase and the requeueing are left to
  `ReplicaStatus`, as the steps above do not read them;
* the list of Clusters, namespaces and target objects is read as it is at that
  moment (the objects are unstructured and therefore not cached); the loop over the
  targets keeps the spec it started with, although `Patch` decodes the response
  into the object that is being iterated;
* the deletion policy label has the value Keep or is absent, and the generation
  label is left out.

### SharedInformation

Each `EnqueueReplica` call is up to three steps, as the code holds the lock only
for each of them: the duplicate check with the mark, the send, and the removal of
the mark after a failed send. `Deliver`, `Take` and `Trigger` are the channel source
and the workqueue. `owed` and `dropped` are history: the keys requested since their
object was last read, and those of them with a request that was dropped.

`Reset` is for tests; in `Triggers` it is the start of a new process.

### ReplicaStatus

One (Cluster)Replica and whole passes. A spec is a sequence of target definitions, each
on one cluster and with the keys it asks for there; a key stands for a target condition,
and `Entry` is the line of the status list for it, which differs only for NextTo
(`Beside`): the condition names the Cluster and the entry the hosting cluster.
A definition whose Cluster is gone or in deletion is passed over; it is
`Unreachable` (343-362) or `Unselective` (364-370, a selector that cannot be evaluated) or
`Resolved`. `Outcome` says what becomes of each key of each resolved definition:
unrendered, synced, skipped, failed, and identical or different if an earlier
definition has rendered the key already. As in the code, of the conditions that
definitions leave for a key or a cluster the last one counts (`TargetStatus`,
`ClusterStatus`), while every failure is among the errors (`CreateErrors`).
`Deletion` is `deleteObsoleteResources` with pruning, sparing, failing calls, the Keep label and
deletions in progress; `Updated` merges all conditions into those on the server as
`WithConditionUpdater(false)` does (what a pass does not mention stays), and
`PhaseOf` and `Requeue` are the functions of 99-123. A cluster is up, down (no access),
failing (access, but every call fails), or its Cluster is in deletion or gone.
Single calls that fail between the tracking and the write of a copy (637-642, 676-681) are left to
`ReplicaController`. `wake` says why there will be another pass: an event,
the retry of an error, the smart requeue with or without backoff, the interval, or
none. A condition is absent, True, False, or False with one of the two reasons of
waiting.

### CreatedResources

The lists grouped by type, in memory and on the server, and the operations in the
order in which a pass calls them: track (632-644), remove (934), `Cleanup` (937), add
what is managed (213-217), store. The empty reference that callers pass for
the hosting cluster is a value of its own; `Normalized` makes it nil.

### ClusterHandler, NamespaceController and Triggers

`clusterQueue` and `namespaceQueue` hold the events not yet handled, `clusterTodo`
and `namespaceTodo` what the handler's loop has still to pass to `EnqueueReplica`.
`watch` is, per (Cluster)Replica, the sequence of versions from the one in the informer
cache to the one on the server; `Observe` delivers the next version and applies the
predicates of 971-993. The handlers read the cache. A pass is six steps: read,
resolve what is selected, patch the status, write and delete, patch the status,
end. `Sync` only starts the deletion of what is obsolete; the entries stay in the list, and the
pass comes back, until `CopyVanishes` has removed the objects. A copy that is
selected again before that is written and stays in deletion; `revived` is history:
the places where the last write met such a copy. `Served` leaves these places
out, as nothing in the code serves them without the interval (see Known gaps). `Restart` forgets everything in memory; the informers then announce all
(Cluster)Replicas and Clusters, but namespaces are older than the new start time.
The predicate of the namespace controller lets all updates and deletions pass (a
`predicate.Funcs` accepts what it has no function for), not only changed labels.

There is no periodic reconciliation in `Triggers` (an interval of 0), since with it
everything is served in the end whatever the handlers do. Targets with policy Skip
are excluded by `RetriedAssumption`: what is skipped is not retried by design.
`starting` holds until something is created after the second in which the process
started; `unseen` is history: the namespaces created within that second, which
`CreateFunc` takes for older ones. `NewMatchesServed` leaves them out,
as nothing in the code serves them without the interval (see Known gaps).

## Runs

Runs that pass:

| Run | Shows | Bounds |
|---|---|---|
| `core_tracking` | `Tracked`: a copy is always listed in the status of its owner, which is held by its finalizer; `ImplementsRegistry`; `IdenticalWasHandled`: what is passed over as rendered before was synced in this pass or has failed in it (its condition becomes True all the same, 483, so that only the returned error is left of the failure); `DeletionCompletes` under fairness | one (Cluster)Replica, one cluster and namespace, two contents (one unrenderable), all kinds of targets, three of them overlapping with identical and with different output, 2 edits, 1 fault |
| `core_ownership` | `NoOwnershipTheft`, `DeletesOnlyOwn`, `FailedNotDeleted` with two competing (Cluster)Replicas and a lagging cache | two names, 2 edits, 1 fault |
| `shared_pending` | `PendingIsCarried`, `NoSilentLoss`, `PendingClears` | 2 keys, 2 goroutines, capacity 2 |
| `triggers_new` | `NewMatchesServed`: when nothing is under way, every selected place has its copy; `UsesSharedInformation` | a cluster and a namespace with two labels, Onto and NextTo targets, a channel of 1, 2 edits, cache 1 version behind |
| `triggers_live` | `EventuallyServed` under fairness, with edits of specs and annotations | hosting targets by label or name, a channel of 1, 2 edits, cache 1 version behind |
| `status_polling` | `PollsOnlyWhileWaiting`; `UnservedIsRetried`: a pass that leaves a selected target unserved returns an error, whatever the conditions say; and under fairness `ObsoleteRemoved`, `FinalizerRemoved`, `HealthyWhenFixed` | a key on a cluster and one on the hosting cluster; five specs with definitions that overlap with identical and with different output, an invalid selector, policies Fail and Skip and an unparsable template; 3 edits, 1 failing update |
| `created_resources` | `NoDuplicates`, `EmptyMeansNone`, `ActsAsSet` | 2 types, 3 references, 3 targets per pass, any number of passes |

`TypeOK` is checked for every specification in one of these runs.

Two edits and a fault suffice for every finding below, each of which needs at most
one edit and one fault; finishing a deletion costs no edit, so a Cluster can go away
while its (Cluster)Replica is being deleted. A channel of two fills up and is
overtaken by two goroutines with two keys. In `Triggers` two edits let an event, the
cache and a pass overtake each other, with a restart at any point; in
`ReplicaStatus` three let a target be deselected, become unreachable and be
selected again. Relabelling is left to `Triggers`: `core_tracking` has one label, and
the theorems about its safety properties hold for any labels. All safety
properties of these runs are also proved without any bound (see Proofs).

Deadlock is not checked for the controllers: without a (Cluster)Replica they have
nothing to do, and the users have their bound.

Runs that TLC refutes, each against a statement in the repository:

| Run | What happens |
|---|---|
| `same_name` | Replicas `ns1/foo` and `ns2/foo` have an entry for one object, which the second owns. Deleting the first deletes the object, as `isManaged` (894) does not look at the namespace label. |
| `template_failure` | The source changes so that the template fails: the copies get no condition (446, 457), look obsolete and are deleted. |
| `stale_cache` | The user deletes the (Cluster)Replica during its first pass. The next pass sees the deletion in the cache but not yet the status list, removes the finalizer, and the copy is orphaned. |
| `version_change` | After a change of apiVersion the old entry is obsolete (796-800) and its object, just synced under the new version, is deleted. |
| `obsolete_stays` | A Cluster is relabelled after a pass listed it. Its event finds no selector that matches, and a namespaced entry does not count (`handler.go` 139), so nothing is enqueued and the copy that the pass writes stays. |

`core_ownership` checks `FailedNotDeleted` for Onto targets whose template renders,
where unreachable clusters and failing calls are the only failures: there the
conditions do protect the copies.

### Known gaps

The passing runs stay clear of the following, which the modules describe and which
show up when the instance is changed as said:

* a NextTo copy whose write fails is deleted by the same pass, as its condition is
  filed under the Cluster (678) and its status entry under the hosting cluster (849):
  `FailedNotDeleted` with a NextTo target and one fault;
* an Onto and a NextTo target for one Cluster that render the same name have one
  conflict detection key (474), so the second copy is never made:
  `IdenticalWasHandled` with a spec of these two targets. The same holds for a target
  that follows one with the same key and policy Skip, which was skipped;
* two Clusters in one namespace share the entry of a NextTo copy: after the failed
  patch for the first, the second finds the entry in memory (632) and writes the copy
  untracked: `Tracked` with two Clusters, which `OneKeyPerEntry` excludes;
* a namespace relabelled after a pass listed it, with its event handled before the
  status patch is in the cache (`namespace/controller.go` 136), keeps the copy:
  `ObsoleteServed` with a target on the hosting cluster;
* an edit that changes the spec and takes the reconcile annotation away in one
  update passes no watch predicate (984-989), as it looks like the removal of the
  annotation by the controller. The pass that the annotation has caused gets the new
  spec with the response to its own patch; but the event of a namespace that changes
  after this pass has listed the namespaces, handled with the old spec still
  in the cache, is taken for irrelevant, and the place stays unserved:
  `NewMatchesServed` with two specs whose targets on the hosting cluster select
  namespaces by different labels, and three edits. The specs of the runs differ in
  too little for it, with three edits as well;
* a namespace that the template names (a target without a namespace selector) and
  that is deleted and created again between the write of the copy and the moment the
  status list is in the cache leads to no pass: `NewMatchesServed` with an
  Onto target without a selector and `home` set;
* where two targets of a spec select one Cluster, `seenClusterConditions` (827-831)
  keeps the last condition set for it: the True of the second target hides the False
  of the first, and the entries of the first are deleted as obsolete:
  `FailedNotDeleted` with such a spec and one fault. A namespace selector
  that cannot be evaluated (364-370) leaves no condition, and 691 sets the one of its
  Cluster True. The error is retried in both cases;
* the phase is Ready while copies are missing, although
  `docs/usage/replica.md` 302 says that a failure is shown in the conditions and the
  Replica does not become healthy: after an identical second rendering, which sets True over
  the False of the first (480-484), with an invalid namespace selector, where a later
  definition succeeds on a Cluster that failed before (345, 361, 691), and after a
  template error, whose condition is True (444). `UnservedIsRetried` shows that
  such passes are repeated nevertheless; with `phase' = "Ready"` in place of
  `wake' # "retry"` it fails;
* a copy that is still in deletion when its place is selected again counts as ours
  whatever its deletion timestamp (523-525); the write succeeds (647), the waiting
  condition becomes True (688) and the polling ends. The object then disappears, no
  event tells of it, and the selected place stays empty: `NewMatchesServed` and
  `EventuallyServed` without the exception for `revived`, with a label that is taken
  away and given back while the copy has finalizers;
* if the first of two definitions with identical output skips a target (policy Skip),
  the second is passed over (480-484) and its own policy is not applied;
* a namespace created after the start, but in the same second, gets no event
  (`namespace/controller.go` 162): `NewMatchesServed` without the exception for `unseen`;
* the waiting condition of a NextTo copy is filed under the hosting cluster (927),
  so it is not overwritten when the copy is selected again (688) and polling goes on for
  ever: `PollsOnlyWhileWaiting` with a NextTo definition;
* conditions that a pass does not mention stay (97): the one of a source that was
  taken out of the spec, of an unreachable Cluster that then disappeared, or of a failed
  target in a namespace that was relabelled before the target was ever tracked, stays
  False for ever, the last one without any edit of the spec: hence the exception
  `Leftover` of `HealthyWhenFixed`;
* with the label-based identity of `same_name` a (Cluster)Replica can delete the
  copy of its namesake, and with two versions of one object a pass can delete what it
  has just written (`version_change`), both without an event for the one that loses
  it: `NewMatchesServed` fails then, too, hence `DistinctNames` and `OneVersion`;
* a request suppressed as a duplicate of one that then finds the channel full
  (`shared.go` 70-82) is served by nobody, though the drop of the first is logged:
  hence `NoSilentLoss` excuses all requests for a key after a drop;
* the patch that removes the reconcile annotation (174) also removes an ignore
  annotation set meanwhile;
* `clusterStates` (`handler.go` 54) never gets a first entry, so every Cluster event
  enqueues; this costs passes and loses nothing.

### Fairness

`core_tracking` assumes for `DeletionCompletes` that a pass goes on (the worker is a
running goroutine), that a (Cluster)Replica that may be reconciled repeatedly gets its turn (`SF` on `Start`,
as the queue is first come, first served: a pass over a (Cluster)Replica in deletion
ends with an error, which is retried, or with one of the two waiting conditions,
which requeue it, 110-133), and that an object in deletion disappears, which
depends on the finalizers others put on it. Edits and faults are finite in number,
so calls succeed eventually.
`shared_pending` assumes that goroutines are scheduled and that the queue serves
every key; it assumes nothing about further requests.
`triggers_live` assumes that informers deliver, that goroutines go on, and strong
fairness for the handlers and for taking a key from a queue: these are first come,
first served, and interrupted only by other entries of the same queue. It does not
assume any periodic event.
`status_polling` assumes that a pass that something asks for
takes place, and that an object in deletion disappears; nothing is assumed about passes
that nobody asks for, which is what this run is about.

## Proofs

All theorems hold for every value of the constants that satisfies the named
assumptions of the modules: any number of (Cluster)Replicas, clusters, namespaces,
specs, edits, faults, goroutines, any channel capacity and any lag. "Further
assumptions" are hypotheses of the theorem; for each one a run or an entry of Known gaps
shows that the property fails without it.

| Theorem | Further assumptions | Inductive invariant |
|---|---|---|
| `ReplicaControllerProofs!TypeCorrect` | none | `TypeOK` |
| `ReplicaControllerProofs!FirstCreatorManages`: `NoOwnershipTheft` | none, the cache may lag | `OwnershipInv` |
| `ReplicaControllerProofs!UniqueNamesDeleteOwn`: `DeletesOnlyOwn` | `UniqueNames` | `OwnershipInv` |
| `ReplicaControllerProofs!CopiesAreTracked`: `Tracked` | `FreshReads`, `OneKeyPerEntry` | `TypeOK`, `TrackingInv` |
| `CopyRegistryProofs!ControllerImplementsRegistry`: `ImplementsRegistry` | `FreshReads`, `OneKeyPerEntry` | `TypeOK`, `TrackingInv`, `OwnershipInv` |
| `FailureProofs!OrderlyKeepFailed`: `FailedNotDeleted` | `Orderly` | `TypeOK`, `LoopPosition`, `Fresh`, `NotSynced`, `ApartAhead`, `FailedProtected`, `FailedSpared` |
| `FailureProofs!OneVersionKeepsSynced`: `SyncedNotDeleted` | `OneVersion` | `TypeOK`, `Fresh`, `NotSynced` |
| `FailureProofs!AlikeIdenticalHandled`: `IdenticalWasHandled` | `TargetsAlike` | `TypeOK`, `LoopPosition`, `Fresh`, `NotSynced`, `RenderedHandled` |
| `ReplicaStatusProofs!TypeCorrect` | none | `TypeOK` |
| `ReplicaStatusProofs!UnservedTargetsAreRetried`: `UnservedIsRetried` | `KindsApart` | `TypeOK` |
| `ReplicaStatusProofs!PollsWhileWaiting`: `PollsOnlyWhileWaiting` | `NoNextTo` | `TypeOK`, `WaitingIsTracked` |
| `CreatedResourcesProofs!TypeCorrect`, `ListsHaveNoDuplicates`: `NoDuplicates`, `WrittenListsHaveNoEmptyGroup`: `EmptyMeansNone`, `ListsActAsSets`: `ActsAsSet` | none | `Inv` |
| `SharedInformationProofs!TypeCorrect`, `PendingIsCarriedAlways`, `NoSilentLossAlways` | none | `TypeOK`, `PendingIsCarried`, `NoSilentLoss` |
| `TriggersProofs!TriggersUseShared`: `UsesSharedInformation` | none | `WorkerKnown` |
| `TriggersProofs!TypeCorrect` | none | `TypeInv`, `Existing` |
| `TriggersProofs!EveryMatchServed`: `NewMatchesServed` | `OwnNamespaces`, `DistinctNames`, `OneVersion`, `[][KeepsReconcile]_vars` | `TypeInv`, `Existing`, `PendingIsCarried`, `Delivery` |

The inductive invariants were checked with TLC before they were proved.

Ownership. There are two calls between the check of an object's labels and the
write. What saves the controller is that it is the only one to put an owner on
an object, and that it works on one (Cluster)Replica at a time: whatever
happens in between, the object stays this one's or becomes nobody's
(`TargetClaimable`, `ObsoleteManaged`), and an absent object has no owner
(`AbsentUnowned`). The second theorem needs `UniqueNames`, as `same_name` shows.

Tracking. `Tracked` alone is not inductive: a pass could write an object whose entry
exists in its memory only, or overwrite the server's list with one that lacks an
entry. `TrackingInv` adds: a status list implies the finalizer (`StatusHeld`); a
pass that could write anything holds the finalizer in memory and on the server
(`PassHeld`); entries that the pass has let go of have no object of its own any
more, and it lets go of none before the deletion phase (`LetGo`); clusters that
are gone or were not listed have no such objects (`GoneUnowned`,
`UnlistedUnowned`), which justifies pruning; an entry only in memory stems from a
failed patch for a resource that conflict detection will not let through again
(`InMemoryOnly`), so that what is written is on the server (`WriteTracked`).
The last point needs `OneKeyPerEntry`: no two Clusters of a spec share a status
entry. It fails for a NextTo target with a fixed name and two matching Clusters in
one namespace. `FreshReads` is needed, as `stale_cache` shows.

The registry. Each step of the controller changes at most the owner of one object
(by `CreateOrUpdate`, to this (Cluster)Replica) or one list; owners are otherwise
only lost. That the claim finds the entry on the server is `WriteTracked`, that the
object is free or ours `TargetClaimable`, and that a list that is rewritten covers
all copies `Tracked` in the next state: hence both invariants.

Failed and synced copies. What is spared from deletion follows from conditions that
the loops leave behind, so the proofs are about the loops. `LoopPosition` says where
they are: the target definition, cluster and namespaces in hand come from the spec. A
failure is protected until the deletion is planned (`FailedProtected`): its entry has a
condition of its own, or its cluster has condition False and no target still to come
selects that cluster (`ApartAhead`), so nothing turns it True. `Orderly` says just what
this needs: the targets of a spec select different clusters (`ClustersApart`), and each
failure leaves a condition under the key the deletion looks for (`FailuresSeen`: no
NextTo target, no invalid selector, templates that render). From there on the failed
entries are not among those to delete (`FailedSpared`) unless the
(Cluster)Replica is being deleted. `NotSynced` is the
same for synced entries and needs no hypothesis; `OneVersion` carries it from entries
to objects. `RenderedHandled`: each conflict detection key stands for an entry that is
synced or failed; the key names the cluster but not whether the target is NextTo or may
skip, hence `TargetsAlike` for targets that can share keys. The specs of
`core_tracking` satisfy it.

Status. A waiting condition is about a copy in the status list (`WaitingIsTracked`),
which every pass therefore looks at again; the pass replaces the condition once
the copy is gone or is selected again. `UnservedIsRetried` is a property of a single
pass: without an error every definition that matches was resolved and rendered
(`AllRendered`), so for each of its keys there is a first definition to render it
(`FirstIsElement`, from the well-foundedness of the naturals), which has synced or skipped it.
That the others may then be passed over needs `KindsApart`: a NextTo definition and
another one with the same key mean different objects (474).

The status list. The operations are defined with positions in nested sequences, and
`Cleanup` as a recursive function over them. The invariant says that a type has one
group and a group no element twice; with it each operation adds or removes exactly one
entry of `EntriesIn`, and the lookup, which stops at the first group of the type, is
membership (`ContainsRawIsMembership`). What `Cleanup` computes for lists of
any length is proved by induction: the set of lengths for which the claim fails has a least
element (from the well-foundedness of the naturals), and one unfolding of the recursion
refutes it.

Triggers. Every step of the composition either leaves the variables of
`SharedInformation` alone or contains one of its actions, whose guards are the
composition's. `WorkerKnown` adds that the key the worker serves is a
(Cluster)Replica, which a pass that ends with an error puts back into the queue.

Pending marks. Every step that takes a key away from one of its carriers (a call
in progress, the channel, the queue, the worker before it clears the mark) hands it
to the next or removes the mark (`CarriedOn`).

No missed change. `NewMatchesServed` speaks of quiet states, and says nothing of how
they are reached. `Delivery` follows a (Cluster)Replica from its last change to its last
pass. It calls it *up* when nothing leads to another pass over it: no version that
triggers one is on its way through the watch, no request is queued and no handler is
about to make one. Then

* an informer that is behind sees no old spec, as each version that changes the spec
  triggers a pass when it is seen (`Settling`; this is where `KeepsReconcile` is needed);
* the pass that runs over it works on the current spec, and on the current state of
  every Cluster that has no event left (`PassCurrent`): a change after the pass
  listed the Clusters has an event, whose handler finds the current spec in the cache
  and enqueues (it never suppresses one: `NoStates`);
* every place that is selected has its copy, or is in the hands of the running pass,
  which will write it or end with a retry, or an event is left that tells of it
  (`Covered`).

`PlanFree` sees to it that the pass may write what it has in hand. A place that was
served has a copy that is not in deletion, or one that was written again while it
was (`Kept`, with `revived`): that a pass starts the deletion of nothing but its own
obsolete copies needs `DistinctNames` and `OneVersion` (`SyncLeaves`). A
namespace event finds the selector that matches; for namespaces that only a template
names it would have to find the status entry instead, which the cache may lack, hence
`OwnNamespaces`. A request that was dropped because the channel was full is
excused by the property itself, and the invariant `PendingIsCarried` of
`SharedInformation` is used for the rest: a request that is suppressed as a
duplicate has a carrier.

Only model-checked: liveness (`DeletionCompletes`, `PendingClears`,
`EventuallyServed`, `ObsoleteRemoved`, `FinalizerRemoved`, `HealthyWhenFixed`), as
the prover has no support for fairness.

## Not modelled

The command line and the setup of managers, CRD installation, scheme registration,
generated deep copies and the documentation helper keep no state that the controllers
share. Of the modelled components the following is left out: the text of templates,
conditions, events and logs; the shortening of condition types to 300 characters;
the duration of intervals and backoffs; several workers or instances at once; failing
list calls in the event handlers, which only delay the event. `PROJECT.json` lists
the components, and with a note the hazards that no property covers.

## Plan

All components with state are modelled, and every safety property of a passing run
is proved. What is left, in this order:

1. `Tracked` under a weaker hypothesis than `FreshReads`: which lag of the cache is
   harmless.
2. The safety part of the liveness properties: a (Cluster)Replica in deletion always
   has a reason for another pass (`ReplicaStatus`), without fairness.
3. `OwnNamespaces` replaced by a condition on the lag of the cache.
