----------------------------- MODULE ReplicaStatus -----------------------------
(***************************************************************************)
(* What a pass leaves for the next one: the conditions, the phase and the  *)
(* status list of one (Cluster)Replica, and when the controller will look  *)
(* at it again.  A pass is one step here; ReplicaController has the calls  *)
(* it consists of.  Passes happen only when something asks for one.        *)
(***************************************************************************)
EXTENDS Naturals, Sequences, FiniteSets

CONSTANTS
  Keys,       \* target resources of clusters, as conditions and entries name them
  Clusters, Host,
  OnCluster,  \* the cluster that a key names
  Beside,     \* the key of the same resource on the hosting cluster, for NextTo
  Raws,       \* what a target can be rendered to
  Sources,    \* names of source resources
  Specs,      \* the specs users choose from
  Periodic,   \* TRUE: spec.interval is not zero
  MaxEdits, MaxFaults

\* A target definition on one of the clusters it matches: the keys of what it
\* asks for there, and how the namespaces are selected that these belong to.
TargetDefs ==
  [cluster : Clusters \cup {Host}, nextTo : BOOLEAN, keys : SUBSET Keys,
   by : {"names", "labels", "invalid"}, policy : {"Overwrite", "Skip", "Fail"},
   raw : Raws]

ASSUME KeysAssumption ==
  /\ Host \notin Clusters
  /\ OnCluster \in [Keys -> Clusters \cup {Host}]
  /\ Beside \in [Keys -> Keys]
  /\ \A k \in Keys : OnCluster[Beside[k]] = Host
ASSUME SpecsAssumption ==
  /\ Specs # {}
  /\ Specs \subseteq [parses : BOOLEAN, source : Sources, targets : Seq(TargetDefs)]
  /\ \A s \in Specs : \A i \in DOMAIN s.targets :
       /\ \A k \in s.targets[i].keys : OnCluster[k] = s.targets[i].cluster
       /\ s.targets[i].nextTo => s.targets[i].cluster \in Clusters
ASSUME BoundsAssumption == Periodic \in BOOLEAN /\ MaxEdits \in Nat /\ MaxFaults \in Nat

SourceCondition(s) == <<"Source", s>>
TargetCondition(k) == <<"Target", k>>
ClusterCondition(c) == <<"Cluster", c>>
Meta == <<"Meta", "">>
TemplatingError == <<"TemplatingError", "">>

Types ==
  {SourceCondition(s) : s \in Sources} \cup {TargetCondition(k) : k \in Keys}
    \cup {ClusterCondition(c) : c \in Clusters \cup {Host}} \cup {Meta, TemplatingError}

\* The status of a condition; "Waiting" is False with one of the two reasons
\* that stand for a deletion in progress.
Statuses == {"none", "True", "False", "Waiting"}

VARIABLES
  object,      \* the (Cluster)Replica: "live", "deleting" or "absent"
  spec,
  sources,     \* the source resources that exist
  cluster,     \* what a pass finds: the cluster is "up", "failing" (all calls to it
               \* fail) or "down" (no access), its Cluster in deletion or gone
  broken,      \* the template fails on the current sources
  store,       \* the places of the copies: empty, somebody's, or ours, which is
               \* "kept" by a user's deletion policy label or in deletion
  list,        \* status.replicas
  conditions,  \* status.conditions
  phase,       \* status.phase
  observed,    \* status.observedGeneration is the current generation
  wake,        \* why there will be another pass
  edits, faults

world == <<object, spec, sources, cluster, broken, store>>
status == <<list, conditions, phase, observed>>
vars == <<world, status, wake, edits, faults>>

Init ==
  /\ object = "live"
  /\ spec \in Specs
  /\ sources \in SUBSET Sources
  /\ cluster = [c \in Clusters |-> "up"]
  /\ broken = FALSE
  /\ store = [e \in Keys |-> "absent"]
  /\ list = {}
  /\ conditions = [t \in Types |-> "none"]
  /\ phase = "" /\ observed = FALSE /\ wake = "event"
  /\ edits = 0 /\ faults = 0

Accesses == {"up", "failing", "down", "ending", "gone"}
Access(c) == IF c \in Clusters THEN cluster[c] ELSE "up"

------------------------------------------------------------------------------
(* Users, other controllers and the API servers *)

Edit == edits < MaxEdits /\ edits' = edits + 1

EditSpec(s) ==
  /\ Edit
  /\ object # "absent" /\ spec # s
  /\ spec' = s
  /\ observed' = FALSE
  /\ wake' = "event"
  /\ UNCHANGED <<object, sources, cluster, broken, store, list, conditions, phase, faults>>

DeleteReplica ==
  /\ Edit
  /\ object = "live"
  /\ object' = "deleting"
  /\ observed' = FALSE
  /\ wake' = "event"
  /\ UNCHANGED <<spec, sources, cluster, broken, store, list, conditions, phase, faults>>

\* A source is created or deleted, or is changed so that the template fails or
\* works again: the controller does not watch sources.
EditSources(s, b) ==
  /\ Edit
  /\ sources' = s /\ broken' = b
  /\ <<s, b>> # <<sources, broken>>
  /\ UNCHANGED <<object, spec, cluster, store, status, wake, faults>>

EditCluster(c, access) ==
  /\ Edit
  /\ cluster[c] # "gone" /\ cluster[c] # access
  /\ cluster[c] = "ending" => access = "gone"
  /\ cluster' = [cluster EXCEPT ![c] = access]
  /\ store' = [e \in Keys |->
                 IF access = "gone" /\ OnCluster[e] = c THEN "absent" ELSE store[e]]
  /\ UNCHANGED <<object, spec, sources, broken, status, wake, faults>>

\* A user creates an object where a copy belongs, or removes it again.
EditForeign(e) ==
  /\ Edit
  /\ Access(OnCluster[e]) # "gone"
  /\ store[e] \in {"absent", "foreign"}
  /\ store' = [store EXCEPT ![e] = IF @ = "absent" THEN "foreign" ELSE "absent"]
  /\ UNCHANGED <<object, spec, sources, cluster, broken, status, wake, faults>>

\* A user gives a copy the deletion policy label with value Keep.
KeepCopy(e) ==
  /\ Edit
  /\ store[e] = "live"
  /\ store' = [store EXCEPT ![e] = "kept"]
  /\ UNCHANGED <<object, spec, sources, cluster, broken, status, wake, faults>>

\* The cluster handler or the namespace controller asks for a pass, or the
\* process restarts and its informers announce the (Cluster)Replica.
Event ==
  /\ Edit
  /\ object # "absent"
  /\ wake' = "event"
  /\ UNCHANGED <<world, status, faults>>

Vanish(e) ==
  /\ store[e] = "deleting"
  /\ store' = [store EXCEPT ![e] = "absent"]
  /\ UNCHANGED <<object, spec, sources, cluster, broken, status, wake, edits, faults>>

------------------------------------------------------------------------------
(* handleCreateOrUpdate *)

SourcesRead == spec.source \in sources

\* Otherwise handleCreateOrUpdate returns before it looks at the targets.
Resolvable == spec.parses /\ SourcesRead

Def(i) == spec.targets[i]
Entry(i, k) == IF Def(i).nextTo THEN Beside[k] ELSE k

\* The target definitions that match a Cluster and are not to vanish with it.
Matching == {i \in DOMAIN spec.targets : Access(Def(i).cluster) \notin {"ending", "gone"}}

\* Those whose cluster cannot be accessed or whose namespaces cannot be listed,
\* and those with a selector that cannot be evaluated, which leaves no condition.
Unreachable ==
  {i \in DOMAIN spec.targets :
     /\ ~Def(i).nextTo
     /\ \/ Access(Def(i).cluster) = "down"
        \/ Access(Def(i).cluster) = "failing" /\ Def(i).by # "names"}
Unselective ==
  {i \in DOMAIN spec.targets :
     ~Def(i).nextTo /\ Access(Def(i).cluster) = "up" /\ Def(i).by = "invalid"}
Resolved == Matching \ (Unreachable \cup Unselective)

\* Conflict detection: who renders key k, who was first and who comes last.
Renders(k) == IF broken THEN {} ELSE {i \in Resolved : k \in Def(i).keys}
FirstOf(S) == CHOOSE i \in S : \A j \in S : i <= j
LastOf(S) == CHOOSE i \in S : \A j \in S : j <= i

\* What becomes of key k of target definition i.
Outcome(i, k) ==
  LET first == FirstOf(Renders(k)) IN
  IF broken THEN "unrendered"
  ELSE IF i # first
  THEN IF Def(i).raw = Def(first).raw THEN "identical" ELSE "different"
  ELSE IF Access(OnCluster[Entry(i, k)]) = "failing" THEN "failed"
  ELSE IF store[Entry(i, k)] # "foreign" \/ Def(i).policy = "Overwrite" THEN "synced"
  ELSE IF Def(i).policy = "Skip" THEN "skipped" ELSE "failed"

With(outcomes) ==
  {x \in Resolved \X Keys : x[2] \in Def(x[1]).keys /\ Outcome(x[1], x[2]) \in outcomes}

Unrendered == With({"unrendered"}) # {}

\* The conditions that target definitions leave: of several the last one counts,
\* be it for a cluster (345, 361, 691) or for a key (478, 483, 688).
ClusterStatus(c) ==
  LET is == {i \in Matching : Def(i).cluster = c}
  IN IF is = {} THEN "none" ELSE IF LastOf(is) \in Unreachable THEN "False" ELSE "True"
TargetStatus(k) ==
  LET is == Renders(k)
  IN IF is = {} THEN "none"
  ELSE IF Outcome(LastOf(is), k) \in {"different", "failed"} THEN "False"
  ELSE "True"

\* The conditions a pass over a live object creates before it deletes anything.
Created(t) ==
  IF ~spec.parses THEN IF t = Meta THEN "False" ELSE "none"
  ELSE IF ~SourcesRead THEN IF t = SourceCondition(spec.source) THEN "False" ELSE "none"
  ELSE IF t[1] = "Cluster" THEN ClusterStatus(t[2])
  ELSE IF t[1] = "Target" THEN TargetStatus(t[2])
  ELSE IF t \in {Meta, SourceCondition(spec.source)}
          \/ (t = TemplatingError /\ Unrendered)
  THEN "True" ELSE "none"

\* Mutants: a conflict, or a selector that cannot be evaluated, is not an error.
CreateErrorsButConflicts ==
  ~Resolvable \/ Unreachable \cup Unselective # {} \/ With({"unrendered", "different"}) # {}
CreateErrorsButSelectors ==
  ~Resolvable \/ Unreachable # {} \/ With({"unrendered", "different", "failed"}) # {}

\* Every failure is among the errors the pass returns.
CreateErrors ==
  \/ ~Resolvable
  \/ Unreachable \cup Unselective # {}
  \/ With({"unrendered", "different", "failed"}) # {}

------------------------------------------------------------------------------
(* deleteObsoleteResources *)

Managed == IF object = "live" /\ Resolvable
           THEN {Entry(x[1], x[2]) : x \in With({"synced"})} ELSE {}
Tracked == list \cup Managed

\* Nothing is obsolete if the managed resources could not be determined.
Obsolete == IF object = "live" /\ ~Resolvable THEN {} ELSE Tracked \ Managed
Spared(e) ==
  /\ object = "live"
  /\ \/ Created(ClusterCondition(OnCluster[e])) = "False"
     \/ Created(TargetCondition(e)) # "none"

\* What the pass does about the status entries of obsolete copies: it gives up on
\* those it cannot access, what is not there, not ours or to be kept is done with,
\* the rest is deleted and waited for.
Deletion ==
  [e \in Obsolete |->
     IF Access(OnCluster[e]) = "gone" THEN "pruned"
     ELSE IF Spared(e) THEN "spared"
     ELSE IF Access(OnCluster[e]) \in {"down", "failing"} THEN "failed"
     ELSE IF store[e] \in {"absent", "foreign", "kept"} THEN "gone"
     ELSE "waiting"]
Those(d, fates) == {e \in DOMAIN d : d[e] \in fates}

\* ConditionsToRemove
Removed(d) ==
  {TargetCondition(e) : e \in Those(d, {"gone", "pruned"})}
    \cup {ClusterCondition(OnCluster[e]) : e \in Those(d, {"pruned"})}
    \cup (IF object = "live" /\ Resolvable /\ ~Unrendered THEN {TemplatingError} ELSE {})

------------------------------------------------------------------------------
(* Reconcile *)

\* Mutant: what the pass waits for outlives the waiting.
UpdatedNotRemoving(d) ==
  [t \in Types |->
     IF t \in {TargetCondition(e) : e \in Those(d, {"waiting"})} THEN "Waiting"
     ELSE IF object = "live" /\ Created(t) # "none" THEN Created(t)
     ELSE conditions[t]]

\* Conditions that no part of the pass mentions stay as they are.
Updated(d) ==
  [t \in Types |->
     IF t \in Removed(d) THEN "none"
     ELSE IF t \in {TargetCondition(e) : e \in Those(d, {"waiting"})} THEN "Waiting"
     ELSE IF t \in {TargetCondition(e) : e \in Those(d, {"failed"})} THEN "False"
     ELSE IF object = "deleting" THEN IF t = Meta THEN "Waiting" ELSE conditions[t]
     ELSE IF Created(t) # "none" THEN Created(t)
     ELSE conditions[t]]

PhaseOf(cons) ==
  IF object = "deleting" THEN "Terminating"
  ELSE IF \E t \in Types : cons[t] \in {"False", "Waiting"} THEN "Progressing"
  ELSE "Ready"

\* Mutants: only the end of all copies is waited for, or only that of one copy.
RequeueForMeta(cons) == IF cons[Meta] = "Waiting" THEN "backoff" ELSE "none"
RequeueForTargets(cons) ==
  IF \E k \in Keys : cons[TargetCondition(k)] = "Waiting" THEN "backoff"
  ELSE "none"

\* The smart requeue polls while any condition says that a deletion is awaited;
\* the interval applies if it is shorter or there is nothing to poll for.
Requeue(cons) ==
  IF \E t \in Types : cons[t] = "Waiting"
  THEN IF observed THEN "backoff" ELSE "reset"
  ELSE IF Periodic THEN "interval" ELSE "none"

\* What a pass does to the copies, whatever becomes of its status update.
Sync(d) ==
  store' = [e \in Keys |->
              IF e \in Those(d, {"waiting"}) THEN "deleting"
              ELSE IF e \in Those(d, {"gone"}) /\ store[e] = "kept" THEN "foreign"
              ELSE IF e \in Managed /\ store[e] \notin {"kept", "deleting"} THEN "live"
              ELSE store[e]]

Reconcile ==
  /\ wake # "none"
  /\ object = "live" \/ list # {}
  /\ observed' = TRUE
  /\ UNCHANGED <<object, spec, sources, cluster, broken, edits, faults>>
  /\ \E d \in {Deletion} :
       /\ Sync(d)
       /\ list' = Tracked \ Those(d, {"gone", "pruned"})
       /\ conditions' = Updated(d)
       /\ phase' = PhaseOf(conditions')
       /\ wake' = IF Those(d, {"failed"}) # {} \/ (object = "live" /\ CreateErrors)
                  THEN "retry" ELSE Requeue(conditions')

\* The status update fails: what was tracked before it was written remains.
StatusUpdateFails ==
  /\ wake # "none"
  /\ object = "live" \/ list # {}
  /\ faults < MaxFaults /\ faults' = faults + 1
  /\ \E d \in {Deletion} : Sync(d)
  /\ list' = Tracked
  /\ wake' = "retry"
  /\ UNCHANGED <<object, spec, sources, cluster, broken, conditions, phase, observed,
                 edits>>

\* Mutant: the finalizer goes although copies are left.
RemoveFinalizerEarly ==
  /\ wake # "none"
  /\ object = "deleting"
  /\ object' = "absent"
  /\ wake' = "none"
  /\ UNCHANGED <<spec, sources, cluster, broken, store, status, edits, faults>>

\* With an empty list the finalizer is removed and the object disappears.
RemoveFinalizer ==
  /\ wake # "none"
  /\ object = "deleting" /\ list = {}
  /\ object' = "absent"
  /\ wake' = "none"
  /\ UNCHANGED <<spec, sources, cluster, broken, store, status, edits, faults>>

Pass == Reconcile \/ RemoveFinalizer

Next ==
  \/ \E s \in Specs : EditSpec(s)
  \/ DeleteReplica
  \/ \E s \in SUBSET Sources, b \in BOOLEAN : EditSources(s, b)
  \/ \E c \in Clusters, access \in Accesses : EditCluster(c, access)
  \/ \E e \in Keys : EditForeign(e) \/ KeepCopy(e) \/ Vanish(e)
  \/ Event
  \/ Pass \/ StatusUpdateFails

Spec == Init /\ [][Next]_vars

\* A pass that was asked for takes place - by the workqueue, which retries after
\* errors, or by the delay a pass returned - and deletions come to an end.
Fairness == WF_vars(Pass) /\ \A e \in Keys : WF_vars(Vanish(e))
FairSpec == Spec /\ Fairness

------------------------------------------------------------------------------
(* Properties *)

\* Every variable has the shape the code gives it, and a (Cluster)Replica that
\* is gone left nothing behind.
TypeOK ==
  /\ object = "absent" => list = {}
  /\ object \in {"live", "deleting", "absent"}
  /\ spec \in Specs
  /\ sources \in SUBSET Sources
  /\ cluster \in [Clusters -> Accesses]
  /\ broken \in BOOLEAN /\ observed \in BOOLEAN
  /\ store \in [Keys -> {"absent", "foreign", "live", "kept", "deleting"}]
  /\ list \in SUBSET Keys
  /\ conditions \in [Types -> Statuses]
  /\ phase \in {"", "Ready", "Progressing", "Terminating"}
  /\ wake \in {"none", "event", "retry", "reset", "backoff", "interval"}
  /\ edits \in Nat /\ faults \in Nat

Selected == UNION {{Entry(i, k) : k \in Def(i).keys} : i \in Matching}

\* "We use the smart requeue here only when waiting for resources to be deleted"
\* (110): a pass over a live (Cluster)Replica that asks to be polled has a
\* copy whose deletion is in progress.
PollsOnlyWhileWaiting ==
  [][object = "live" /\ wake' \in {"reset", "backoff"} /\ Reconcile
       => \E e \in list' : store'[e] = "deleting"]_vars

\* A pass that asks for no retry has brought every target that the spec selects
\* into place, or skipped it as one of its definitions says.  The conditions are not
\* enough for that, and the phase may be Ready with copies missing: the True of a
\* later definition replaces an earlier False (483, 691), a selector that cannot
\* be evaluated leaves none (364-370), and that of a template error is True (444).
UnservedIsRetried ==
  [][object = "live" /\ wake' # "retry" /\ Reconcile
       => \A i \in Matching : \A k \in Def(i).keys :
            \/ \E j \in Renders(k) : Outcome(j, k) = "skipped"
            \/ /\ Entry(i, k) \in list'
               /\ store'[Entry(i, k)] \in {"live", "kept", "deleting"}]_vars

\* Something keeps passes from succeeding.
Problem == CreateErrors
Leftover == \E t \in Types : conditions[t] = "False" /\ Created(t) = "none"
Inaccessible == \E c \in Clusters : cluster[c] \in {"failing", "down"}

\* Copies that the spec does not select any more are removed, without any event
\* or interval: errors and awaited deletions bring about the passes it takes
\* (110-133).
ObsoleteRemoved ==
  object = "live" /\ wake # "none" ~> list \subseteq Selected \/ Problem \/ Inaccessible

\* The same passes let a deleted (Cluster)Replica go (707-719).
FinalizerRemoved == object = "deleting" ~> object = "absent" \/ Inaccessible

\* "It will not become healthy as long as the problem persists" (docs/usage/
\* replica.md:302): once all problems are gone for good, the phase becomes and
\* stays Ready, unless a condition is left False that passes do not touch any
\* more, because what it is about is not selected or matched any longer (97).
HealthyWhenFixed ==
  <>[](object = "live" /\ ~Problem /\ ~Leftover) => <>[](phase = "Ready")

=============================================================================
