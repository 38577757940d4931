------------------------------- MODULE Platform -------------------------------
(***************************************************************************)
(* The API objects the resource replicator works on - (Cluster)Replicas,   *)
(* Cluster resources, the namespaces and objects of every cluster, and the *)
(* source resource - and the users and other controllers that change them. *)
(***************************************************************************)
EXTENDS Naturals, Sequences, FiniteSets

CONSTANTS
  Replicas,     \* identities [kind, namespace, name] of (Cluster)Replicas
  NoOwner,      \* stands for "no replica": an object without source labels
  Clusters,     \* the Cluster resources of the platform
  Host,         \* the hosting platform cluster (the nil cluster reference)
  Namespaces,   \* namespace names
  NoNamespace,  \* the empty namespace
  NamespaceOf,  \* the platform namespace in which a Cluster resource lives
  Resources,    \* what a target resource is called: group, version, kind, name
  ObjectOf,     \* the API object a resource denotes (versions share one)
  Labels,       \* label values that selectors can tell apart
  Contents,     \* contents of the source resource
  Missing,      \* the source resource does not exist
  Unrenderable, \* contents on which a template fails to execute or unmarshal
  NoContent,    \* content of an object no Replica has written
  Specs,        \* the specs users give to Replicas
  MaxEdits      \* bound on the changes users and other controllers make

Refs == Clusters \cup {Host}
Spaces == Namespaces \cup {NoNamespace}

\* An entry of status.replicas; a target condition is identified the same way.
Entries == [cluster : Refs, namespace : Spaces, resource : Resources]

\* Where the object that an entry names is stored.
Locations == Refs \X Spaces \X {ObjectOf[k] : k \in Resources}
Loc(e) == <<e.cluster, e.namespace, ObjectOf[e.resource]>>

\* The bytes a target renders to: the source and the template data it uses.
Raws == [content : Contents \cup {Missing}, cluster : Refs, namespace : Spaces]

Targets ==
  [on       : {"hosting", "onto", "nextTo"},
   selector : SUBSET Labels,
   by       : {"none", "identities", "labels", "invalid"},
   names    : SUBSET Namespaces,
   nsLabels : SUBSET Labels,
   conflict : {"Overwrite", "Skip", "Fail"},
   missing  : {"Create", "Skip", "Fail"}]

SpecShape ==
  [parses    : BOOLEAN,
   templated : BOOLEAN,
   varies    : SUBSET {"cluster", "namespace"},
   home      : Spaces,
   resource  : [Refs -> Resources],
   targets   : Seq(Targets)]

ASSUME ReplicasAssumption ==
  /\ \A r \in Replicas : {"kind", "namespace", "name"} \subseteq DOMAIN r
  /\ NoOwner \notin Replicas
ASSUME PlacesAssumption ==
  /\ Host \notin Clusters
  /\ NoNamespace \notin Namespaces
  /\ NamespaceOf \in [Clusters -> Namespaces]
ASSUME ResourcesAssumption == Resources # {} /\ DOMAIN ObjectOf = Resources
ASSUME LabelsAssumption == Labels # {}
ASSUME SpecsAssumption ==
  /\ Specs # {}
  /\ \A s \in Specs :
       /\ s \in SpecShape
       /\ ~s.templated => s.varies = {} /\ \A c, d \in Refs : s.resource[c] = s.resource[d]
ASSUME EditsAssumption == MaxEdits \in Nat

ReplicaObjects ==
  [phase : {"absent", "live", "deleting"}, spec : Specs, finalizer : BOOLEAN,
   op : {"none", "ignore", "reconcile"}, status : SUBSET Entries]
NoReplica ==
  [phase |-> "absent", spec |-> CHOOSE s \in Specs : TRUE,
   finalizer |-> FALSE, op |-> "none", status |-> {}]
NewReplica(s) == [NoReplica EXCEPT !.phase = "live", !.spec = s]

Places(states) == [state : states, label : Labels]

Objects ==
  [state : {"absent", "live", "deleting"}, owner : Replicas \cup {NoOwner},
   content : Raws \cup {NoContent}, keep : BOOLEAN]
NoObject ==
  [state |-> "absent", owner |-> NoOwner, content |-> NoContent, keep |-> FALSE]

VARIABLES
  replica,     \* the (Cluster)Replicas on the API server
  clusters,    \* the Cluster resources
  namespaces,  \* the namespaces of every cluster
  store,       \* the objects in every cluster that a target can denote
  source,      \* content of the source resource
  edits        \* how many changes users have made

platform == <<replica, clusters, namespaces, store, source>>

\* Every (Cluster)Replica is yet to be created or was just created; clusters
\* are up, their namespaces exist or not, all with the same labels, and the
\* objects are still to come.
PlatformInit ==
  /\ replica \in [Replicas -> {NoReplica} \cup {NewReplica(s) : s \in Specs}]
  /\ \E x \in Labels :
       /\ clusters = [c \in Clusters |-> [state |-> "live", label |-> x]]
       /\ namespaces \in
            [Refs -> [Namespaces -> [state : {"live", "absent"}, label : {x}]]]
  /\ \A c \in Clusters : namespaces[Host][NamespaceOf[c]].state = "live"
  /\ store = [l \in Locations |-> NoObject]
  /\ source \in Contents
  /\ edits = 0

PlatformTypeOK ==
  /\ replica \in [Replicas -> ReplicaObjects]
  /\ clusters \in [Clusters -> Places({"absent", "live", "deleting"})]
  /\ namespaces \in
       [Refs -> [Namespaces -> Places({"absent", "live", "deleting"})]]
  /\ store \in [Locations -> Objects]
  /\ source \in Contents \cup {Missing}
  /\ edits \in Nat

\* A cluster can be accessed as long as its Cluster resource is there.
Reachable(c) == c \in Clusters => clusters[c].state # "absent"
NamespaceState(c, n) == namespaces[c][n].state

------------------------------------------------------------------------------
(* What a spec selects: clusters, namespaces on them, and the resource for each. *)

Matches(t, list) ==
  IF t.on = "hosting" THEN {Host}
  ELSE {c \in Clusters : /\ list[c].state # "absent"
                         /\ list[c].label \in t.selector}

\* Mutant: the Cluster's name in place of its namespace.
SelectedByClusterName(t, c) ==
  IF t.on = "nextTo" THEN {c} ELSE {NoNamespace}

\* The namespace selector of t matches namespace n of cluster c.  An empty
\* selector accepts all labels, one that cannot be evaluated matches nothing.
SelectorMatches(t, c, n) ==
  \/ t.by = "identities" /\ n \in t.names
  \/ t.by = "labels" /\ namespaces[c][n].label \in t.nsLabels

\* The namespaces a target definition selects on a cluster it can access: those
\* named, whether they exist or not, or those that match; the empty namespace
\* means that the rendered resource names its own.
SelectedNamespaces(t, c) ==
  IF t.on = "nextTo" THEN {NamespaceOf[c]}
  ELSE CASE t.by = "none"       -> {NoNamespace}
         [] t.by = "identities" -> t.names
         [] t.by \in {"labels", "invalid"} ->
              {n \in Namespaces : /\ NamespaceState(c, n) # "absent"
                                  /\ SelectorMatches(t, c, n)}

\* What spec s names the resource it renders for cluster c and target namespace
\* n in conditions and for conflict detection, and what target t of s names it in
\* the status: they differ for a resource placed next to its Cluster.
KeyOf(s, c, n) ==
  [cluster |-> c, namespace |-> IF n = NoNamespace THEN s.home ELSE n,
   resource |-> s.resource[c]]
EntryOf(s, t, c, n) ==
  [KeyOf(s, c, n) EXCEPT !.cluster = IF t.on = "nextTo" THEN Host ELSE c]

\* The (Cluster)Replicas that an event handler considers: those in its cache
\* reps that are not to be ignored.
Listed(reps) == {r \in Replicas : reps[r].phase # "absent" /\ reps[r].op # "ignore"}

\* An object can be created only in a namespace that is there to stay.
CanWrite(e) ==
  /\ Reachable(e.cluster)
  /\ \/ store[Loc(e)].state # "absent"
     \/ e.namespace = NoNamespace
     \/ NamespaceState(e.cluster, e.namespace) = "live"

------------------------------------------------------------------------------
(* Users and other controllers *)

Edit == edits < MaxEdits /\ edits' = edits + 1

CreateReplica(r, s) ==
  /\ Edit
  /\ replica[r].phase = "absent"
  /\ replica' = [replica EXCEPT ![r] = NewReplica(s)]
  /\ UNCHANGED <<clusters, namespaces, store, source>>

EditReplica(r, s, op) ==
  /\ Edit
  /\ replica[r].phase # "absent"
  /\ replica' = [replica EXCEPT ![r].spec = s, ![r].op = op]
  /\ replica' # replica
  /\ UNCHANGED <<clusters, namespaces, store, source>>

DeleteReplica(r) ==
  /\ Edit
  /\ replica[r].phase = "live"
  /\ replica' = [replica EXCEPT ![r] = IF @.finalizer
                                       THEN [@ EXCEPT !.phase = "deleting"]
                                       ELSE NoReplica]
  /\ UNCHANGED <<clusters, namespaces, store, source>>

EditSource(s) ==
  /\ Edit
  /\ source # s
  /\ source' = s
  /\ UNCHANGED <<replica, clusters, namespaces, store>>

\* A Cluster resource appears, changes its label or is put into deletion.
EditCluster(c, x) ==
  /\ Edit
  /\ clusters[c] # x
  /\ clusters[c].state = "deleting" => x.state = "deleting"
  /\ clusters[c].state = "absent" => x.state = "live"
  /\ clusters' = [clusters EXCEPT ![c] = x]
  /\ UNCHANGED <<replica, namespaces, store, source>>

\* A Cluster resource is dropped once the cluster it stands for is gone.
ClusterGone(c) ==
  /\ clusters[c].state = "deleting"
  /\ clusters' = [clusters EXCEPT ![c].state = "absent"]
  /\ namespaces' = [namespaces EXCEPT ![c] =
                      [n \in Namespaces |-> [@[n] EXCEPT !.state = "absent"]]]
  /\ store' = [l \in Locations |-> IF l[1] = c THEN NoObject ELSE store[l]]
  /\ UNCHANGED <<replica, source, edits>>

\* A namespace appears, changes its label or is put into deletion, and with it
\* all it contains.  Namespaces with Cluster resources in them are here to stay.
EditNamespace(c, n, x) ==
  /\ Edit
  /\ Reachable(c)
  /\ namespaces[c][n] # x
  /\ namespaces[c][n].state = "deleting" => x.state = "deleting"
  /\ namespaces[c][n].state = "absent" => x.state = "live"
  /\ (c = Host /\ \E d \in Clusters : NamespaceOf[d] = n) => x.state = "live"
  /\ namespaces' = [namespaces EXCEPT ![c][n] = x]
  /\ store' = [l \in Locations |->
                 IF /\ x.state = "deleting" /\ l[1] = c /\ l[2] = n
                    /\ store[l].state = "live"
                 THEN [store[l] EXCEPT !.state = "deleting"] ELSE store[l]]
  /\ UNCHANGED <<replica, clusters, source>>

NamespaceGone(c, n) ==
  /\ namespaces[c][n].state = "deleting"
  /\ \A l \in Locations : l[1] = c /\ l[2] = n => store[l].state = "absent"
  /\ namespaces' = [namespaces EXCEPT ![c][n].state = "absent"]
  /\ UNCHANGED <<replica, clusters, store, source, edits>>

\* A user creates an object of their own, ...
UserCreates(l) ==
  /\ Edit
  /\ Reachable(l[1])
  /\ l[2] # NoNamespace => NamespaceState(l[1], l[2]) = "live"
  /\ store[l].state = "absent"
  /\ store' = [store EXCEPT ![l].state = "live"]
  /\ UNCHANGED <<replica, clusters, namespaces, source>>

\* ... deletes one, or gives it the deletion policy label with value Keep.
UserDeletes(l) ==
  /\ Edit
  /\ store[l].state = "live"
  /\ store' = [store EXCEPT ![l].state = "deleting"]
  /\ UNCHANGED <<replica, clusters, namespaces, source>>

UserKeeps(l) ==
  /\ Edit
  /\ store[l].state # "absent" /\ ~store[l].keep
  /\ store' = [store EXCEPT ![l].keep = TRUE]
  /\ UNCHANGED <<replica, clusters, namespaces, source>>

\* An object in deletion is dropped when the last of its finalizers is gone.
Vanish(l) ==
  /\ store[l].state = "deleting"
  /\ store' = [store EXCEPT ![l] = NoObject]
  /\ UNCHANGED <<replica, clusters, namespaces, source, edits>>

UserStep ==
  \/ \E r \in Replicas, s \in Specs :
       \/ CreateReplica(r, s)
       \/ \E op \in {"none", "ignore", "reconcile"} : EditReplica(r, s, op)
  \/ \E r \in Replicas : DeleteReplica(r)
  \/ \E s \in Contents \cup {Missing} : EditSource(s)
  \/ \E c \in Clusters : \/ \E x \in Places({"live", "deleting"}) : EditCluster(c, x)
                         \/ ClusterGone(c)
  \/ \E c \in Refs, n \in Namespaces :
       \/ \E x \in Places({"live", "deleting"}) : EditNamespace(c, n, x)
       \/ NamespaceGone(c, n)
  \/ \E l \in Locations :
       UserCreates(l) \/ UserDeletes(l) \/ UserKeeps(l) \/ Vanish(l)

=============================================================================
