---------------------------- MODULE PlatformProofs ----------------------------
(***************************************************************************)
(* Users and other controllers keep the API objects in shape; the proofs   *)
(* about every component that works on these objects start from here.      *)
(***************************************************************************)
EXTENDS Platform, TLAPS

States == {"absent", "live", "deleting"}

\* The values that stand for "no object", and a new one, have their types.
LEMMA NoneTypes ==
  /\ NoReplica \in ReplicaObjects
  /\ \A s \in Specs : NewReplica(s) \in ReplicaObjects
  /\ NoObject \in Objects
<1>1. (CHOOSE s \in Specs : TRUE) \in Specs
  BY SpecsAssumption
<1>2. NoReplica \in ReplicaObjects
  BY <1>1 DEF NoReplica, ReplicaObjects
<1>3. \A s \in Specs : NewReplica(s) \in ReplicaObjects
  BY <1>2 DEF NewReplica, ReplicaObjects
<1>4. NoObject \in Objects
  BY DEF NoObject, Objects
<1> QED BY <1>2, <1>3, <1>4

\* An entry names a place in the store.
LEMMA LocType == \A e \in Entries : Loc(e) \in Locations
  BY DEF Entries, Locations, Loc

\* Changing one field of a record leaves its type.
LEMMA ReplicaUpdates ==
  ASSUME NEW o \in ReplicaObjects
  PROVE  /\ \A x \in {"absent", "live", "deleting"} :
              [o EXCEPT !.phase = x] \in ReplicaObjects
         /\ \A x \in Specs : [o EXCEPT !.spec = x] \in ReplicaObjects
         /\ \A x \in BOOLEAN : [o EXCEPT !.finalizer = x] \in ReplicaObjects
         /\ \A x \in {"none", "ignore", "reconcile"} :
              [o EXCEPT !.op = x] \in ReplicaObjects
         /\ \A x \in SUBSET Entries : [o EXCEPT !.status = x] \in ReplicaObjects
  BY DEF ReplicaObjects

\* Likewise for the fields of an object, ...
LEMMA ObjectUpdates ==
  ASSUME NEW o \in Objects
  PROVE  /\ \A x \in States : [o EXCEPT !.state = x] \in Objects
         /\ \A x \in Replicas \cup {NoOwner} : [o EXCEPT !.owner = x] \in Objects
         /\ \A x \in BOOLEAN : [o EXCEPT !.keep = x] \in Objects
  BY DEF Objects, States

\* ... and of a Cluster or a namespace.
LEMMA PlaceUpdates ==
  \A p \in Places(States), x \in States : [p EXCEPT !.state = x] \in Places(States)
  BY DEF Places

\* Users and other controllers keep the API objects in shape.
LEMMA UserTypes == PlatformTypeOK /\ UserStep => PlatformTypeOK'
<1> SUFFICES ASSUME PlatformTypeOK, UserStep PROVE PlatformTypeOK'
  OBVIOUS
<1> USE DEF PlatformTypeOK
<1>1. ASSUME NEW r \in Replicas, NEW s \in Specs, CreateReplica(r, s)
      PROVE  PlatformTypeOK'
  BY <1>1, NoneTypes DEF CreateReplica, Edit
<1>2. ASSUME NEW r \in Replicas, NEW s \in Specs,
             NEW op \in {"none", "ignore", "reconcile"}, EditReplica(r, s, op)
      PROVE  PlatformTypeOK'
  <2>1. [replica[r] EXCEPT !.spec = s] \in ReplicaObjects
    BY ReplicaUpdates
  <2>2. [[replica[r] EXCEPT !.spec = s] EXCEPT !.op = op] \in ReplicaObjects
    BY <2>1, ReplicaUpdates
  <2> QED BY <1>2, <2>2 DEF EditReplica, Edit
<1>3. ASSUME NEW r \in Replicas, DeleteReplica(r) PROVE PlatformTypeOK'
  <2>1. [replica[r] EXCEPT !.phase = "deleting"] \in ReplicaObjects
    BY <1>3 DEF ReplicaObjects
  <2> QED BY <1>3, <2>1, NoneTypes DEF DeleteReplica, Edit
<1>4. ASSUME NEW s \in Contents \cup {Missing}, EditSource(s) PROVE PlatformTypeOK'
  BY <1>4 DEF EditSource, Edit
<1>5. ASSUME NEW c \in Clusters, NEW x \in Places({"live", "deleting"}),
             EditCluster(c, x)
      PROVE  PlatformTypeOK'
  BY <1>5 DEF EditCluster, Edit, Places
<1>6. ASSUME NEW c \in Clusters, ClusterGone(c) PROVE PlatformTypeOK'
  <2>1. store' \in [Locations -> Objects]
    BY <1>6, NoneTypes DEF ClusterGone
  <2>2. namespaces' \in [Refs -> [Namespaces -> Places(States)]]
    BY <1>6, PlaceUpdates DEF ClusterGone, States
  <2>3. clusters' \in [Clusters -> Places(States)]
    BY <1>6 DEF ClusterGone, Places, States
  <2> QED BY <1>6, <2>1, <2>2, <2>3 DEF ClusterGone, Edit, States
<1>7. ASSUME NEW c \in Refs, NEW n \in Namespaces,
             NEW x \in Places({"live", "deleting"}), EditNamespace(c, n, x)
      PROVE  PlatformTypeOK'
  <2>1. store' \in [Locations -> Objects]
    BY <1>7 DEF EditNamespace, Objects
  <2>2. namespaces' \in [Refs -> [Namespaces -> Places(States)]]
    BY <1>7 DEF EditNamespace, Places, States
  <2> QED BY <1>7, <2>1, <2>2 DEF EditNamespace, Edit, States
<1>8. ASSUME NEW c \in Refs, NEW n \in Namespaces, NamespaceGone(c, n)
      PROVE  PlatformTypeOK'
  <2>1. [namespaces[c][n] EXCEPT !.state = "absent"] \in Places(States)
    BY PlaceUpdates DEF States
  <2> QED BY <1>8, <2>1 DEF NamespaceGone, States
<1>9. ASSUME NEW l \in Locations, UserCreates(l) PROVE PlatformTypeOK'
  <2>1. [store[l] EXCEPT !.state = "live"] \in Objects
    BY ObjectUpdates DEF States
  <2> QED BY <1>9, <2>1 DEF UserCreates, Edit
<1>10. ASSUME NEW l \in Locations, UserDeletes(l) PROVE PlatformTypeOK'
  <2>1. [store[l] EXCEPT !.state = "deleting"] \in Objects
    BY ObjectUpdates DEF States
  <2> QED BY <1>10, <2>1 DEF UserDeletes, Edit
<1>11. ASSUME NEW l \in Locations, UserKeeps(l) PROVE PlatformTypeOK'
  <2>1. [store[l] EXCEPT !.keep = TRUE] \in Objects
    BY ObjectUpdates DEF States
  <2> QED BY <1>11, <2>1 DEF UserKeeps, Edit
<1>12. ASSUME NEW l \in Locations, Vanish(l) PROVE PlatformTypeOK'
  BY <1>12, NoneTypes DEF Vanish
<1> QED
  BY <1>1, <1>2, <1>3, <1>4, <1>5, <1>6, <1>7, <1>8, <1>9, <1>10, <1>11, <1>12
     DEF UserStep

=============================================================================
