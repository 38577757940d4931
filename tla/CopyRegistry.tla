----------------------------- MODULE CopyRegistry -----------------------------
(***************************************************************************)
(* What the replica controller promises, without passes, calls and caches: *)
(* the status lists are the registry of copies.  A place is claimed only   *)
(* while it belongs to nobody and only by a (Cluster)Replica that has      *)
(* registered it, and a list is never rewritten so that a copy of its      *)
(* owner goes unregistered.  ReplicaController implements it.              *)
(***************************************************************************)
CONSTANTS
  Replicas, NoOwner,
  Entries,   \* of the status lists
  Locations, \* where objects are stored
  PlaceOf    \* the place an entry names

VARIABLES
  owner,   \* whom the object at a place belongs to by its labels
  listed   \* the status list of each (Cluster)Replica

vars == <<owner, listed>>

Init ==
  /\ owner = [l \in Locations |-> NoOwner]
  /\ listed = [r \in Replicas |-> {}]

\* All copies of r are registered in list.
Covers(list, r) == \A l \in Locations : owner[l] = r => \E e \in list : PlaceOf[e] = l

\* The list of r is written, or disappears with r.
Rewrite(r, list) ==
  /\ Covers(list, r)
  /\ listed' = [listed EXCEPT ![r] = list]
  /\ UNCHANGED owner

\* A copy is created, or an object that belongs to nobody is taken over.
Claim(r, e) ==
  /\ e \in listed[r]
  /\ owner[PlaceOf[e]] = NoOwner
  /\ owner' = [owner EXCEPT ![PlaceOf[e]] = r]
  /\ UNCHANGED listed

\* Copies are deleted or released, or disappear with their namespace or cluster.
Lose(places) ==
  /\ owner' = [l \in Locations |-> IF l \in places THEN NoOwner ELSE owner[l]]
  /\ UNCHANGED listed

Next ==
  \/ \E r \in Replicas, list \in SUBSET Entries : Rewrite(r, list)
  \/ \E r \in Replicas, e \in Entries : Claim(r, e)
  \/ \E places \in SUBSET Locations : Lose(places)

Spec == Init /\ [][Next]_vars

=============================================================================
