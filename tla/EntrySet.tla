------------------------------- MODULE EntrySet -------------------------------
(***************************************************************************)
(* What the replica controller takes status.replicas for: a set of         *)
(* entries, of which a pass works on a copy.  ReplicaController is written *)
(* in terms of such sets; CreatedResources has the lists that implement it.*)
(***************************************************************************)
CONSTANT Entries

VARIABLES
  memory,  \* the set in rr.Object
  stored   \* the set on the API server

Init == memory = {} /\ stored = {}

Read == memory' = stored /\ UNCHANGED stored
Add(e) == memory' = memory \cup {e} /\ UNCHANGED stored
Track(e) == memory' = memory \cup {e} /\ stored' = memory'
Remove(e) == memory' = memory \ {e} /\ UNCHANGED stored
Write == stored' = memory /\ UNCHANGED memory

Next ==
  \/ Read \/ Write
  \/ \E e \in Entries : Add(e) \/ Track(e) \/ Remove(e)

Spec == Init /\ [][Next]_<<memory, stored>>

=============================================================================
