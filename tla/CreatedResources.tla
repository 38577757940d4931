--------------------------- MODULE CreatedResources ---------------------------
(***************************************************************************)
(* status.replicas as the code keeps it: a list of types, each with a list *)
(* of resources, and the operations of api/core/v1alpha1/utils.go in the   *)
(* order in which a pass of the replica controller calls them.             *)
(***************************************************************************)
EXTENDS Naturals, Sequences, SequencesExt

CONSTANTS
  GVKs,      \* types of resources
  Names,     \* namespaces and names of resources
  Clusters,  \* references to Clusters
  MaxAdds    \* bound on the targets of a pass

\* The hosting platform cluster is a nil reference; callers also pass an empty
\* one.
Refs == Clusters \cup {"nil"}

Resources == [name : Names, cluster : Refs]
Groups == [type : GVKs, resources : Seq(Resources)]
Entries == [type : GVKs, name : Names, cluster : Refs]

ASSUME NamesAssumption == Clusters \cap {"nil", "empty"} = {} /\ MaxAdds \in Nat

VARIABLES
  step,    \* of a pass: "idle", "create", "delete" or "final"
  memory,  \* the list in rr.Object
  stored,  \* the list on the API server
  adds     \* how many targets the pass has tracked

vars == <<step, memory, stored, adds>>

------------------------------------------------------------------------------
(* Operations of the list *)

\* Mutant: an empty reference is not taken for nil.
NormalizedNot(ref) == ref

Normalized(ref) == IF ref = "empty" THEN "nil" ELSE ref

\* The index of a type, or of a resource in its list, 0 if there is none.
GroupOf(list, gvk) == SelectInSeq(list, LAMBDA g : g.type = gvk)
ResourceOf(resources, res) == SelectInSeq(resources, LAMBDA x : x = res)

Resource(name, ref) == [name |-> name, cluster |-> Normalized(ref)]

\* Mutant: the resource is added to its type without looking for it.
AddAlways(list, gvk, res) ==
  LET i == GroupOf(list, gvk)
  IN IF i = 0 THEN Append(list, [type |-> gvk, resources |-> <<res>>])
     ELSE [list EXCEPT ![i].resources = Append(@, res)]

AddRaw(list, gvk, res) ==
  LET i == GroupOf(list, gvk)
  IN IF i = 0 THEN Append(list, [type |-> gvk, resources |-> <<res>>])
     ELSE IF ResourceOf(list[i].resources, res) # 0 THEN list
     ELSE [list EXCEPT ![i].resources = Append(@, res)]

\* Mutant: the element before the one that was found goes as well.
RemoveTwo(list, gvk, res) ==
  LET i == GroupOf(list, gvk)
      j == IF i = 0 THEN 0 ELSE ResourceOf(list[i].resources, res)
  IN IF j = 0 THEN list
     ELSE [list EXCEPT ![i].resources = SubSeq(@, 1, j - 2) \o SubSeq(@, j + 1, Len(@))]

RemoveRaw(list, gvk, res) ==
  LET i == GroupOf(list, gvk)
      j == IF i = 0 THEN 0 ELSE ResourceOf(list[i].resources, res)
  IN IF j = 0 THEN list ELSE [list EXCEPT ![i].resources = RemoveAt(@, j)]

ContainsRaw(list, gvk, res) ==
  LET i == GroupOf(list, gvk)
  IN i # 0 /\ ResourceOf(list[i].resources, res) # 0

\* The entries that a list stands for.
EntriesIn(list) ==
  UNION {{[type |-> list[i].type, name |-> r.name, cluster |-> r.cluster] :
            r \in ToSet(list[i].resources)} : i \in DOMAIN list}

\* Mutant: types without resources stay.
NoCleanup(list) == list

Cleanup(list) ==
  LET result[i \in 0..Len(list)] ==
        IF i = 0 THEN <<>>
        ELSE IF list[i].resources # <<>> THEN Append(result[i - 1], list[i])
        ELSE result[i - 1]
  IN result[Len(list)]

------------------------------------------------------------------------------
(* A pass *)

Init == step = "idle" /\ memory = <<>> /\ stored = <<>> /\ adds = 0

ReadReplica ==
  /\ step = "idle"
  /\ step' \in {"create", "delete"}
  /\ memory' = stored
  /\ adds' = 0
  /\ UNCHANGED stored

\* A target is entered into the list, and the list written, before the target
\* is; the write may fail, or succeed without anyone hearing of it.
TrackInStatus(gvk, name, ref) ==
  /\ step = "create" /\ adds < MaxAdds
  /\ ~ContainsRaw(memory, gvk, Resource(name, ref))
  /\ memory' = AddRaw(memory, gvk, Resource(name, ref))
  /\ stored' \in {stored, memory'}
  /\ adds' = adds + 1
  /\ UNCHANGED step

\* Entries that are obsolete are taken out when they are pruned, gone or
\* released; the loops name the hosting platform cluster by an empty reference.
RefOf(cluster) == IF cluster = "nil" THEN "empty" ELSE cluster
BeginDeletion ==
  /\ step = "create"
  /\ step' = "delete"
  /\ UNCHANGED <<memory, stored, adds>>
RemoveObsolete(e) ==
  /\ step = "delete"
  /\ memory' = RemoveRaw(memory, e.type, Resource(e.name, RefOf(e.cluster)))
  /\ UNCHANGED <<step, stored, adds>>
EndDeletion ==
  /\ step = "delete"
  /\ step' = "final"
  /\ memory' = Cleanup(memory)
  /\ UNCHANGED <<stored, adds>>

\* "Ensure that all managed resources are in the status": what was synced was
\* tracked before and is not obsolete.
AddManaged(e) ==
  /\ step = "final"
  /\ memory' = AddRaw(memory, e.type, Resource(e.name, RefOf(e.cluster)))
  /\ UNCHANGED <<step, stored, adds>>

\* The end of a pass, also of one that failed before it deleted anything.
UpdateStatus ==
  /\ step \in {"create", "final"}
  /\ step' = "idle"
  /\ stored' \in {stored, memory}
  /\ UNCHANGED <<memory, adds>>

Next ==
  \/ ReadReplica \/ BeginDeletion \/ EndDeletion \/ UpdateStatus
  \/ \E gvk \in GVKs, name \in Names, ref \in Refs : TrackInStatus(gvk, name, ref)
  \/ \E e \in EntriesIn(memory) : RemoveObsolete(e) \/ AddManaged(e)

Spec == Init /\ [][Next]_vars

------------------------------------------------------------------------------
(* Properties *)

\* The lists are lists of groups, with nil for the hosting platform cluster.
TypeOK ==
  /\ step \in {"idle", "create", "delete", "final"}
  /\ memory \in Seq(Groups) /\ stored \in Seq(Groups)
  /\ adds \in 0..MaxAdds

\* Duplicates "should not happen, but will cause problems if" they do
\* (controller.go 776-777): there is one group per type and one element per
\* resource, however often and with whichever reference it was added.
NoDuplicates ==
  \A list \in {memory, stored} :
    /\ \A i, j \in DOMAIN list : list[i].type = list[j].type => i = j
    /\ \A i \in DOMAIN list : IsInjective(list[i].resources)

\* handleDelete tells from the length of the list whether copies are left (709):
\* a list that is written never has groups but no resources.
EmptyMeansNone == \A i \in DOMAIN stored : stored[i].resources # <<>>

ES == INSTANCE EntrySet WITH memory <- EntriesIn(memory), stored <- EntriesIn(stored)

\* The operations act on the lists as on sets of entries, which is what
\* ReplicaController takes the lists for.
ActsAsSet == ES!Spec

=============================================================================
