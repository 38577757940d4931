-------------------------- MODULE ReplicaStatusProofs --------------------------
(***************************************************************************)
(* Proofs about ReplicaStatus, for any number of targets, clusters and     *)
(* specs and any number of edits and faults: type correctness, that every  *)
(* target left unserved is retried, and that nobody is polled without a    *)
(* deletion.                                                               *)
(***************************************************************************)
EXTENDS ReplicaStatus, TLAPS, WellFoundedInduction

------------------------------------------------------------------------------
(* Conditions *)

\* Conditions of different kinds have different types.
LEMMA TypesDistinct ==
  /\ \A k : TargetCondition(k) # Meta /\ TargetCondition(k) # TemplatingError
  /\ \A k, c : TargetCondition(k) # ClusterCondition(c)
  /\ \A k, s : TargetCondition(k) # SourceCondition(s)
  /\ \A c, s : ClusterCondition(c) # SourceCondition(s)
  /\ \A c : ClusterCondition(c) # Meta /\ ClusterCondition(c) # TemplatingError
  /\ \A s : SourceCondition(s) # Meta /\ SourceCondition(s) # TemplatingError
  /\ Meta # TemplatingError
  /\ \A k, m : TargetCondition(k) = TargetCondition(m) => k = m
  /\ \A c, d : ClusterCondition(c) = ClusterCondition(d) => c = d
  BY DEF TargetCondition, ClusterCondition, SourceCondition, Meta, TemplatingError

\* What a pass that gets to its targets says, for each kind of condition.
LEMMA CreatedResolvable ==
  ASSUME Resolvable
  PROVE  /\ Created(Meta) = "True"
         /\ \A c : Created(ClusterCondition(c)) = ClusterStatus(c)
         /\ \A k : Created(TargetCondition(k)) = TargetStatus(k)
<1>1. Created(Meta) = "True"
  BY DEF Created, Meta, TemplatingError, Resolvable
<1>2. ASSUME NEW c PROVE Created(ClusterCondition(c)) = ClusterStatus(c)
  BY DEF Created, Meta, TemplatingError, ClusterCondition, Resolvable
<1>3. ASSUME NEW k PROVE Created(TargetCondition(k)) = TargetStatus(k)
  BY DEF Created, Meta, TemplatingError, TargetCondition, Resolvable
<1> QED BY <1>1, <1>2, <1>3

\* A pass over a live object creates no condition that waits for a deletion.
LEMMA CreatedType == \A t : Created(t) \in {"none", "True", "False"}
<1> SUFFICES ASSUME NEW t PROVE Created(t) \in {"none", "True", "False"}
  OBVIOUS
<1>1. \A c : ClusterStatus(c) \in {"none", "True", "False"}
  BY DEF ClusterStatus
<1>2. \A k : TargetStatus(k) \in {"none", "True", "False"}
  BY DEF TargetStatus
<1> QED BY <1>1, <1>2 DEF Created

------------------------------------------------------------------------------
(* Types *)

\* What is done about obsolete copies.
LEMMA DeletionFacts ==
  /\ DOMAIN Deletion = Obsolete
  /\ \A e \in Obsolete :
       /\ Deletion[e] \in {"pruned", "spared", "failed", "gone", "waiting"}
       /\ Deletion[e] = "spared" => Spared(e)
  /\ Obsolete \subseteq Tracked \ Managed
<1>1. DOMAIN Deletion = Obsolete
  BY DEF Deletion
<1>2. ASSUME NEW e \in Obsolete
      PROVE  /\ Deletion[e] \in {"pruned", "spared", "failed", "gone", "waiting"}
             /\ Deletion[e] = "spared" => Spared(e)
  BY DEF Deletion
<1>3. Obsolete \subseteq Tracked \ Managed
  BY DEF Obsolete
<1> QED  BY <1>1, <1>2, <1>3

\* A spec is a sequence of target definitions for a source.
LEMMA SpecTyped ==
  ASSUME TypeOK
  PROVE  /\ spec \in Specs
         /\ spec.source \in Sources
         /\ spec.targets \in Seq(TargetDefs)
         /\ DOMAIN spec.targets \subseteq Nat
         /\ \A i \in DOMAIN spec.targets : Def(i).keys \subseteq Keys
<1>1. spec \in Specs
  BY DEF TypeOK
<1>2. spec.source \in Sources /\ spec.targets \in Seq(TargetDefs)
  BY <1>1, SpecsAssumption
<1>3. DOMAIN spec.targets = 1..Len(spec.targets) /\ Len(spec.targets) \in Nat
  BY <1>2
<1>4. ASSUME NEW i \in DOMAIN spec.targets PROVE Def(i).keys \subseteq Keys
  <2>1. spec.targets[i] \in TargetDefs
    BY <1>2, <1>3
  <2> QED  BY <2>1 DEF Def, TargetDefs
<1> QED  BY <1>1, <1>2, <1>3, <1>4

\* What definitions resolve to are definitions of the spec and keys.
LEMMA WithTyped ==
  ASSUME TypeOK, NEW outcomes, NEW x \in With(outcomes)
  PROVE  /\ x[1] \in Resolved /\ x[1] \in DOMAIN spec.targets
         /\ x[2] \in Keys /\ x[2] \in Def(x[1]).keys
         /\ Outcome(x[1], x[2]) \in outcomes
         /\ Entry(x[1], x[2]) \in Keys
<1>1. /\ x[1] \in Resolved /\ x[2] \in Keys /\ x[2] \in Def(x[1]).keys
      /\ Outcome(x[1], x[2]) \in outcomes
  BY DEF With
<1>2. Entry(x[1], x[2]) \in Keys
  BY <1>1, KeysAssumption DEF Entry
<1> QED  BY <1>1, <1>2 DEF Resolved, Matching

\* Managed and tracked copies have keys.
LEMMA ManagedTyped ==
  ASSUME TypeOK
  PROVE  Managed \subseteq Keys /\ Tracked \subseteq Keys
<1>1. Managed \subseteq Keys
  BY WithTyped DEF Managed
<1> QED  BY <1>1 DEF Tracked, TypeOK

\* A pass leaves a copy, somebody's object or nothing in each place.
LEMMA SyncType ==
  ASSUME TypeOK, NEW d, Sync(d)
  PROVE  store' \in [Keys -> {"absent", "foreign", "live", "kept", "deleting"}]
  BY DEF TypeOK, Sync

\* A pass leaves a status for every condition.
LEMMA UpdatedType ==
  ASSUME TypeOK, NEW d
  PROVE  Updated(d) \in [Types -> Statuses]
<1>1. \A t \in Types : Created(t) \in Statuses
  BY CreatedType DEF Statuses
<1>2. \A t \in Types : conditions[t] \in Statuses
  BY DEF TypeOK
<1>3. {"none", "Waiting", "False"} \subseteq Statuses
  BY DEF Statuses
<1> QED  BY <1>1, <1>2, <1>3 DEF Updated

\* Initially every variable has its type.
LEMMA InitTypeOK == Init => TypeOK
<1> SUFFICES ASSUME Init PROVE TypeOK
  OBVIOUS
<1>1. conditions \in [Types -> Statuses]
  BY DEF Init, Statuses
<1>2. edits \in Nat /\ faults \in Nat
  BY DEF Init
<1>3. cluster \in [Clusters -> Accesses]
  BY DEF Init, Accesses
<1> QED  BY <1>1, <1>2, <1>3 DEF Init, TypeOK

\* Every step preserves the types.
LEMMA NextTypeOK == TypeOK /\ [Next]_vars => TypeOK'
<1> SUFFICES ASSUME TypeOK, [Next]_vars PROVE TypeOK'
  OBVIOUS
<1>0. edits \in Nat /\ faults \in Nat
  BY DEF TypeOK
<1>e. Edit => edits' \in Nat
  BY <1>0 DEF Edit
<1>1. CASE UNCHANGED vars
  BY <1>1 DEF vars, world, status, TypeOK
<1>2. ASSUME NEW s \in Specs, EditSpec(s) PROVE TypeOK'
  BY <1>e, <1>2 DEF EditSpec, TypeOK
<1>3. CASE DeleteReplica
  BY <1>e, <1>3 DEF DeleteReplica, TypeOK
<1>4. ASSUME NEW s \in SUBSET Sources, NEW b \in BOOLEAN, EditSources(s, b) PROVE TypeOK'
  BY <1>e, <1>4 DEF EditSources, TypeOK, status
<1>5. ASSUME NEW c \in Clusters, NEW access \in Accesses, EditCluster(c, access)
      PROVE  TypeOK'
  <2>1. cluster' \in [Clusters -> Accesses]
        /\ store' \in [Keys -> {"absent", "foreign", "live", "kept", "deleting"}]
        /\ edits' \in Nat
    BY <1>e, <1>5 DEF EditCluster, TypeOK
  <2> QED  BY <1>5, <2>1 DEF EditCluster, TypeOK, status
<1>6. ASSUME NEW e \in Keys, EditForeign(e) PROVE TypeOK'
  <2>1. store' \in [Keys -> {"absent", "foreign", "live", "kept", "deleting"}] /\ edits' \in Nat
    BY <1>e, <1>6 DEF EditForeign, TypeOK
  <2> QED  BY <1>6, <2>1 DEF EditForeign, TypeOK, status
<1>k. ASSUME NEW e \in Keys, KeepCopy(e) PROVE TypeOK'
  <2>1. store' \in [Keys -> {"absent", "foreign", "live", "kept", "deleting"}] /\ edits' \in Nat
    BY <1>e, <1>k DEF KeepCopy, TypeOK
  <2> QED  BY <1>k, <2>1 DEF KeepCopy, TypeOK, status
<1>7. ASSUME NEW e \in Keys, Vanish(e) PROVE TypeOK'
  <2>1. store' \in [Keys -> {"absent", "foreign", "live", "kept", "deleting"}]
    BY <1>7 DEF Vanish, TypeOK
  <2> QED  BY <1>7, <2>1 DEF Vanish, TypeOK, status
<1>8. CASE Event
  <2>1. wake' = "event" /\ UNCHANGED world /\ UNCHANGED status /\ faults' = faults
    BY <1>8 DEF Event
  <2>2. edits' \in Nat
    BY <1>e, <1>8 DEF Event
  <2>3. UNCHANGED <<object, spec, sources, cluster, broken, store>>
    BY <2>1 DEF world
  <2>4. UNCHANGED <<list, conditions, phase, observed>>
    BY <2>1 DEF status
  <2> QED  BY <2>1, <2>2, <2>3, <2>4 DEF TypeOK
<1>9. CASE Reconcile
  <2> DEFINE d == Deletion
  <2>1. /\ object = "live" \/ list # {}
        /\ Sync(d)
        /\ list' = Tracked \ Those(d, {"gone", "pruned"})
        /\ conditions' = Updated(d)
        /\ phase' = PhaseOf(conditions')
        /\ observed' = TRUE
        /\ wake' = IF Those(d, {"failed"}) # {} \/ (object = "live" /\ CreateErrors)
                   THEN "retry" ELSE Requeue(conditions')
        /\ UNCHANGED <<object, spec, sources, cluster, broken, edits, faults>>
    BY <1>9 DEF Reconcile
  <2> HIDE DEF d
  <2>2. store' \in [Keys -> {"absent", "foreign", "live", "kept", "deleting"}]
    BY <2>1, SyncType
  <2>3. conditions' \in [Types -> Statuses]
    BY <2>1, UpdatedType
  <2>4. list' \in SUBSET Keys
    BY <2>1, ManagedTyped
  <2>5. phase' \in {"", "Ready", "Progressing", "Terminating"}
    BY <2>1 DEF PhaseOf
  <2>6. wake' \in {"none", "event", "retry", "reset", "backoff", "interval"}
    BY <2>1 DEF Requeue
  <2> QED  BY <2>1, <2>2, <2>3, <2>4, <2>5, <2>6 DEF TypeOK
<1>10. CASE RemoveFinalizer
  BY <1>10 DEF RemoveFinalizer, TypeOK, status
<1>11. CASE StatusUpdateFails
  <2>1. PICK d : Sync(d)
    BY <1>11 DEF StatusUpdateFails
  <2>2. store' \in [Keys -> {"absent", "foreign", "live", "kept", "deleting"}]
    BY <2>1, SyncType
  <2>3. list' \in SUBSET Keys
    BY <1>11, ManagedTyped DEF StatusUpdateFails
  <2>4. object # "absent"
    BY <1>11 DEF StatusUpdateFails, TypeOK
  <2>5. faults' \in Nat
    BY <1>0, <1>11 DEF StatusUpdateFails
  <2>6. /\ wake' = "retry"
        /\ UNCHANGED <<object, spec, sources, cluster, broken, conditions, phase, observed,
                       edits>>
    BY <1>11 DEF StatusUpdateFails
  <2> QED  BY <2>2, <2>3, <2>4, <2>5, <2>6 DEF TypeOK
<1> QED
  BY <1>1, <1>2, <1>3, <1>4, <1>5, <1>6, <1>k, <1>7, <1>8, <1>9, <1>10, <1>11
  DEF Next, Pass

\* Every variable of the status, the store and the world keeps its type, and a
\* (Cluster)Replica that is gone has left no status entry behind (707-719).
THEOREM TypeCorrect == Spec => []TypeOK
  BY InitTypeOK, NextTypeOK, PTL DEF Spec

------------------------------------------------------------------------------
(* What a pass reports *)

\* A set of numbers has a least element, and FirstOf is such an element.
LEMMA FirstIsElement ==
  ASSUME NEW S \in SUBSET Nat, S # {}
  PROVE  FirstOf(S) \in S
<1>1. PICK x \in S : \A y \in S : ~(<<y, x>> \in OpToRel(<, Nat))
  BY NatLessThanWellFounded, WFMin, Zenon
<1>2. ASSUME NEW y \in S PROVE x <= y
  <2>1. x \in Nat /\ y \in Nat /\ ~(<<y, x>> \in {ss \in Nat \X Nat : ss[1] < ss[2]})
    BY <1>1 DEF OpToRel
  <2> QED  BY <2>1
<1>3. \E z \in S : \A y \in S : z <= y
  BY <1>2
<1> QED  BY <1>3 DEF FirstOf

\* A pass without errors has resolved and rendered every definition that matches.
LEMMA AllRendered ==
  ASSUME TypeOK, ~CreateErrors, NEW i \in Matching, NEW k \in Def(i).keys
  PROVE  /\ Resolvable
         /\ i \in Renders(k) /\ Renders(k) \in SUBSET Nat
         /\ k \in Keys
         /\ \A j \in Renders(k) : Outcome(j, k) \notin {"unrendered", "different", "failed"}
<1>1. /\ Resolvable
      /\ Unreachable \cup Unselective = {}
      /\ With({"unrendered", "different", "failed"}) = {}
  BY DEF CreateErrors
<1>2. i \in Resolved /\ i \in DOMAIN spec.targets
  BY <1>1 DEF Resolved, Matching
<1>3. k \in Keys
  BY <1>2, SpecTyped
<1>4. ASSUME NEW j \in Resolved, k \in Def(j).keys
      PROVE  Outcome(j, k) \notin {"unrendered", "different", "failed"}
  <2> SUFFICES ASSUME Outcome(j, k) \in {"unrendered", "different", "failed"} PROVE FALSE
    OBVIOUS
  <2>1. <<j, k>> \in With({"unrendered", "different", "failed"})
    BY <1>3, <1>4 DEF With
  <2> QED  BY <1>1, <2>1
<1>5. ~broken
  BY <1>2, <1>4 DEF Outcome
<1>6. Renders(k) = {j \in Resolved : k \in Def(j).keys}
  BY <1>5 DEF Renders
<1>7. Resolved \subseteq Nat
  BY SpecTyped DEF Resolved, Matching
<1> QED  BY <1>1, <1>2, <1>3, <1>4, <1>6, <1>7

\* NextTo and other definitions of a spec ask for different keys.
KindsApart ==
  \A s \in Specs : \A i, j \in DOMAIN s.targets :
    s.targets[i].keys \cap s.targets[j].keys # {} => s.targets[i].nextTo = s.targets[j].nextTo

\* A pass that asks for no retry: the first definition to render the key has
\* synced or skipped it, as any other outcome is an error.
LEMMA ServedStep ==
  ASSUME KindsApart, TypeOK, object = "live", wake' # "retry", Reconcile,
         NEW i \in Matching, NEW k \in Def(i).keys
  PROVE  \/ \E j \in Renders(k) : Outcome(j, k) = "skipped"
         \/ /\ Entry(i, k) \in list'
            /\ store'[Entry(i, k)] \in {"live", "kept", "deleting"}
<1> DEFINE d == Deletion
           first == FirstOf(Renders(k))
           e == Entry(first, k)
<1>1. /\ Sync(d)
      /\ list' = Tracked \ Those(d, {"gone", "pruned"})
      /\ wake' = IF Those(d, {"failed"}) # {} \/ (object = "live" /\ CreateErrors)
                 THEN "retry" ELSE Requeue(conditions')
  BY DEF Reconcile
<1>2. DOMAIN d = Obsolete /\ Obsolete \subseteq Tracked \ Managed
  BY DeletionFacts
<1> HIDE DEF d
<1>3. ~CreateErrors
  BY <1>1
<1>4. /\ Resolvable
      /\ i \in Renders(k) /\ Renders(k) \in SUBSET Nat
      /\ k \in Keys
      /\ \A j \in Renders(k) : Outcome(j, k) \notin {"unrendered", "different", "failed"}
  BY <1>3, AllRendered
<1>5. first \in Renders(k)
  BY <1>4, FirstIsElement
<1>6. first \in Resolved /\ k \in Def(first).keys /\ first \in DOMAIN spec.targets
  BY <1>5 DEF Renders, Resolved, Matching
<1>7. Entry(i, k) = e
  <2>1. i \in DOMAIN spec.targets /\ spec \in Specs
    BY SpecTyped DEF Matching
  <2>2. Def(i).nextTo = Def(first).nextTo
    BY <1>6, <2>1 DEF KindsApart, Def
  <2> QED  BY <2>2 DEF Entry
<1>8. Outcome(first, k) \in {"unrendered", "failed", "synced", "skipped"}
  BY DEF Outcome
<1>9. CASE Outcome(first, k) = "skipped"
  BY <1>5, <1>9
<1>10. CASE Outcome(first, k) = "synced"
  <2>1. <<first, k>> \in With({"synced"})
    BY <1>4, <1>6, <1>10 DEF With
  <2>2. e \in Managed
    BY <1>4, <2>1 DEF Managed
  <2>3. e \in list' /\ e \notin Those(d, {"waiting"}) /\ e \notin Those(d, {"gone"})
    BY <1>1, <1>2, <2>2 DEF Tracked, Those
  <2>4. e \in Keys
    BY <2>2, ManagedTyped
  <2>5. store'[e] \in {"live", "kept", "deleting"}
    BY <1>1, <2>2, <2>3, <2>4 DEF Sync
  <2> QED  BY <1>7, <2>3, <2>5
<1> QED  BY <1>4, <1>5, <1>8, <1>9, <1>10

\* Whatever the conditions say, a pass over a live (Cluster)Replica that leaves a
\* selected target unserved returns an error and is repeated (345-691, 104-133),
\* if no definition with NextTo renders the key of another one: then what is
\* passed over as identical (480-484) belongs elsewhere.
THEOREM UnservedTargetsAreRetried ==
  ASSUME KindsApart
  PROVE  Spec => UnservedIsRetried
<1>1. TypeOK /\ [Next]_vars
        => [object = "live" /\ wake' # "retry" /\ Reconcile
             => \A i \in Matching : \A k \in Def(i).keys :
                  \/ \E j \in Renders(k) : Outcome(j, k) = "skipped"
                  \/ /\ Entry(i, k) \in list'
                     /\ store'[Entry(i, k)] \in {"live", "kept", "deleting"}]_vars
  BY ServedStep
<1> QED  BY <1>1, TypeCorrect, PTL DEF Spec, UnservedIsRetried

------------------------------------------------------------------------------
(* What a pass waits for *)

\* A deletion is only waited for on behalf of a tracked copy, or of all of them.
WaitingIsTracked ==
  \A t \in Types : conditions[t] = "Waiting"
                     => t = Meta \/ \E e \in list : t = TargetCondition(e)

\* Which conditions a pass may remove.
LEMMA RemovedFacts ==
  ASSUME NEW d
  PROVE  /\ \A k : TargetCondition(k) \in Removed(d) <=> k \in Those(d, {"gone", "pruned"})
         /\ Meta \notin Removed(d)
  BY TypesDistinct DEF Removed

\* A pass keeps what is waited for in the list.
LEMMA ReconcileWaiting ==
  ASSUME TypeOK, WaitingIsTracked, Reconcile
  PROVE  WaitingIsTracked'
<1> DEFINE d == Deletion
<1>1. /\ list' = Tracked \ Those(d, {"gone", "pruned"})
      /\ conditions' = Updated(d)
  BY DEF Reconcile
<1>2. DOMAIN d = Obsolete /\ Obsolete \subseteq Tracked
  BY DeletionFacts
<1> HIDE DEF d
<1>3. Those(d, {"waiting"}) \subseteq Tracked \ Those(d, {"gone", "pruned"})
  BY <1>2 DEF Those
<1> SUFFICES ASSUME NEW t \in Types, conditions'[t] = "Waiting"
             PROVE  t = Meta \/ \E e \in list' : t = TargetCondition(e)
  BY DEF WaitingIsTracked
<1>4. t \notin Removed(d)
  BY <1>1 DEF Updated
<1>5. CASE t \in {TargetCondition(e) : e \in Those(d, {"waiting"})}
  BY <1>1, <1>3, <1>5
<1>6. CASE t \notin {TargetCondition(e) : e \in Those(d, {"waiting"})} /\ t # Meta
  <2>1. conditions[t] = "Waiting"
    <3>1. Created(t) # "Waiting"
      BY CreatedType
    <3> QED  BY <1>1, <1>4, <1>6, <3>1 DEF Updated
  <2>2. PICK e \in list : t = TargetCondition(e)
    BY <1>6, <2>1 DEF WaitingIsTracked
  <2>3. e \notin Those(d, {"gone", "pruned"})
    BY <1>4, <2>2, RemovedFacts
  <2>4. e \in list'
    BY <1>1, <2>3 DEF Tracked
  <2> QED  BY <2>2, <2>4
<1> QED  BY <1>5, <1>6

\* So does every step.
LEMMA NextWaiting == TypeOK /\ WaitingIsTracked /\ [Next]_vars => WaitingIsTracked'
<1> SUFFICES ASSUME TypeOK, WaitingIsTracked, [Next]_vars PROVE WaitingIsTracked'
  OBVIOUS
<1>1. CASE Reconcile
  BY <1>1, ReconcileWaiting
<1>2. CASE StatusUpdateFails
  BY <1>2 DEF StatusUpdateFails, Tracked, WaitingIsTracked
<1>3. CASE UNCHANGED <<conditions, list>>
  BY <1>3 DEF WaitingIsTracked
<1>4. Reconcile \/ StatusUpdateFails \/ UNCHANGED <<conditions, list>>
  BY DEF Next, vars, world, status, EditSpec, DeleteReplica, EditSources, EditCluster,
         EditForeign, KeepCopy, Vanish, Event, Pass, RemoveFinalizer
<1> QED  BY <1>1, <1>2, <1>3, <1>4

\* Initially nothing is waited for.
LEMMA InitWaiting == Init => WaitingIsTracked
  BY DEF Init, WaitingIsTracked

\* Whatever passes, edits and failing updates do, a condition that waits for the
\* end of a copy is about a copy that the status lists (893-936).
THEOREM WaitingInvariance == Spec => []WaitingIsTracked
  BY TypeCorrect, InitWaiting, NextWaiting, PTL DEF Spec

\* No target definition of a spec has NextTo.
NoNextTo == \A s \in Specs : \A i \in DOMAIN s.targets : ~s.targets[i].nextTo

\* A pass that asks to be polled: the condition that waits is about a copy which
\* is neither managed nor spared, gone or unreachable, so that it is being
\* deleted.
LEMMA PollingStep ==
  ASSUME NoNextTo, TypeOK, WaitingIsTracked,
         object = "live", wake' \in {"reset", "backoff"}, Reconcile
  PROVE  \E e \in list' : store'[e] = "deleting"
<1> DEFINE d == Deletion
<1>1. /\ Sync(d)
      /\ list' = Tracked \ Those(d, {"gone", "pruned"})
      /\ conditions' = Updated(d)
      /\ wake' = IF Those(d, {"failed"}) # {} \/ (object = "live" /\ CreateErrors)
                 THEN "retry" ELSE Requeue(conditions')
  BY DEF Reconcile
<1>2. /\ DOMAIN d = Obsolete
      /\ \A e \in Obsolete :
           /\ d[e] \in {"pruned", "spared", "failed", "gone", "waiting"}
           /\ d[e] = "spared" => Spared(e)
  BY DeletionFacts
<1> HIDE DEF d
<1>3. Those(d, {"failed"}) = {} /\ ~CreateErrors
  BY <1>1
<1>4. PICK t \in Types : conditions'[t] = "Waiting"
  BY <1>1, <1>3 DEF Requeue
<1>5. Resolvable /\ Unreachable = {}
  BY <1>3 DEF CreateErrors
<1>6. WaitingIsTracked'
  BY ReconcileWaiting
<1>7. Created(Meta) = "True"
  BY <1>5, CreatedResolvable
<1>8. t # Meta
  BY <1>1, <1>4, <1>7, RemovedFacts, TypesDistinct DEF Updated
<1>9. PICK e \in list' : t = TargetCondition(e)
  BY <1>4, <1>6, <1>8 DEF WaitingIsTracked
<1>10. e \in Tracked \ Those(d, {"gone", "pruned"}) /\ e \in Keys
  BY <1>1, <1>9, ManagedTyped
<1>11. e \in Those(d, {"waiting"})
  <2> SUFFICES ASSUME e \notin Those(d, {"waiting"}) PROVE FALSE
    OBVIOUS
  <2>1. t \notin {TargetCondition(x) : x \in Those(d, {"waiting"})}
    BY <1>9, TypesDistinct
  <2>2. Created(t) = "none"
    BY <1>1, <1>3, <1>4, <2>1, CreatedType DEF Updated
  <2>3. TargetStatus(e) = "none"
    BY <1>5, <1>9, <2>2, CreatedResolvable
  <2>4. Renders(e) = {}
    BY <2>3 DEF TargetStatus
  <2>5. e \notin Managed
    <3> SUFFICES ASSUME e \in Managed PROVE FALSE
      OBVIOUS
    <3>1. PICK x \in With({"synced"}) : e = Entry(x[1], x[2])
      BY DEF Managed
    <3>2. /\ x[1] \in Resolved /\ x[1] \in DOMAIN spec.targets
          /\ x[2] \in Def(x[1]).keys
          /\ Outcome(x[1], x[2]) = "synced"
      BY <3>1, WithTyped
    <3>3. e = x[2]
      BY <3>1, <3>2, SpecTyped DEF NoNextTo, Entry, Def
    <3>4. ~broken
      BY <3>2 DEF Outcome
    <3> QED  BY <2>4, <3>2, <3>3, <3>4 DEF Renders
  <2>6. e \in Obsolete
    BY <1>5, <1>10, <2>5 DEF Obsolete
  <2>7. Spared(e)
    <3>1. d[e] \notin {"waiting"} /\ d[e] \notin {"gone", "pruned"} /\ d[e] \notin {"failed"}
      BY <1>2, <1>3, <1>10, <2>6, Zenon DEF Those
    <3> QED  BY <1>2, <2>6, <3>1
  <2>8. ClusterStatus(OnCluster[e]) = "False"
    BY <1>5, <1>9, <2>2, <2>7, CreatedResolvable DEF Spared
  <2> QED  BY <1>5, <2>8 DEF ClusterStatus
<1>12. store'[e] = "deleting"
  BY <1>1, <1>10, <1>11 DEF Sync
<1> QED  BY <1>9, <1>12

\* Without NextTo targets, whose waiting conditions are filed under another key
\* (927), the smart requeue polls a live (Cluster)Replica only while a copy is
\* being deleted (110).
THEOREM PollsWhileWaiting ==
  ASSUME NoNextTo
  PROVE  Spec => PollsOnlyWhileWaiting
<1>1. TypeOK /\ WaitingIsTracked /\ [Next]_vars
        => [object = "live" /\ wake' \in {"reset", "backoff"} /\ Reconcile
              => \E e \in list' : store'[e] = "deleting"]_vars
  BY PollingStep
<1> QED  BY <1>1, TypeCorrect, WaitingInvariance, PTL DEF Spec, PollsOnlyWhileWaiting
=============================================================================
