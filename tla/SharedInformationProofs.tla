----------------------- MODULE SharedInformationProofs -----------------------
(***************************************************************************)
(* Safety of the notification path for any number of (Cluster)Replicas and *)
(* of enqueuing goroutines, and for every capacity of the channel.         *)
(***************************************************************************)
EXTENDS SharedInformation, TLAPS

\* Appending to a sequence and removing its head move its elements as expected.
LEMMA AppendElements ==
  ASSUME NEW S, NEW q \in Seq(S), NEW x \in S, NEW k
  PROVE  (\E i \in 1..Len(Append(q, x)) : Append(q, x)[i] = k)
           <=> (k = x \/ \E i \in 1..Len(q) : q[i] = k)
<1>1. /\ Len(Append(q, x)) = Len(q) + 1
      /\ Append(q, x)[Len(q) + 1] = x
      /\ \A i \in 1..Len(q) : Append(q, x)[i] = q[i]
      /\ Len(q) \in Nat
  OBVIOUS
<1> QED BY <1>1

\* Removing the head drops no other element.
LEMMA TailElements ==
  ASSUME NEW S, NEW q \in Seq(S), q # <<>>, NEW k,
         NEW i \in 1..Len(q), q[i] = k
  PROVE  k = Head(q) \/ \E j \in 1..Len(Tail(q)) : Tail(q)[j] = k
<1>1. /\ Len(Tail(q)) = Len(q) - 1
      /\ \A j \in 1..Len(Tail(q)) : Tail(q)[j] = q[j + 1]
      /\ Head(q) = q[1]
      /\ Len(q) \in Nat
  OBVIOUS
<1>2. CASE i = 1
  BY <1>1, <1>2
<1>3. CASE i # 1
  <2>1. i - 1 \in 1..Len(Tail(q)) /\ Tail(q)[i - 1] = q[i]
    BY <1>1, <1>3
  <2> QED BY <2>1
<1> QED BY <1>2, <1>3

\* No step of EnqueueReplica, of the channel or of Reconcile leaves the shapes
\* the code declares, and a send never exceeds the channel's capacity.
THEOREM TypeCorrect == Spec => []TypeOK
<1>1. Init => TypeOK
  BY CapacityAssumption DEF Init, TypeOK, Calls, Reconciles
<1>2. TypeOK /\ [Next]_vars => TypeOK'
  <2> SUFFICES ASSUME TypeOK, [Next]_vars PROVE TypeOK'
    OBVIOUS
  <2> USE CapacityAssumption DEF TypeOK, Calls, Reconciles, history
  <2>1. ASSUME NEW t \in Threads, NEW k \in Keys, EnqueueReplica(t, k)
        PROVE  TypeOK'
    BY <2>1 DEF EnqueueReplica
  <2>2. ASSUME NEW t \in Threads, Send(t) PROVE TypeOK'
    <3>1. CASE Len(replicaNotificationChannel) < Capacity
      <4>1. thread[t].key \in Keys
        BY <2>2 DEF Send
      <4>2. /\ replicaNotificationChannel' \in Seq(Keys)
            /\ Len(replicaNotificationChannel') <= Capacity
        BY <2>2, <3>1, <4>1 DEF Send
      <4> QED BY <2>2, <3>1, <4>2 DEF Send
    <3>2. CASE ~(Len(replicaNotificationChannel) < Capacity)
      BY <2>2, <3>2 DEF Send
    <3> QED BY <3>1, <3>2
  <2>3. ASSUME NEW t \in Threads, Drop(t) PROVE TypeOK'
    BY <2>3 DEF Drop
  <2>4. ASSUME NEW k \in Keys, Trigger(k) PROVE TypeOK'
    BY <2>4 DEF Trigger
  <2>5. ASSUME NEW k \in Keys, Take(k) PROVE TypeOK'
    BY <2>5 DEF Take
  <2>6. CASE Deliver
    BY <2>6 DEF Deliver
  <2>7. CASE ClearPending
    BY <2>7 DEF ClearPending
  <2>8. CASE ReadReplica
    BY <2>8 DEF ReadReplica
  <2>9. CASE Finish
    BY <2>9 DEF Finish
  <2>10. CASE Reset
    BY <2>10 DEF Reset
  <2>11. CASE UNCHANGED vars
    BY <2>11 DEF vars
  <2> QED
    BY <2>1, <2>2, <2>3, <2>4, <2>5, <2>6, <2>7, <2>8, <2>9, <2>10, <2>11 DEF Next
<1> QED BY <1>1, <1>2, PTL DEF Spec

\* What a process does before it dies.
Working ==
  \/ \E t \in Threads : Send(t) \/ Drop(t) \/ \E k \in Keys : EnqueueReplica(t, k)
  \/ \E k \in Keys : Trigger(k) \/ Take(k)
  \/ Deliver \/ ClearPending \/ ReadReplica \/ Finish

\* Except for the end of a dropping call and for ClearPending, which both remove
\* the mark as well, a step other than a restart passes every carried key on.
LEMMA CarriedOn ==
  ASSUME TypeOK, [Working]_vars, NEW k \in Keys, Carried(k),
         \A t \in Threads : Drop(t) => thread[t].key # k,
         ClearPending => worker.key # k
  PROVE  Carried(k)'
<1> USE DEF TypeOK, Calls, Reconciles, Carried, InCall, InChannel, history
<1>1. ASSUME NEW t \in Threads, NEW j \in Keys, EnqueueReplica(t, j)
      PROVE  Carried(k)'
  BY <1>1 DEF EnqueueReplica
<1>2. ASSUME NEW t \in Threads, Send(t) PROVE Carried(k)'
  <2>1. CASE Len(replicaNotificationChannel) < Capacity
    <3>1. thread[t].key \in Keys
      BY <1>2 DEF Send
    <3>2. InChannel(k)' <=> (k = thread[t].key \/ InChannel(k))
      BY <1>2, <2>1, <3>1, AppendElements DEF Send
    <3> QED BY <1>2, <2>1, <3>2 DEF Send
  <2>2. CASE ~(Len(replicaNotificationChannel) < Capacity)
    BY <1>2, <2>2 DEF Send
  <2> QED BY <2>1, <2>2
<1>3. ASSUME NEW t \in Threads, Drop(t) PROVE Carried(k)'
  BY <1>3 DEF Drop
<1>4. ASSUME NEW j \in Keys, Trigger(j) PROVE Carried(k)'
  BY <1>4 DEF Trigger
<1>5. ASSUME NEW j \in Keys, Take(j) PROVE Carried(k)'
  BY <1>5 DEF Take
<1>6. CASE Deliver
  <2>1. InChannel(k) => k = Head(replicaNotificationChannel) \/ InChannel(k)'
    BY <1>6, TailElements DEF Deliver
  <2> QED BY <1>6, <2>1 DEF Deliver
<1>7. CASE ClearPending
  BY <1>7 DEF ClearPending
<1>8. CASE ReadReplica
  BY <1>8 DEF ReadReplica
<1>9. CASE Finish
  BY <1>9 DEF Finish
<1>10. CASE UNCHANGED vars
  BY <1>10 DEF vars
<1> QED
  BY <1>1, <1>2, <1>3, <1>4, <1>5, <1>6, <1>7, <1>8, <1>9, <1>10 DEF Working

\* A key that becomes pending is carried by the call that marks it.
LEMMA NewlyPending ==
  ASSUME TypeOK, [Next]_vars, NEW k \in Keys,
         k \notin pendingReplicas, k \in pendingReplicas'
  PROVE  Carried(k)'
<1>1. PICK t \in Threads : EnqueueReplica(t, k)
  BY DEF Next, vars, history, EnqueueReplica, Send, Drop, Trigger, Take, Deliver,
         ClearPending, ReadReplica, Finish, Reset
<1>2. thread'[t].step = "send" /\ thread'[t].key = k
  BY <1>1 DEF EnqueueReplica, TypeOK
<1> QED BY <1>2 DEF Carried, InCall

\* The pending mark never stands alone: the mark set by EnqueueReplica (68) is
\* always going to be removed, by a Reconcile on its way or by the call itself.
THEOREM PendingIsCarriedAlways == Spec => []PendingIsCarried
<1>1. Init => PendingIsCarried
  BY DEF Init, PendingIsCarried
<1>2. TypeOK /\ TypeOK' /\ PendingIsCarried /\ [Next]_vars => PendingIsCarried'
  <2> SUFFICES ASSUME TypeOK, TypeOK', PendingIsCarried, [Next]_vars,
                      NEW k \in pendingReplicas'
               PROVE  Carried(k)'
    BY DEF PendingIsCarried
  <2>0. k \in Keys
    BY DEF TypeOK
  <2>1. CASE k \in pendingReplicas
    <3>1. \A t \in Threads : Drop(t) => thread[t].key # k
      BY DEF Drop
    <3>2. ClearPending => worker.key # k
      BY DEF ClearPending
    <3>3. [Working]_vars
      BY <2>1 DEF Next, Working, Reset
    <3> QED BY <2>0, <2>1, <3>1, <3>2, <3>3, CarriedOn DEF PendingIsCarried
  <2>2. CASE k \notin pendingReplicas
    BY <2>0, <2>2, NewlyPending
  <2> QED BY <2>1, <2>2
<1> QED BY <1>1, <1>2, TypeCorrect, PTL DEF Spec

\* A requested (Cluster)Replica is read by a later Reconcile unless one of its
\* requests was dropped on a full channel, which EnqueueReplica logs (84).
THEOREM NoSilentLossAlways == Spec => []NoSilentLoss
<1>1. Init => NoSilentLoss
  BY DEF Init, NoSilentLoss
<1>2. TypeOK /\ TypeOK' /\ PendingIsCarried /\ NoSilentLoss /\ [Next]_vars
        => NoSilentLoss'
  <2> SUFFICES ASSUME TypeOK, TypeOK', PendingIsCarried, NoSilentLoss, [Next]_vars,
                      NEW k \in owed'
               PROVE  \/ Carried(k)'
                      \/ worker'.step = "cleared" /\ worker'.key = k
                      \/ k \in dropped'
    BY DEF NoSilentLoss
  <2>0. ~Reset /\ [Working]_vars
    BY DEF Next, Working, Reset
  <2> USE DEF TypeOK, Calls, Reconciles, history
  <2>1. ASSUME NEW t \in Threads, Drop(t), thread[t].key = k
        PROVE  k \in dropped'
    BY <2>1 DEF Drop
  <2>2. CASE ClearPending /\ worker.key = k
    BY <2>2 DEF ClearPending
  <2>3. ASSUME NEW t \in Threads, EnqueueReplica(t, k) PROVE Carried(k)'
    <3>1. k \in Keys
      OBVIOUS
    <3>2. CASE k \in pendingReplicas
      BY <2>0, <2>3, <3>1, <3>2, CarriedOn
         DEF PendingIsCarried, EnqueueReplica, Drop, ClearPending
    <3>3. CASE k \notin pendingReplicas
      BY <2>3, <3>1, <3>3, NewlyPending DEF EnqueueReplica
    <3> QED BY <3>2, <3>3
  <2>4. ASSUME ~(ClearPending /\ worker.key = k),
               \A t \in Threads : ~(Drop(t) /\ thread[t].key = k),
               \A t \in Threads : ~EnqueueReplica(t, k)
        PROVE  \/ Carried(k)'
               \/ worker'.step = "cleared" /\ worker'.key = k
               \/ k \in dropped'
    <3>1. k \in Keys /\ k \in owed /\ ~(ReadReplica /\ worker.key = k)
      BY <2>0, <2>4 DEF Next, vars, EnqueueReplica, Send, Drop, Trigger, Take, Deliver,
                  ClearPending, ReadReplica, Finish
    <3>2. CASE Carried(k)
      BY <2>0, <2>4, <3>1, <3>2, CarriedOn
    <3>3. CASE worker.step = "cleared" /\ worker.key = k
      BY <2>0, <3>1, <3>3 DEF Next, vars, EnqueueReplica, Send, Drop, Trigger, Take,
                        Deliver, ClearPending, ReadReplica, Finish
    <3>4. CASE k \in dropped
      BY <2>0, <3>1, <3>4 DEF Next, vars, EnqueueReplica, Send, Drop, Trigger, Take,
                        Deliver, ClearPending, ReadReplica, Finish
    <3> QED BY <3>1, <3>2, <3>3, <3>4 DEF NoSilentLoss
  <2> QED BY <2>1, <2>2, <2>3, <2>4
<1> QED BY <1>1, <1>2, TypeCorrect, PendingIsCarriedAlways, PTL DEF Spec

=============================================================================
