-------------------------- MODULE SharedInformation --------------------------
(***************************************************************************)
(* The notification path between the controllers (internal/shared): the    *)
(* cluster and namespace controllers ask for a reconciliation with         *)
(* EnqueueReplica, the request travels through a bounded channel into the  *)
(* workqueue of the replica controller, and Reconcile starts by clearing   *)
(* the pending mark that suppresses duplicate requests.                    *)
(*                                                                         *)
(* EnqueueReplica releases its lock between the duplicate check and the    *)
(* send, and again between a failed send and the removal of the mark, so   *)
(* each of the three is a step of its own.                                 *)
(***************************************************************************)
EXTENDS Naturals, Sequences

CONSTANTS
  Keys,      \* namespace/name of the (Cluster)Replicas
  Threads,   \* goroutines that call EnqueueReplica
  Capacity   \* of replicaNotificationChannel

ASSUME CapacityAssumption == Capacity \in Nat

VARIABLES
  pendingReplicas,
  replicaNotificationChannel,
  thread,   \* the EnqueueReplica call each goroutine is in, if any
  queue,    \* the workqueue: a set, as it merges equal requests
  worker,   \* the reconciliation in progress, if any
  owed,     \* history: keys requested since Reconcile last read their object
  dropped   \* history: those with a request that was dropped and logged

history == <<owed, dropped>>
vars == <<pendingReplicas, replicaNotificationChannel, thread, queue, worker,
          history>>

Calls == [step : {"idle"}] \cup [step : {"send", "drop"}, key : Keys]
Reconciles ==
  [step : {"idle"}] \cup [step : {"taken", "cleared", "running"}, key : Keys]

Init ==
  /\ pendingReplicas = {}
  /\ replicaNotificationChannel = <<>>
  /\ thread = [t \in Threads |-> [step |-> "idle"]]
  /\ queue = {}
  /\ worker = [step |-> "idle"]
  /\ owed = {} /\ dropped = {}

------------------------------------------------------------------------------
(* EnqueueReplica *)

\* A key that is already pending is silently ignored, any other is marked.
EnqueueReplica(t, k) ==
  /\ thread[t].step = "idle"
  /\ owed' = owed \cup {k}
  /\ pendingReplicas' = pendingReplicas \cup {k}
  /\ thread' = IF k \in pendingReplicas THEN thread
               ELSE [thread EXCEPT ![t] = [step |-> "send", key |-> k]]
  /\ UNCHANGED <<replicaNotificationChannel, queue, worker, dropped>>

\* Mutant: one notification more than the channel holds.
SendOffByOne(t) ==
  /\ thread[t].step = "send"
  /\ Len(replicaNotificationChannel) <= Capacity
  /\ replicaNotificationChannel' = Append(replicaNotificationChannel, thread[t].key)
  /\ thread' = [thread EXCEPT ![t] = [step |-> "idle"]]
  /\ UNCHANGED <<pendingReplicas, queue, worker, history>>

\* The send does not block: a full channel selects the default branch.
Send(t) ==
  /\ thread[t].step = "send"
  /\ IF Len(replicaNotificationChannel) < Capacity
     THEN /\ replicaNotificationChannel' =
               Append(replicaNotificationChannel, thread[t].key)
          /\ thread' = [thread EXCEPT ![t] = [step |-> "idle"]]
     ELSE /\ thread' = [thread EXCEPT ![t].step = "drop"]
          /\ UNCHANGED replicaNotificationChannel
  /\ UNCHANGED <<pendingReplicas, queue, worker, history>>

\* Mutant: the mark of a dropped request stays.
DropKeepsMark(t) ==
  /\ thread[t].step = "drop"
  /\ dropped' = dropped \cup {thread[t].key}
  /\ thread' = [thread EXCEPT ![t] = [step |-> "idle"]]
  /\ UNCHANGED <<pendingReplicas, replicaNotificationChannel, queue, worker, owed>>

Drop(t) ==
  /\ thread[t].step = "drop"
  /\ pendingReplicas' = pendingReplicas \ {thread[t].key}
  /\ dropped' = dropped \cup {thread[t].key}
  /\ thread' = [thread EXCEPT ![t] = [step |-> "idle"]]
  /\ UNCHANGED <<replicaNotificationChannel, queue, worker, owed>>

------------------------------------------------------------------------------
(* The replica controller's side *)

\* The channel source hands the oldest notification to the workqueue.
Deliver ==
  /\ replicaNotificationChannel # <<>>
  /\ queue' = queue \cup {Head(replicaNotificationChannel)}
  /\ replicaNotificationChannel' = Tail(replicaNotificationChannel)
  /\ UNCHANGED <<pendingReplicas, thread, worker, history>>

\* A watch event, an interval or a retry puts a key into the queue directly.
Trigger(k) ==
  /\ queue' = queue \cup {k}
  /\ queue' # queue
  /\ UNCHANGED <<pendingReplicas, replicaNotificationChannel, thread, worker,
                 history>>

\* The only worker picks the next key and calls Reconcile.
Take(k) ==
  /\ worker.step = "idle"
  /\ k \in queue
  /\ queue' = queue \ {k}
  /\ worker' = [step |-> "taken", key |-> k]
  /\ UNCHANGED <<pendingReplicas, replicaNotificationChannel, thread, history>>

\* Mutant: Reconcile does not clear the mark.
NoClearPending ==
  /\ worker.step = "taken"
  /\ worker' = [worker EXCEPT !.step = "cleared"]
  /\ UNCHANGED <<pendingReplicas, replicaNotificationChannel, thread, queue, history>>

ClearPending ==
  /\ worker.step = "taken"
  /\ pendingReplicas' = pendingReplicas \ {worker.key}
  /\ worker' = [worker EXCEPT !.step = "cleared"]
  /\ UNCHANGED <<replicaNotificationChannel, thread, queue, history>>

\* The object and the clusters are read: whatever was requested is seen now.
ReadReplica ==
  /\ worker.step = "cleared"
  /\ owed' = owed \ {worker.key}
  /\ dropped' = dropped \ {worker.key}
  /\ worker' = [worker EXCEPT !.step = "running"]
  /\ UNCHANGED <<pendingReplicas, replicaNotificationChannel, thread, queue>>

Finish ==
  /\ worker.step = "running"
  /\ worker' = [step |-> "idle"]
  /\ UNCHANGED <<pendingReplicas, replicaNotificationChannel, thread, queue,
                 history>>

\* The process dies and a new one starts with nothing in memory.
Reset ==
  /\ pendingReplicas' = {}
  /\ replicaNotificationChannel' = <<>>
  /\ thread' = [t \in Threads |-> [step |-> "idle"]]
  /\ queue' = {}
  /\ worker' = [step |-> "idle"]
  /\ owed' = {} /\ dropped' = {}

------------------------------------------------------------------------------
Next ==
  \/ \E t \in Threads : Send(t) \/ Drop(t) \/ \E k \in Keys : EnqueueReplica(t, k)
  \/ \E k \in Keys : Trigger(k) \/ Take(k)
  \/ Deliver \/ ClearPending \/ ReadReplica \/ Finish \/ Reset

\* Goroutines are scheduled, and the workqueue is first come, first served.
Fairness ==
  /\ \A t \in Threads : WF_vars(Send(t) \/ Drop(t))
  /\ \A k \in Keys : SF_vars(Take(k))
  /\ WF_vars(Deliver)
  /\ WF_vars(ClearPending \/ ReadReplica \/ Finish)

Spec == Init /\ [][Next]_vars
FairSpec == Spec /\ Fairness

------------------------------------------------------------------------------
(* Properties *)

\* Every variable has the shape the code gives it; the channel never holds more
\* than its capacity.
TypeOK ==
  /\ pendingReplicas \in SUBSET Keys
  /\ replicaNotificationChannel \in Seq(Keys)
  /\ Len(replicaNotificationChannel) <= Capacity
  /\ thread \in [Threads -> Calls]
  /\ queue \in SUBSET Keys
  /\ worker \in Reconciles
  /\ owed \in SUBSET Keys
  /\ dropped \in SUBSET Keys

InChannel(k) ==
  \E i \in 1..Len(replicaNotificationChannel) : replicaNotificationChannel[i] = k
InCall(k, steps) == \E t \in Threads : thread[t].step \in steps /\ thread[t].key = k

\* A Reconcile of k that has not cleared the mark yet will come, or the call
\* that set the mark is still going to remove it.
Carried(k) ==
  \/ InCall(k, {"send", "drop"})
  \/ InChannel(k)
  \/ k \in queue
  \/ worker.step = "taken" /\ worker.key = k

\* A pending mark suppresses all later requests (66-73), so it must never stand
\* alone: whoever will remove it is always on the way, whatever the order in
\* which other calls, drops and direct triggers of the same key come.
PendingIsCarried == \A k \in pendingReplicas : Carried(k)

\* A request is lost only with the drop that logs it (84): unless one happened,
\* a requested key will be reconciled by a pass that reads after the request.
NoSilentLoss ==
  \A k \in owed :
    Carried(k) \/ (worker.step = "cleared" /\ worker.key = k) \/ k \in dropped

\* No key is suppressed for ever: every pending mark is eventually removed.
PendingClears ==
  \A k \in Keys : k \in pendingReplicas ~> k \notin pendingReplicas

=============================================================================
