--------------------------- MODULE MCReplicaStatus ---------------------------
(***************************************************************************)
(* Targets and specs for ReplicaStatus.                                    *)
(***************************************************************************)
EXTENDS ReplicaStatus

CONSTANTS c1, remote, local, s1

\* A resource on a cluster and one on the platform cluster.
Where == [k \in Keys |-> IF k = remote THEN c1 ELSE Host]
OnHost == [k \in Keys |-> local]

Onto(how, bytes) ==
  [cluster |-> c1, nextTo |-> FALSE, keys |-> {remote}, by |-> how, policy |-> "Fail",
   raw |-> bytes]
Hosting(strategy) ==
  [cluster |-> Host, nextTo |-> FALSE, keys |-> {local}, by |-> "names",
   policy |-> strategy, raw |-> "a"]
Copy(ts) == [parses |-> TRUE, source |-> s1, targets |-> ts]

\* Definitions that overlap, with the same output or with different output; one
\* that cannot be evaluated; one whose copies are skipped if they exist; a template
\* that cannot be parsed.
SomeSpecs ==
  {Copy(<<Onto("labels", "a"), Onto("names", "a"), Hosting("Fail")>>),
   Copy(<<Onto("names", "a"), Onto("names", "b")>>),
   Copy(<<Hosting("Skip"), Onto("invalid", "a")>>),
   Copy(<<Hosting("Skip")>>),
   [Copy(<<Hosting("Skip")>>) EXCEPT !.parses = FALSE]}
=============================================================================
