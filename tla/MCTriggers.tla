------------------------------ MODULE MCTriggers ------------------------------
(***************************************************************************)
(* Values for those constants of Triggers that a cfg cannot write.         *)
(***************************************************************************)
EXTENDS Triggers

CONSTANTS c1, ns1, secret, obj

foo == [kind |-> "replica", namespace |-> ns1, name |-> "foo"]

OneReplica == {foo}
AllInNs1 == [c \in Clusters |-> ns1]
OneObject == [k \in Resources |-> obj]

Target(where, how, policy) ==
  [on |-> where, selector |-> {"in"}, by |-> how, names |-> {ns1},
   nsLabels |-> {"in"}, conflict |-> "Overwrite", missing |-> policy]
Onto(by) == Target("onto", by, "Create")
NextTo == Target("nextTo", "none", "Fail")
Hosting(by) == Target("hosting", by, "Create")

Copy(ts) ==
  [parses |-> TRUE, templated |-> FALSE, varies |-> {}, home |-> ns1,
   resource |-> [c \in Refs |-> secret], targets |-> ts]

\* By label on the clusters and next to them; by name or by label.
LabelsAndNextTo == {Copy(<<Onto("labels"), NextTo>>)}
OntoNames == {Copy(<<Onto("identities")>>)}
HostSpecs == {Copy(<<Hosting(by)>>) : by \in {"labels", "identities"}}
=============================================================================
