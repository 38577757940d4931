------------------------ MODULE MCReplicaController ------------------------
(***************************************************************************)
(* Values for those constants of ReplicaController that a cfg cannot write:*)
(* who the (Cluster)Replicas are and what specs users give them.           *)
(***************************************************************************)
EXTENDS ReplicaController

CONSTANTS c1, ns1, ns2, v1, v2, obj

foo == [kind |-> "replica", namespace |-> ns1, name |-> "foo"]
bar == [kind |-> "replica", namespace |-> ns1, name |-> "bar"]
otherFoo == [kind |-> "replica", namespace |-> ns2, name |-> "foo"]

OneReplica == {foo}
TwoNames == {foo, bar}
SameName == {foo, otherFoo}

AllInNs1 == [c \in Clusters |-> ns1]
OneObject == [k \in Resources |-> obj]

\* Target definitions and specs, all for one resource with a fixed name.
Target(where, how, ifThere, ifGone) ==
  [on |-> where, selector |-> {"in"}, by |-> how, names |-> {ns1},
   nsLabels |-> {"in"}, conflict |-> ifThere, missing |-> ifGone]
Onto(by, conflict, missing) == Target("onto", by, conflict, missing)
NextTo == Target("nextTo", "none", "Overwrite", "Fail")
Hosting(by) == Target("hosting", by, "Skip", "Skip")

SpecWith(ok, tmpl, gvk, ts) ==
  [parses |-> ok, templated |-> tmpl, varies |-> {}, home |-> ns1,
   resource |-> [c \in Refs |-> gvk], targets |-> ts]
Varying(ts) == [SpecWith(TRUE, TRUE, v1, ts) EXCEPT !.varies = {"namespace"}]
Template(ts) == SpecWith(TRUE, TRUE, v1, ts)
Copy(ts) == SpecWith(TRUE, FALSE, v1, ts)
Broken == SpecWith(FALSE, TRUE, v1, <<>>)

\* Every kind of target definition; three of them overlap, the first of which
\* renders something else.
TrackingSpecs ==
  {Varying(<<Onto("none", "Overwrite", "Create"),
             Onto("identities", "Overwrite", "Create"),
             Onto("labels", "Overwrite", "Create")>>),
   Copy(<<Hosting("invalid"), NextTo>>),
   Broken}

\* One definition, for (Cluster)Replicas that compete for one object and for
\* the deletion of what it creates.
PlainSpec == {Template(<<Onto("identities", "Overwrite", "Create")>>)}

\* The same target before and after its apiVersion was changed.
VersionSpecs ==
  LET ts == <<Onto("identities", "Overwrite", "Create")>>
  IN {Template(ts), SpecWith(TRUE, TRUE, v2, ts)}

ASSUME OneKeyPerEntry
=============================================================================
