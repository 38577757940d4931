SPECIFICATION FairSpec
CONSTANTS
  c1 = c1  ns1 = ns1  ns2 = ns2  v1 = v1  v2 = v2  obj = obj
  Replicas <- OneReplica
  NoOwner = NoOwner
  Clusters = {c1}
  Host = Host
  Namespaces = {ns1}
  NoNamespace = NoNamespace
  NamespaceOf <- AllInNs1
  Resources = {v1}
  ObjectOf <- OneObject
  Labels = {"in"}
  Contents = {"a", "b"}
  Missing = Missing
  Unrenderable = {"b"}
  NoContent = NoContent
  Specs <- TrackingSpecs
  FreshReads = TRUE
  MaxEdits = 2
  MaxFaults = 1
INVARIANTS TypeOK Tracked
PROPERTIES ImplementsRegistry IdenticalWasHandled DeletionCompletes
CHECK_DEADLOCK FALSE
