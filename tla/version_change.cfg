SPECIFICATION Spec
CONSTANTS
  c1 = c1  ns1 = ns1  ns2 = ns2  v1 = v1  v2 = v2  obj = obj
  Replicas <- OneReplica
  NoOwner = NoOwner
  Clusters = {c1}
  Host = Host
  Namespaces = {ns1}
  NoNamespace = NoNamespace
  NamespaceOf <- AllInNs1
  Resources = {v1, v2}
  ObjectOf <- OneObject
  Labels = {"in"}
  Contents = {"a"}
  Missing = Missing
  Unrenderable = {}
  NoContent = NoContent
  Specs <- VersionSpecs
  FreshReads = TRUE
  MaxEdits = 1
  MaxFaults = 0
INVARIANT SyncedNotDeleted
CHECK_DEADLOCK FALSE
