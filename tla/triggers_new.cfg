SPECIFICATION Spec
CONSTANTS
  c1 = c1  ns1 = ns1  secret = secret  obj = obj
  Replicas <- OneReplica
  NoOwner = NoOwner
  Clusters = {c1}
  Host = Host
  Namespaces = {ns1}
  NoNamespace = NoNamespace
  NamespaceOf <- AllInNs1
  Resources = {secret}
  ObjectOf <- OneObject
  Labels = {"in", "out"}
  Contents = {"a"}
  Missing = Missing
  Unrenderable = {}
  NoContent = NoContent
  Specs <- LabelsAndNextTo
  Capacity = 1
  MaxLag = 1
  MaxEdits = 2
INVARIANTS TypeOK NewMatchesServed
PROPERTY UsesSharedInformation
CHECK_DEADLOCK FALSE
