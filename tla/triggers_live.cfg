SPECIFICATION FairSpec
CONSTANTS
  c1 = c1  ns1 = ns1  secret = secret  obj = obj
  Replicas <- OneReplica
  NoOwner = NoOwner
  Clusters = {}
  Host = Host
  Namespaces = {ns1}
  NoNamespace = NoNamespace
  NamespaceOf <- AllInNs1
  Resources = {secret}
  ObjectOf <- OneObject
  Labels = {"in", "out"}
  Contents = {"a"}
  Missing = Missing
  Unrenderable = {}
  NoContent = NoContent
  Specs <- HostSpecs
  Capacity = 1
  MaxLag = 1
  MaxEdits = 2
PROPERTY EventuallyServed
CHECK_DEADLOCK FALSE
