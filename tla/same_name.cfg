SPECIFICATION Spec
CONSTANTS
  c1 = c1  ns1 = ns1  ns2 = ns2  v1 = v1  v2 = v2  obj = obj
  Replicas <- SameName
  NoOwner = NoOwner
  Clusters = {c1}
  Host = Host
  Namespaces = {ns1}
  NoNamespace = NoNamespace
  NamespaceOf <- AllInNs1
  Resources = {v1}
  ObjectOf <- OneObject
  Labels = {"in"}
  Contents = {"a"}
  Missing = Missing
  Unrenderable = {}
  NoContent = NoContent
  Specs <- PlainSpec
  FreshReads = TRUE
  MaxEdits = 1
  MaxFaults = 1
PROPERTY DeletesOnlyOwn
CHECK_DEADLOCK FALSE
