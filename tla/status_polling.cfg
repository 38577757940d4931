SPECIFICATION FairSpec
CONSTANTS
  c1 = c1  remote = remote  local = local  s1 = s1
  Keys = {remote, local}
  Clusters = {c1}
  Host = Host
  OnCluster <- Where
  Beside <- OnHost
  Raws = {"a", "b"}
  Sources = {s1}
  Specs <- SomeSpecs
  Periodic = FALSE
  MaxEdits = 3
  MaxFaults = 1
INVARIANT TypeOK
PROPERTIES PollsOnlyWhileWaiting UnservedIsRetried ObsoleteRemoved FinalizerRemoved HealthyWhenFixed
CHECK_DEADLOCK FALSE
