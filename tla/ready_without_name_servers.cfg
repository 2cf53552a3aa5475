SPECIFICATION Spec
CONSTANTS
  d1 = d1
  d2 = d2
  ns1 = ns1
  ns2 = ns2
  ns3 = ns3
  t1 = t1
  t2 = t2
  t3 = t3
  s1 = s1
  s2 = s2
  Session = {s1, s2}
  Tab = {t1, t3}
  SessionOf <- SessionOfMC
  Domain = {d1}
  Host = {ns1, ns2, ns3, ns4}
  Address = {}
  Parent <- NoParent
  Own <- NoneOwn
  NoDomain = NoDomain
  Initially <- AllHosts
  MaxSaves = 2
  MaxViews = 0
  MaxFaults = 0
CHECK_DEADLOCK FALSE
INVARIANT ReadyResolves
