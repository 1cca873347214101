SPECIFICATION FairSpec
CONSTANTS
  s1 = s1
  s2 = s2
  n1 = n1
  n2 = n2
  n3 = n3
  Sites = {s1, s2}
  Ports = {0, 8081, 8082}
  AdminPort = 9999
  BadSites = {}
  Servers = {n1, n2}
  NoServer = NoServer
  MaxGo = 1
  InitialDisks <- DistinctDisk
  Environments <- SiteBySite
PROPERTY PortsAreReleased
CHECK_DEADLOCK FALSE
