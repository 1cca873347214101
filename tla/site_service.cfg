SPECIFICATION Spec
CONSTANTS
  s1 = s1
  s2 = s2
  n1 = n1
  n2 = n2
  n3 = n3
  Sites = {s1, s2}
  Ports = {0, 8081, 8082}
  AdminPort = 9999
  BadSites = {}
  Servers <- Servers3
  NoServer = NoServer
  MaxGo = 1
  InitialDisks <- TwoDisks
  Environments <- Environments7
SYMMETRY ServerSymmetry
CHECK_DEADLOCK FALSE
INVARIANTS
  TypeOK
  NoOrphanServer
  RegisteredServersAreOpen
  ListenedPortHasSite
  EnabledSiteListens
  DiskMatchesMemory
