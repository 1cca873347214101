SPECIFICATION Spec
CONSTANTS
  d1 = d1
  d2 = d2
  d3 = d3
  s1 = s1
  s2 = s2
  j1 = j1
  j2 = j2
  Domains = {d1, d2, d3}
  Sites = {s1, s2}
  SiteOf <- SomeSites
  Jobs = {j1, j2}
  MaxVersion = 2
  MaxRestarts = 1
  NoDomain = NoDomain
  Uses <- SomeUses
SYMMETRY JobSymmetry
INVARIANTS
  TypeOK
  PairsOnDisk
  ServedAsPromised
  ManagedAsPromised
  ChallengeKept
CHECK_DEADLOCK FALSE
