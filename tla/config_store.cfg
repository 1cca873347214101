SPECIFICATION Spec
CONSTANTS
  u1 = u1
  u2 = u2
  r1 = r1
  r2 = r2
  Names = {u1, u2}
  FirstUsers <- TwoUsers
  Requests = {r1, r2}
  MaxSets = 2
  MaxUsers = 3
  NoName = NoName
  Uses <- SomeUses
  Savers = {r1, r2}
  MaxVersion = 2
  MaxCrashes = 1
  Nobody = Nobody
  Histories <- SomeHistories
SYMMETRY RequestSymmetry
INVARIANTS
  TypeOK
  PasswordIsLastSet
  SettingsAreOwn
  NamesUnique
  AdminPasswordIsLastSet
  AckedInEffect
PROPERTIES
  KeepsPromise
CHECK_DEADLOCK FALSE
