SPECIFICATION Spec
CONSTANTS
  c1 = c1
  c2 = c2
  c3 = c3
  u1 = u1
  u2 = u2
  Conns = {c1, c2, c3}
  Users = {u1, u2}
  NoUser = NoUser
  MaxLimit = 2
  InitialLimits <- Limits
  Environments <- Relogins
SYMMETRY ConnSymmetry
INVARIANT UserConnsAreCurrent
