SPECIFICATION Spec
CONSTANTS
  s1 = s1
  s2 = s2
  n1 = n1
  n2 = n2
  n3 = n3
  Sessions = {s1, s2}
  Names = {n1, n2, n3}
  MaxFiles = 1
  MaxSize = 1
  Opens = 3
  Absent = Absent
  Dir = Dir
  Environments <- TransferUses
INVARIANTS
  TypeOK
  OwnConnection
  FileLimit
  RepliesTrue
PROPERTIES
  Answered
CHECK_DEADLOCK FALSE
