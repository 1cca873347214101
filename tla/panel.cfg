SPECIFICATION Spec
CONSTANTS
  near = near
  nearR = nearR
  far = far
  farR = farR
  e1 = e1
  e2 = e2
  c1 = c1
  c2 = c2
  c3 = c3
  r1 = r1
  r2 = r2
  t1 = t1
  t2 = t2
  p1 = p1
  p2 = p2
  Paths = {near, nearR, far, farR}
  NoPath = NoPath
  Far = {far, farR}
  Recovered <- SomeNames
  Contents = {c1, c2, c3}
  FirstTree <- SomeTree
  Nothing = Nothing
  Entries = {e1, e2}
  NoEntry = NoEntry
  Clients = {r1, r2}
  FileUses <- SomeFileUses
  Tokens = {t1, t2}
  Visitors = {r1, r2}
  NoVisitor = NoVisitor
  NoToken = NoToken
  MaxDownloads = 1
  MaxRestarts = 1
  ShareUses <- SomeShareUses
  TotalChunks = 2
  Senders = {r1, r2}
  UploadUses <- SomeUploadUses
  Procs = {p1, p2}
  NoProc = NoProc
  Askers = {r1, r2}
  ScriptUses <- SomeScriptUses
  Writers = {r1, r2}
  Lines = {c1, c2, c3}
  Details = {c1}
  NoLine = NoLine
  MaxDay = 2
  MaxOpenings = 3
SYMMETRY RequestsAreAlike
INVARIANTS
  TypeOK
  NothingLost
  SharesKept
  MergedWhole
  ScriptsAccounted
  LinesWritten
CHECK_DEADLOCK FALSE
