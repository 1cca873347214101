SPECIFICATION ShareFairSpec
CONSTANTS
  Tokens = {t1}
  Visitors = {v1}
  NoVisitor = NoVisitor
  NoToken = NoToken
  MaxDownloads = 1
  MaxRestarts = 0
  ShareUses <- CalmShares
PROPERTIES
  ListIsAnswered
CHECK_DEADLOCK FALSE
