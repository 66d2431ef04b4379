CONSTANTS
  k1 = k1
  k2 = k2
  u1 = u1
  u2 = u2
  e1 = e1
  e2 = e2
  Keys = {k1, k2}
  Main = k1
  Urls = {u1, u2}
  Home = u1
  NoUrl = NoUrl
  Ambient = NoUrl
  Edits = {e1, e2}
  Word = e1
  Original = Original
  Blank = Blank
  Features = {"force", "git", "encrypt", "restart", "targets", "url", "fail"}
  MaxFlight = 2
  MaxGen = 4
  MaxConn = 3
  MaxRevision = 3
SPECIFICATION MCSpec
CHECK_DEADLOCK FALSE
INVARIANTS  CleanWasWritten
PROPERTIES NoSilentLoss
