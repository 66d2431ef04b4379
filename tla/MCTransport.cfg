CONSTANTS
  p1 = p1
  p2 = p2
  Profiles = {p1, p2}
  t1 = t1
  Tokens = {t1}
  NoToken = NoToken
  NoProfile = NoProfile
  Basic = {p1}
  MaxOps = 4
  MaxFaults = 1
  w1 = w1
  u1 = u1
  e1 = e1
  s1 = s1
  o1 = o1
  r1 = r1
  Writes = {w1}
  Uploads = {u1}
  Puts = {e1}
  Saves = {s1}
  Ops = {o1}
  Reads = {r1}
  Nobody = Nobody
  WindowSize = 2
  MaxChunks = 4
  MaxClock = 1
  MaxExternal = 1
SPECIFICATION MCSpec
CHECK_DEADLOCK FALSE
INVARIANTS RegistrySound 
PROPERTIES StaleNeverClearsToken 
