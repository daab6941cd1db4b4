CONSTANTS
  i1 = i1  i2 = i2  k1 = k1  k2 = k2
  Focuses = {"migrator", "limiter", "mails", "room"}
  Instances = {i1, i2}
  Files <- OldAndNew
  Latest = 2
  NoInstance = NoInstance
  MaxBoots = 2
  ClientKeys = {k1, k2}
  Limits <- TwoAndOne
  Window = 2
  LastInstant = 5
  Mails = {m1, m2}
  Awaited = {m1}
  Lifetime = 4
  Skew = 2
  LastSecond = 7
  Sockets = {s1, s2}
  Handlers = {h1}
SPECIFICATION PlatformSpec
CHECK_DEADLOCK FALSE
INVARIANTS
  BootsAgree
  SkewCoversDelays
PROPERTIES
  MigratesInOrder
  BootsEnd
  LimitsByWindow
  ChangesReachViewers
