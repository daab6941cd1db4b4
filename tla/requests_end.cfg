CONSTANTS
  None = None
  r1 = r1  r2 = r2  r3 = r3
  home = home  away = away  p1 = p1  k1 = k1
  Requests = {r1, r2, r3}
  Home = home
  Away = away
  AllClubs = {home, away}
  Players = {p1}
  Keys = {k1}
  Minutes = {10}
  Notes = {"note"}
  Configs <- OnlyFormal
  Payloads <- CardPayloads
  Instants = {0}
  PoolSize = 2
SPECIFICATION FairSpec
CHECK_DEADLOCK FALSE
PROPERTIES
  RequestsEnd
  Serializable
