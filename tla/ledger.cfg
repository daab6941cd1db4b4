CONSTANTS
  None = None
  r1 = r1  r2 = r2  r3 = r3  r4 = r4  r5 = r5
  home = home  away = away  p1 = p1  p2 = p2
  Requests = {r1, r2, r3, r4, r5}
  Home = home
  Away = away
  AllClubs = {home, away}
  Players = {p1, p2}
  Keys = {}
  Minutes = {10}
  Notes = {"note"}
  Configs <- FormalAndRelaxed
  Payloads <- AllPayloads
  Instants = {0, 60000, 180000}
SPECIFICATION LedgerSpec
SYMMETRY Symmetric
CONSTRAINT Families
CHECK_DEADLOCK FALSE
INVARIANTS
  SubstitutionLimitHeld
  AuditExplainsEvents
  AutoRedHasSource
  KickoffFreezesRules
  ClockColumnsAgree
PROPERTIES
  RulesStayFrozen
  StrictPeriodOrder
  OnlyUpdatesSetAside
  DisplayedMinuteAdvances
  FullTimeIsFinal
  SecondYellowSendsOff
