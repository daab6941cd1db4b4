CONSTANTS
  None = None
  r1 = r1  r2 = r2  r3 = r3
  p1 = p1  p2 = p2  p3 = p3
  Focuses = {"lineups", "tournaments", "standings", "news", "external ids"}
  Requests = {r1, r2}
  Players = {p1, p2, p3}
  Formations = {"narrow", "wide"}
  Slots = {"GK", "ST", "CB"}
  SlotsOf <- Narrow
  TeamSize = 2
  Payloads <- EditPayloads
  Tournaments = {t1, t2, t3}
  Edits = {r1, r2}
  Nobody = Nobody
  LeagueClubs = {1, 2, 3}
  FixtureIds = {1, 2}
  LeagueScores = {0, 1}
  Posts = {q1, q2, q3}
  TitleSlugs <- TwoTitles
  Entities = {club, other, third}
  ForeignIds = {x1, x2}
  NoId = NoId
  Imports = {q1, q2, q3}
SPECIFICATION LeagueSpec
SYMMETRY LeagueSymmetric
CHECK_DEADLOCK FALSE
INVARIANTS
  OneRequestsEleven
  TwoCurrentOnlyByCreation
  BooksBalance
  PublishedIsDated
  MappingsAreAudited
PROPERTIES
  OwnResultsOnly
  DuplicateOnlyByRace
