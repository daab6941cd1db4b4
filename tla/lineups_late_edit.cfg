CONSTANTS
  None = None
  r1 = r1  r2 = r2  r3 = r3
  p1 = p1  p2 = p2  p3 = p3
  Requests = {r1, r2}
  Players = {p1, p2, p3}
  Formations = {"narrow", "wide"}
  Slots = {"GK", "ST", "CB"}
  SlotsOf <- Narrow
  TeamSize = 2
  Payloads <- FewPayloads
SPECIFICATION LineupSpec
SYMMETRY Symmetric
CHECK_DEADLOCK FALSE
PROPERTIES
  EditedOnlyWhileScheduled
