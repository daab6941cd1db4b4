CONSTANTS
  None = None
  c1 = c1  c2 = c2
  Requests = {q1, q2}
  First = First
  Clubs = {c1, c2}
  FirstClubs = {c1}
  Offers <- ManagerAndAdmin
  Updates <- SwitchAndReassign
  LastSecond = 2
  Lifetime = 1
  LinkLifetime = 1
  InviteLifetime = 1
SPECIFICATION Spec
CHECK_DEADLOCK FALSE
INVARIANTS
  InviteUsedOnce
