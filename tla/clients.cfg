CONSTANTS
  None = None
  c1 = c1  c2 = c2
  Requests = {q1, q2, q3}
  First = First
  Clubs = {c1, c2}
  FirstClubs = {c1}
  Offers <- ManagerAndAdmin
  Updates <- SwitchAndReassign
  LastSecond = 2
  Lifetime = 1
  LinkLifetime = 1
  InviteLifetime = 1
  Sockets = {s1, s2}
  Handlers = {h1, h2}
SPECIFICATION ClientsSpec
SYMMETRY ClientsSymmetric
CONSTRAINTS
  ThreeOfAFamily
  FiveStamps
CHECK_DEADLOCK FALSE
INVARIANTS
  AccountTypeOK
  SessionIsOwn
  RotationIsWhole
  LinkResetsOnce
  AccountIsOneInvites
  OnlySuperAdminsAppointAdmins
  SubscribersInRoom
PROPERTIES
  AcceptedIsSpent
  BroadcastReachesRoom
