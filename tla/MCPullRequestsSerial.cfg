\* One request at a time, fixed roles and conditions.
CONSTANTS
  alice = alice
  bob = bob
  carol = carol
  admin = admin
  dev = dev
  r1 = r1
  r2 = r2
  User = {alice, bob, carol}
  Role = {admin, dev}
  Project = {billing}
  Group = {}
  Object = {tmpl}
  Payload = {x, y}
  Condition <- MCFixedOr
  InitCondition <- TwoAdminsOrDev
  InitRoles <- MCCarolDev
  Assignable = {}
  Request = {r1}
  MayDisconnect = FALSE
  MaxPR = 2
  MaxVersions = 2
SPECIFICATION Spec
SYMMETRY PayloadSymmetry
INVARIANTS
  OneActivePRPerProject
  ApprovedIsMet
  ApprovedWasReviewed
  NoStaleProjectPR
  OneChangePerObject
PROPERTY TerminalIsFinal
\* Once the bounds are used up, nothing is left to do.
CHECK_DEADLOCK FALSE
