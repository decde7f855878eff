\* An approval evaluated on a set of approvals that an edit or a withdrawal has voided.
CONSTANTS
  alice = alice
  bob = bob
  carol = carol
  admin = admin
  dev = dev
  r1 = r1
  r2 = r2
  User = {alice}
  Role = {admin}
  Project = {billing}
  Group = {}
  Object = {tmpl}
  Payload = {x}
  Condition <- MCFixedOne
  InitCondition <- MCOneAdmin
  InitRoles <- MCEveryoneAdmin
  Assignable = {}
  Request = {r1, r2}
  MayDisconnect = FALSE
  MaxPR = 2
  MaxVersions = 2
SPECIFICATION Spec
INVARIANT ApprovedIsMet
\* Once the bounds are used up, nothing is left to do.
CHECK_DEADLOCK FALSE
