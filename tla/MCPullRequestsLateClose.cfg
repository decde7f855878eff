\* A close that decided before a merge and writes after it.
CONSTANTS
  alice = alice
  bob = bob
  carol = carol
  admin = admin
  dev = dev
  r1 = r1
  r2 = r2
  User = {alice}
  Role = {admin}
  Project = {billing}
  Group = {}
  Object = {tmpl}
  Payload = {x}
  Condition <- MCFixedOne
  InitCondition <- MCOneAdmin
  InitRoles <- MCEveryoneAdmin
  Assignable = {}
  Request = {r1, r2}
  MayDisconnect = FALSE
  MaxPR = 2
  MaxVersions = 2
SPECIFICATION Spec
INVARIANT VersionsAreMerged
\* Once the bounds are used up, nothing is left to do.
CHECK_DEADLOCK FALSE
