\* A project or a Global Values group: overlapping requests, changing roles and
\* conditions, vanishing clients. OneKind keeps a behaviour to one of the two.
CONSTANTS
  alice = alice
  bob = bob
  carol = carol
  admin = admin
  dev = dev
  r1 = r1
  r2 = r2
  User = {alice}
  Role = {admin}
  Project = {billing}
  Group = {secrets}
  Object = {tmpl}
  Payload = {x}
  Condition <- MCOneOrTwo
  InitCondition <- MCOneAdmin
  InitRoles <- MCEveryoneAdmin
  Assignable <- MCAliceRole
  Request = {r1, r2}
  MayDisconnect = TRUE
  MaxPR = 2
  MaxVersions = 3
SPECIFICATION Spec
SYMMETRY RequestSymmetry
CONSTRAINT OneKind
INVARIANTS
  TypeOK
  DraftIsUnreviewed
  VersionsKeepTheirPR
  GroupNoLostUpdate
\* Once the bounds are used up, nothing is left to do.
CHECK_DEADLOCK FALSE
