\* Two users, three requests that check and write; adding takes none. The
\* requests run out, so the system stops when everything has been granted.
\* One author, three versions and two environments ever created.
SPECIFICATION Spec
SYMMETRY UserSymmetry
INVARIANTS LastAdminStays ManagedRoleNeedsMembership StoredPermissionsWereAskedFor
           DeploymentsAreReproducible
PROPERTY MergeMakesWhatWorkspaceShows
CONSTANTS
  User = {u, v}
  Request = {r1, r2, r3}
  Permission = {read}
  None = none
  Author = {a}
  TemplateName = {t}
  EnvName = {e}
  Body = {"plain", "needs"}
  Payload = {"full", "bare"}
  Required = {"needs"}
  Complete = {"full"}
  Deployment = {d}
  MaxVersions = 3
  MaxEnvs = 2
CHECK_DEADLOCK FALSE
