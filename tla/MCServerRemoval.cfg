\* Two users, one request: the member who is removed need not be the last admin.
SPECIFICATION Spec
PROPERTY RemovalRevokesRoles
CONSTANTS
  User = {u, v}
  Request = {r1}
  Permission = {read}
  None = none
  Author = {a}
  TemplateName = {t}
  EnvName = {e}
  Body = {"plain", "needs"}
  Payload = {"full"}
  Required = {"needs"}
  Complete = {"full"}
  Deployment = {}
  MaxVersions = 1
  MaxEnvs = 1
CHECK_DEADLOCK FALSE
