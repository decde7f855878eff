\* One author and one environment; no deployment, and nobody to grant anything to.
SPECIFICATION Spec
PROPERTY ValidWorkspaceIsSafe
CONSTANTS
  User = {u}
  Request = {r1}
  Permission = {read}
  None = none
  Author = {a}
  TemplateName = {t}
  EnvName = {e}
  Body = {"plain", "needs"}
  Payload = {"full"}
  Required = {"needs"}
  Complete = {"full"}
  Deployment = {}
  MaxVersions = 3
  MaxEnvs = 1
CHECK_DEADLOCK FALSE
