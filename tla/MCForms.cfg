SPECIFICATION Spec
CONSTANTS
  k1 = k1
  k2 = k2
  r1 = r1
  r2 = r2
  u1 = u1
  u2 = u2
  None = None
  Keys = {k1, k2}
  Definitions <- MCDefinitions
  Roles = {r1, r2}
  Users = {u1, u2}
  MaxVersions = 2
  MaxSubmissions = 1
SYMMETRY Symmetry
INVARIANTS
  CurrentAgrees
  SubmissionsFitTheirVersion
CHECK_DEADLOCK FALSE
