CONSTANTS
  Socks = {s1, s2, s3}
  Accounts = {a1}
  Roles = {r1}
  a1 = a1
  r1 = r1
  AccountOf <- RoleOfA1
  Scenes = {1}
  Interleaved = TRUE
  Turns = 0
  Fallible = {1}
  Deletes = FALSE
  None = None
SPECIFICATION Spec
SYMMETRY Symmetry
INVARIANTS ListsKeyed  InSceneReachable
