CONSTANTS
  Gates = {g1, g2}
  Accounts = {a1, a2}
  Roles = {r1}
  a1 = a1
  r1 = r1
  AccountOf <- RoleOfA1
  Servants = {s1, s2, s3}
  Scenes = {1}
  MaxIdx = 1
  WaitLimit = 0
  ReclaimAfter = 3
  Preempted = FALSE
  None = None
SPECIFICATION Spec
SYMMETRY Symmetry
INVARIANTS SessionsKeyed OneServantPerAccount PoolAccounted  OnlineFlagCleared NoFreedSocket
