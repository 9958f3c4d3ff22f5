CONSTANTS
  Gates = {g1, g2}
  Accounts = {a1}
  Roles = {r1}
  a1 = a1
  r1 = r1
  AccountOf <- RoleOfA1
  Servants = {s1, s2}
  Scenes = {1}
  MaxIdx = 1
  WaitLimit = 0
  ReclaimAfter = 3
  Preempted = TRUE
  None = None
SPECIFICATION FairSpec
PROPERTIES LoginsEnd OneLoginAtATime
