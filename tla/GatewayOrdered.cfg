CONSTANTS
  Socks = {s1, s2}
  Accounts = {a1}
  Roles = {r1}
  a1 = a1
  r1 = r1
  AccountOf <- RoleOfA1
  Scenes = {1}
  Interleaved = FALSE
  Turns = 1
  Fallible = {0, 1}
  Deletes = TRUE
  None = None
SPECIFICATION FairSpec
 
PROPERTIES RemovesOwnPending ClientsLeave
