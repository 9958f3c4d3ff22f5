SPECIFICATION Spec
CONSTANTS
  Names = {n1, n2}
  Clients = {c1, c2}
  Asks = {a1, a2}
  MaxLogins = 2
  MaxReloads = 1
  None = None
INVARIANTS
  
  GrantsBounded
SYMMETRY Symmetry
CHECK_DEADLOCK FALSE
