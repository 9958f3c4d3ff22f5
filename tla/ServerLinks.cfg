SPECIFICATION FairSpec
CONSTANTS
  Gateways = {g1}
  Realms = {{"login", "master"}, {"login", "scene"}}
  MaxConns = 3
  MaxFaults = 1
  None = None
INVARIANTS
  
  Registrations
PROPERTIES
  LostLinksEnd
  ClientsCut
CHECK_DEADLOCK FALSE
