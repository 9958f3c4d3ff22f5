SPECIFICATION FairSpec
CONSTANTS
  SizeX = 4
  SizeY = 2
  m1 = m1
  Players = {p1, p2}
  Monsters = {m1}
  Home <- MCHome
  Out = Out
INVARIANTS
  NearPlayersActive
  ActivationAgrees
PROPERTIES
  WokenWithCell
  KilledRespawns
