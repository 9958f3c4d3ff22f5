SPECIFICATION Spec
CONSTANTS
  p1 = p1
  Players = {p1}
  Far = 2
  Leash = 1
  HomeRange = 0
  CastRange = 1
  MaxHp = 2
  Roams = TRUE
  MaxEffects = 1
  AttackTypes = {"peace", "passive", "active"}
  None = None
INVARIANTS
  Watched
  KilledOnce
PROPERTIES
  EvadeEnds
  TargetDropped
