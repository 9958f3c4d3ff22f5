SPECIFICATION Spec
CONSTANTS
  potion = potion
  sword = sword
  Protos = {potion, sword}
  Equipment = {sword}
  MaxCount <- StackOfThree
  BindType <- BoundByUse
  SubClass <- PlaceOf
  GridLimit <- SmallPacks
  MaxGuid = 3
  MaxGrant = 2
  MaxCrashes = 1
INVARIANTS
  Placed
  WithinLimits
  DbAgrees
PROPERTIES
  UnitsKept
