SPECIFICATION FairSpec
CONSTANTS
  Scenes = {1, 2}
  MaxLevel = 3
  NeedExp <- RisingNeed
  CoinLimit = 1
  MaxExp = 2
  MaxMoney = 1
  MaxLogins = 2
  MaxMoves = 1
  MaxFaults = 1
  Off = Off
INVARIANTS
  ExpCountedOnce
PROPERTIES
  
  CoinsKept
  GainedIsSent
CHECK_DEADLOCK FALSE
