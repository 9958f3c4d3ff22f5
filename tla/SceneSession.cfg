SPECIFICATION FairSpec
CONSTANTS
  Gates = {g1, g2}
  Players = {p1}
  Sessions = {s1, s2, s3}
  Maps = {m1, m2}
  Handled = {m1}
  Born = m1
  MaxIdx = 1
  MaxMoves = 1
  MaxAsks = 2
  Gone = Gone
  None = None
INVARIANTS
  SessionsHeld
  PlayersHaveSessions
PROPERTIES
  SessionsEnd
