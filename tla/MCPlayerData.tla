---------------------------- MODULE MCPlayerData ----------------------------
EXTENDS PlayerData

\* One point for the second level, which is written at once; the next point
\* stays in memory.
RisingNeed == [l \in 2..3 |-> l - 1]
=============================================================================
