-------------------------- MODULE MCMonsterCombat --------------------------
EXTENDS MonsterCombat

CONSTANT p1
=============================================================================
