---------------------------- MODULE MapGrid ----------------------------
(***************************************************************************)
(* A map of a scene server: the grid of cells, which of them are active,   *)
(* which monsters are updated, and the life of a monster from its birth    *)
(* with its cell to its respawn.  Normal scenes only: instances force all  *)
(* of their cells.                                                         *)
(*                                                                         *)
(* MapMgr::Update goes through the active monsters, then applies the       *)
(* activations and deactivations noted meanwhile; events, players, Lua     *)
(* timers and packets come after that.  They are taken in any order here,  *)
(* between ApplyPending and the next StartPass.                            *)
(*                                                                         *)
(* An object is where its cell is: what lies within a cell, and with it    *)
(* the in-range sets, is left out.  A cell that has not been created is    *)
(* one that is neither active nor loaded.                                  *)
(***************************************************************************)
EXTENDS Integers

CONSTANTS
  SizeX, SizeY,  \* _sizeX, _sizeY
  Players,
  Monsters,      \* the monsters of the spawn list
  Home,          \* the cell of each monster's spawn location
  Out            \* in no cell

Cells == (0..SizeX-1) \X (0..SizeY-1)
Objects == Players \cup Monsters

ASSUME ConstantsAssumption ==
  /\ SizeX \in Nat \ {0} /\ SizeY \in Nat \ {0}
  /\ Home \in [Monsters -> Cells]
  /\ Players \cap Monsters = {}
  /\ Out \notin Cells

VARIABLES
  grid,  \* the cells, the objects in them, and the two pending lists
  life,  \* unborn, alive, corpse (m_corpseEvent), decay (OnRemoveCorpse to come), gone
  run,   \* activeMonsters
  pc,    \* whether the pass over the active monsters is under way
  todo   \* active monsters the pass has not come to

vars == <<grid, life, run, pc, todo>>

-----------------------------------------------------------------------------
(* Cells *)

Apart(c, d, r) ==
  \/ c[1] - d[1] > r \/ d[1] - c[1] > r
  \/ c[2] - d[2] > r \/ d[2] - c[2] > r

\* startX..endX and startY..endY
Around(c, r) == ((c[1]-r .. c[1]+r) \X (c[2]-r .. c[2]+r)) \cap Cells

HasPlayers(w, c) == \E p \in Players : w.at[p] = c

\* HaveActivityMonsters: the AI is not idle.
HaveActivityMonsters(w, c) == \E m \in Monsters : w.at[m] = c /\ m \in w.fight

\* Mutant: only the cell itself counts.
OwnCellActive(w, c) == HasPlayers(w, c) \/ HaveActivityMonsters(w, c)

\* __isCellActive
isCellActive(w, c) ==
  \E d \in Around(c, 1) : HasPlayers(w, d) \/ HaveActivityMonsters(w, d)

\* Object::Activate and Deactivate
Activate(w, ms) == [w EXCEPT !.on = @ \cup ms, !.add = @ \cup ms]

Deactivate(w, ms) == [w EXCEPT !.on = {m \in @ : m \notin ms}, !.del = @ \cup ms]

\* SetActivity and LoadObjects for the cells that change: those that become
\* active (up) wake what is in them and give birth to their monsters once; those
\* that are no longer active (down) put theirs to sleep.
SetActivity(w, up, down) ==
  LET born == {m \in Monsters : Home[m] \in up /\ Home[m] \notin w.loaded}
      wake == {m \in Monsters : m \in born \/ (w.at[m] \in up /\ m \notin w.on)}
      sleep == {m \in w.on : w.at[m] \in down}
      w1 == [w EXCEPT !.active = {d \in Cells : d \in up \/ (d \in @ /\ d \notin down)},
                      !.loaded = @ \cup up,
                      !.at = [o \in Objects |-> IF o \in born THEN Home[o] ELSE @[o]]]
  IN Deactivate(Activate(w1, wake), sleep)

UpdateCellActivity(w, c, r) ==
  LET up == {d \in Around(c, r) : d \notin w.active /\ isCellActive(w, d)}
      down == {d \in Around(c, r) : d \in w.active /\ ~isCellActive(w, d)}
  IN SetActivity(w, up, down)

\* A cell that is entered is given a chance to become active.
TryCell(w, c) == IF c \in w.active THEN w ELSE UpdateCellActivity(w, c, 0)

Put(w, o, c) == [w EXCEPT !.at[o] = c]

-----------------------------------------------------------------------------
(* Objects *)

\* PushObject
PushPlayer(w, p, c) == UpdateCellActivity(TryCell(Put(w, p, c), c), c, 2)

\* Mutant: a monster is not activated when it is pushed.
PushAsleep(w, m, c) == TryCell(Put(w, m, c), c)

PushMonster(w, m, c) ==
  LET w1 == TryCell(Put(w, m, c), c)
  IN IF c \in w1.active THEN Activate(w1, {m}) ELSE w1

\* RemoveObject.  A player's position may be in the cell next to the one that
\* lists it (x): cells change only after a move of 1.5.
RemovePlayer(w, p, x) == UpdateCellActivity(Put(w, p, Out), x, 2)

RemoveMonster(w, m) == Put(IF m \in w.on THEN Deactivate(w, {m}) ELSE w, m, Out)

\* ChangeObjectLocation
ChangePlayerLocation(w, p, c) ==
  LET w1 == UpdateCellActivity(Put(TryCell(w, c), p, c), c, 2)
  IN IF Apart(c, w.at[p], 2) THEN UpdateCellActivity(w1, w.at[p], 2) ELSE w1

\* Mutant: a monster that walks into a cell that sleeps goes on.
WalkOn(w, m, c) == Put(TryCell(w, c), m, c)

ChangeMonsterLocation(w, m, c) ==
  LET w1 == TryCell(w, c)
  IN Put(IF c \notin w1.active /\ m \in w1.on THEN Deactivate(w1, {m}) ELSE w1, m, c)

-----------------------------------------------------------------------------
Init ==
  /\ grid = [at |-> [o \in Objects |-> Out], fight |-> {}, on |-> {},
             active |-> {}, loaded |-> {}, add |-> {}, del |-> {}]
  /\ life = [m \in Monsters |-> "unborn"]
  /\ run = {} /\ pc = "others" /\ todo = {}

\* The monsters born on the way from grid to w are alive.
Births(w) ==
  /\ grid' = w
  /\ life' = [m \in Monsters |->
                IF life[m] = "unborn" /\ grid'.at[m] # Out THEN "alive" ELSE life[m]]

-----------------------------------------------------------------------------
(* _PerformUpdateMonsters *)

\* Mutant: monsters that were deactivated since the last pass are skipped.
UpdatedAwake == run \cap grid.on

Updated == run

StartPass ==
  /\ pc = "others"
  /\ pc' = "monsters" /\ todo' = Updated
  /\ UNCHANGED <<grid, life, run>>

\* Monster::Update
UpdateMonster(m) ==
  /\ pc = "monsters" /\ m \in todo
  /\ todo' = todo \ {m}
  /\ UNCHANGED <<run, pc>>

\* It has died: OnRemoveCorpse is to come.
UpdateCorpse(m) ==
  /\ UpdateMonster(m)
  /\ life[m] = "corpse"
  /\ life' = [life EXCEPT ![m] = "decay"]
  /\ UNCHANGED grid

\* It lives and walks (UpdateMoving).
UpdateMoving(m, c) ==
  /\ UpdateMonster(m)
  /\ life[m] = "alive" /\ grid.at[m] # Out
  /\ c \in Around(grid.at[m], 1) \ {grid.at[m]}
  /\ Births(ChangeMonsterLocation(grid, m, c))

UpdateInPlace(m) ==
  /\ UpdateMonster(m)
  /\ life[m] # "corpse"
  /\ UNCHANGED <<grid, life>>

\* __DeactiveMonsters, then __ActiveMonsters for those that are still Active.
Applied == {m \in run : m \notin grid.del} \cup {m \in grid.add : m \in grid.on}

ApplyPending ==
  /\ pc = "monsters" /\ todo = {}
  /\ run' = Applied
  /\ grid' = [grid EXCEPT !.add = {}, !.del = {}]
  /\ pc' = "others"
  /\ UNCHANGED <<life, todo>>

-----------------------------------------------------------------------------
(* Players, the AI, fights and events *)

PlayerEnters(p, c) ==
  /\ pc = "others" /\ grid.at[p] = Out
  /\ Births(PushPlayer(grid, p, c))
  /\ UNCHANGED <<run, pc, todo>>

\* A step, or a jump within the map (teleport, a skill)
PlayerMoves(p, c) ==
  /\ pc = "others" /\ grid.at[p] \notin {Out, c}
  /\ Births(ChangePlayerLocation(grid, p, c))
  /\ UNCHANGED <<run, pc, todo>>

PlayerLeaves(p, x) ==
  /\ pc = "others" /\ grid.at[p] # Out
  /\ x \in Around(grid.at[p], 1)
  /\ Births(RemovePlayer(grid, p, x))
  /\ UNCHANGED <<run, pc, todo>>

\* A player near enough to fight with m
Opponent(m) ==
  /\ grid.at[m] # Out /\ life[m] = "alive"
  /\ \E c \in Around(grid.at[m], 1) : HasPlayers(grid, c)

\* SetAIState, on being attacked or on finding a target
StartFight(m) ==
  /\ pc = "others" /\ m \notin grid.fight /\ Opponent(m)
  /\ grid' = [grid EXCEPT !.fight = @ \cup {m}]
  /\ UNCHANGED <<life, run, pc, todo>>

\* __leaveCombatFinished: the state is idle again.
EndFight(m) ==
  /\ pc = "others" /\ m \in grid.fight
  /\ grid' = [grid EXCEPT !.fight = @ \ {m}]
  /\ UNCHANGED <<life, run, pc, todo>>

\* LuaMonster:OnJustDied
JustDied(m) ==
  /\ pc = "others" /\ Opponent(m)
  /\ life' = [life EXCEPT ![m] = "corpse"]
  /\ grid' = [grid EXCEPT !.fight = @ \ {m}]
  /\ UNCHANGED <<run, pc, todo>>

\* OnRemoveCorpse and Despawn
OnRemoveCorpse(m) ==
  /\ pc = "others" /\ life[m] = "decay"
  /\ life' = [life EXCEPT ![m] = "gone"]
  /\ grid' = RemoveMonster(grid, m)
  /\ UNCHANGED <<run, pc, todo>>

\* EventRespawnMonster and OnRespawn
OnRespawn(m) ==
  /\ pc = "others" /\ life[m] = "gone"
  /\ grid' = PushMonster(grid, m, Home[m])
  /\ life' = [life EXCEPT ![m] = "alive"]
  /\ UNCHANGED <<run, pc, todo>>

-----------------------------------------------------------------------------
MainLoop ==
  \/ StartPass
  \/ \E m \in Monsters :
       \/ UpdateCorpse(m)
       \/ \E c \in Cells : UpdateMoving(m, c)
       \/ UpdateInPlace(m)
  \/ ApplyPending

MonsterEvents(m) == OnRemoveCorpse(m) \/ OnRespawn(m)

Next ==
  \/ MainLoop
  \/ \E p \in Players, c \in Cells :
       PlayerEnters(p, c) \/ PlayerMoves(p, c) \/ PlayerLeaves(p, c)
  \/ \E m \in Monsters :
       StartFight(m) \/ EndFight(m) \/ JustDied(m) \/ MonsterEvents(m)

Spec == Init /\ [][Next]_vars

\* The main thread keeps turning, and in every turn it runs the events whose
\* time has come.
FairSpec ==
  /\ Spec
  /\ WF_vars(MainLoop)
  /\ \A m \in Monsters : SF_vars(MonsterEvents(m))

-----------------------------------------------------------------------------
(* Properties *)

\* The state has the expected shape; only the living fight, and monsters are
\* in a cell exactly from their birth or respawn to the end of their corpse.
TypeOK ==
  /\ grid.at \in [Objects -> Cells \cup {Out}]
  /\ grid.on \subseteq Monsters /\ grid.add \subseteq Monsters /\ grid.del \subseteq Monsters
  /\ grid.active \subseteq grid.loaded /\ grid.loaded \subseteq Cells
  /\ life \in [Monsters -> {"unborn", "alive", "corpse", "decay", "gone"}]
  /\ grid.fight \subseteq {m \in Monsters : life[m] = "alive"}
  /\ \A m \in Monsters : grid.at[m] = Out <=> life[m] \in {"unborn", "gone"}
  /\ pc \in {"monsters", "others"}
  /\ todo \subseteq run /\ run \subseteq Monsters
  /\ pc = "others" => todo = {}

\* Every cell a player is in or next to is active and has had its monsters
\* born, however the player came there: no player looks at an empty or frozen
\* part of the map.
NearPlayersActive ==
  \A p \in Players : grid.at[p] # Out => Around(grid.at[p], 1) \subseteq grid.active

\* Applying the two pending lists, whatever was noted in whatever order since
\* the last pass, makes activeMonsters the set of the monsters with Active set.
PendingAgrees == Applied = grid.on

\* A monster with Active set is in the world and in an active cell: far from
\* players and fights no monster is updated.
OnlyActiveCellsRun == \A m \in grid.on : grid.at[m] \in grid.active

\* What the pass over the monsters goes by agrees with the cells: the state is
\* well formed, the pending lists lead to the monsters with Active set, and
\* these are in active cells.
ActivationAgrees == TypeOK /\ PendingAgrees /\ OnlyActiveCellsRun

\* A monster that sleeps in an active cell has walked there in its sleep (in the
\* one pass after its deactivation); neither a cell that becomes active nor a
\* birth or respawn leaves one behind.
WokenWithCell ==
  [][\A m \in Monsters :
       (grid'.at[m] \in grid'.active /\ m \notin grid'.on) =>
         \/ grid.at[m] \in grid.active /\ m \notin grid.on
         \/ pc = "monsters" /\ grid.at[m] \notin {Out, grid'.at[m]}]_vars

\* A monster that is killed while it is one of the active monsters respawns,
\* even if all players leave before its corpse is first looked at.
KilledRespawns ==
  \A m \in Monsters : (life[m] = "corpse" /\ m \in run) ~> life[m] = "alive"
=============================================================================
