--------------------------- MODULE MonsterCombat ---------------------------
(***************************************************************************)
(* A monster of the scene server: its AI (base_ai.lua), its life, and the  *)
(* skills that players cast on it and it on them.  Everything runs on the  *)
(* map's thread, but as timers of the Lua runtime and of the map, packets  *)
(* and moves that come in any order; a skill does its damage some time     *)
(* after the checks of its cast.                                           *)
(*                                                                         *)
(* The map is a line of places, one attackable range apart, the monster's  *)
(* birth place is 0.  Hit points are those of the monster; a player is     *)
(* dead or not.  What a cast costs, misses and damage are choices; the     *)
(* threat list, which nothing reads, is left out.  LuaMonster makes every  *)
(* AI peaceful at present; the AI is checked for every type it takes.      *)
(***************************************************************************)
EXTENDS Integers, FiniteSets

CONSTANTS
  Players,
  Far,          \* the places are 0..Far
  Leash,        \* GetLeaveCombatRange
  HomeRange,    \* how near to its birth place an evading monster is home
  CastRange,    \* cast_range of the skills
  MaxHp,        \* the monster's full hit points
  Roams,        \* move_type is MONSTER_MOVE_RANDOM
  MaxEffects,   \* bound on the effects a player has under way
  AttackTypes,  \* the types of AI: "peace", "passive", "active"
  None

ASSUME ConstantsAssumption ==
  /\ {Far, Leash, HomeRange, CastRange, MaxHp, MaxEffects} \subseteq Nat /\ MaxHp > 0
  /\ AttackTypes \subseteq {"peace", "passive", "active"}
  /\ Roams \in BOOLEAN
  /\ None \notin Players

VARIABLES
  type,      \* the AI's attack_type
  m,         \* the monster: ai, target, timers, pos, dest, path, hp
  life,      \* "alive", "dying" (m_corpseEvent), "corpse" or "gone" to respawn
  active,    \* the map updates it (activeMonsters)
  place,     \* where each player is: a place, Elsewhere or Out
  dead,      \* the players without hit points
  effects,   \* the effects each player's skills still have to do
  blows,     \* the players that an attack of the monster is still to hit
  rewards    \* how often its present life has been rewarded with experience

vars == <<type, m, life, active, place, dead, effects, blows, rewards>>

Places == 0..Far
Elsewhere == -1   \* on another map
Out == -2         \* logged out: no Lua object
NoPlace == -1     \* no destination

Apart(a, b) == IF a > b THEN a - b ELSE b - a

InWorld == life # "gone"

\* calcuDistance finds objects of the monster's map only, and only from there.
Met(p) == InWorld /\ place[p] \in Places

Near(x, p) == Met(p) /\ place[p] = x.pos

Strayed(x) == x.pos > Leash

Init ==
  /\ type \in AttackTypes
  /\ m = [ai |-> "idle", target |-> None, pos |-> 0, dest |-> NoPlace, path |-> NoPlace,
          hp |-> MaxHp,
          timers |-> (IF Roams THEN {"rand"} ELSE {})
                       \cup (IF type = "active" THEN {"find"} ELSE {})]
  /\ life = "alive" /\ active = FALSE
  /\ place = [p \in Players |-> Out] /\ dead = {}
  /\ effects = [p \in Players |-> 0] /\ blows = {} /\ rewards = 0

-----------------------------------------------------------------------------
(* Moving.  "dest" is where the present leg ends, "path" what follows it.  *)

MoveTo(x, d) == [x EXCEPT !.dest = d]

\* __findPathAndMove with a path: a leg to any place, then on to d; a monster
\* that moves finishes its leg first.
TakePath(x, d) == IF x.dest # NoPlace THEN {[x EXCEPT !.path = d]}
                  ELSE {[x EXCEPT !.dest = w, !.path = d] : w \in Places}

\* A straight line, or a path; no path is as good as a straight line when the
\* error is ignored.
GoTo(x, d) == {MoveTo(x, d)} \cup TakePath(x, d)

\* Object::StopMoving and OnMovingStopped: on to the rest of the path.
Stopped(x) == [x EXCEPT !.dest = x.path, !.path = NoPlace]

\* __clearMovingPathInfo, then StopMoving
Halt(x) == IF x.dest = NoPlace THEN x
           ELSE [x EXCEPT !.dest = NoPlace, !.path = NoPlace]

-----------------------------------------------------------------------------
(* The AI *)

Attacks == {"first", "attack"}  \* do_attack_timer_id: its first and its later shots

Without(x, ts) == [x EXCEPT !.timers = @ \ ts]

\* Mutant: the chase is not watched.
ChaseUnwatched == {}

\* __startAttack and __followAttackTarget see to the update timer.
CombatTimer == {"combat"}

\* __startAttack
StartAttack(x) == IF x.timers \cap Attacks # {} THEN x
                  ELSE [x EXCEPT !.ai = "attack", !.timers = @ \cup {"first"} \cup CombatTimer]

\* __followAttackTarget: nothing happens when the target has logged out or no
\* path leads to it.  A target on another map has a position there.
FollowAttackTarget(x, p) ==
  {x} \cup IF place[p] = Out THEN {}
           ELSE {[y EXCEPT !.ai = "follow", !.timers = @ \cup CombatTimer] :
                   y \in UNION {GoTo(x, d) : d \in IF place[p] \in Places THEN {place[p]}
                                                   ELSE Places}}

\* __setCurAttackTargetInfo
SetCurAttackTarget(x, p) ==
  LET y == [x EXCEPT !.target = p]
  IN IF Near(y, p) THEN {StartAttack(y)} ELSE FollowAttackTarget(y, p)

\* The attack timer goes when the target goes.
StopAttacking(x) == Without(x, Attacks)

\* Mutant: the monster stops, and is not sent home.
StopHere(x) == {Halt(x)}

\* It stops, and sets out for its birth place.
TurnHome(x) == GoTo(Halt(x), 0)

\* __leaveCombat
LeaveCombat(x) ==
  {[StopAttacking(y) EXCEPT !.ai = "evade", !.target = None] : y \in TurnHome(x)}

\* The timers that OnPushToWorld and __leaveCombatFinished set
Watch == (IF Roams THEN {"rand"} ELSE {}) \cup (IF type = "active" THEN {"find"} ELSE {})

\* __leaveCombatFinished
LeaveCombatFinished(x) ==
  [x EXCEPT !.ai = "idle", !.hp = MaxHp, !.path = NoPlace,
            !.timers = (@ \ {"combat"}) \cup Watch]

\* __onUpdateCombatTimer, in each state
UpdateEvade(x) == IF x.pos <= HomeRange THEN {LeaveCombatFinished(x)} ELSE {x}

\* Mutant: a chase goes on when the target has left the map.
ChaseOn(x, p) == IF Near(x, p) THEN {StartAttack(Halt(x))} ELSE {x}

UpdateFollow(x, p) ==
  IF Near(x, p) THEN {StartAttack(Halt(x))}
  ELSE IF ~Met(p) \/ Strayed(x) THEN LeaveCombat(x)
  ELSE {x} \cup GoTo(x, place[p])   \* it plans again if the target has moved away

UpdateAttack(x, p) ==
  IF ~Met(p) \/ p \in dead \/ Strayed(x) THEN LeaveCombat(x)
  ELSE IF Near(x, p) THEN {x}
  ELSE FollowAttackTarget(StopAttacking(x), p)

\* OnBeAttacked
OnBeAttacked(x, p) ==
  LET y == Without(x, {"rand"})
  IN IF type # "peace" /\ y.ai = "idle" THEN SetCurAttackTarget(y, p) ELSE {y}

\* OnBeKilled
OnBeKilled(x) == [x EXCEPT !.ai = "idle", !.target = None, !.path = NoPlace, !.timers = {}]

-----------------------------------------------------------------------------
(* The timers of the AI.  Some are set again after their call, and the     *)
(* first attack is followed by the repeated ones.                          *)

Rest == <<type, life, active, place, dead, effects, rewards>>

\* __onRandMoveTimer: to within a metre of the birth place
RandMove ==
  /\ "rand" \in m.timers /\ m.hp > 0 /\ m.dest = NoPlace
  /\ m' = MoveTo(m, 0)
  /\ UNCHANGED <<blows, Rest>>

\* FindAttackablePlayerTarget: players of the map; that they have no hit points
\* it does not see.
Attackable == {p \in Players : Met(p)}

\* __onFindAttackableTargetTimer: it takes itself off when the monster is busy,
\* and goes on all the same.
FindTarget ==
  /\ "find" \in m.timers
  /\ LET x == IF m.ai # "idle" THEN Without(m, {"find"}) ELSE m
     IN \/ m' = x
        \/ \E p \in Attackable : m' \in SetCurAttackTarget(Without(x, {"find"}), p)
  /\ UNCHANGED <<blows, Rest>>

UpdateCombat ==
  /\ "combat" \in m.timers
  /\ m' \in CASE m.ai = "evade"  -> UpdateEvade(m)
             [] m.ai = "follow" -> UpdateFollow(m, m.target)
             [] m.ai = "attack" -> UpdateAttack(m, m.target)
             [] OTHER           -> {m}
  /\ UNCHANGED <<blows, Rest>>

\* SceneFightObject.CanBeAttack of a player the monster attacks
PlayerCanBeAttack(p) ==
  p \notin dead /\ Met(p) /\ Apart(place[p], m.pos) <= CastRange

\* __onDoAttackTimer and LuaMonster.CastSkill
DoAttack ==
  /\ m.timers \cap Attacks # {}
  /\ m' = IF "first" \in m.timers
          THEN [m EXCEPT !.timers = (@ \ {"first"}) \cup {"attack"}] ELSE m
  /\ blows' = IF m.target # None /\ PlayerCanBeAttack(m.target)
              THEN blows \cup {m.target} ELSE blows
  /\ UNCHANGED Rest

-----------------------------------------------------------------------------
(* Skills on the monster *)

\* LuaMonster.CanBeAttack for the skill of player p
MonsterCanBeAttack(p) ==
  m.hp > 0 /\ Met(p) /\ Apart(place[p], m.pos) <= CastRange /\ m.ai # "evade"

\* Mutant: the hit points are not looked at.
LandsOnCorpse(p) == place[p] # Out /\ p \notin dead

\* CastSkill, __calcuSkillHitResult and __doSkillEffect: the caster is there
\* and alive, the monster is not dead.  Nothing else is looked at again.
Lands(p) == place[p] # Out /\ p \notin dead /\ m.hp > 0

\* OnJustHurted
Hurt(p, d) ==
  /\ m.hp > d
  /\ m' \in OnBeAttacked([m EXCEPT !.hp = @ - d], p)
  /\ UNCHANGED <<life, rewards>>

\* onMonsterJustDied
JustDied == IF InWorld THEN "dying" ELSE life

\* KilledObject gives the killer experience; counted to two.
KilledObject == IF rewards < 2 THEN rewards + 1 ELSE rewards

\* OnJustDied
Kill(p, d) ==
  /\ m.hp <= d
  /\ m' = OnBeKilled([m EXCEPT !.hp = 0])
  /\ life' = JustDied
  /\ rewards' = KilledObject

\* What the formulas give is never less than the caster's attack.
Wounds == 1..MaxHp

\* One damage of a skill of p, which may miss.  An effect with several counts
\* as several.
Damage(p) ==
  \/ UNCHANGED <<m, life, rewards>>
  \/ Lands(p) /\ \E d \in Wounds : Hurt(p, d) \/ Kill(p, d)

\* HandleCastSkill, with an effect at once or later.  The cooldown only
\* makes casts rarer, and is left out.
Cast(p) ==
  /\ place[p] # Out /\ MonsterCanBeAttack(p)
  /\ \/ /\ effects[p] < MaxEffects
        /\ effects' = [effects EXCEPT ![p] = @ + 1]
        /\ UNCHANGED <<m, life, rewards>>
     \/ Damage(p) /\ UNCHANGED effects
  /\ UNCHANGED <<type, active, place, dead, blows>>

\* The timer of an effect
Effect(p) ==
  /\ effects[p] > 0
  /\ effects' = [effects EXCEPT ![p] = @ - 1]
  /\ Damage(p)
  /\ UNCHANGED <<type, active, place, dead, blows>>

\* The timer of an attack of the monster: the player may die of it.
Blow(p) ==
  /\ p \in blows
  /\ blows' = blows \ {p}
  /\ dead' \in IF m.hp > 0 /\ place[p] # Out THEN {dead, dead \cup {p}} ELSE {dead}
  /\ UNCHANGED <<type, m, life, active, place, effects, rewards>>

-----------------------------------------------------------------------------
(* The map: moves, corpses, the monsters of cells without players *)

\* Object::UpdateMoving
Walk ==
  /\ active /\ life = "alive" /\ m.dest # NoPlace
  /\ LET step == IF m.dest > m.pos THEN m.pos + 1 ELSE IF m.dest < m.pos THEN m.pos - 1 ELSE m.pos
         x == [m EXCEPT !.pos = step]
     IN m' = IF step = m.dest THEN Stopped(x) ELSE x
  /\ UNCHANGED <<blows, Rest>>

\* Monster::Update of a monster that has just died
CorpseEvent ==
  /\ active /\ life = "dying" /\ life' = "corpse"
  /\ UNCHANGED <<type, m, active, place, dead, effects, blows, rewards>>

\* OnRemoveCorpse, Despawn and RemoveFromWorld of a monster that respawns
RemoveCorpse ==
  /\ life = "corpse" /\ life' = "gone"
  /\ m' = [(IF m.dest # NoPlace THEN Stopped(m) ELSE m) EXCEPT !.pos = 0]
  /\ UNCHANGED <<type, active, place, dead, effects, blows, rewards>>

\* OnRespawn, PushToWorld and LuaMonster.OnPushToWorld: a new life
Respawn ==
  /\ life = "gone" /\ life' = "alive"
  /\ m' = [m EXCEPT !.hp = MaxHp, !.timers = @ \cup Watch]
  /\ rewards' = 0
  /\ UNCHANGED <<type, active, place, dead, effects, blows>>

\* __ActiveMonsters and EnterActiveMode
EnterActiveMode ==
  /\ ~active /\ InWorld /\ active' = TRUE
  /\ m' = [m EXCEPT !.timers = @ \cup Watch]
  /\ UNCHANGED <<type, life, place, dead, effects, blows, rewards>>

\* __DeactiveMonsters and EnterDeactiveMode
EnterDeactiveMode ==
  /\ active /\ active' = FALSE
  /\ m' = Without(m, {"rand", "find"})
  /\ UNCHANGED <<type, life, place, dead, effects, blows, rewards>>

-----------------------------------------------------------------------------
(* The players *)

\* InitData gives a player hit points; they walk, teleport and leave.
Go(p, l) ==
  /\ l # place[p] /\ (place[p] = Out => l \in Places)
  /\ place' = [place EXCEPT ![p] = l]
  /\ dead' = IF l = Out THEN dead \ {p} ELSE dead
  /\ UNCHANGED <<type, m, life, active, effects, blows, rewards>>

\* HandlePlayerRelive, or a new level
Relive(p) ==
  /\ p \in dead /\ dead' = dead \ {p}
  /\ UNCHANGED <<type, m, life, active, place, effects, blows, rewards>>

Next ==
  \/ RandMove \/ FindTarget \/ UpdateCombat \/ DoAttack \/ Walk
  \/ CorpseEvent \/ RemoveCorpse \/ Respawn \/ EnterActiveMode \/ EnterDeactiveMode
  \/ \E p \in Players :
       \/ Cast(p) \/ Effect(p) \/ Blow(p) \/ Relive(p)
       \/ \E l \in Places \cup {Elsewhere, Out} : Go(p, l)

\* The update timer is set again after each call, and a map updates the
\* monsters it holds for active.
Fairness == WF_vars(UpdateCombat) /\ WF_vars(Walk)

Spec == Init /\ [][Next]_vars /\ Fairness

-----------------------------------------------------------------------------
TypeOK ==
  /\ m \in [ai : {"idle", "attack", "follow", "evade"}, target : Players \cup {None},
            pos : Places, dest : Places \cup {NoPlace}, path : Places \cup {NoPlace},
            hp : 0..MaxHp, timers : SUBSET {"rand", "find", "combat", "first", "attack"}]
  /\ life \in {"alive", "dying", "corpse", "gone"} /\ active \in BOOLEAN
  /\ place \in [Players -> Places \cup {Elsewhere, Out}] /\ dead \subseteq Players
  /\ effects \in [Players -> 0..MaxEffects] /\ blows \subseteq Players /\ rewards \in 0..2

(* A monster that fights or goes home has its update timer, without which  *)
(* it would stay so for ever; one that fights has a target, and one that   *)
(* does not has no attack timer (the timers of base_ai.lua, set and taken  *)
(* off in a dozen places).                                                 *)
Watched ==
  /\ TypeOK
  /\ m.ai # "idle" => "combat" \in m.timers
  /\ m.ai \in {"attack", "follow"} => m.target # None
  /\ m.ai \in {"idle", "evade"} => m.timers \cap Attacks = {}

(* The monster is killed and rewarded once in its life, however many       *)
(* effects are under way when it dies, and its hit points in the scripts   *)
(* agree with its life on the map (__doSkillEffect, OnJustDied,            *)
(* OnRespawn).  An active monster is exempt: its corpse looks for targets  *)
(* when players come back to its cell, and gets its hit points back when   *)
(* it leaves combat.                                                       *)
KilledOnce ==
  type # "active" => /\ rewards = IF life = "alive" THEN 0 ELSE 1
                     /\ m.hp > 0 <=> life = "alive"

(* "Take all the timers off, ready to respawn" (OnBeKilled): a dead        *)
(* monster has no timer.  EnterActiveMode does not look at its life.       *)
DeadHasNoTimers == m.hp = 0 => m.timers = {}

(* An evading monster, which cannot be attacked, does not stay so for      *)
(* ever, unless its cell falls asleep (__leaveCombat, UpdateMoving).       *)
EvadeEnds ==
  m.ai = "evade" /\ life = "alive" ~> m.ai # "evade" \/ ~active \/ life # "alive"

(* A monster gives up a target that has left the map or logged out, unless *)
(* it comes back (the distance of 65536 that calcuDistance returns).       *)
TargetDropped ==
  \A p \in Players :
    (m.ai \in {"attack", "follow"} /\ m.target = p /\ place[p] \notin Places)
      ~> (m.ai \notin {"attack", "follow"} \/ m.target # p \/ place[p] \in Places)

=============================================================================
