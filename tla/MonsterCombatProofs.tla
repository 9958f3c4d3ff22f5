------------------------ MODULE MonsterCombatProofs ------------------------
(* Proofs about MonsterCombat, for any number of players, places, hit      *)
(* points and effects, and for every type of AI.                           *)
EXTENDS MonsterCombat, TLAPS

Timers == {"rand", "find", "combat", "first", "attack"}

Monsters ==
  [ai : {"idle", "attack", "follow", "evade"}, target : Players \cup {None},
   pos : Places, dest : Places \cup {NoPlace}, path : Places \cup {NoPlace},
   hp : 0..MaxHp, timers : SUBSET Timers]

\* What Watched says of the monster, and what a dead one that is not of the
\* active type needs so that none of its timers brings it back.
WatchedMonster(x) ==
  /\ x \in Monsters
  /\ x.ai # "idle" => "combat" \in x.timers
  /\ x.ai \in {"attack", "follow"} => x.target # None
  /\ x.ai \in {"idle", "evade"} => x.timers \cap Attacks = {}

Resting(x) == x.ai = "idle" /\ x.timers \subseteq {"rand"}

OneLife ==
  type # "active" =>
    /\ rewards = IF life = "alive" THEN 0 ELSE 1
    /\ m.hp > 0 <=> life = "alive"
    /\ "find" \notin m.timers
    /\ m.hp = 0 => Resting(m)

CombatInv == TypeOK /\ WatchedMonster(m) /\ OneLife

\* Two monsters that differ at most in where they are and where they go
SameFight(x, y) ==
  x.ai = y.ai /\ x.target = y.target /\ x.hp = y.hp /\ x.timers = y.timers

-----------------------------------------------------------------------------
(* Moving *)

LEMMA PlacesType ==
  /\ Places \subseteq Int /\ NoPlace \in Int /\ NoPlace \notin Places /\ 0 \in Places
BY ConstantsAssumption DEF Places, NoPlace

LEMMA GoToType ==
  ASSUME NEW x \in Monsters, NEW d \in Places, NEW y \in GoTo(x, d)
  PROVE  y \in Monsters /\ SameFight(x, y)
<1>1. CASE y = MoveTo(x, d)
  BY <1>1 DEF MoveTo, Monsters, SameFight
<1>2. CASE y = [x EXCEPT !.path = d]
  BY <1>2 DEF Monsters, SameFight
<1>3. ASSUME NEW w \in Places, y = [x EXCEPT !.dest = w, !.path = d]
      PROVE  y \in Monsters /\ SameFight(x, y)
  BY <1>3 DEF Monsters, SameFight
<1> QED
  BY <1>1, <1>2, <1>3 DEF GoTo, TakePath

LEMMA HaltType ==
  ASSUME NEW x \in Monsters
  PROVE  Halt(x) \in Monsters /\ SameFight(x, Halt(x))
BY DEF Halt, Monsters, SameFight

LEMMA StoppedType ==
  ASSUME NEW x \in Monsters
  PROVE  Stopped(x) \in Monsters /\ SameFight(x, Stopped(x))
BY DEF Stopped, Monsters, SameFight

LEMMA WithoutType ==
  ASSUME NEW x \in Monsters, NEW S
  PROVE  /\ Without(x, S) \in Monsters
         /\ Without(x, S).ai = x.ai /\ Without(x, S).target = x.target
         /\ Without(x, S).hp = x.hp /\ Without(x, S).timers = x.timers \ S
BY DEF Without, Monsters

-----------------------------------------------------------------------------
(* The AI *)

LEMMA StartAttackWatched ==
  ASSUME NEW x, WatchedMonster(x), x.target # None
  PROVE  WatchedMonster(StartAttack(x)) /\ StartAttack(x).hp = x.hp
         /\ StartAttack(x).timers \subseteq x.timers \cup {"first", "combat"}
BY DEF StartAttack, WatchedMonster, Monsters, Timers, Attacks, CombatTimer

LEMMA FollowWatched ==
  ASSUME NEW x, WatchedMonster(x), x.target # None, NEW p \in Players,
         place \in [Players -> Places \cup {Elsewhere, Out}],
         NEW z \in FollowAttackTarget(x, p)
  PROVE  WatchedMonster(z) /\ z.hp = x.hp /\ z.timers \subseteq x.timers \cup {"combat"}
<1>1. CASE z = x
  BY <1>1
<1>2. ASSUME NEW d \in Places, NEW y \in GoTo(x, d),
             z = [y EXCEPT !.ai = "follow", !.timers = @ \cup CombatTimer]
      PROVE  WatchedMonster(z) /\ z.hp = x.hp /\ z.timers \subseteq x.timers \cup {"combat"}
  <2>1. y \in Monsters /\ SameFight(x, y)
    BY GoToType DEF WatchedMonster
  <2> QED
    BY <1>2, <2>1 DEF WatchedMonster, Monsters, SameFight, Timers, Attacks, CombatTimer
<1>3. CASE place[p] = Out
  BY <1>1, <1>3 DEF FollowAttackTarget
<1>4. CASE place[p] # Out /\ z # x
  <2>1. \E d \in Places : \E y \in GoTo(x, d) :
          z = [y EXCEPT !.ai = "follow", !.timers = @ \cup CombatTimer]
    <3> DEFINE D == IF place[p] \in Places THEN {place[p]} ELSE Places
               Chase(y) == [y EXCEPT !.ai = "follow", !.timers = @ \cup CombatTimer]
    <3>1. z \in {Chase(y) : y \in UNION {GoTo(x, d) : d \in D}}
      BY <1>4 DEF FollowAttackTarget
    <3>2. D \subseteq Places
      OBVIOUS
    <3>3. PICK y \in UNION {GoTo(x, d) : d \in D} : z = Chase(y)
      BY <3>1
    <3>4. PICK d \in D : y \in GoTo(x, d)
      OBVIOUS
    <3> HIDE DEF D
    <3> QED
      BY <3>2, <3>3, <3>4
  <2> QED
    BY <1>2, <2>1
<1> QED
  BY <1>1, <1>3, <1>4

LEMMA SetTargetWatched ==
  ASSUME NEW x, WatchedMonster(x), NEW p \in Players,
         place \in [Players -> Places \cup {Elsewhere, Out}],
         NEW z \in SetCurAttackTarget(x, p)
  PROVE  WatchedMonster(z) /\ z.hp = x.hp /\ z.timers \subseteq x.timers \cup {"first", "combat"}
<1> DEFINE y == [x EXCEPT !.target = p]
<1>1. p # None
  BY ConstantsAssumption
<1>2. /\ WatchedMonster(y) /\ y.target = p /\ y.timers = x.timers /\ y.hp = x.hp
  BY <1>1 DEF WatchedMonster, Monsters
<1>3. z = StartAttack(y) \/ z \in FollowAttackTarget(y, p)
  BY DEF SetCurAttackTarget
<1> HIDE DEF y
<1> QED
  BY <1>1, <1>2, <1>3, StartAttackWatched, FollowWatched

LEMMA LeaveCombatWatched ==
  ASSUME NEW x, WatchedMonster(x), x.ai \in {"attack", "follow"}, NEW z \in LeaveCombat(x)
  PROVE  WatchedMonster(z) /\ z.hp = x.hp /\ z.timers \subseteq x.timers
<1>1. PICK y \in GoTo(Halt(x), 0) :
        z = [StopAttacking(y) EXCEPT !.ai = "evade", !.target = None]
  BY DEF LeaveCombat, TurnHome
<1>2. Halt(x) \in Monsters /\ SameFight(x, Halt(x))
  BY HaltType DEF WatchedMonster
<1>3. y \in Monsters /\ SameFight(Halt(x), y)
  BY <1>2, GoToType, PlacesType
<1>4. /\ StopAttacking(y) \in Monsters /\ StopAttacking(y).hp = y.hp
      /\ StopAttacking(y).timers = y.timers \ Attacks
  BY <1>3, WithoutType DEF StopAttacking
<1> QED
  BY <1>1, <1>2, <1>3, <1>4 DEF WatchedMonster, SameFight, Monsters, Attacks

LEMMA WatchType ==
  Watch \subseteq {"rand", "find"} /\ (type # "active" => "find" \notin Watch)
BY DEF Watch

LEMMA FinishedWatched ==
  ASSUME NEW x, WatchedMonster(x), x.ai = "evade"
  PROVE  /\ WatchedMonster(LeaveCombatFinished(x)) /\ LeaveCombatFinished(x).hp = MaxHp
         /\ LeaveCombatFinished(x).timers \subseteq x.timers \cup Watch
<1> DEFINE T == (x.timers \ {"combat"}) \cup Watch
<1>1. T \subseteq Timers /\ T \cap Attacks = {} /\ T \subseteq x.timers \cup Watch
  BY WatchType DEF WatchedMonster, Monsters, Timers, Attacks
<1>2. MaxHp \in 0..MaxHp
  BY ConstantsAssumption
<1>3. LeaveCombatFinished(x) = [x EXCEPT !.ai = "idle", !.hp = MaxHp, !.path = NoPlace,
                                         !.timers = T]
  BY DEF LeaveCombatFinished
<1> HIDE DEF T
<1> QED
  BY <1>1, <1>2, <1>3 DEF WatchedMonster, Monsters

LEMMA UpdateFollowWatched ==
  ASSUME NEW x, WatchedMonster(x), x.ai = "follow",
         place \in [Players -> Places \cup {Elsewhere, Out}],
         NEW z \in UpdateFollow(x, x.target)
  PROVE  /\ WatchedMonster(z) /\ z.hp = x.hp
         /\ z.timers \subseteq x.timers \cup {"first", "combat"}
<1>1. CASE z = StartAttack(Halt(x))
  <2>1. Halt(x) \in Monsters /\ SameFight(x, Halt(x))
    BY HaltType DEF WatchedMonster
  <2> QED
    BY <1>1, <2>1, StartAttackWatched DEF WatchedMonster, SameFight
<1>2. CASE z \in LeaveCombat(x)
  BY <1>2, LeaveCombatWatched
<1>3. CASE z = x
  BY <1>3
<1>4. CASE Met(x.target) /\ z \in GoTo(x, place[x.target])
  <2>1. z \in Monsters /\ SameFight(x, z)
    BY <1>4, GoToType DEF WatchedMonster, Met
  <2> QED
    BY <2>1 DEF WatchedMonster, SameFight
<1> QED
  BY <1>1, <1>2, <1>3, <1>4 DEF UpdateFollow

LEMMA UpdateAttackWatched ==
  ASSUME NEW x, WatchedMonster(x), x.ai = "attack",
         place \in [Players -> Places \cup {Elsewhere, Out}],
         NEW z \in UpdateAttack(x, x.target)
  PROVE  /\ WatchedMonster(z) /\ z.hp = x.hp
         /\ z.timers \subseteq x.timers \cup {"first", "combat"}
<1>1. CASE z \in LeaveCombat(x)
  BY <1>1, LeaveCombatWatched
<1>2. CASE z = x
  BY <1>2
<1>3. CASE z \in FollowAttackTarget(StopAttacking(x), x.target)
  <2> DEFINE y == StopAttacking(x)
  <2>1. /\ y \in Monsters /\ y.ai = x.ai /\ y.target = x.target /\ y.hp = x.hp
        /\ y.timers = x.timers \ Attacks
    BY WithoutType DEF StopAttacking, WatchedMonster
  <2>2. WatchedMonster(y) /\ y.timers \cap Attacks = {}
    BY <2>1 DEF WatchedMonster, Attacks
  <2>3. x.target # None /\ x.target \in Players
    BY DEF WatchedMonster, Monsters
  <2> HIDE DEF y
  <2>4. WatchedMonster(z) /\ z.hp = y.hp /\ z.timers \subseteq y.timers \cup {"combat"}
    BY <1>3, <2>1, <2>2, <2>3, FollowWatched DEF y
  <2> QED
    BY <2>1, <2>4
<1> QED
  BY <1>1, <1>2, <1>3 DEF UpdateAttack

LEMMA OnBeAttackedWatched ==
  ASSUME NEW x, WatchedMonster(x), NEW p \in Players,
         place \in [Players -> Places \cup {Elsewhere, Out}],
         NEW z \in OnBeAttacked(x, p)
  PROVE  /\ WatchedMonster(z) /\ z.hp = x.hp
         /\ z.timers \subseteq x.timers \cup {"first", "combat"}
<1> DEFINE y == Without(x, {"rand"})
<1>1. /\ y \in Monsters /\ y.ai = x.ai /\ y.target = x.target /\ y.hp = x.hp
      /\ y.timers = x.timers \ {"rand"}
  BY WithoutType DEF WatchedMonster
<1>2. WatchedMonster(y)
  BY <1>1 DEF WatchedMonster, Attacks
<1>3. z = y \/ (y.ai = "idle" /\ z \in SetCurAttackTarget(y, p))
  BY DEF OnBeAttacked
<1> HIDE DEF y
<1>4. CASE z = y
  BY <1>1, <1>2, <1>4
<1>5. CASE y.ai = "idle" /\ z \in SetCurAttackTarget(y, p)
  BY <1>1, <1>2, <1>5, SetTargetWatched
<1> QED
  BY <1>3, <1>4, <1>5

-----------------------------------------------------------------------------
(* The steps *)

LEMMA CombatInit == Init => CombatInv
<1> SUFFICES ASSUME Init PROVE CombatInv
  OBVIOUS
<1> DEFINE T == (IF Roams THEN {"rand"} ELSE {}) \cup (IF type = "active" THEN {"find"} ELSE {})
<1>1. /\ T \subseteq {"rand", "find"} /\ (type # "active" => "find" \notin T)
      /\ m = [ai |-> "idle", target |-> None, pos |-> 0, dest |-> NoPlace,
              path |-> NoPlace, hp |-> MaxHp, timers |-> T]
  BY DEF Init
<1> HIDE DEF T
<1>2. WatchedMonster(m)
  BY <1>1, PlacesType, ConstantsAssumption DEF WatchedMonster, Monsters, Timers, Attacks
<1>3. TypeOK
  <2>1. 0 \in 0..MaxEffects /\ Out \in Places \cup {Elsewhere, Out}
    BY ConstantsAssumption
  <2>2. /\ place \in [Players -> Places \cup {Elsewhere, Out}] /\ dead \subseteq Players
        /\ effects \in [Players -> 0..MaxEffects] /\ blows \subseteq Players
    BY <2>1 DEF Init
  <2>3. life \in {"alive", "dying", "corpse", "gone"} /\ rewards \in 0..2
    BY DEF Init
  <2>4. active \in BOOLEAN
    BY DEF Init
  <2> QED
    BY <1>2, <2>2, <2>3, <2>4 DEF TypeOK, WatchedMonster, Monsters, Timers
<1>4. OneLife
  BY <1>1, ConstantsAssumption DEF Init, OneLife
<1> QED
  BY <1>2, <1>3, <1>4 DEF CombatInv

\* Damage leaves the monster watched, and kills it at most once.
LEMMA DamageStep ==
  ASSUME CombatInv, NEW p \in Players, Damage(p), UNCHANGED <<type, place>>
  PROVE  /\ WatchedMonster(m') /\ OneLife'
         /\ life' \in {"alive", "dying", "corpse", "gone"} /\ rewards' \in 0..2
<1> USE DEF CombatInv
<1>1. CASE UNCHANGED <<m, life, rewards>>
  BY <1>1 DEF TypeOK, WatchedMonster, OneLife, Resting
<1>2. ASSUME NEW d \in Wounds, Lands(p), Hurt(p, d)
      PROVE  /\ WatchedMonster(m') /\ OneLife'
             /\ life' \in {"alive", "dying", "corpse", "gone"} /\ rewards' \in 0..2
  <2> DEFINE x == [m EXCEPT !.hp = @ - d]
  <2>1. x.hp \in 0..MaxHp /\ x.hp > 0 /\ x.hp = m.hp - d
    BY <1>2, ConstantsAssumption DEF Hurt, Lands, Wounds, WatchedMonster, Monsters
  <2>2. WatchedMonster(x) /\ x.timers = m.timers
    BY <2>1 DEF WatchedMonster, Monsters
  <2> HIDE DEF x
  <2>3. WatchedMonster(m') /\ m'.hp = x.hp /\ m'.timers \subseteq x.timers \cup {"first", "combat"}
    BY <1>2, <2>2, OnBeAttackedWatched DEF Hurt, x, TypeOK
  <2>4. UNCHANGED <<life, rewards>>
    BY <1>2 DEF Hurt
  <2>5. OneLife'
    BY <1>2, <2>1, <2>2, <2>3, <2>4 DEF OneLife, Lands, Resting, WatchedMonster, Monsters
  <2> QED
    BY <2>3, <2>4, <2>5 DEF TypeOK
<1>3. ASSUME NEW d \in Wounds, Lands(p), Kill(p, d)
      PROVE  /\ WatchedMonster(m') /\ OneLife'
             /\ life' \in {"alive", "dying", "corpse", "gone"} /\ rewards' \in 0..2
  <2>1. /\ WatchedMonster(m') /\ m'.hp = 0 /\ m'.ai = "idle" /\ m'.timers = {}
    <3> DEFINE x == [m EXCEPT !.hp = 0]
    <3>1. x \in Monsters /\ x.hp = 0
      BY ConstantsAssumption DEF WatchedMonster, Monsters
    <3>2. m' = [x EXCEPT !.ai = "idle", !.target = None, !.path = NoPlace, !.timers = {}]
      BY <1>3 DEF Kill, OnBeKilled
    <3> HIDE DEF x
    <3> QED
      BY <3>1, <3>2 DEF WatchedMonster, Monsters
  <2>2. life' \in {"alive", "dying", "corpse", "gone"} /\ rewards' \in 0..2
    BY <1>3 DEF Kill, JustDied, InWorld, KilledObject, TypeOK
  <2>3. ASSUME type # "active" PROVE life' = "dying" /\ rewards' = 1
    <3>1. life = "alive" /\ rewards = 0
      BY <1>3, <2>3 DEF OneLife, Lands
    <3> QED
      BY <1>3, <3>1 DEF Kill, JustDied, KilledObject, InWorld
  <2>4. OneLife'
    BY <2>1, <2>3 DEF OneLife, Resting
  <2> QED
    BY <2>1, <2>2, <2>4
<1> QED
  BY <1>1, <1>2, <1>3 DEF Damage

LEMMA CombatStep == CombatInv /\ [Next]_vars => CombatInv'
<1> SUFFICES ASSUME CombatInv, [Next]_vars PROVE CombatInv'
  OBVIOUS
<1>p. place \in [Players -> Places \cup {Elsewhere, Out}]
  BY DEF CombatInv, TypeOK
<1>m. /\ WatchedMonster(m) /\ m \in Monsters /\ OneLife
      /\ m.hp \in 0..MaxHp /\ 0..MaxHp \subseteq Int
  BY ConstantsAssumption DEF CombatInv, WatchedMonster, Monsters
\* A step that touches only the monster.
<1>o. ASSUME UNCHANGED <<blows, Rest>>, WatchedMonster(m'), OneLife' PROVE CombatInv'
  BY <1>o DEF CombatInv, TypeOK, Rest, WatchedMonster, Monsters, Timers
\* A step that leaves the monster and its life alone.
<1>u. ASSUME UNCHANGED <<type, m, life, rewards>>, TypeOK' PROVE CombatInv'
  BY <1>u DEF CombatInv, WatchedMonster, OneLife, Resting
<1>1. CASE RandMove
  <2>1. WatchedMonster(m') /\ SameFight(m, m')
    BY <1>1, <1>m, PlacesType DEF RandMove, MoveTo, WatchedMonster, Monsters, SameFight
  <2>2. OneLife'
    BY <1>1, <1>m, <2>1 DEF RandMove, Rest, OneLife, Resting, SameFight
  <2> QED
    BY <1>1, <2>1, <2>2, <1>o DEF RandMove
<1>2. CASE FindTarget
  <2> DEFINE y == Without(m, {"find"})
  <2>1. /\ WatchedMonster(y) /\ y.ai = m.ai /\ y.hp = m.hp /\ y.timers \subseteq m.timers
    BY <1>m, WithoutType DEF WatchedMonster, Attacks
  <2>2. WatchedMonster(m')
    <3>1. CASE m' = m \/ m' = y
      BY <3>1, <1>m, <2>1
    <3>2. ASSUME NEW p \in Players, NEW x, WatchedMonster(x), m' \in SetCurAttackTarget(x, p)
          PROVE  WatchedMonster(m')
      BY <3>2, <1>p, SetTargetWatched
    <3>3. Without(y, {"find"}) = y
      BY <1>m DEF Without, Monsters
    <3> HIDE DEF y
    <3> QED
      BY <1>2, <2>1, <3>1, <3>2, <3>3 DEF FindTarget, Attackable, y
  <2>3. OneLife'
    BY <1>2, <1>m DEF FindTarget, Rest, OneLife
  <2> QED
    BY <1>2, <2>2, <2>3, <1>o DEF FindTarget
<1>3. CASE UpdateCombat
  <2>1. /\ WatchedMonster(m')
        /\ m'.hp \in {m.hp, MaxHp}
        /\ m'.timers \subseteq m.timers \cup {"first", "combat"} \cup Watch
    <3>1. CASE m.ai = "idle"
      BY <1>3, <3>1, <1>m DEF UpdateCombat
    <3>2. CASE m.ai = "evade"
      BY <1>3, <3>2, <1>m, FinishedWatched DEF UpdateCombat, UpdateEvade
    <3>3. CASE m.ai = "follow"
      <4>1. m' \in UpdateFollow(m, m.target)
        BY <1>3, <3>3 DEF UpdateCombat
      <4> QED
        BY <4>1, <3>3, <1>m, <1>p, UpdateFollowWatched
    <3>4. CASE m.ai = "attack"
      <4>1. m' \in UpdateAttack(m, m.target)
        BY <1>3, <3>4 DEF UpdateCombat
      <4> QED
        BY <4>1, <3>4, <1>m, <1>p, UpdateAttackWatched
    <3> QED
      BY <3>1, <3>2, <3>3, <3>4, <1>m DEF Monsters
  <2>2. OneLife'
    <3>1. CASE type = "active"
      BY <1>3, <3>1 DEF UpdateCombat, Rest, OneLife
    <3>2. CASE type # "active"
      <4>1. m.hp > 0 /\ life = "alive" /\ rewards = 0 /\ "find" \notin m.timers
        BY <1>3, <3>2, <1>m DEF UpdateCombat, OneLife, Resting
      <4>2. m'.hp > 0
        BY <2>1, <4>1, ConstantsAssumption
      <4> QED
        BY <1>3, <2>1, <3>2, <4>1, <4>2, WatchType DEF UpdateCombat, Rest, OneLife
    <3> QED
      BY <3>1, <3>2
  <2> QED
    BY <1>3, <2>1, <2>2, <1>o DEF UpdateCombat
<1>4. CASE DoAttack
  <2>1. WatchedMonster(m') /\ m'.hp = m.hp /\ m'.timers \subseteq m.timers \cup {"attack"}
    BY <1>4, <1>m DEF DoAttack, WatchedMonster, Monsters, Timers, Attacks
  <2>2. blows' \subseteq Players
    BY <1>4, <1>m DEF DoAttack, CombatInv, TypeOK, WatchedMonster, Monsters
  <2>3. OneLife'
    BY <1>4, <1>m, <2>1 DEF DoAttack, Rest, OneLife, Resting, Attacks
  <2> QED
    BY <1>4, <2>1, <2>2, <2>3 DEF DoAttack, Rest, CombatInv, TypeOK, WatchedMonster, Monsters, Timers
<1>5. CASE Walk
  <2> DEFINE step == IF m.dest > m.pos THEN m.pos + 1
                     ELSE IF m.dest < m.pos THEN m.pos - 1 ELSE m.pos
             x == [m EXCEPT !.pos = step]
  <2>1. step \in Places
    BY <1>5, <1>m, ConstantsAssumption DEF Walk, Monsters, Places, NoPlace
  <2>2. x \in Monsters /\ SameFight(m, x)
    BY <1>m, <2>1 DEF Monsters, SameFight
  <2>3. Stopped(x) \in Monsters /\ SameFight(m, Stopped(x))
    BY <2>2, StoppedType DEF SameFight
  <2>4. m' = x \/ m' = Stopped(x)
    BY <1>5 DEF Walk
  <2> HIDE DEF x
  <2>5. WatchedMonster(m') /\ SameFight(m, m')
    BY <1>m, <2>2, <2>3, <2>4 DEF WatchedMonster, SameFight
  <2>6. OneLife'
    BY <1>5, <1>m, <2>5 DEF Walk, Rest, OneLife, Resting, SameFight
  <2> QED
    BY <1>5, <2>5, <2>6, <1>o DEF Walk
<1>6. ASSUME NEW p \in Players, Cast(p) PROVE CombatInv'
  <2>1. /\ UNCHANGED <<type, active, place, dead, blows>>
        /\ effects' \in [Players -> 0..MaxEffects]
    BY <1>6, ConstantsAssumption DEF Cast, CombatInv, TypeOK
  <2>2. /\ WatchedMonster(m') /\ OneLife'
        /\ life' \in {"alive", "dying", "corpse", "gone"} /\ rewards' \in 0..2
    <3>1. CASE Damage(p)
      BY <2>1, <3>1, DamageStep
    <3>2. CASE UNCHANGED <<m, life, rewards>>
      BY <1>m, <2>1, <3>2 DEF CombatInv, TypeOK, OneLife, Resting, WatchedMonster
    <3> QED
      BY <1>6, <3>1, <3>2 DEF Cast
  <2> QED
    BY <2>1, <2>2 DEF CombatInv, TypeOK, WatchedMonster, Monsters, Timers
<1>7. ASSUME NEW p \in Players, Effect(p) PROVE CombatInv'
  <2>1. /\ UNCHANGED <<type, active, place, dead, blows>>
        /\ effects' \in [Players -> 0..MaxEffects]
    BY <1>7, ConstantsAssumption DEF Effect, CombatInv, TypeOK
  <2>2. /\ WatchedMonster(m') /\ OneLife'
        /\ life' \in {"alive", "dying", "corpse", "gone"} /\ rewards' \in 0..2
    BY <1>7, <2>1, DamageStep DEF Effect
  <2> QED
    BY <2>1, <2>2 DEF CombatInv, TypeOK, WatchedMonster, Monsters, Timers
<1>8. ASSUME NEW p \in Players, Blow(p) \/ Relive(p) PROVE CombatInv'
  <2>1. /\ UNCHANGED <<type, m, life, active, place, effects, rewards>>
        /\ dead' \subseteq Players /\ blows' \subseteq Players
    BY <1>8 DEF Blow, Relive, CombatInv, TypeOK
  <2> QED
    BY <2>1, <1>u DEF CombatInv, TypeOK
<1>9. ASSUME NEW p \in Players, NEW l \in Places \cup {Elsewhere, Out}, Go(p, l)
      PROVE  CombatInv'
  <2>1. /\ UNCHANGED <<type, m, life, active, effects, blows, rewards>>
        /\ dead' \subseteq Players
        /\ place' \in [Players -> Places \cup {Elsewhere, Out}]
    BY <1>9, <1>p DEF Go, CombatInv, TypeOK
  <2> QED
    BY <2>1, <1>u DEF CombatInv, TypeOK
<1>10. CASE CorpseEvent
  BY <1>10, <1>m DEF CorpseEvent, CombatInv, TypeOK, OneLife, Resting, WatchedMonster
<1>11. CASE RemoveCorpse
  <2> DEFINE x == IF m.dest # NoPlace THEN Stopped(m) ELSE m
  <2>1. x \in Monsters /\ SameFight(m, x)
    BY <1>m, StoppedType DEF SameFight
  <2>2. m' = [x EXCEPT !.pos = 0]
    BY <1>11 DEF RemoveCorpse
  <2> HIDE DEF x
  <2>3. WatchedMonster(m') /\ SameFight(m, m')
    BY <1>m, <2>1, <2>2, PlacesType DEF WatchedMonster, Monsters, SameFight
  <2>4. OneLife'
    BY <1>11, <1>m, <2>3 DEF RemoveCorpse, OneLife, Resting, SameFight
  <2> QED
    BY <1>11, <2>3, <2>4
    DEF RemoveCorpse, CombatInv, TypeOK, WatchedMonster, Monsters, Timers
<1>12. CASE Respawn
  <2>1. /\ m' \in Monsters /\ m'.ai = m.ai /\ m'.target = m.target /\ m'.hp = MaxHp
        /\ m'.timers = m.timers \cup Watch
    <3> DEFINE T == m.timers \cup Watch
    <3>1. T \subseteq Timers
      BY <1>m, WatchType DEF Monsters, Timers
    <3>2. MaxHp \in 0..MaxHp
      BY ConstantsAssumption
    <3>3. m' = [m EXCEPT !.hp = MaxHp, !.timers = T]
      BY <1>12 DEF Respawn
    <3> HIDE DEF T
    <3>4. /\ m' \in Monsters /\ m'.ai = m.ai /\ m'.target = m.target
          /\ m'.hp = MaxHp /\ m'.timers = T
      BY <1>m, <3>1, <3>2, <3>3 DEF Monsters
    <3> QED
      BY <3>4 DEF T
  <2>2. WatchedMonster(m')
    BY <1>m, <2>1, WatchType DEF WatchedMonster, Attacks
  <2>3. OneLife'
    BY <1>12, <1>m, <2>1, WatchType, ConstantsAssumption DEF Respawn, OneLife, Resting
  <2> QED
    BY <1>12, <2>2, <2>3 DEF Respawn, CombatInv, TypeOK, WatchedMonster, Monsters, Timers
<1>13. CASE EnterActiveMode
  <2>1. /\ m' \in Monsters /\ m'.ai = m.ai /\ m'.target = m.target /\ m'.hp = m.hp
        /\ m'.timers = m.timers \cup Watch
    BY <1>13, <1>m, WatchType DEF EnterActiveMode, Monsters, Timers
  <2>2. WatchedMonster(m')
    BY <1>m, <2>1, WatchType DEF WatchedMonster, Attacks
  <2>3. OneLife'
    BY <1>13, <1>m, <2>1, WatchType DEF EnterActiveMode, OneLife, Resting
  <2>4. active' \in BOOLEAN
    BY <1>13 DEF EnterActiveMode
  <2> QED
    BY <1>13, <2>2, <2>3, <2>4
    DEF EnterActiveMode, CombatInv, TypeOK, WatchedMonster, Monsters, Timers
<1>14. CASE EnterDeactiveMode
  <2>1. /\ m' \in Monsters /\ m'.ai = m.ai /\ m'.target = m.target /\ m'.hp = m.hp
        /\ m'.timers = m.timers \ {"rand", "find"}
    BY <1>14, <1>m, WithoutType DEF EnterDeactiveMode
  <2>2. WatchedMonster(m')
    BY <1>m, <2>1 DEF WatchedMonster, Attacks
  <2>3. OneLife'
    BY <1>14, <1>m, <2>1 DEF EnterDeactiveMode, OneLife, Resting
  <2>4. active' \in BOOLEAN
    BY <1>14 DEF EnterDeactiveMode
  <2> QED
    BY <1>14, <2>2, <2>3, <2>4
    DEF EnterDeactiveMode, CombatInv, TypeOK, WatchedMonster, Monsters, Timers
<1>15. CASE UNCHANGED vars
  BY <1>15, <1>m DEF vars, CombatInv, TypeOK, OneLife, Resting, WatchedMonster
<1> QED
  BY <1>1, <1>2, <1>3, <1>4, <1>5, <1>6, <1>7, <1>8, <1>9, <1>10, <1>11, <1>12, <1>13,
     <1>14, <1>15
  DEF Next

LEMMA CombatImplies == CombatInv => Watched /\ KilledOnce
BY DEF CombatInv, WatchedMonster, OneLife, Watched, KilledOnce

\* Whatever the monster, its type, its players and their skills do, and in
\* whatever order its timers run, one that fights or goes home keeps the timer
\* that takes it out of that state (base_ai.lua).
THEOREM WatchedHolds == Spec => []Watched
BY CombatInit, CombatStep, CombatImplies, PTL DEF Spec

\* However many effects of however many players are under way when a monster
\* that does not look for targets dies, it is killed and rewarded once in each
\* of its lives (__doSkillEffect, OnJustDied, OnRespawn).
THEOREM KilledOnceHolds == Spec => []KilledOnce
BY CombatInit, CombatStep, CombatImplies, PTL DEF Spec
=============================================================================
