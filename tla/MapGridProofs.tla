--------------------------- MODULE MapGridProofs ---------------------------
(* Proofs about MapGrid, for a grid of any size, any number of players and *)
(* monsters, and any place of their births.                                *)
EXTENDS MapGrid, TLAPS

Worlds ==
  [at : [Objects -> Cells \cup {Out}], fight : SUBSET Monsters, on : SUBSET Monsters,
   active : SUBSET Cells, loaded : SUBSET Cells,
   add : SUBSET Monsters, del : SUBSET Monsters]

\* The cells, and what is in them, at any point of an action: a monster that is
\* somewhere was born with its cell, and one with Active set is in an active cell.
Sound(w) ==
  /\ w \in Worlds /\ w.active \subseteq w.loaded
  /\ \A m \in Monsters : w.at[m] # Out => Home[m] \in w.loaded
  /\ \A m \in w.on : w.at[m] \in w.active

\* What ApplyPending would make of the pending lists
Agrees(w) == {m \in run : m \notin w.del} \cup {m \in w.add : m \in w.on} = w.on

\* NearPlayersActive for some of the players
NearActive(w, Q) ==
  \A p \in Q : w.at[p] # Out => Around(w.at[p], 1) \subseteq w.active

\* From v to w cells were activated and deactivated, and monsters born.
Later(v, w) ==
  /\ v.loaded \subseteq w.loaded /\ w.fight = v.fight
  /\ \A p \in Players : w.at[p] = v.at[p]
  /\ \A m \in Monsters : Home[m] \in v.loaded => w.at[m] = v.at[m]

-----------------------------------------------------------------------------
(* Cells *)

LEMMA AroundSymmetric ==
  ASSUME NEW c \in Cells, NEW d \in Around(c, 1)
  PROVE  d \in Cells /\ c \in Around(d, 1)
BY ConstantsAssumption DEF Around, Cells

LEMMA AroundGrows ==
  ASSUME NEW c \in Cells
  PROVE  Around(c, 1) \subseteq Around(c, 2) /\ Around(c, 2) \subseteq Cells
BY ConstantsAssumption DEF Around, Cells

\* A monster may be activated if its cell is active.
LEMMA ActivateSound ==
  ASSUME NEW w, Sound(w), NEW S \in SUBSET Monsters, \A m \in S : w.at[m] \in w.active
  PROVE  /\ Sound(Activate(w, S)) /\ Later(w, Activate(w, S))
         /\ Activate(w, S).active = w.active
         /\ Activate(w, S).at = w.at
         /\ Agrees(w) => Agrees(Activate(w, S))
BY DEF Sound, Worlds, Later, Activate, Agrees

LEMMA DeactivateSound ==
  ASSUME NEW w, Sound(w), NEW S \in SUBSET Monsters
  PROVE  /\ Sound(Deactivate(w, S)) /\ Later(w, Deactivate(w, S))
         /\ Deactivate(w, S).active = w.active
         /\ Deactivate(w, S).at = w.at
         /\ Deactivate(w, S).on \cap S = {}
         /\ Agrees(w) => Agrees(Deactivate(w, S))
BY DEF Sound, Worlds, Later, Deactivate, Agrees

LEMMA SetActivitySound ==
  ASSUME NEW w, Sound(w), NEW up \in SUBSET Cells, NEW down \in SUBSET Cells,
         up \cap down = {}
  PROVE  /\ Sound(SetActivity(w, up, down)) /\ Later(w, SetActivity(w, up, down))
         /\ SetActivity(w, up, down).active = up \cup (w.active \ down)
         /\ Agrees(w) => Agrees(SetActivity(w, up, down))
<1> DEFINE born == {m \in Monsters : Home[m] \in up /\ Home[m] \notin w.loaded}
           wake == {m \in Monsters : m \in born \/ (w.at[m] \in up /\ m \notin w.on)}
           sleep == {m \in w.on : w.at[m] \in down}
           w1 == [w EXCEPT !.active = {d \in Cells : d \in up \/ (d \in @ /\ d \notin down)},
                           !.loaded = @ \cup up,
                           !.at = [o \in Objects |-> IF o \in born THEN Home[o] ELSE @[o]]]
           w2 == Activate(w1, wake)
           w3 == Deactivate(w2, sleep)
<1>1. SetActivity(w, up, down) = w3
  BY DEF SetActivity
<1>2. /\ w1.active = up \cup (w.active \ down) /\ w1.loaded = w.loaded \cup up
      /\ w1.fight = w.fight /\ w1.on = w.on /\ w1.add = w.add /\ w1.del = w.del
      /\ w1.at = [o \in Objects |-> IF o \in born THEN Home[o] ELSE w.at[o]]
      /\ w1 \in Worlds
  BY ConstantsAssumption DEF Sound, Worlds
<1> HIDE DEF w1, w2, w3
<1>3. born \subseteq Monsters /\ wake \subseteq Monsters /\ sleep \subseteq Monsters
  BY DEF Sound, Worlds
<1>4. \A m \in Monsters : w1.at[m] = IF m \in born THEN Home[m] ELSE w.at[m]
  BY <1>2 DEF Objects
<1>5. \A p \in Players : w1.at[p] = w.at[p]
  BY <1>2, <1>3, ConstantsAssumption DEF Objects
<1>6. w2 = [w1 EXCEPT !.on = @ \cup wake, !.add = @ \cup wake]
  BY DEF w2, Activate
<1>7. /\ w2 \in Worlds /\ w2.at = w1.at /\ w2.active = w1.active /\ w2.loaded = w1.loaded
      /\ w2.fight = w1.fight /\ w2.on = w1.on \cup wake /\ w2.add = w1.add \cup wake
      /\ w2.del = w1.del
  BY <1>2, <1>3, <1>6 DEF Worlds
<1>8. w3 = [w2 EXCEPT !.on = {m \in @ : m \notin sleep}, !.del = @ \cup sleep]
  BY DEF w3, Deactivate
<1>9. /\ w3 \in Worlds /\ w3.at = w1.at /\ w3.active = w1.active /\ w3.loaded = w1.loaded
      /\ w3.fight = w1.fight /\ w3.on = {m \in w2.on : m \notin sleep}
      /\ w3.add = w2.add /\ w3.del = w2.del \cup sleep
  BY <1>3, <1>7, <1>8 DEF Worlds
<1>10. ASSUME NEW m \in w3.on PROVE w3.at[m] \in w3.active
  <2>1. m \in Monsters /\ m \notin sleep /\ (m \in w.on \/ m \in wake)
    BY <1>2, <1>3, <1>7, <1>9 DEF Sound, Worlds
  <2>2. CASE m \in wake
    BY <1>2, <1>4, <1>9, <2>1, <2>2
  <2>3. CASE m \in w.on
    <3>1. w.at[m] \in w.active /\ w.at[m] \notin down
      BY <2>1, <2>3 DEF Sound
    <3>2. Home[m] \in w.loaded
      BY <2>1, <3>1, ConstantsAssumption DEF Sound, Worlds
    <3> QED
      BY <1>2, <1>4, <1>9, <2>1, <3>1, <3>2
  <2> QED
    BY <2>1, <2>2, <2>3
<1>11. Later(w, w3)
  BY <1>2, <1>4, <1>5, <1>9 DEF Later
<1>12. Sound(w3)
  BY <1>2, <1>4, <1>9, <1>10 DEF Sound
<1>13. Agrees(w) => Agrees(w3)
  BY <1>2, <1>7, <1>9 DEF Agrees
<1> QED
  BY <1>1, <1>2, <1>9, <1>11, <1>12, <1>13

\* No monster is born in a cell that was loaded before.
LEMMA NoBirths ==
  ASSUME NEW w, Sound(w), NEW up \in SUBSET w.loaded, NEW down
  PROVE  SetActivity(w, up, down).at = w.at
<1>1. SetActivity(w, up, down).at = [o \in Objects |-> w.at[o]]
  BY DEF SetActivity, Activate, Deactivate, Sound, Worlds
<1> QED
  BY <1>1 DEF Sound, Worlds

LEMMA UpdateCellActivitySound ==
  ASSUME NEW w, Sound(w), NEW c \in Cells, NEW r \in {0, 2}
  PROVE  /\ Sound(UpdateCellActivity(w, c, r)) /\ Later(w, UpdateCellActivity(w, c, r))
         /\ Agrees(w) => Agrees(UpdateCellActivity(w, c, r))
         /\ \A d \in Cells : (d \in w.active \/ d \in Around(c, r)) /\ isCellActive(w, d)
              => d \in UpdateCellActivity(w, c, r).active
<1> DEFINE up == {d \in Around(c, r) : d \notin w.active /\ isCellActive(w, d)}
           down == {d \in Around(c, r) : d \in w.active /\ ~isCellActive(w, d)}
<1>1. UpdateCellActivity(w, c, r) = SetActivity(w, up, down)
  BY DEF UpdateCellActivity
<1>2. up \in SUBSET Cells /\ down \in SUBSET Cells /\ up \cap down = {}
  BY DEF Around
<1>3. \A d \in Cells : (d \in w.active \/ d \in Around(c, r)) /\ isCellActive(w, d)
        => d \in up \cup (w.active \ down)
  OBVIOUS
<1> HIDE DEF up, down
<1>4. /\ Sound(SetActivity(w, up, down)) /\ Later(w, SetActivity(w, up, down))
      /\ SetActivity(w, up, down).active = up \cup (w.active \ down)
      /\ Agrees(w) => Agrees(SetActivity(w, up, down))
  BY <1>2, SetActivitySound
<1> QED
  BY <1>1, <1>3, <1>4

\* A cell next to a player's is active by what the player is.
LEMMA PlayerCellsActive ==
  ASSUME NEW w, NEW p \in Players, w.at[p] \in Cells, NEW d \in Around(w.at[p], 1)
  PROVE  d \in Cells /\ isCellActive(w, d)
<1>1. d \in Cells /\ w.at[p] \in Around(d, 1)
  BY AroundSymmetric
<1> QED
  BY <1>1 DEF isCellActive, HasPlayers

LEMMA UpdateKeepsNear ==
  ASSUME NEW w, Sound(w), NEW Q \in SUBSET Players, NearActive(w, Q),
         NEW c \in Cells, NEW r \in {0, 2}
  PROVE  NearActive(UpdateCellActivity(w, c, r), Q)
<1> SUFFICES ASSUME NEW p \in Q, UpdateCellActivity(w, c, r).at[p] # Out,
                    NEW d \in Around(UpdateCellActivity(w, c, r).at[p], 1)
             PROVE  d \in UpdateCellActivity(w, c, r).active
  BY DEF NearActive
<1>1. UpdateCellActivity(w, c, r).at[p] = w.at[p]
  BY UpdateCellActivitySound DEF Later
<1>2. w.at[p] \in Cells
  BY <1>1 DEF Sound, Worlds, Objects
<1>3. d \in w.active
  BY <1>1, <1>2 DEF NearActive
<1> QED
  BY <1>1, <1>2, <1>3, PlayerCellsActive, UpdateCellActivitySound

LEMMA TryCellSound ==
  ASSUME NEW w, Sound(w), NEW c \in Cells
  PROVE  /\ Sound(TryCell(w, c)) /\ Later(w, TryCell(w, c))
         /\ Agrees(w) => Agrees(TryCell(w, c))
         /\ \A Q \in SUBSET Players : NearActive(w, Q) => NearActive(TryCell(w, c), Q)
<1>1. CASE c \in w.active
  BY <1>1 DEF TryCell, Later
<1>2. CASE c \notin w.active
  BY <1>2, UpdateCellActivitySound, UpdateKeepsNear DEF TryCell
<1> QED
  BY <1>1, <1>2

LEMMA TryCellLoaded ==
  ASSUME NEW w, Sound(w), NEW c \in w.loaded
  PROVE  TryCell(w, c).at = w.at
<1>1. c \in Cells
  BY DEF Sound, Worlds
<1>2. Around(c, 0) \subseteq {c}
  BY <1>1, ConstantsAssumption DEF Around, Cells
<1> QED
  BY <1>2, NoBirths DEF TryCell, UpdateCellActivity

-----------------------------------------------------------------------------
(* Players *)

\* A player who is put somewhere or taken out: the others keep what they had.
LEMMA PutPlayerSound ==
  ASSUME NEW w, Sound(w), NEW p \in Players, NEW c \in Cells \cup {Out}
  PROVE  /\ Sound(Put(w, p, c)) /\ Put(w, p, c).active = w.active
         /\ Put(w, p, c).loaded = w.loaded /\ Put(w, p, c).fight = w.fight
         /\ \A o \in Objects : Put(w, p, c).at[o] = IF o = p THEN c ELSE w.at[o]
         /\ Agrees(w) => Agrees(Put(w, p, c))
<1>1. p \in Objects /\ p \notin Monsters
  BY ConstantsAssumption DEF Objects
<1>2. /\ Put(w, p, c) \in Worlds
      /\ Put(w, p, c).at = [w.at EXCEPT ![p] = c] /\ Put(w, p, c).fight = w.fight
      /\ Put(w, p, c).on = w.on /\ Put(w, p, c).active = w.active
      /\ Put(w, p, c).loaded = w.loaded /\ Put(w, p, c).add = w.add
      /\ Put(w, p, c).del = w.del
  BY <1>1 DEF Put, Sound, Worlds
<1>3. \A o \in Objects : Put(w, p, c).at[o] = IF o = p THEN c ELSE w.at[o]
  BY <1>1, <1>2 DEF Sound, Worlds
<1>4. \A m \in Monsters : Put(w, p, c).at[m] = w.at[m]
  BY <1>1, <1>3 DEF Objects
<1>5. Sound(Put(w, p, c))
  BY <1>2, <1>4 DEF Sound, Worlds
<1> QED
  BY <1>2, <1>3, <1>5 DEF Agrees

\* Where a player has just come to, updating the cells makes what it sees active.
LEMMA UpdateAroundPlayer ==
  ASSUME NEW w, Sound(w), NEW p \in Players, w.at[p] \in Cells,
         NearActive(w, Players \ {p})
  PROVE  NearActive(UpdateCellActivity(w, w.at[p], 2), Players)
<1> DEFINE v == UpdateCellActivity(w, w.at[p], 2)
<1> SUFFICES ASSUME NEW q \in Players, v.at[q] # Out, NEW d \in Around(v.at[q], 1)
             PROVE  d \in v.active
  BY DEF NearActive
<1>1. v.at[q] = w.at[q]
  BY UpdateCellActivitySound DEF Later
<1>2. w.at[q] \in Cells
  BY <1>1 DEF Sound, Worlds, Objects
<1>3. d \in Cells /\ isCellActive(w, d)
  BY <1>1, <1>2, PlayerCellsActive
<1>4. d \in w.active \/ d \in Around(w.at[p], 2)
  BY <1>1, <1>2, AroundGrows DEF NearActive
<1> QED
  BY <1>3, <1>4, UpdateCellActivitySound

-----------------------------------------------------------------------------
(* The moves of players *)

\* What a move of a player leaves as it was
Moved(v, w, p) ==
  /\ v.loaded \subseteq w.loaded /\ w.fight = v.fight
  /\ \A q \in Players \ {p} : w.at[q] = v.at[q]
  /\ \A m \in Monsters : Home[m] \in v.loaded => w.at[m] = v.at[m]

LEMMA PushPlayerSound ==
  ASSUME NEW w, Sound(w), Agrees(w), NearActive(w, Players), NEW p \in Players, NEW c \in Cells,
         w.at[p] = Out
  PROVE  LET v == PushPlayer(w, p, c)
         IN Sound(v) /\ Agrees(v) /\ NearActive(v, Players) /\ Moved(w, v, p)
<1> DEFINE a == Put(w, p, c)
           b == TryCell(a, c)
           v == UpdateCellActivity(b, c, 2)
<1>p. p \in Objects /\ p \notin Monsters /\ Players \subseteq Objects /\ Monsters \subseteq Objects
  BY ConstantsAssumption DEF Objects
<1>1. /\ Sound(a) /\ Agrees(a) /\ a.active = w.active /\ a.loaded = w.loaded
      /\ a.fight = w.fight
      /\ \A o \in Objects : a.at[o] = IF o = p THEN c ELSE w.at[o]
  BY PutPlayerSound
<1>2. NearActive(a, Players \ {p})
  BY <1>p, <1>1 DEF NearActive
<1> HIDE DEF a
<1>3. Sound(b) /\ Agrees(b) /\ Later(a, b)
  BY <1>1, TryCellSound
<1>4. NearActive(b, Players \ {p})
  BY <1>1, <1>2, TryCellSound
<1>5. b.at[p] = c
  BY <1>p, <1>1, <1>3 DEF Later
<1> HIDE DEF b
<1>6. Sound(v) /\ Agrees(v) /\ Later(b, v)
  BY <1>3, UpdateCellActivitySound
<1>7. NearActive(v, Players)
  BY <1>3, <1>4, <1>5, UpdateAroundPlayer
<1> HIDE DEF v
<1>8. Moved(w, v, p)
  BY <1>p, <1>1, <1>3, <1>6 DEF Later, Moved
<1> QED
  BY <1>6, <1>7, <1>8 DEF PushPlayer, v, b, a

LEMMA ChangePlayerLocationSound ==
  ASSUME NEW w, Sound(w), Agrees(w), NearActive(w, Players), NEW p \in Players,
         NEW c \in Cells, w.at[p] # Out
  PROVE  LET v == ChangePlayerLocation(w, p, c)
         IN Sound(v) /\ Agrees(v) /\ NearActive(v, Players) /\ Moved(w, v, p)
            /\ v.at[p] = c
<1> DEFINE a == TryCell(w, c)
           b == Put(a, p, c)
           u == UpdateCellActivity(b, c, 2)
           v == UpdateCellActivity(u, w.at[p], 2)
<1>p. p \in Objects /\ p \notin Monsters /\ Players \subseteq Objects /\ Monsters \subseteq Objects
  BY ConstantsAssumption DEF Objects
<1>c. w.at[p] \in Cells
  BY <1>p DEF Sound, Worlds
<1>1. Sound(a) /\ Agrees(a) /\ Later(w, a) /\ NearActive(a, Players)
  BY TryCellSound
<1> HIDE DEF a
<1>2. /\ Sound(b) /\ Agrees(b) /\ b.active = a.active /\ b.loaded = a.loaded
      /\ b.fight = a.fight
      /\ \A o \in Objects : b.at[o] = IF o = p THEN c ELSE a.at[o]
  BY <1>1, PutPlayerSound
<1>3. NearActive(b, Players \ {p}) /\ b.at[p] = c
  BY <1>p, <1>1, <1>2 DEF NearActive
<1> HIDE DEF b
<1>4. Sound(u) /\ Agrees(u) /\ Later(b, u)
  BY <1>2, UpdateCellActivitySound
<1>5. NearActive(u, Players)
  BY <1>2, <1>3, UpdateAroundPlayer
<1> HIDE DEF u
<1>6. Sound(v) /\ Agrees(v) /\ Later(u, v) /\ NearActive(v, Players)
  BY <1>c, <1>4, <1>5, UpdateCellActivitySound, UpdateKeepsNear
<1> HIDE DEF v
<1>7. Moved(w, u, p) /\ Moved(w, v, p) /\ u.at[p] = c /\ v.at[p] = c
  BY <1>p, <1>1, <1>2, <1>4, <1>6 DEF Later, Moved
<1>8. ChangePlayerLocation(w, p, c) = u \/ ChangePlayerLocation(w, p, c) = v
  BY DEF ChangePlayerLocation, v, u, b, a
<1> QED
  BY <1>4, <1>5, <1>6, <1>7, <1>8

LEMMA RemovePlayerSound ==
  ASSUME NEW w, Sound(w), Agrees(w), NearActive(w, Players), NEW p \in Players,
         NEW x \in Cells
  PROVE  LET v == RemovePlayer(w, p, x)
         IN Sound(v) /\ Agrees(v) /\ NearActive(v, Players) /\ Moved(w, v, p)
<1> DEFINE a == Put(w, p, Out)
           v == UpdateCellActivity(a, x, 2)
<1>p. p \in Objects /\ p \notin Monsters /\ Players \subseteq Objects /\ Monsters \subseteq Objects
  BY ConstantsAssumption DEF Objects
<1>1. /\ Sound(a) /\ Agrees(a) /\ a.active = w.active /\ a.loaded = w.loaded
      /\ a.fight = w.fight
      /\ \A o \in Objects : a.at[o] = IF o = p THEN Out ELSE w.at[o]
  BY PutPlayerSound
<1>2. NearActive(a, Players)
  BY <1>p, <1>1 DEF NearActive
<1> HIDE DEF a
<1>3. Sound(v) /\ Agrees(v) /\ Later(a, v) /\ NearActive(v, Players)
  BY <1>1, <1>2, UpdateCellActivitySound, UpdateKeepsNear
<1> HIDE DEF v
<1>4. Moved(w, v, p)
  BY <1>p, <1>1, <1>3 DEF Later, Moved
<1> QED
  BY <1>3, <1>4 DEF RemovePlayer, v, a

-----------------------------------------------------------------------------
(* Monsters *)

LEMMA PutMonsterSound ==
  ASSUME NEW w, Sound(w), NEW m \in Monsters, NEW c \in Cells \cup {Out},
         c # Out => Home[m] \in w.loaded, m \in w.on => c \in w.active
  PROVE  /\ Sound(Put(w, m, c)) /\ Put(w, m, c).active = w.active
         /\ Put(w, m, c).on = w.on
         /\ Put(w, m, c).loaded = w.loaded /\ Put(w, m, c).fight = w.fight
         /\ \A o \in Objects : Put(w, m, c).at[o] = IF o = m THEN c ELSE w.at[o]
         /\ Agrees(w) => Agrees(Put(w, m, c))
<1>1. m \in Objects /\ Monsters \subseteq Objects
  BY DEF Objects
<1>2. /\ Put(w, m, c) \in Worlds
      /\ Put(w, m, c).at = [w.at EXCEPT ![m] = c] /\ Put(w, m, c).fight = w.fight
      /\ Put(w, m, c).on = w.on /\ Put(w, m, c).active = w.active
      /\ Put(w, m, c).loaded = w.loaded /\ Put(w, m, c).add = w.add
      /\ Put(w, m, c).del = w.del
  BY <1>1 DEF Put, Sound, Worlds
<1>3. \A o \in Objects : Put(w, m, c).at[o] = IF o = m THEN c ELSE w.at[o]
  BY <1>1, <1>2 DEF Sound, Worlds
<1>4. Sound(Put(w, m, c))
  BY <1>1, <1>2, <1>3 DEF Sound, Worlds
<1> QED
  BY <1>2, <1>3, <1>4 DEF Agrees

\* What a move of a monster leaves as it was
MonsterMoved(v, w, m, c) ==
  /\ v.loaded \subseteq w.loaded /\ w.fight = v.fight /\ w.at[m] = c
  /\ \A n \in Monsters \ {m} : Home[n] \in v.loaded => w.at[n] = v.at[n]

LEMMA ChangeMonsterLocationSound ==
  ASSUME NEW w, Sound(w), Agrees(w), NearActive(w, Players), NEW m \in Monsters,
         NEW c \in Cells, Home[m] \in w.loaded
  PROVE  LET v == ChangeMonsterLocation(w, m, c)
         IN Sound(v) /\ Agrees(v) /\ NearActive(v, Players) /\ MonsterMoved(w, v, m, c)
<1> DEFINE a == TryCell(w, c)
           b == IF c \notin a.active /\ m \in a.on THEN Deactivate(a, {m}) ELSE a
           v == Put(b, m, c)
<1>p. /\ Players \subseteq Objects /\ Monsters \subseteq Objects /\ m \notin Players
      /\ m \in Objects
  BY ConstantsAssumption DEF Objects
<1>1. Sound(a) /\ Agrees(a) /\ Later(w, a) /\ NearActive(a, Players)
  BY TryCellSound
<1> HIDE DEF a
<1>2. /\ Sound(b) /\ Agrees(b) /\ Later(a, b) /\ b.active = a.active /\ b.at = a.at
      /\ m \in b.on => c \in b.active
  <2>1. CASE c \notin a.active /\ m \in a.on
    BY <1>1, <2>1, DeactivateSound
  <2>2. CASE ~(c \notin a.active /\ m \in a.on)
    BY <1>1, <2>2 DEF Later
  <2> QED
    BY <2>1, <2>2
<1> HIDE DEF b
<1>3. Home[m] \in b.loaded
  BY <1>1, <1>2 DEF Later
<1>4. /\ Sound(v) /\ Agrees(v) /\ v.active = b.active
      /\ v.loaded = b.loaded /\ v.fight = b.fight
      /\ \A o \in Objects : v.at[o] = IF o = m THEN c ELSE b.at[o]
  BY <1>2, <1>3, PutMonsterSound
<1> HIDE DEF v
<1>5. NearActive(v, Players)
  BY <1>p, <1>1, <1>2, <1>4 DEF NearActive
<1>6. MonsterMoved(w, v, m, c)
  BY <1>p, <1>1, <1>2, <1>4 DEF Later, MonsterMoved
<1> QED
  BY <1>4, <1>5, <1>6 DEF ChangeMonsterLocation, v, b, a

LEMMA PushMonsterSound ==
  ASSUME NEW w, Sound(w), Agrees(w), NearActive(w, Players), NEW m \in Monsters,
         NEW c \in w.loaded, Home[m] \in w.loaded, w.at[m] = Out
  PROVE  LET v == PushMonster(w, m, c)
         IN Sound(v) /\ Agrees(v) /\ NearActive(v, Players) /\ MonsterMoved(w, v, m, c)
            /\ \A n \in Monsters \ {m} : v.at[n] = w.at[n]
<1> DEFINE a == Put(w, m, c)
           b == TryCell(a, c)
           v == IF c \in b.active THEN Activate(b, {m}) ELSE b
<1>p. /\ Players \subseteq Objects /\ Monsters \subseteq Objects /\ m \notin Players
      /\ m \in Objects
  BY ConstantsAssumption DEF Objects
<1>c. c \in Cells
  BY DEF Sound, Worlds
<1>0. m \notin w.on
  BY ConstantsAssumption DEF Sound, Worlds
<1>1. /\ Sound(a) /\ Agrees(a) /\ a.active = w.active /\ a.loaded = w.loaded
      /\ a.fight = w.fight
      /\ \A o \in Objects : a.at[o] = IF o = m THEN c ELSE w.at[o]
  BY <1>c, <1>0, PutMonsterSound
<1>2. NearActive(a, Players)
  BY <1>p, <1>1 DEF NearActive
<1> HIDE DEF a
<1>3. Sound(b) /\ Agrees(b) /\ Later(a, b) /\ NearActive(b, Players)
      /\ b.at = a.at
  BY <1>c, <1>1, <1>2, TryCellSound, TryCellLoaded
<1>4. b.at[m] = c
  BY <1>p, <1>1, <1>3 DEF Later
<1> HIDE DEF b
<1>5. Sound(v) /\ Agrees(v) /\ Later(b, v) /\ v.active = b.active /\ v.at = b.at
  <2>1. CASE c \in b.active
    BY <1>3, <1>4, <2>1, ActivateSound
  <2>2. CASE c \notin b.active
    BY <1>3, <2>2 DEF Later
  <2> QED
    BY <2>1, <2>2
<1> HIDE DEF v
<1>6. NearActive(v, Players)
  BY <1>3, <1>5 DEF NearActive
<1>7. MonsterMoved(w, v, m, c)
  BY <1>p, <1>1, <1>3, <1>4, <1>5 DEF Later, MonsterMoved
<1>8. \A n \in Monsters \ {m} : v.at[n] = w.at[n]
  BY <1>p, <1>1, <1>3, <1>5
<1> QED
  BY <1>5, <1>6, <1>7, <1>8 DEF PushMonster, v, b, a

LEMMA RemoveMonsterSound ==
  ASSUME NEW w, Sound(w), Agrees(w), NearActive(w, Players), NEW m \in Monsters
  PROVE  LET v == RemoveMonster(w, m)
         IN Sound(v) /\ Agrees(v) /\ NearActive(v, Players) /\ MonsterMoved(w, v, m, Out)
            /\ \A n \in Monsters \ {m} : v.at[n] = w.at[n]
<1> DEFINE a == IF m \in w.on THEN Deactivate(w, {m}) ELSE w
           v == Put(a, m, Out)
<1>p. /\ Players \subseteq Objects /\ Monsters \subseteq Objects /\ m \notin Players
      /\ m \in Objects
  BY ConstantsAssumption DEF Objects
<1>1. /\ Sound(a) /\ Agrees(a) /\ Later(w, a) /\ a.active = w.active /\ a.at = w.at
      /\ m \notin a.on
  <2>1. CASE m \in w.on
    BY <2>1, DeactivateSound
  <2>2. CASE m \notin w.on
    BY <2>2 DEF Later
  <2> QED
    BY <2>1, <2>2
<1> HIDE DEF a
<1>2. /\ Sound(v) /\ Agrees(v) /\ v.active = a.active
      /\ v.loaded = a.loaded /\ v.fight = a.fight
      /\ \A o \in Objects : v.at[o] = IF o = m THEN Out ELSE a.at[o]
  BY <1>1, PutMonsterSound
<1> HIDE DEF v
<1>3. NearActive(v, Players) /\ MonsterMoved(w, v, m, Out)
  BY <1>p, <1>1, <1>2 DEF NearActive, Later, MonsterMoved
<1>4. \A n \in Monsters \ {m} : v.at[n] = w.at[n]
  BY <1>p, <1>1, <1>2
<1> QED
  BY <1>2, <1>3, <1>4 DEF RemoveMonster, v, a

-----------------------------------------------------------------------------
(* The steps *)

\* A monster that has been born has been born with its cell.
BornLoaded == \A m \in Monsters : life[m] # "unborn" => Home[m] \in grid.loaded

GridInv ==
  /\ TypeOK /\ BornLoaded
  /\ Sound(grid) /\ Agrees(grid) /\ NearActive(grid, Players)

LEMMA GridInit == Init => GridInv
<1> SUFFICES ASSUME Init PROVE GridInv
  OBVIOUS
<1>1. \A o \in Objects : grid.at[o] = Out
  BY DEF Init
<1>2. Sound(grid)
  BY DEF Init, Sound, Worlds, Objects
<1>3. TypeOK
  BY DEF Init, TypeOK, Objects
<1>4. Agrees(grid) /\ NearActive(grid, Players) /\ BornLoaded
  BY DEF Init, Agrees, NearActive, BornLoaded, Objects
<1> QED
  BY <1>2, <1>3, <1>4 DEF GridInv

\* The births on the way, when a player moves
LEMMA PlayerBirths ==
  ASSUME GridInv, NEW w, NEW p \in Players, Births(w), Sound(w), Agrees(w),
         NearActive(w, Players), Moved(grid, w, p), UNCHANGED <<run, pc, todo>>
  PROVE  GridInv'
<1>1. grid' = w
  BY DEF Births
<1>2. /\ life' \in [Monsters -> {"unborn", "alive", "corpse", "decay", "gone"}]
      /\ \A m \in Monsters : life'[m] =
           IF life[m] = "unborn" /\ w.at[m] # Out THEN "alive" ELSE life[m]
  BY DEF Births, GridInv, TypeOK
<1>3. \A m \in Monsters : life[m] # "unborn" => w.at[m] = grid.at[m]
  BY DEF GridInv, BornLoaded, Moved
<1>4. BornLoaded'
  BY <1>1, <1>2 DEF GridInv, BornLoaded, Sound, Moved
<1>5. \A m \in Monsters : w.at[m] = Out <=> life'[m] \in {"unborn", "gone"}
  BY <1>2, <1>3 DEF GridInv, TypeOK
<1>6. w.fight \subseteq {m \in Monsters : life'[m] = "alive"}
  BY <1>2 DEF GridInv, TypeOK, Moved
<1>7. TypeOK'
  BY <1>1, <1>2, <1>5, <1>6 DEF GridInv, TypeOK, Sound, Worlds
<1>8. Agrees(grid)'
  BY <1>1 DEF Agrees
<1> QED
  BY <1>1, <1>4, <1>7, <1>8 DEF GridInv, Sound, NearActive

\* A monster that moves, is pushed or removed, with the births on its way.
LEMMA MonsterBirths ==
  ASSUME GridInv, NEW m \in Monsters, NEW c \in Cells \cup {Out}, life[m] # "unborn",
         Sound(grid)', Agrees(grid)', NearActive(grid, Players)',
         MonsterMoved(grid, grid', m, c),
         life' \in [Monsters -> {"unborn", "alive", "corpse", "decay", "gone"}],
         \A n \in Monsters \ {m} : life'[n] =
           IF life[n] = "unborn" /\ grid'.at[n] # Out THEN "alive" ELSE life[n],
         c = Out <=> life'[m] \in {"unborn", "gone"},
         life'[m] # "alive" => m \notin grid.fight,
         pc' \in {"monsters", "others"}, todo' \subseteq run, run' = run,
         pc' = "others" => todo' = {}
  PROVE  GridInv'
<1>1. \A n \in Monsters \ {m} : life[n] # "unborn" => grid'.at[n] = grid.at[n]
  BY DEF GridInv, BornLoaded, MonsterMoved
<1>2. BornLoaded'
  BY DEF GridInv, BornLoaded, Sound, MonsterMoved
<1>3. \A n \in Monsters : grid'.at[n] = Out <=> life'[n] \in {"unborn", "gone"}
  BY <1>1 DEF GridInv, TypeOK, MonsterMoved
<1>4. grid'.fight \subseteq {n \in Monsters : life'[n] = "alive"}
  BY DEF GridInv, TypeOK, MonsterMoved
<1>5. TypeOK'
  BY <1>3, <1>4 DEF GridInv, TypeOK, Sound, Worlds
<1> QED
  BY <1>2, <1>5 DEF GridInv

\* A step that leaves the cells alone, or touches only the fights
LEMMA CellsKept ==
  ASSUME GridInv, TypeOK', UNCHANGED run,
         \A m \in Monsters : life[m] = "unborn" <=> life'[m] = "unborn",
         NEW F, grid' = [grid EXCEPT !.fight = F], F \subseteq Monsters
  PROVE  GridInv'
<1>1. /\ Sound(grid)' /\ grid'.at = grid.at /\ grid'.active = grid.active
      /\ grid'.loaded = grid.loaded /\ grid'.on = grid.on /\ grid'.add = grid.add
      /\ grid'.del = grid.del
  BY DEF GridInv, Sound, Worlds
<1> QED
  BY <1>1 DEF GridInv, BornLoaded, Agrees, NearActive

LEMMA GridStep == GridInv /\ [Next]_vars => GridInv'
<1> SUFFICES ASSUME GridInv, [Next]_vars PROVE GridInv'
  OBVIOUS
<1>g. /\ Sound(grid) /\ Agrees(grid) /\ NearActive(grid, Players) /\ TypeOK /\ BornLoaded
      /\ grid \in Worlds
  BY DEF GridInv, Sound
\* A step that does not touch the grid
<1>k. ASSUME UNCHANGED <<grid, run>>, TypeOK',
             \A m \in Monsters : life[m] = "unborn" <=> life'[m] = "unborn"
      PROVE  GridInv'
  BY <1>k, <1>g DEF GridInv, BornLoaded, Sound, Agrees, NearActive
<1>1. CASE StartPass
  BY <1>1, <1>g, <1>k DEF StartPass, Updated, TypeOK
<1>2. ASSUME NEW m \in Monsters, UpdateCorpse(m) PROVE GridInv'
  <2>1. TypeOK'
    BY <1>2, <1>g DEF UpdateCorpse, UpdateMonster, TypeOK
  <2> QED
    BY <1>2, <1>g, <1>k, <2>1 DEF UpdateCorpse, UpdateMonster, TypeOK
<1>3. ASSUME NEW m \in Monsters, NEW c \in Cells, UpdateMoving(m, c) PROVE GridInv'
  <2>1. life[m] = "alive" /\ Home[m] \in grid.loaded
    BY <1>3, <1>g DEF UpdateMoving, BornLoaded
  <2>2. grid' = ChangeMonsterLocation(grid, m, c) /\ run' = run
    BY <1>3 DEF UpdateMoving, Births, UpdateMonster
  <2>3. /\ Sound(grid') /\ Agrees(grid') /\ NearActive(grid', Players)
        /\ MonsterMoved(grid, grid', m, c)
    BY <1>g, <2>1, <2>2, ChangeMonsterLocationSound
  <2>4. Sound(grid)' /\ Agrees(grid)' /\ NearActive(grid, Players)'
    BY <2>2, <2>3 DEF Sound, Agrees, NearActive
  <2>5. /\ life' \in [Monsters -> {"unborn", "alive", "corpse", "decay", "gone"}]
        /\ \A n \in Monsters : life'[n] =
             IF life[n] = "unborn" /\ grid'.at[n] # Out THEN "alive" ELSE life[n]
    BY <1>3, <1>g DEF UpdateMoving, Births, TypeOK
  <2>6. c # Out
    BY ConstantsAssumption
  <2>7. pc' \in {"monsters", "others"} /\ todo' \subseteq run /\ pc' # "others"
    BY <1>3, <1>g DEF UpdateMoving, UpdateMonster, TypeOK
  <2> QED
    BY <2>1, <2>2, <2>3, <2>4, <2>5, <2>6, <2>7, MonsterBirths
<1>4. ASSUME NEW m \in Monsters, UpdateInPlace(m) PROVE GridInv'
  BY <1>4, <1>g, <1>k DEF UpdateInPlace, UpdateMonster, TypeOK
<1>5. CASE ApplyPending
  <2>1. grid' = [grid EXCEPT !.add = {}, !.del = {}] /\ run' = Applied /\ life' = life
    BY <1>5 DEF ApplyPending
  <2>2. /\ grid' \in Worlds /\ grid'.at = grid.at /\ grid'.active = grid.active
        /\ grid'.loaded = grid.loaded /\ grid'.on = grid.on /\ grid'.add = {}
        /\ grid'.del = {} /\ grid'.fight = grid.fight
    BY <1>g, <2>1 DEF Worlds
  <2>3. run' = grid.on
    BY <1>g, <2>1 DEF Applied, Agrees
  <2>4. TypeOK'
    BY <1>5, <1>g, <2>1, <2>2, <2>3 DEF ApplyPending, TypeOK, Worlds
  <2> QED
    BY <1>g, <2>1, <2>2, <2>3, <2>4 DEF GridInv, BornLoaded, Sound, Agrees, NearActive
<1>6. ASSUME NEW p \in Players, NEW c \in Cells, PlayerEnters(p, c) PROVE GridInv'
  <2> DEFINE w == PushPlayer(grid, p, c)
  <2>1. Sound(w) /\ Agrees(w) /\ NearActive(w, Players) /\ Moved(grid, w, p)
    BY <1>6, <1>g, PushPlayerSound DEF PlayerEnters
  <2>2. Births(w) /\ UNCHANGED <<run, pc, todo>>
    BY <1>6 DEF PlayerEnters
  <2> HIDE DEF w
  <2> QED
    BY <2>1, <2>2, PlayerBirths
<1>7. ASSUME NEW p \in Players, NEW c \in Cells, PlayerMoves(p, c) PROVE GridInv'
  <2> DEFINE w == ChangePlayerLocation(grid, p, c)
  <2>1. Sound(w) /\ Agrees(w) /\ NearActive(w, Players) /\ Moved(grid, w, p)
    BY <1>7, <1>g, ChangePlayerLocationSound DEF PlayerMoves
  <2>2. Births(w) /\ UNCHANGED <<run, pc, todo>>
    BY <1>7 DEF PlayerMoves
  <2> HIDE DEF w
  <2> QED
    BY <2>1, <2>2, PlayerBirths
<1>8. ASSUME NEW p \in Players, NEW c \in Cells, PlayerLeaves(p, c) PROVE GridInv'
  <2> DEFINE w == RemovePlayer(grid, p, c)
  <2>1. Sound(w) /\ Agrees(w) /\ NearActive(w, Players) /\ Moved(grid, w, p)
    BY <1>8, <1>g, RemovePlayerSound DEF PlayerLeaves
  <2>2. Births(w) /\ UNCHANGED <<run, pc, todo>>
    BY <1>8 DEF PlayerLeaves
  <2> HIDE DEF w
  <2> QED
    BY <2>1, <2>2, PlayerBirths
<1>9. ASSUME NEW m \in Monsters, StartFight(m) PROVE GridInv'
  <2>1. TypeOK'
    BY <1>9, <1>g DEF StartFight, Opponent, TypeOK, Worlds
  <2>2. grid' = [grid EXCEPT !.fight = grid.fight \cup {m}] /\ UNCHANGED <<life, run>>
    BY <1>9 DEF StartFight
  <2>3. grid.fight \cup {m} \subseteq Monsters
    BY <1>g DEF Worlds
  <2> QED
    BY <2>1, <2>2, <2>3, CellsKept
<1>10. ASSUME NEW m \in Monsters, EndFight(m) PROVE GridInv'
  <2>1. TypeOK'
    BY <1>10, <1>g DEF EndFight, TypeOK, Worlds
  <2>2. grid' = [grid EXCEPT !.fight = grid.fight \ {m}] /\ UNCHANGED <<life, run>>
    BY <1>10 DEF EndFight
  <2>3. grid.fight \ {m} \subseteq Monsters
    BY <1>g DEF Worlds
  <2> QED
    BY <2>1, <2>2, <2>3, CellsKept
<1>11. ASSUME NEW m \in Monsters, JustDied(m) PROVE GridInv'
  <2>1. TypeOK'
    BY <1>11, <1>g DEF JustDied, Opponent, TypeOK, Worlds
  <2>2. grid' = [grid EXCEPT !.fight = grid.fight \ {m}] /\ UNCHANGED run
    BY <1>11 DEF JustDied
  <2>3. grid.fight \ {m} \subseteq Monsters
    BY <1>g DEF Worlds
  <2>4. \A n \in Monsters : life[n] = "unborn" <=> life'[n] = "unborn"
    BY <1>11, <1>g DEF JustDied, Opponent, TypeOK
  <2> QED
    BY <2>1, <2>2, <2>3, <2>4, CellsKept
<1>12. ASSUME NEW m \in Monsters, OnRemoveCorpse(m) PROVE GridInv'
  <2>1. grid' = RemoveMonster(grid, m) /\ UNCHANGED <<run, pc, todo>>
    BY <1>12 DEF OnRemoveCorpse
  <2>2. /\ life[m] # "unborn" /\ Home[m] \in grid.loaded
    BY <1>12, <1>g DEF OnRemoveCorpse, BornLoaded, TypeOK
  <2>3. /\ Sound(grid') /\ Agrees(grid') /\ NearActive(grid', Players)
        /\ MonsterMoved(grid, grid', m, Out)
        /\ \A n \in Monsters \ {m} : grid'.at[n] = grid.at[n]
    BY <1>g, <2>1, <2>2, RemoveMonsterSound
  <2>4. Sound(grid)' /\ Agrees(grid)' /\ NearActive(grid, Players)'
    BY <2>1, <2>3 DEF Sound, Agrees, NearActive
  <2>5. /\ life' \in [Monsters -> {"unborn", "alive", "corpse", "decay", "gone"}]
        /\ life'[m] = "gone" /\ \A n \in Monsters \ {m} : life'[n] = life[n]
    BY <1>12, <1>g DEF OnRemoveCorpse, TypeOK
  <2>6. \A n \in Monsters \ {m} : life[n] = "unborn" => grid'.at[n] = Out
    BY <1>g, <2>3 DEF TypeOK
  <2>7. m \notin grid.fight
    BY <1>12, <1>g, ConstantsAssumption DEF OnRemoveCorpse, TypeOK
  <2>8. pc' \in {"monsters", "others"} /\ todo' \subseteq run /\ (pc' = "others" => todo' = {})
    BY <1>g, <2>1 DEF TypeOK
  <2> QED
    BY <2>1, <2>2, <2>3, <2>4, <2>5, <2>6, <2>7, <2>8, MonsterBirths
<1>13. ASSUME NEW m \in Monsters, OnRespawn(m) PROVE GridInv'
  <2>1. grid' = PushMonster(grid, m, Home[m]) /\ UNCHANGED <<run, pc, todo>>
    BY <1>13 DEF OnRespawn
  <2>2. /\ life[m] # "unborn" /\ Home[m] \in grid.loaded /\ grid.at[m] = Out
    BY <1>13, <1>g DEF OnRespawn, BornLoaded, TypeOK
  <2>3. /\ Sound(grid') /\ Agrees(grid') /\ NearActive(grid', Players)
        /\ MonsterMoved(grid, grid', m, Home[m])
        /\ \A n \in Monsters \ {m} : grid'.at[n] = grid.at[n]
    BY <1>g, <2>1, <2>2, PushMonsterSound
  <2>4. Sound(grid)' /\ Agrees(grid)' /\ NearActive(grid, Players)'
    BY <2>1, <2>3 DEF Sound, Agrees, NearActive
  <2>5. /\ life' \in [Monsters -> {"unborn", "alive", "corpse", "decay", "gone"}]
        /\ life'[m] = "alive" /\ \A n \in Monsters \ {m} : life'[n] = life[n]
    BY <1>13, <1>g DEF OnRespawn, TypeOK
  <2>6. \A n \in Monsters \ {m} : life[n] = "unborn" => grid'.at[n] = Out
    BY <1>g, <2>3 DEF TypeOK
  <2>7. Home[m] \in Cells /\ Home[m] # Out
    BY <1>13, <1>g, ConstantsAssumption DEF OnRespawn, TypeOK
  <2>8. pc' \in {"monsters", "others"} /\ todo' \subseteq run /\ (pc' = "others" => todo' = {})
    BY <1>g, <2>1 DEF TypeOK
  <2> QED
    BY <2>1, <2>2, <2>3, <2>4, <2>5, <2>6, <2>7, <2>8, MonsterBirths
<1>14. CASE UNCHANGED vars
  BY <1>14, <1>g, <1>k DEF vars, TypeOK
<1> QED
  BY <1>1, <1>2, <1>3, <1>4, <1>5, <1>6, <1>7, <1>8, <1>9, <1>10, <1>11, <1>12, <1>13, <1>14
  DEF Next, MainLoop, MonsterEvents

LEMMA GridImplies == GridInv => ActivationAgrees /\ NearPlayersActive
BY DEF GridInv, ActivationAgrees, NearPlayersActive, PendingAgrees, Applied, Agrees,
       OnlyActiveCellsRun, Sound, NearActive

\* Wherever players go and whatever the monsters do, on a grid of any size, the
\* pending lists lead to the monsters that have Active set, and these are in the
\* world, in active cells (SetActivity, Activate, Deactivate, ChangeObjectLocation,
\* _PerformUpdateMonsters).
THEOREM ActivationAgreesHolds == Spec => []ActivationAgrees
BY GridInit, GridStep, GridImplies, PTL DEF Spec

\* A player is surrounded by active cells, whose monsters have been born, however
\* it came there and whoever else leaves (UpdateCellActivity, isCellActive,
\* PushObject, RemoveObject, ChangeObjectLocation).
THEOREM NearPlayersActiveHolds == Spec => []NearPlayersActive
BY GridInit, GridStep, GridImplies, PTL DEF Spec
-----------------------------------------------------------------------------
(* Who sleeps *)

\* The monsters that sleep in an active cell
Asleep(w) == {m \in Monsters : w.at[m] \in w.active /\ m \notin w.on}

\* Cells that become active wake what is in them and what is born in them.
LEMMA SetActivityWakes ==
  ASSUME NEW w, Sound(w), NEW up \in SUBSET Cells, NEW down \in SUBSET Cells,
         up \cap down = {}
  PROVE  Asleep(SetActivity(w, up, down)) \subseteq Asleep(w)
<1> DEFINE born == {m \in Monsters : Home[m] \in up /\ Home[m] \notin w.loaded}
           wake == {m \in Monsters : m \in born \/ (w.at[m] \in up /\ m \notin w.on)}
           sleep == {m \in w.on : w.at[m] \in down}
           w1 == [w EXCEPT !.active = {d \in Cells : d \in up \/ (d \in @ /\ d \notin down)},
                           !.loaded = @ \cup up,
                           !.at = [o \in Objects |-> IF o \in born THEN Home[o] ELSE @[o]]]
           w2 == Activate(w1, wake)
           w3 == Deactivate(w2, sleep)
<1>1. SetActivity(w, up, down) = w3
  BY DEF SetActivity
<1>2. /\ w1.active = up \cup (w.active \ down) /\ w1.on = w.on /\ w1 \in Worlds
      /\ w1.at = [o \in Objects |-> IF o \in born THEN Home[o] ELSE w.at[o]]
  BY ConstantsAssumption DEF Sound, Worlds
<1> HIDE DEF w1, w2, w3
<1>3. \A m \in Monsters : w1.at[m] = IF m \in born THEN Home[m] ELSE w.at[m]
  BY <1>2 DEF Objects
<1>4. born \subseteq Monsters /\ wake \subseteq Monsters /\ sleep \subseteq Monsters
  BY DEF Sound, Worlds
<1>5. w2 \in Worlds /\ w2.at = w1.at /\ w2.active = w1.active /\ w2.on = w.on \cup wake
  BY <1>2, <1>4 DEF w2, Activate, Worlds
<1>6. /\ w3.at = w1.at /\ w3.active = w1.active
      /\ w3.on = {m \in w.on \cup wake : m \notin sleep}
  BY <1>5 DEF w3, Deactivate, Worlds
<1>7. ASSUME NEW m \in Asleep(w3) PROVE m \in Asleep(w)
  <2>1. /\ m \in Monsters /\ w1.at[m] \in up \cup (w.active \ down)
        /\ m \in sleep \/ (m \notin w.on /\ m \notin wake)
    BY <1>2, <1>6 DEF Asleep
  <2>2. m \notin born
    <3>1. CASE m \in sleep
      <4>1. w.at[m] \in w.active
        BY <3>1 DEF Sound
      <4>2. Home[m] \in w.loaded
        BY <2>1, <4>1, ConstantsAssumption DEF Sound, Worlds
      <4> QED BY <4>2
    <3> QED BY <2>1, <3>1
  <2>3. w.at[m] \in up \cup (w.active \ down)
    BY <1>3, <2>1, <2>2
  <2>4. m \notin sleep
    BY <2>3
  <2> QED BY <2>1, <2>3, <2>4 DEF Asleep
<1> QED BY <1>1, <1>7

LEMMA UpdateCellActivityWakes ==
  ASSUME NEW w, Sound(w), NEW c \in Cells, NEW r \in {0, 2}
  PROVE  Asleep(UpdateCellActivity(w, c, r)) \subseteq Asleep(w)
<1> DEFINE up == {d \in Around(c, r) : d \notin w.active /\ isCellActive(w, d)}
           down == {d \in Around(c, r) : d \in w.active /\ ~isCellActive(w, d)}
<1>1. UpdateCellActivity(w, c, r) = SetActivity(w, up, down)
  BY DEF UpdateCellActivity
<1>2. up \in SUBSET Cells /\ down \in SUBSET Cells /\ up \cap down = {}
  BY DEF Around
<1> HIDE DEF up, down
<1> QED BY <1>1, <1>2, SetActivityWakes

LEMMA TryCellWakes ==
  ASSUME NEW w, Sound(w), NEW c \in Cells
  PROVE  Asleep(TryCell(w, c)) \subseteq Asleep(w)
BY UpdateCellActivityWakes DEF TryCell

\* Where the players are does not matter.
LEMMA PutPlayerWakes ==
  ASSUME NEW w, Sound(w), NEW p \in Players, NEW c \in Cells \cup {Out}
  PROVE  Asleep(Put(w, p, c)) = Asleep(w)
<1>1. p \in Objects /\ p \notin Monsters /\ Monsters \subseteq Objects
  BY ConstantsAssumption DEF Objects
<1>2. /\ Put(w, p, c).at = [w.at EXCEPT ![p] = c] /\ Put(w, p, c).on = w.on
      /\ Put(w, p, c).active = w.active
  BY <1>1 DEF Put, Sound, Worlds
<1>3. \A m \in Monsters : Put(w, p, c).at[m] = w.at[m]
  BY <1>1, <1>2 DEF Sound, Worlds
<1> QED BY <1>2, <1>3 DEF Asleep

\* No move of a player lets a monster fall asleep in an active cell.
LEMMA PlayersWake ==
  ASSUME NEW w, Sound(w), NEW p \in Players, NEW c \in Cells
  PROVE  /\ Asleep(PushPlayer(w, p, c)) \subseteq Asleep(w)
         /\ w.at[p] # Out => Asleep(ChangePlayerLocation(w, p, c)) \subseteq Asleep(w)
         /\ Asleep(RemovePlayer(w, p, c)) \subseteq Asleep(w)
<1>1. Asleep(PushPlayer(w, p, c)) \subseteq Asleep(w)
  <2> DEFINE a == Put(w, p, c)
             b == TryCell(a, c)
  <2>1. Sound(a) /\ Asleep(a) = Asleep(w)
    BY PutPlayerSound, PutPlayerWakes
  <2> HIDE DEF a
  <2>2. Sound(b) /\ Asleep(b) \subseteq Asleep(a)
    BY <2>1, TryCellSound, TryCellWakes
  <2> HIDE DEF b
  <2>3. Asleep(UpdateCellActivity(b, c, 2)) \subseteq Asleep(b)
    BY <2>2, UpdateCellActivityWakes
  <2> QED BY <2>1, <2>2, <2>3 DEF PushPlayer, b, a
<1>2. ASSUME w.at[p] # Out PROVE Asleep(ChangePlayerLocation(w, p, c)) \subseteq Asleep(w)
  <2> DEFINE a == TryCell(w, c)
             b == Put(a, p, c)
             u == UpdateCellActivity(b, c, 2)
             v == UpdateCellActivity(u, w.at[p], 2)
  <2>1. w.at[p] \in Cells
    BY <1>2 DEF Sound, Worlds, Objects
  <2>2. Sound(a) /\ Asleep(a) \subseteq Asleep(w)
    BY TryCellSound, TryCellWakes
  <2> HIDE DEF a
  <2>3. Sound(b) /\ Asleep(b) = Asleep(a)
    BY <2>2, PutPlayerSound, PutPlayerWakes
  <2> HIDE DEF b
  <2>4. Sound(u) /\ Asleep(u) \subseteq Asleep(b)
    BY <2>3, UpdateCellActivitySound, UpdateCellActivityWakes
  <2> HIDE DEF u
  <2>5. Asleep(v) \subseteq Asleep(u)
    BY <2>1, <2>4, UpdateCellActivityWakes
  <2> HIDE DEF v
  <2>6. ChangePlayerLocation(w, p, c) = u \/ ChangePlayerLocation(w, p, c) = v
    BY DEF ChangePlayerLocation, v, u, b, a
  <2> QED BY <2>2, <2>3, <2>4, <2>5, <2>6
<1>3. Asleep(RemovePlayer(w, p, c)) \subseteq Asleep(w)
  <2> DEFINE a == Put(w, p, Out)
  <2>1. Sound(a) /\ Asleep(a) = Asleep(w)
    BY PutPlayerSound, PutPlayerWakes
  <2> HIDE DEF a
  <2> QED BY <2>1, UpdateCellActivityWakes DEF RemovePlayer, a
<1> QED BY <1>1, <1>2, <1>3

\* Putting a monster somewhere changes nothing for the others.
LEMMA PutMonsterWakes ==
  ASSUME NEW w, Sound(w), NEW m \in Monsters, NEW c \in Cells \cup {Out}
  PROVE  /\ Asleep(Put(w, m, c)) \ {m} \subseteq Asleep(w)
         /\ m \in Asleep(Put(w, m, c)) => c \in w.active /\ m \notin w.on
<1>1. m \in Objects /\ Monsters \subseteq Objects
  BY DEF Objects
<1>2. /\ Put(w, m, c).at = [w.at EXCEPT ![m] = c] /\ Put(w, m, c).on = w.on
      /\ Put(w, m, c).active = w.active
  BY <1>1 DEF Put, Sound, Worlds
<1>3. \A n \in Monsters : Put(w, m, c).at[n] = IF n = m THEN c ELSE w.at[n]
  BY <1>1, <1>2 DEF Sound, Worlds
<1> QED BY <1>2, <1>3 DEF Asleep

\* A monster that walks may come into an active cell asleep; no other does.
LEMMA ChangeMonsterWakes ==
  ASSUME NEW w, Sound(w), NEW m \in Monsters, NEW c \in Cells
  PROVE  Asleep(ChangeMonsterLocation(w, m, c)) \ {m} \subseteq Asleep(w)
<1> DEFINE a == TryCell(w, c)
           b == IF c \notin a.active /\ m \in a.on THEN Deactivate(a, {m}) ELSE a
<1>1. Sound(a) /\ Asleep(a) \subseteq Asleep(w)
  BY TryCellSound, TryCellWakes
<1> HIDE DEF a
<1>2. Sound(b) /\ Asleep(b) \ {m} \subseteq Asleep(a)
  <2>1. CASE c \notin a.active /\ m \in a.on
    <3>1. /\ Deactivate(a, {m}).at = a.at /\ Deactivate(a, {m}).active = a.active
          /\ Deactivate(a, {m}).on = {n \in a.on : n \notin {m}}
      BY <1>1 DEF Deactivate, Sound, Worlds
    <3> QED BY <1>1, <2>1, <3>1, DeactivateSound DEF Asleep
  <2>2. CASE ~(c \notin a.active /\ m \in a.on)
    BY <1>1, <2>2
  <2> QED BY <2>1, <2>2
<1> HIDE DEF b
<1>3. Asleep(Put(b, m, c)) \ {m} \subseteq Asleep(b)
  BY <1>2, PutMonsterWakes
<1> QED BY <1>1, <1>2, <1>3 DEF ChangeMonsterLocation, b, a

\* A monster that respawns is awake if its cell is.
LEMMA PushMonsterWakes ==
  ASSUME NEW w, Sound(w), NEW m \in Monsters, NEW c \in w.loaded, Home[m] \in w.loaded,
         w.at[m] = Out
  PROVE  Asleep(PushMonster(w, m, c)) \subseteq Asleep(w)
<1> DEFINE a == Put(w, m, c)
           b == TryCell(a, c)
           v == IF c \in b.active THEN Activate(b, {m}) ELSE b
<1>1. c \in Cells /\ m \notin w.on
  BY ConstantsAssumption DEF Sound, Worlds
<1>2. /\ Sound(a) /\ Asleep(a) \ {m} \subseteq Asleep(w) /\ a.loaded = w.loaded
      /\ a.at[m] = c
  BY <1>1, PutMonsterSound, PutMonsterWakes DEF Objects
<1> HIDE DEF a
<1>3. Sound(b) /\ Asleep(b) \subseteq Asleep(a) /\ b.at[m] = c
  BY <1>1, <1>2, TryCellSound, TryCellWakes, TryCellLoaded
<1> HIDE DEF b
<1>4. Asleep(v) \subseteq Asleep(b) \ {m}
  <2>1. CASE c \in b.active
    <3>1. /\ Activate(b, {m}).at = b.at /\ Activate(b, {m}).active = b.active
          /\ Activate(b, {m}).on = b.on \cup {m}
      BY <1>3 DEF Activate, Sound, Worlds
    <3> QED BY <2>1, <3>1 DEF Asleep
  <2>2. CASE c \notin b.active
    BY <1>3, <2>2 DEF Asleep
  <2> QED BY <2>1, <2>2
<1> HIDE DEF v
<1> QED BY <1>2, <1>3, <1>4 DEF PushMonster, v, b, a

LEMMA RemoveMonsterWakes ==
  ASSUME NEW w, Sound(w), NEW m \in Monsters
  PROVE  Asleep(RemoveMonster(w, m)) \subseteq Asleep(w)
<1> DEFINE a == IF m \in w.on THEN Deactivate(w, {m}) ELSE w
<1>1. Sound(a) /\ Asleep(a) \ {m} \subseteq Asleep(w)
  <2>1. CASE m \in w.on
    <3>1. /\ Deactivate(w, {m}).at = w.at /\ Deactivate(w, {m}).active = w.active
          /\ Deactivate(w, {m}).on = {n \in w.on : n \notin {m}}
      BY DEF Deactivate, Sound, Worlds
    <3> QED BY <2>1, <3>1, DeactivateSound DEF Asleep
  <2>2. CASE m \notin w.on
    BY <2>2
  <2> QED BY <2>1, <2>2
<1> HIDE DEF a
<1>2. Asleep(Put(a, m, Out)) \ {m} \subseteq Asleep(a) /\ m \notin Asleep(Put(a, m, Out))
  BY <1>1, PutMonsterWakes, ConstantsAssumption DEF Sound, Worlds
<1> QED BY <1>1, <1>2 DEF RemoveMonster, a

\* A step that leaves asleep only who was, but for a monster that walks in the pass
LEMMA WokenStep ==
  ASSUME GridInv, Next,
         NEW m \in Monsters, grid'.at[m] \in grid'.active, m \notin grid'.on
  PROVE  \/ grid.at[m] \in grid.active /\ m \notin grid.on
         \/ pc = "monsters" /\ grid.at[m] \notin {Out, grid'.at[m]}
<1>1. Sound(grid) /\ TypeOK /\ BornLoaded /\ grid \in Worlds
  BY DEF GridInv, Sound
<1>2. ASSUME Asleep(grid') \subseteq Asleep(grid)
      PROVE  grid.at[m] \in grid.active /\ m \notin grid.on
  <2>1. m \in Asleep(grid')
    BY DEF Asleep
  <2> QED BY <1>2, <2>1 DEF Asleep
<1>3. ASSUME grid'.at = grid.at, grid'.active = grid.active, grid'.on = grid.on
      PROVE  grid.at[m] \in grid.active /\ m \notin grid.on
  BY <1>3
<1>4. CASE StartPass \/ \E n \in Monsters : UpdateCorpse(n) \/ UpdateInPlace(n)
  BY <1>3, <1>4 DEF StartPass, UpdateCorpse, UpdateInPlace
<1>5. ASSUME NEW n \in Monsters, NEW c \in Cells, UpdateMoving(n, c)
      PROVE  \/ grid.at[m] \in grid.active /\ m \notin grid.on
             \/ pc = "monsters" /\ grid.at[m] \notin {Out, grid'.at[m]}
  <2>1. /\ grid' = ChangeMonsterLocation(grid, n, c) /\ pc = "monsters"
        /\ grid.at[n] # Out /\ c # grid.at[n] /\ Home[n] \in grid.loaded
    BY <1>1, <1>5 DEF UpdateMoving, UpdateMonster, Births, BornLoaded
  <2>2. Asleep(grid') \ {n} \subseteq Asleep(grid)
    BY <1>1, <2>1, ChangeMonsterWakes
  <2>3. grid'.at[n] = c
    BY <1>1, <2>1, ChangeMonsterLocationSound DEF GridInv, MonsterMoved
  <2>4. m \in Asleep(grid')
    BY DEF Asleep
  <2>5. CASE m = n
    BY <2>1, <2>3, <2>5
  <2>6. CASE m # n
    BY <2>2, <2>4, <2>6 DEF Asleep
  <2> QED BY <2>5, <2>6
<1>6. CASE ApplyPending
  <2>1. grid' = [grid EXCEPT !.add = {}, !.del = {}]
    BY <1>6 DEF ApplyPending
  <2> QED BY <1>1, <1>3, <2>1 DEF Worlds
<1>7. ASSUME NEW p \in Players, NEW c \in Cells,
             PlayerEnters(p, c) \/ PlayerMoves(p, c) \/ PlayerLeaves(p, c)
      PROVE  grid.at[m] \in grid.active /\ m \notin grid.on
  <2>1. CASE PlayerEnters(p, c)
    <3>1. grid' = PushPlayer(grid, p, c)
      BY <2>1 DEF PlayerEnters, Births
    <3> QED BY <1>1, <1>2, <3>1, PlayersWake
  <2>2. CASE PlayerMoves(p, c)
    <3>1. grid' = ChangePlayerLocation(grid, p, c) /\ grid.at[p] # Out
      BY <2>2 DEF PlayerMoves, Births
    <3> QED BY <1>1, <1>2, <3>1, PlayersWake
  <2>3. CASE PlayerLeaves(p, c)
    <3>1. grid' = RemovePlayer(grid, p, c)
      BY <2>3 DEF PlayerLeaves, Births
    <3> QED BY <1>1, <1>2, <3>1, PlayersWake
  <2> QED BY <1>7, <2>1, <2>2, <2>3
<1>8. ASSUME NEW n \in Monsters, StartFight(n) \/ EndFight(n) \/ JustDied(n)
      PROVE  grid.at[m] \in grid.active /\ m \notin grid.on
  <2>1. PICK F : grid' = [grid EXCEPT !.fight = F]
    BY <1>8 DEF StartFight, EndFight, JustDied
  <2> QED BY <1>1, <1>3, <2>1 DEF Worlds
<1>9. ASSUME NEW n \in Monsters, OnRemoveCorpse(n)
      PROVE  grid.at[m] \in grid.active /\ m \notin grid.on
  <2>1. grid' = RemoveMonster(grid, n)
    BY <1>9 DEF OnRemoveCorpse
  <2> QED BY <1>1, <1>2, <2>1, RemoveMonsterWakes
<1>10. ASSUME NEW n \in Monsters, OnRespawn(n)
       PROVE  grid.at[m] \in grid.active /\ m \notin grid.on
  <2>1. /\ grid' = PushMonster(grid, n, Home[n]) /\ Home[n] \in grid.loaded
        /\ grid.at[n] = Out
    BY <1>1, <1>10 DEF OnRespawn, BornLoaded, TypeOK
  <2> QED BY <1>1, <1>2, <2>1, PushMonsterWakes
<1> QED BY <1>4, <1>5, <1>6, <1>7, <1>8, <1>9, <1>10 DEF Next, MainLoop, MonsterEvents

\* A monster that sleeps in an active cell has walked there in its sleep, in the pass
\* after its deactivation: nothing else leaves one behind (SetActivity, LoadObjects,
\* PushObject, ChangeObjectLocation).
THEOREM WokenWithCellHolds == Spec => WokenWithCell
<1> DEFINE Woken == \A m \in Monsters :
             (grid'.at[m] \in grid'.active /\ m \notin grid'.on) =>
               \/ grid.at[m] \in grid.active /\ m \notin grid.on
               \/ pc = "monsters" /\ grid.at[m] \notin {Out, grid'.at[m]}
<1>1. GridInv /\ [Next]_vars => [Woken]_vars
  BY WokenStep
<1> HIDE DEF Woken
<1>2. Spec => [][Woken]_vars
  BY <1>1, GridInit, GridStep, PTL DEF Spec
<1> QED BY <1>2 DEF WokenWithCell, Woken
=============================================================================
