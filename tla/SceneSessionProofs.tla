------------------------ MODULE SceneSessionProofs ------------------------
(* Proofs about SceneSession, for any number of gateways, players, session *)
(* slots and maps, and any bounds.                                         *)
EXTENDS SceneSession, TLAPS

\* A session of the table or of the waiting ones knows its player; a session is
\* not both, and one in the pool is neither.
Owned ==
  /\ OneSessionPerPlayer
  /\ \A p \in Players : queued[p] # None => ~Listed(queued[p])
  /\ \A s \in Sessions : ses[s].free => ses[s].guid = None

\* A session that waits has not been anywhere.
Fresh ==
  \A p \in Players : queued[p] # None =>
    LET r == ses[queued[p]]
    IN r.inst = Outside /\ r.mgr = None /\ ~r.out

\* A session of the table has its player object, except when it could not enter.
WithPlayer == \A s \in Sessions : Listed(s) => (ses[s].plr <=> ~ses[s].out)

\* The sets of a map agree with the instance id.  A session that leaves its map
\* before its turn stays in the map's set until the pass comes to it.  No player waits
\* for a map it is in.
Located ==
  /\ \A s \in global : ses[s].inst = Outside
  /\ \A m \in Maps :
       /\ \A s \in pool[m] \cup stored[m] : ses[s].inst = m
       /\ pool[m] \cap (stored[m] \cup mapSess[m]) = {}
       /\ \A s \in mapSess[m] :
            \/ ses[s].inst = m
            \/ ses[s].inst = Outside /\ pc = "mapSessions" /\ <<s, m>> \in todo

\* A pass goes through one set, or one for each map, and the current session is
\* where the pass found it.
Passing ==
  /\ pc = "mapSessions" =>
       \A s \in Sessions, m \in Places :
         <<s, m>> \in todo \/ cur = <<s, m>> => m \in Maps /\ s \in mapSess[m]
  /\ pc = "global" =>
       \A s \in Sessions, m \in Places :
         <<s, m>> \in todo \/ cur = <<s, m>> => m = Outside /\ s \in global
  /\ \A s \in Sessions, m \in Places :
       cur = <<s, m>> => ses[s].inst = m /\ <<s, m>> \notin todo
  /\ pc \in {"mapSessions", "recv"} => \A m \in Maps : pool[m] = {}

\* The inductive invariant.  The first line is what the properties need to be kept
\* by a step; the rest is what they say.
Inv ==
  /\ TypeOK /\ Owned /\ Fresh /\ WithPlayer /\ Located /\ Passing
  /\ PlayerHasSession /\ SomebodyUpdates /\ NoPooledSession
  /\ LuaPlayerHasSession /\ InstanceIsMap

-----------------------------------------------------------------------------
(* The session objects *)

\* What the handlers make of a session's record is again one.
LEMMA NewRecords ==
  /\ Blank \in SessionRecords /\ Leaked \in SessionRecords
  /\ \A p \in Players, i \in 1..MaxIdx, g \in Gates : InitSession(p, i, g) \in SessionRecords
<1>1. Blank \in SessionRecords
  <2>1. 0 \in 0..MaxIdx /\ 0 \in 0..MaxMoves /\ 0 \in 0..MaxAsks
    BY ConstantsAssumption
  <2>. QED BY <2>1, SMT DEF Blank, SessionRecords, Places, Outside
<1>2. \A r \in SessionRecords : [r EXCEPT !.free = FALSE] \in SessionRecords
  BY DEF SessionRecords
<1>3. ASSUME NEW p \in Players, NEW i \in 1..MaxIdx, NEW g \in Gates
      PROVE  InitSession(p, i, g) \in SessionRecords
  <2>1. i \in 0..MaxIdx
    BY ConstantsAssumption
  <2>2. \A r \in SessionRecords :
          [r EXCEPT !.free = FALSE, !.guid = p, !.idx = i, !.sock = g] \in SessionRecords
    BY <2>1 DEF SessionRecords
  <2>. QED BY <1>1, <2>2, Zenon DEF InitSession
<1>4. Leaked \in SessionRecords BY <1>1, <1>2, Zenon DEF Leaked
<1>. QED BY <1>1, <1>3, <1>4

LEMMA DisconnectType ==
  ASSUME NEW r \in SessionRecords
  PROVE  /\ Disconnect(r) \in SessionRecords
         /\ Disconnect(r).inst = r.inst /\ Disconnect(r).mgr = r.mgr
         /\ Disconnect(r).guid = r.guid /\ Disconnect(r).free = r.free
         /\ Disconnect(r).plr = r.plr /\ Disconnect(r).out = r.out
BY DEF Disconnect, SessionRecords

LEMMA OutsideType ==
  \A r \in SessionRecords : [r EXCEPT !.inst = Outside] \in SessionRecords
BY DEF Outside, Places, SessionRecords

LEMMA MovedType ==
  \A r \in SessionRecords, d \in Maps : r.moves < MaxMoves =>
    [LeaveMap(r) EXCEPT !.map = d, !.moves = @ + 1] \in SessionRecords
<1>1. \A r \in SessionRecords : LeaveMap(r) \in SessionRecords /\ LeaveMap(r).moves = r.moves
  BY DEF LeaveMap, Outside, Places, SessionRecords
<1>2. ASSUME NEW r \in SessionRecords, NEW d \in Maps, r.moves < MaxMoves
      PROVE  [r EXCEPT !.map = d, !.moves = @ + 1] \in SessionRecords
  <2>1. r.moves + 1 \in 0..MaxMoves
    BY <1>2, ConstantsAssumption DEF SessionRecords
  <2>. QED BY <2>1 DEF SessionRecords
<1>. QED BY <1>1, <1>2, Zenon

LEMMA AwayType ==
  \A r \in SessionRecords : [r EXCEPT !.logout = "set", !.next = TRUE] \in SessionRecords
BY DEF SessionRecords

LEMMA AddToWorldType ==
  \A r \in SessionRecords : r.map \in Maps => AddToWorld(r) \in SessionRecords
BY DEF AddToWorld, Places, SessionRecords

LEMMA LoadFailsType ==
  \A r \in SessionRecords : [r EXCEPT !.plr = FALSE, !.out = TRUE] \in SessionRecords
BY DEF SessionRecords

LEMMA InvalidSessionType ==
  \A r \in SessionRecords : r.asks < MaxAsks => InvalidSession(r) \in SessionRecords
<1>1. \A r \in SessionRecords : r.asks < MaxAsks => [r EXCEPT !.asks = @ + 1] \in SessionRecords
  BY ConstantsAssumption DEF SessionRecords
<1>2. \A r \in SessionRecords : Disconnect(r).asks = r.asks
  BY DEF Disconnect, SessionRecords
<1>. QED BY <1>1, <1>2, DisconnectType, Zenon DEF InvalidSession

LEMMA CreatePlayerType ==
  \A r \in SessionRecords, m \in Maps \cup {Gone} : CreatePlayer(r, m) \in SessionRecords
BY DEF CreatePlayer, SessionRecords

LEMMA SocketTypes ==
  \A r \in SessionRecords : /\ [r EXCEPT !.sock = None] \in SessionRecords
                            /\ [r EXCEPT !.logout = "due"] \in SessionRecords
BY DEF SessionRecords

-----------------------------------------------------------------------------
(* sPark.Update and the passes over the sessions *)

\* Every map's waiting players go into it, or back outside when their place is bad.
LEMMA PushPlayersInv ==
  ASSUME NEW bad \in SUBSET Sessions, Inv, PushPlayers(bad)
  PROVE  Inv'
<1> DEFINE back(t) == Disconnect([ses[t] EXCEPT !.inst = Outside])
<1>1. ASSUME NEW t \in Sessions
      PROVE  /\ back(t) \in SessionRecords
             /\ back(t).inst = Outside /\ back(t).mgr = ses[t].mgr
             /\ back(t).guid = ses[t].guid /\ back(t).free = ses[t].free
             /\ back(t).plr = ses[t].plr /\ back(t).out = ses[t].out
  <2> DEFINE b == [ses[t] EXCEPT !.inst = Outside]
  <2>1. /\ b \in SessionRecords /\ b.inst = Outside /\ b.mgr = ses[t].mgr
        /\ b.guid = ses[t].guid /\ b.free = ses[t].free
        /\ b.plr = ses[t].plr /\ b.out = ses[t].out
    BY OutsideType DEF Inv, TypeOK, SessionRecords
  <2>2. back(t) = Disconnect(b)
    OBVIOUS
  <2> HIDE DEF b, back
  <2>. QED BY <2>1, <2>2, DisconnectType
<1>2. /\ ses' = [t \in Sessions |-> IF t \in bad THEN back(t) ELSE ses[t]]
      /\ bad \subseteq UNION {pool[k] : k \in Maps} /\ global' = global \cup bad
      /\ pc = "maps" /\ pc' = "mapSessions"
      /\ UNCHANGED <<gate, sessions, queued, lua, cur>>
  BY DEF PushPlayers
<1>3. /\ mapSess' = [k \in Maps |-> mapSess[k] \cup (pool[k] \ bad)]
      /\ stored' = [k \in Maps |-> stored[k] \cup (pool[k] \ bad)]
      /\ pool' = [k \in Maps |-> {}]
  BY DEF PushPlayers
<1>4. todo' = UNION {{<<t, k>> : t \in mapSess'[k]} : k \in Maps}
  BY DEF PushPlayers
<1> HIDE DEF back
<1>5. /\ ses' \in [Sessions -> SessionRecords]
      /\ \A t \in Sessions :
           /\ ses'[t].mgr = ses[t].mgr /\ ses'[t].guid = ses[t].guid
           /\ ses'[t].free = ses[t].free
           /\ ses'[t].plr = ses[t].plr /\ ses'[t].out = ses[t].out
           /\ ses'[t].inst = IF t \in bad THEN Outside ELSE ses[t].inst
  BY <1>1, <1>2 DEF Inv, TypeOK
<1>6. \A t \in Sessions, k \in Places : <<t, k>> \in todo' <=> k \in Maps /\ t \in mapSess'[k]
  BY <1>4
<1>7. todo' \subseteq Sessions \X Places
  BY <1>3, <1>4 DEF Inv, TypeOK, Places
<1>8. cur = None
  BY <1>2 DEF Inv, TypeOK, InPass
<1>9. TypeOK'
  BY <1>2, <1>3, <1>5, <1>7, <1>8 DEF Inv, TypeOK, InPass
<1>10. Owned' /\ WithPlayer'
  BY <1>2, <1>5 DEF Inv, TypeOK, Owned, OneSessionPerPlayer, WithPlayer, Listed
<1>11. \A t \in bad : \E k \in Maps : t \in pool[k] /\ ses[t].inst = k
  BY <1>2 DEF Inv, Located
<1>12. Fresh'
  BY <1>2, <1>5 DEF Inv, TypeOK, Fresh
<1>13. \A t \in bad, k \in Maps : t \notin stored[k] \cup mapSess[k]
  BY <1>2, <1>11, ConstantsAssumption DEF Inv, Located, Outside
<1>14. Located'
  BY <1>2, <1>3, <1>5, <1>13 DEF Inv, TypeOK, Located
<1>15. Passing'
  BY <1>2, <1>3, <1>6, <1>8, ConstantsAssumption DEF Passing, Places, Outside
<1>16. PlayerHasSession'
  BY <1>2, <1>3, <1>5 DEF Inv, TypeOK, PlayerHasSession, Listed
<1>17. SomebodyUpdates'
  BY <1>2, <1>3, <1>5 DEF Inv, TypeOK, SomebodyUpdates, SessionRecords, Places, Listed
<1>18. NoPooledSession'
  BY <1>2, <1>3 DEF Inv, TypeOK, NoPooledSession, PlayerHasSession, Listed
<1>19. LuaPlayerHasSession'
  BY <1>2, <1>5 DEF Inv, TypeOK, LuaPlayerHasSession
<1>20. InstanceIsMap'
  BY <1>5 DEF Inv, InstanceIsMap
<1>. QED BY <1>9, <1>10, <1>12, <1>14, <1>15, <1>16, <1>17, <1>18, <1>19, <1>20 DEF Inv

LEMMA UpdateMovedInv ==
  ASSUME NEW s \in Sessions, NEW m \in Places, Inv, UpdateMoved(s, m)
  PROVE  Inv'
<1>1. TypeOK'
  BY ConstantsAssumption, SMTT(15) DEF Inv, TypeOK, Passing, UpdateMoved, InPass, Idle,
      EraseFrom, Outside, Places
<1>2. Owned' /\ Fresh' /\ WithPlayer'
  BY DEF Inv, Owned, Fresh, WithPlayer, UpdateMoved, InPass, Idle, EraseFrom,
      OneSessionPerPlayer, Listed, Outside
<1>3. PlayerHasSession' /\ LuaPlayerHasSession' /\ InstanceIsMap'
  BY DEF Inv, PlayerHasSession, LuaPlayerHasSession, InstanceIsMap, UpdateMoved, InPass,
      Idle, EraseFrom, Listed, Outside
<1>4. Located'
  BY SMTT(15) DEF Inv, TypeOK, Located, UpdateMoved, InPass, Idle, EraseFrom, Outside,
      SessionRecords, Places
<1>5. Passing'
  BY SMTT(15) DEF Inv, TypeOK, Passing, UpdateMoved, InPass, Idle, EraseFrom, Places,
      Outside, SessionRecords
<1>6. SomebodyUpdates'
  BY SMTT(15) DEF Inv, TypeOK, SomebodyUpdates, UpdateMoved, InPass, Idle, EraseFrom,
      Listed, Outside, SessionRecords, Places
<1>7. NoPooledSession'
  <2>1. global' \subseteq global /\ \A k \in Maps : mapSess'[k] \subseteq mapSess[k]
    BY DEF Inv, TypeOK, UpdateMoved, EraseFrom
  <2>2. UNCHANGED sessions
    BY DEF UpdateMoved
  <2>. QED BY <2>1, <2>2 DEF Inv, NoPooledSession, Listed
<1>. QED BY <1>1, <1>2, <1>3, <1>4, <1>5, <1>6, <1>7 DEF Inv

LEMMA UpdateBeginInv ==
  ASSUME NEW s \in Sessions, NEW m \in Places, Inv, UpdateBegin(s, m)
  PROVE  Inv'
<1>1. TypeOK'
  BY ConstantsAssumption, SMTT(15) DEF Inv, TypeOK, Passing, UpdateBegin, InPass, Idle,
      Places, Outside
<1>2. Owned' /\ Fresh' /\ WithPlayer' /\ Located' /\ Passing'
  BY DEF Inv, Owned, Fresh, WithPlayer, Located, Passing, UpdateBegin, InPass, Idle,
      OneSessionPerPlayer, Listed, Outside, Places
<1>3. /\ PlayerHasSession' /\ SomebodyUpdates' /\ NoPooledSession'
      /\ LuaPlayerHasSession' /\ InstanceIsMap'
  BY DEF Inv, PlayerHasSession, SomebodyUpdates, NoPooledSession, LuaPlayerHasSession,
      InstanceIsMap, UpdateBegin, InPass, Idle, Listed, Outside
<1>. QED BY <1>1, <1>2, <1>3 DEF Inv

\* Update returns 1: the session leaves every container.
LEMMA EndSessionInv ==
  ASSUME NEW s \in Sessions, NEW m \in Places, Inv, InPass,
         <<s, m>> \in todo \/ cur = <<s, m>>, Idle \/ cur = <<s, m>>,
         ses[s].inst = m, EndSession(s, m), todo' = todo \ {<<s, m>>},
         UNCHANGED <<gate, pool, queued, pc>>
  PROVE  Inv'
<1> DEFINE p == ses[s].guid
<1>1. m = Outside <=> pc = "global"
  BY ConstantsAssumption DEF Inv, Passing, InPass, Places, Outside
<1>2. IF m = Outside THEN s \in global ELSE s \in mapSess[m]
  BY <1>1 DEF Inv, Passing, InPass
<1>3. Listed(s)
  BY <1>1, <1>2 DEF Inv, NoPooledSession, InPass, Places, Outside
<1>4. p \in Players /\ sessions[p] = s /\ p # None /\ s # None
  BY <1>3, ConstantsAssumption DEF Inv, TypeOK, Owned, OneSessionPerPlayer, Listed
<1>5. /\ sessions' = [sessions EXCEPT ![p] = None] /\ ses' = [ses EXCEPT ![s] = Blank]
      /\ cur' = None
  BY DEF EndSession
<1>6. ses[s].out \/ lua[p] = s
  BY <1>4 DEF Inv, LuaPlayerHasSession
<1>7. ses[s].plr <=> ~ses[s].out
  BY <1>3 DEF Inv, WithPlayer
<1>8. /\ lua' \in [Players -> Sessions \cup {None}] /\ lua'[p] = None
      /\ \A q \in Players \ {p} : lua'[q] = lua[q]
  BY <1>4, <1>6, <1>7 DEF Inv, TypeOK, EndSession, LogsOut, LogoutLua, LuaPlayerHasSession
<1>9. \A k \in Maps : s \notin pool[k] /\ (k # m => s \notin mapSess[k])
  BY <1>1, <1>2, ConstantsAssumption DEF Inv, Passing, Located, Outside, InPass
<1>10. /\ stored' \in [Maps -> SUBSET Sessions]
       /\ \A k \in Maps : stored'[k] \subseteq stored[k] /\ s \notin stored'[k]
  BY <1>4, <1>6, <1>7 DEF Inv, TypeOK, EndSession, LogsOut, LogoutFromMap, PlayerHasSession
<1>11. /\ global' \subseteq global /\ s \notin global'
       /\ \A t \in global \ {s} : t \in global'
  BY <1>1 DEF Inv, Located, EndSession, EraseFrom
<1>12. /\ mapSess' \in [Maps -> SUBSET Sessions]
       /\ \A k \in Maps : mapSess'[k] = mapSess[k] \ {s}
  BY <1>9, ConstantsAssumption DEF Inv, TypeOK, EndSession, EraseFrom, Places, Outside
<1>13. \A t \in Sessions : Listed(t)' <=> Listed(t) /\ t # s
  BY <1>3, <1>4, <1>5, ConstantsAssumption DEF Inv, TypeOK, Owned, OneSessionPerPlayer, Listed
<1>14. /\ ses' \in [Sessions -> SessionRecords]
       /\ ses'[s] = Blank /\ \A t \in Sessions \ {s} : ses'[t] = ses[t]
  BY <1>5, NewRecords DEF Inv, TypeOK
<1>15. TypeOK'
  BY <1>5, <1>8, <1>10, <1>11, <1>12, <1>14 DEF Inv, TypeOK, InPass
<1> HIDE DEF p
<1>16. Owned'
  <2>1. /\ \A q \in Players : queued[q] # s /\ (sessions[q] = s <=> q = p)
        /\ \A q \in Players \ {p} : sessions'[q] = sessions[q]
        /\ sessions'[p] = None
    BY <1>3, <1>4, <1>5 DEF Inv, TypeOK, Owned, OneSessionPerPlayer
  <2>2. ses'[s].guid = None
    BY <1>14 DEF Blank
  <2>3. \A t \in Sessions, q \in Players :
          ses'[t].guid = q <=> t \in {sessions'[q], queued'[q]} \ {None}
    <3>1. ASSUME NEW q \in Players
          PROVE  ses'[s].guid = q <=> s \in {sessions'[q], queued'[q]} \ {None}
      BY <1>4, <2>1, <2>2, ConstantsAssumption
    <3>2. ASSUME NEW t \in Sessions \ {s}, NEW q \in Players
          PROVE  ses'[t].guid = q <=> t \in {sessions'[q], queued'[q]} \ {None}
      BY <1>4, <1>14, <2>1 DEF Inv, Owned, OneSessionPerPlayer
    <3>. QED BY <3>1, <3>2
  <2>4. \A t \in Sessions : ses'[t].free => ses'[t].guid = None
    BY <1>14, <2>2 DEF Inv, Owned
  <2>5. \A q \in Players : queued'[q] # None => ~Listed(queued[q])'
    BY <1>13 DEF Inv, TypeOK, Owned
  <2>. QED BY <2>3, <2>4, <2>5 DEF Owned, OneSessionPerPlayer
<1>17. Fresh'
  BY <1>3, <1>14 DEF Inv, TypeOK, Owned, Fresh
<1>18. WithPlayer'
  BY <1>13, <1>14 DEF Inv, WithPlayer
<1>19. Located'
  BY <1>9, <1>10, <1>11, <1>12, <1>14, <1>15 DEF Inv, TypeOK, Located
<1>20. Passing'
  <2>1. \A t \in Sessions, k \in Places : cur' # <<t, k>>
    BY <1>5, ConstantsAssumption DEF Places, Outside
  <2>2. ASSUME NEW t \in Sessions, NEW k \in Places, <<t, k>> \in todo'
        PROVE  /\ <<t, k>> \in todo /\ <<t, k>> # <<s, m>>
               /\ pc = "mapSessions" => k \in Maps /\ t \in mapSess'[k]
               /\ pc = "global" => k = Outside /\ t \in global'
    BY <1>1, <1>9, <1>11, <1>12, <2>2 DEF Inv, Passing
  <2>. QED BY <2>1, <2>2 DEF Inv, Passing
<1>21. PlayerHasSession'
  BY <1>9, <1>10, <1>13, <1>14, <1>15 DEF Inv, TypeOK, PlayerHasSession
<1>22. SomebodyUpdates'
  BY <1>11, <1>12, <1>13, <1>14 DEF Inv, TypeOK, SomebodyUpdates, SessionRecords, Places
<1>23. NoPooledSession'
  BY <1>11, <1>12, <1>13 DEF Inv, TypeOK, NoPooledSession
<1>24. LuaPlayerHasSession'
  BY <1>4, <1>5, <1>8, <1>14 DEF Inv, TypeOK, Owned, OneSessionPerPlayer, LuaPlayerHasSession
<1>25. InstanceIsMap'
  BY <1>14 DEF Inv, InstanceIsMap, Blank
<1>. QED BY <1>15, <1>16, <1>17, <1>18, <1>19, <1>20, <1>21, <1>22, <1>23, <1>24, <1>25 DEF Inv

LEMMA UpdateNoSocketInv ==
  ASSUME NEW s \in Sessions, NEW m \in Places, Inv, UpdateNoSocket(s, m)
  PROVE  Inv'
BY EndSessionInv DEF UpdateNoSocket

LEMMA UpdateEndInv ==
  ASSUME NEW s \in Sessions, NEW m \in Places, Inv, UpdateEnd(s, m)
  PROVE  Inv'
<1>1. InPass /\ ses[s].inst = m /\ <<s, m>> \notin todo /\ cur = <<s, m>>
  BY ConstantsAssumption DEF Inv, TypeOK, Passing, UpdateEnd, Places, Outside
<1>2. CASE ses[s].logout = "due"
  BY <1>1, <1>2, EndSessionInv DEF UpdateEnd
<1>3. CASE ses[s].logout # "due"
  <2>1. cur' = None /\ UNCHANGED <<gate, sessions, global, mapSess, pool, stored, queued,
                                   ses, lua, pc, todo>>
    BY <1>3 DEF UpdateEnd
  <2>2. TypeOK'
    BY <2>1 DEF Inv, TypeOK, InPass
  <2>3. Passing'
    BY <2>1, ConstantsAssumption DEF Inv, Passing, Places, Outside
  <2>4. Located' /\ WithPlayer' /\ Owned' /\ Fresh'
    BY <2>1 DEF Inv, Located, WithPlayer, Owned, OneSessionPerPlayer, Fresh, Listed
  <2>5. PlayerHasSession' /\ SomebodyUpdates' /\ NoPooledSession'
    BY <2>1 DEF Inv, PlayerHasSession, SomebodyUpdates, NoPooledSession, Listed
  <2>6. LuaPlayerHasSession' /\ InstanceIsMap'
    BY <2>1 DEF Inv, LuaPlayerHasSession, InstanceIsMap
  <2>. QED BY <2>2, <2>3, <2>4, <2>5, <2>6 DEF Inv
<1>. QED BY <1>2, <1>3

\* RemoveFromWorld takes the session out of its map.
LEMMA RemoveFromWorldInv ==
  ASSUME NEW s \in Sessions, NEW m \in Places, Inv,
         cur = <<s, m>>, ses[s].mgr # None, RemoveFromWorld(s, m),
         ses' \in [Sessions -> SessionRecords],
         ses'[s].inst = Outside, ses'[s].mgr = None,
         ses'[s].guid = ses[s].guid, ses'[s].free = ses[s].free,
         ses'[s].plr = ses[s].plr, ses'[s].out = ses[s].out,
         \A t \in Sessions \ {s} : ses'[t] = ses[t],
         UNCHANGED <<gate, sessions, pool, queued, lua, pc, todo>>
  PROVE  Inv'
<1>1. InPass /\ <<s, m>> \notin todo /\ (m = Outside <=> pc = "global")
  BY ConstantsAssumption DEF Inv, TypeOK, Passing, InPass, Places, Outside
<1>2. m # Outside => pc = "mapSessions" /\ s \in mapSess[m] /\ ses[s].inst = m
  BY <1>1 DEF Inv, Passing, InPass
<1>0. ASSUME NEW k \in Maps
      PROVE  s \notin pool'[k] \cup stored'[k] /\ stored'[k] \subseteq stored[k]
             /\ mapSess'[k] \subseteq mapSess[k]
  <2>1. s \notin pool[k]
    BY <1>1, <1>2, ConstantsAssumption DEF Inv, Passing, Located, Outside, InPass
  <2>2. s \in stored[k] => ses[s].mgr = k
    BY DEF Inv, PlayerHasSession
  <2>3. s \notin stored'[k] /\ stored'[k] \subseteq stored[k]
    BY <2>2 DEF Inv, TypeOK, RemoveFromWorld
  <2>4. mapSess'[k] \subseteq mapSess[k]
    BY DEF Inv, TypeOK, RemoveFromWorld
  <2>. QED BY <2>1, <2>3, <2>4
<1>3. TypeOK'
  <2>1. global' \subseteq Sessions /\ stored' \in [Maps -> SUBSET Sessions]
    BY DEF Inv, TypeOK, RemoveFromWorld
  <2>2. mapSess' \in [Maps -> SUBSET Sessions]
    BY DEF Inv, TypeOK, RemoveFromWorld
  <2>3. cur' \in (Sessions \X Places) \cup {None}
    BY DEF RemoveFromWorld
  <2>. QED BY <1>1, <2>1, <2>2, <2>3 DEF Inv, TypeOK, InPass
<1>4. Owned'
  BY DEF Inv, Owned, OneSessionPerPlayer, Listed
<1>5. Fresh'
  BY DEF Inv, TypeOK, Owned, Fresh, Listed
<1>6. WithPlayer'
  BY DEF Inv, WithPlayer, Listed
<1>7. Located'
  <2>1. \A t \in global' : ses'[t].inst = Outside
    BY DEF Inv, TypeOK, Located, RemoveFromWorld
  <2>2. ASSUME NEW k \in Maps
        PROVE  /\ \A t \in pool'[k] \cup stored'[k] : ses'[t].inst = k
               /\ pool'[k] \cap (stored'[k] \cup mapSess'[k]) = {}
    BY <1>0 DEF Inv, TypeOK, Located
  <2>3. ASSUME NEW k \in Maps, NEW t \in mapSess'[k]
        PROVE  \/ ses'[t].inst = k
               \/ ses'[t].inst = Outside /\ pc = "mapSessions" /\ <<t, k>> \in todo
    BY <1>1, <1>2 DEF Inv, TypeOK, Located, Passing, RemoveFromWorld, InPass, Places
  <2>. QED BY <2>1, <2>2, <2>3 DEF Located
<1>8. Passing'
  <2>1. cur' = cur \/ cur' = None
    BY DEF RemoveFromWorld
  <2>2. \A t \in Sessions, k \in Maps :
          t \in mapSess[k] /\ <<t, k>> # <<s, m>> => t \in mapSess'[k]
    BY DEF Inv, TypeOK, RemoveFromWorld
  <2>3. m \in Maps => cur' = None
    BY ConstantsAssumption DEF RemoveFromWorld, Outside
  <2>4. global \subseteq global'
    BY DEF RemoveFromWorld
  <2>5. \A t \in Sessions, k \in Places :
          cur' # <<t, k>> \/ (cur' = cur /\ t = s /\ k = m /\ m = Outside)
    BY <2>1, <2>3, ConstantsAssumption DEF Places, Outside
  <2>. QED BY <1>1, <2>2, <2>4, <2>5 DEF Inv, Passing
<1>9. PlayerHasSession'
  BY <1>0 DEF Inv, TypeOK, PlayerHasSession, Listed
<1>10. SomebodyUpdates'
  BY <1>1, <1>2, ConstantsAssumption
  DEF Inv, TypeOK, SomebodyUpdates, RemoveFromWorld, Listed, Places
<1>11. NoPooledSession'
  <2>1. Listed(s)
    BY <1>1, <1>2 DEF Inv, Passing, NoPooledSession, InPass, Places, Outside
  <2>. QED BY <1>0, <2>1 DEF Inv, NoPooledSession, RemoveFromWorld, Listed
<1>12. LuaPlayerHasSession'
  BY DEF Inv, TypeOK, LuaPlayerHasSession
<1>13. InstanceIsMap'
  BY DEF Inv, InstanceIsMap
<1>. QED BY <1>3, <1>4, <1>5, <1>6, <1>7, <1>8, <1>9, <1>10, <1>11, <1>12, <1>13 DEF Inv

LEMMA TransferHereInv ==
  ASSUME NEW s \in Sessions, NEW m \in Places, NEW d \in Maps, Inv, TransferHere(s, m, d)
  PROVE  Inv'
<1>1. Moved(s, d) \in SessionRecords
  BY MovedType DEF Inv, TypeOK, TransferHere, MayMove, Moved
<1>2. ses' = [ses EXCEPT ![s] = Moved(s, d)] /\ ses \in [Sessions -> SessionRecords]
  BY DEF Inv, TypeOK, TransferHere
<1>3. ses' \in [Sessions -> SessionRecords]
  BY <1>1, <1>2
<1>4. /\ ses'[s].inst = Outside /\ ses'[s].mgr = None
      /\ ses'[s].guid = ses[s].guid /\ ses'[s].free = ses[s].free
      /\ ses'[s].plr = ses[s].plr /\ ses'[s].out = ses[s].out
  BY <1>2 DEF Moved, LeaveMap, SessionRecords
<1>5. \A t \in Sessions \ {s} : ses'[t] = ses[t]
  BY <1>2
<1>. QED BY <1>3, <1>4, <1>5, RemoveFromWorldInv DEF TransferHere, MayMove

LEMMA TransferAwayInv ==
  ASSUME NEW s \in Sessions, NEW m \in Places, NEW d \in Maps, Inv, TransferAway(s, m, d)
  PROVE  Inv'
<1> DEFINE r == Moved(s, d)
<1>1. r \in SessionRecords
  BY MovedType DEF Inv, TypeOK, TransferAway, MayMove, Moved
<1>2. /\ r.inst = Outside /\ r.mgr = None
      /\ r.guid = ses[s].guid /\ r.free = ses[s].free
      /\ r.plr = ses[s].plr /\ r.out = ses[s].out
  BY DEF Inv, TypeOK, Moved, LeaveMap, SessionRecords
<1>3. /\ ses' = [ses EXCEPT ![s] = [r EXCEPT !.logout = "set", !.next = TRUE]]
      /\ ses \in [Sessions -> SessionRecords]
  BY DEF Inv, TypeOK, TransferAway
<1> HIDE DEF r
<1>4. ses' \in [Sessions -> SessionRecords]
  BY <1>1, <1>3, AwayType
<1>5. /\ ses'[s].inst = Outside /\ ses'[s].mgr = None
      /\ ses'[s].guid = ses[s].guid /\ ses'[s].free = ses[s].free
      /\ ses'[s].plr = ses[s].plr /\ ses'[s].out = ses[s].out
  BY <1>1, <1>2, <1>3 DEF SessionRecords
<1>6. \A t \in Sessions \ {s} : ses'[t] = ses[t]
  BY <1>3
<1>. QED BY <1>4, <1>5, <1>6, RemoveFromWorldInv DEF TransferAway, MayMove

\* Update returns 1: the session leaves every container.

LEMMA PlayerStraysInv ==
  ASSUME NEW s \in Sessions, NEW m \in Places, Inv, PlayerStrays(s, m)
  PROVE  Inv'
<1>1. ses' \in [Sessions -> SessionRecords]
  <2>1. Moved(s, Born) \in SessionRecords
    BY MovedType, ConstantsAssumption DEF Inv, TypeOK, PlayerStrays, MayMove, Moved
  <2>. QED BY <2>1 DEF Inv, TypeOK, PlayerStrays
<1>2. TypeOK'
  BY <1>1, ConstantsAssumption, SMTT(15) DEF Inv, TypeOK, Passing, PlayerStrays, Idle,
      MayMove, Outside, Places, InPass
<1>3. Owned' /\ Fresh' /\ WithPlayer'
  BY DEF Inv, Owned, Fresh, WithPlayer, PlayerStrays, Idle, MayMove, Moved,
      OneSessionPerPlayer, Listed, Outside, LeaveMap
<1>4. SomebodyUpdates' /\ LuaPlayerHasSession' /\ InstanceIsMap'
  BY DEF Inv, SomebodyUpdates, LuaPlayerHasSession, InstanceIsMap, PlayerStrays, Idle,
      MayMove, Moved, Listed, Outside, LeaveMap
<1>5. Located'
  <2>1. /\ m \in Maps /\ ses[s].inst = m /\ ses'[s].inst = Outside
        /\ \A t \in Sessions \ {s} : ses'[t] = ses[t]
    BY ConstantsAssumption DEF Inv, TypeOK, Located, Passing, PlayerStrays, Places, Outside,
      Moved, LeaveMap, SessionRecords
  <2>2. global' = global \cup {s} /\ stored' = [stored EXCEPT ![m] = @ \ {s}]
        /\ UNCHANGED <<mapSess, pool, pc, todo>> /\ pc = "mapSessions" /\ <<s, m>> \in todo
    BY DEF PlayerStrays
  <2>3. \A t \in global' : ses'[t].inst = Outside
    BY <2>1, <2>2 DEF Inv, TypeOK, Located
  <2>4. \A k \in Maps : s \notin pool[k] \cup stored'[k] /\ stored'[k] \subseteq stored[k]
    BY <2>1, <2>2 DEF Inv, TypeOK, Located, Passing
  <2>5. \A k \in Maps : s \in mapSess[k] => k = m
    BY <2>1, ConstantsAssumption DEF Inv, Located, Outside
  <2>6. ASSUME NEW k \in Maps
        PROVE  /\ \A t \in pool'[k] \cup stored'[k] : ses'[t].inst = k
               /\ pool'[k] \cap (stored'[k] \cup mapSess'[k]) = {}
    BY <2>1, <2>2, <2>4 DEF Inv, TypeOK, Located
  <2>7. ASSUME NEW k \in Maps, NEW t \in mapSess'[k]
        PROVE  \/ ses'[t].inst = k
               \/ ses'[t].inst = Outside /\ pc' = "mapSessions" /\ <<t, k>> \in todo'
    BY <2>1, <2>2, <2>5 DEF Inv, TypeOK, Located
  <2>. QED BY <2>3, <2>6, <2>7 DEF Located
<1>6. Passing'
  BY ConstantsAssumption, SMTT(15) DEF Inv, TypeOK, Passing, PlayerStrays, Idle,
      MayMove, Moved, Places, Outside, SessionRecords, InPass, LeaveMap
<1>7. PlayerHasSession'
  BY ConstantsAssumption, SMTT(15) DEF Inv, TypeOK, PlayerHasSession, Passing,
      PlayerStrays, Idle, MayMove, Moved, Listed, SessionRecords, Places, InPass,
      Outside, LeaveMap
<1>8. NoPooledSession'
  BY ConstantsAssumption, SMTT(15) DEF Inv, TypeOK, NoPooledSession, Located, Passing,
      InstanceIsMap, PlayerStrays, Idle, MayMove, Moved, Listed, SessionRecords, Places,
      InPass, Outside, LeaveMap
<1>. QED BY <1>2, <1>3, <1>4, <1>5, <1>6, <1>7, <1>8 DEF Inv

LEMMA SceneLoadedInv ==
  ASSUME NEW s \in Sessions, NEW m \in Places, Inv, SceneLoaded(s, m)
  PROVE  Inv'
<1>1. ses' \in [Sessions -> SessionRecords]
  <2>1. AddToWorld(ses[s]) \in SessionRecords
    BY AddToWorldType DEF Inv, TypeOK, SceneLoaded
  <2>. QED BY <2>1 DEF Inv, TypeOK, SceneLoaded
<1>2. TypeOK'
  BY <1>1, ConstantsAssumption, SMTT(15) DEF Inv, TypeOK, Passing, SceneLoaded,
      EraseFrom, Outside, Places, InPass
<1>3. Owned' /\ WithPlayer' /\ LuaPlayerHasSession' /\ InstanceIsMap'
  BY DEF Inv, Owned, WithPlayer, LuaPlayerHasSession, InstanceIsMap, SceneLoaded,
      AddToWorld, EraseFrom, OneSessionPerPlayer, Listed, Outside
<1>4. Fresh'
  BY ConstantsAssumption, SMTT(15) DEF Inv, TypeOK, Owned, Fresh, WithPlayer, Located,
      Passing, PlayerHasSession, SomebodyUpdates, NoPooledSession, LuaPlayerHasSession,
      InstanceIsMap, SceneLoaded, AddToWorld, EraseFrom, Outside, SessionRecords,
      Places, InPass, OneSessionPerPlayer, Listed
<1>5. Located'
  <2> DEFINE d == ses[s].map
  <2>1. /\ m = Outside /\ pc = "global" /\ ses[s].inst = Outside
        /\ d \in Maps /\ ses'[s].inst = d /\ \A t \in Sessions \ {s} : ses'[t] = ses[t]
    BY ConstantsAssumption DEF Inv, TypeOK, InstanceIsMap, Passing, SceneLoaded, Places,
      Outside, AddToWorld, SessionRecords, InPass
  <2>2. global' = global \ {s} /\ pool' = [pool EXCEPT ![d] = @ \cup {s}]
        /\ UNCHANGED <<mapSess, stored, pc, todo>>
    BY <2>1 DEF SceneLoaded, EraseFrom
  <2> HIDE DEF d
  <2>3. \A t \in global' : ses'[t].inst = Outside
    BY <2>1, <2>2 DEF Inv, TypeOK, Located
  <2>4. \A k \in Maps : s \notin stored[k] \cup mapSess[k]
    BY <2>1, ConstantsAssumption DEF Inv, Located, Outside
  <2>5. ASSUME NEW k \in Maps
        PROVE  /\ \A t \in pool'[k] \cup stored'[k] : ses'[t].inst = k
               /\ pool'[k] \cap (stored'[k] \cup mapSess'[k]) = {}
    <3>1. pool'[k] = IF k = d THEN pool[k] \cup {s} ELSE pool[k]
      BY <2>1, <2>2 DEF Inv, TypeOK
    <3>2. \A t \in stored[k] \cup (pool[k] \ {s}) : ses'[t].inst = k
      BY <2>1, <2>4 DEF Inv, TypeOK, Located
    <3>3. s \in pool[k] => k = d
      BY <2>1, ConstantsAssumption DEF Inv, Located, Outside
    <3>. QED BY <2>1, <2>2, <2>4, <3>1, <3>2, <3>3 DEF Inv, Located
  <2>6. ASSUME NEW k \in Maps, NEW t \in mapSess'[k]
        PROVE  ses'[t].inst = k
    BY <2>1, <2>2, <2>4 DEF Inv, TypeOK, Located
  <2>. QED BY <2>3, <2>5, <2>6 DEF Located
<1>6. Passing'
  BY ConstantsAssumption, SMTT(15) DEF Inv, TypeOK, Passing, Located, InstanceIsMap,
      SceneLoaded, AddToWorld, EraseFrom, Places, Outside, SessionRecords, InPass
<1>7. PlayerHasSession'
  BY ConstantsAssumption, SMTT(15) DEF Inv, TypeOK, Owned, Fresh, WithPlayer, Located,
      Passing, PlayerHasSession, SomebodyUpdates, NoPooledSession, LuaPlayerHasSession,
      InstanceIsMap, SceneLoaded, AddToWorld, EraseFrom, Listed, SessionRecords, Places,
      InPass, OneSessionPerPlayer, Outside
<1>8. SomebodyUpdates'
  BY ConstantsAssumption, SMTT(15) DEF Inv, TypeOK, SomebodyUpdates, SceneLoaded,
      AddToWorld, EraseFrom, Listed, Outside, SessionRecords, Places, InPass
<1>9. NoPooledSession'
  BY ConstantsAssumption, SMTT(15) DEF Inv, TypeOK, NoPooledSession, Owned, SceneLoaded,
      AddToWorld, EraseFrom, Listed, SessionRecords, Places, InPass,
      OneSessionPerPlayer, Outside
<1>. QED BY <1>2, <1>3, <1>4, <1>5, <1>6, <1>7, <1>8, <1>9 DEF Inv

LEMMA LoadFailsInv ==
  ASSUME NEW s \in Sessions, NEW m \in Places, Inv, LoadFails(s, m)
  PROVE  Inv'
<1>1. TypeOK'
  <2>1. [ses[s] EXCEPT !.plr = FALSE, !.out = TRUE] \in SessionRecords
    BY LoadFailsType DEF Inv, TypeOK
  <2>2. Disconnect([ses[s] EXCEPT !.plr = FALSE, !.out = TRUE]) \in SessionRecords
    BY <2>1, DisconnectType
  <2>3. ses' \in [Sessions -> SessionRecords]
    BY <2>2 DEF Inv, TypeOK, LoadFails
  <2>4. lua' \in [Players -> Sessions \cup {None}]
    BY DEF Inv, TypeOK, LoadFails, LogoutLua
  <2>5. UNCHANGED <<gate, sessions, global, mapSess, pool, stored, queued, pc, todo, cur>>
    BY DEF LoadFails
  <2>. QED BY <2>3, <2>4, <2>5 DEF Inv, TypeOK, InPass
<1>2. Owned' /\ WithPlayer' /\ Located'
  BY DEF Inv, Owned, WithPlayer, Located, LoadFails, Disconnect, LogoutLua,
      OneSessionPerPlayer, Listed, Outside
<1>3. Passing' /\ SomebodyUpdates' /\ NoPooledSession' /\ InstanceIsMap'
  BY DEF Inv, Passing, SomebodyUpdates, NoPooledSession, InstanceIsMap, LoadFails,
      Disconnect, LogoutLua, Places, Outside, Listed
<1>4. Fresh'
  BY ConstantsAssumption, SMTT(15) DEF Inv, TypeOK, Owned, Fresh, WithPlayer, Located,
      Passing, PlayerHasSession, SomebodyUpdates, NoPooledSession, LuaPlayerHasSession,
      InstanceIsMap, LoadFails, Disconnect, LogoutLua, Outside, SessionRecords, Places,
      InPass, OneSessionPerPlayer, Listed
<1>5. PlayerHasSession'
  BY ConstantsAssumption, SMTT(15) DEF Inv, TypeOK, PlayerHasSession, LoadFails,
      Disconnect, LogoutLua, Listed, SessionRecords, Places, InPass, Outside
<1>6. LuaPlayerHasSession'
  BY ConstantsAssumption, SMTT(15) DEF Inv, TypeOK, Owned, Fresh, WithPlayer, Located,
      Passing, PlayerHasSession, SomebodyUpdates, NoPooledSession, LuaPlayerHasSession,
      InstanceIsMap, LoadFails, Disconnect, LogoutLua, SessionRecords, Places, InPass,
      OneSessionPerPlayer, Listed, Outside
<1>. QED BY <1>1, <1>2, <1>3, <1>4, <1>5, <1>6 DEF Inv

LEMMA EndPassInv ==
  ASSUME Inv, EndPass
  PROVE  Inv'
<1>1. TypeOK'
  BY ConstantsAssumption, SMTT(15) DEF Inv, TypeOK, Passing, EndPass, InPass, PassDone,
      Idle, Places, Outside
<1>2. Owned' /\ Fresh' /\ WithPlayer' /\ Located' /\ Passing'
  BY DEF Inv, Owned, Fresh, WithPlayer, Located, Passing, EndPass, InPass, PassDone,
      OneSessionPerPlayer, Listed, Outside, Places, Idle
<1>3. /\ PlayerHasSession' /\ SomebodyUpdates' /\ NoPooledSession'
      /\ LuaPlayerHasSession' /\ InstanceIsMap'
  BY DEF Inv, PlayerHasSession, SomebodyUpdates, NoPooledSession, LuaPlayerHasSession,
      InstanceIsMap, EndPass, InPass, PassDone, Listed, Outside, Idle
<1>. QED BY <1>1, <1>2, <1>3 DEF Inv

-----------------------------------------------------------------------------
(* The gateways' packets *)

LEMMA CreateSessionInv ==
  ASSUME NEW g \in Gates, NEW p \in Players, NEW i \in 1..MaxIdx,
         NEW m \in Maps \cup {Gone}, NEW s \in Sessions, Inv, CreateSession(g, p, i, m, s)
  PROVE  Inv'
<1>1. ses' \in [Sessions -> SessionRecords]
  <2>1. InitSession(p, i, g) \in SessionRecords
    BY NewRecords
  <2>2. CreatePlayer(InitSession(p, i, g), m) \in SessionRecords
    BY <2>1, CreatePlayerType
  <2>. QED BY <2>2 DEF Inv, TypeOK, CreateSession
<1>2. TypeOK'
  BY <1>1, ConstantsAssumption, SMTT(15) DEF Inv, TypeOK, Passing, CreateSession, Free,
      Places, Outside, InPass
<1>3. Fresh' /\ InstanceIsMap'
  BY DEF Inv, Fresh, InstanceIsMap, CreateSession, Free, CreatePlayer, InitSession,
      Outside, Blank
<1>4. Owned'
  BY ConstantsAssumption, SMTT(15) DEF Inv, TypeOK, Owned, CreateSession, Free,
      CreatePlayer, InitSession, OneSessionPerPlayer, Listed, SessionRecords, Places,
      InPass, Blank, Outside
<1>5. WithPlayer'
  BY SMTT(15) DEF Inv, TypeOK, WithPlayer, CreateSession, Free, CreatePlayer,
      InitSession, Listed, SessionRecords, Places, InPass, Blank, Outside
<1>6. Located'
  BY ConstantsAssumption, SMTT(15) DEF Inv, TypeOK, Located, Owned, NoPooledSession,
      PlayerHasSession, CreateSession, Free, CreatePlayer, InitSession, Outside,
      SessionRecords, Places, InPass, OneSessionPerPlayer, Listed, Blank
<1>7. Passing'
  BY ConstantsAssumption, SMTT(15) DEF Inv, TypeOK, Passing, CreateSession, Free,
      CreatePlayer, InitSession, Places, Outside, SessionRecords, InPass, Blank
<1>8. PlayerHasSession'
  BY ConstantsAssumption, SMTT(15) DEF Inv, TypeOK, PlayerHasSession, Owned,
      CreateSession, Free, CreatePlayer, InitSession, Listed, SessionRecords, Places,
      InPass, OneSessionPerPlayer, Blank, Outside
<1>9. SomebodyUpdates'
  BY SMTT(15) DEF Inv, TypeOK, SomebodyUpdates, CreateSession, Free, CreatePlayer,
      InitSession, Listed, Outside, SessionRecords, Places, InPass, Blank
<1>10. NoPooledSession'
  BY ConstantsAssumption, SMTT(15) DEF Inv, TypeOK, NoPooledSession, Located,
      CreateSession, Free, CreatePlayer, InitSession, Listed, SessionRecords, Places,
      InPass, Outside, Blank
<1>11. LuaPlayerHasSession'
  BY ConstantsAssumption, SMTT(15) DEF Inv, TypeOK, LuaPlayerHasSession, Owned,
      CreateSession, Free, CreatePlayer, InitSession, SessionRecords, Places, InPass,
      OneSessionPerPlayer, Listed, Blank, Outside
<1>. QED BY <1>2, <1>3, <1>4, <1>5, <1>6, <1>7, <1>8, <1>9, <1>10, <1>11 DEF Inv

\* The older session is only told to leave; the new one is in no container yet.
LEMMA CreateQueuedInv ==
  ASSUME NEW g \in Gates, NEW p \in Players, NEW i \in 1..MaxIdx, NEW s \in Sessions,
         Inv, CreateQueued(g, p, i, s)
  PROVE  Inv'
<1> DEFINE o == sessions[p]
           told == InvalidSession(ses[o])
           new == IF queued[p] = None THEN InitSession(p, i, g) ELSE Leaked
<1>1. /\ o \in Sessions /\ o # None /\ ses[o].asks < MaxAsks /\ ses[s].free
      /\ ses[o].guid = p /\ ses[s].guid = None /\ ses[s] \in SessionRecords /\ o # s
  BY ConstantsAssumption
  DEF Inv, TypeOK, Owned, OneSessionPerPlayer, CreateQueued, MayAsk, Free
<1>2. \A q \in Players : sessions[q] # s /\ queued[q] # s /\ queued[q] # o
  BY <1>1, ConstantsAssumption DEF Inv, TypeOK, Owned, OneSessionPerPlayer, Listed
<1>3. /\ told \in SessionRecords
      /\ told.inst = ses[o].inst /\ told.mgr = ses[o].mgr /\ told.guid = p
      /\ told.free = ses[o].free /\ told.plr = ses[o].plr /\ told.out = ses[o].out
  <2> DEFINE d == Disconnect(ses[o])
  <2>1. /\ d \in SessionRecords
        /\ d.inst = ses[o].inst /\ d.mgr = ses[o].mgr /\ d.guid = ses[o].guid
        /\ d.free = ses[o].free /\ d.plr = ses[o].plr /\ d.out = ses[o].out
    BY <1>1, DisconnectType DEF Inv, TypeOK
  <2>2. told = [d EXCEPT !.asks = @ + 1]
    BY DEF InvalidSession
  <2>3. told \in SessionRecords
    BY <1>1, InvalidSessionType DEF Inv, TypeOK
  <2> HIDE DEF d, told
  <2>. QED BY <1>1, <2>1, <2>2, <2>3 DEF SessionRecords
<1>4. /\ new \in SessionRecords /\ ~new.free /\ ~new.plr /\ ~new.out
      /\ new.inst = Outside /\ new.mgr = None
      /\ new.guid = IF queued[p] = None THEN p ELSE None
  BY NewRecords DEF InitSession, Leaked, Blank, Outside
<1>5. /\ ses' = [ses EXCEPT ![o] = told, ![s] = new]
      /\ queued' = IF queued[p] = None THEN [queued EXCEPT ![p] = s] ELSE queued
      /\ UNCHANGED <<gate, sessions, global, mapSess, pool, stored, lua, pc, todo, cur>>
  BY <1>1 DEF CreateQueued, InsertQueued
<1> HIDE DEF o, told, new
<1>6. /\ ses' \in [Sessions -> SessionRecords] /\ ses'[o] = told /\ ses'[s] = new
      /\ \A t \in Sessions \ {o, s} : ses'[t] = ses[t]
  BY <1>1, <1>3, <1>4, <1>5 DEF Inv, TypeOK
<1>7. \A t \in Sessions \ {s} :
        /\ ses'[t].mgr = ses[t].mgr /\ ses'[t].inst = ses[t].inst
        /\ ses'[t].guid = ses[t].guid /\ ses'[t].free = ses[t].free
        /\ ses'[t].plr = ses[t].plr /\ ses'[t].out = ses[t].out
  BY <1>1, <1>3, <1>6
<1>8. ~Listed(s) /\ s \notin global
      /\ \A k \in Maps : s \notin pool[k] \cup stored[k] \cup mapSess[k]
  BY <1>2 DEF Inv, Listed, NoPooledSession, PlayerHasSession
<1>9. TypeOK'
  BY <1>5, <1>6 DEF Inv, TypeOK, InPass
<1>10. Owned'
  <2>1. ASSUME NEW t \in Sessions, NEW q \in Players
        PROVE  ses'[t].guid = q <=> t \in {sessions'[q], queued'[q]} \ {None}
    BY <1>1, <1>2, <1>4, <1>5, <1>6, <1>7, ConstantsAssumption
    DEF Inv, TypeOK, Owned, OneSessionPerPlayer
  <2>2. \A t \in Sessions : ses'[t].free => ses'[t].guid = None
    BY <1>4, <1>6, <1>7 DEF Inv, Owned
  <2>3. \A q \in Players : queued'[q] # None => ~Listed(queued[q])'
    BY <1>5, <1>8 DEF Inv, TypeOK, Owned, Listed
  <2>. QED BY <2>1, <2>2, <2>3 DEF Owned, OneSessionPerPlayer
<1>11. Fresh'
  BY <1>2, <1>4, <1>5, <1>6, <1>7 DEF Inv, TypeOK, Fresh
<1>12. WithPlayer'
  BY <1>5, <1>7, <1>8 DEF Inv, WithPlayer, Listed
<1>13. Located'
  BY <1>5, <1>7, <1>8, <1>9 DEF Inv, TypeOK, Located
<1>14. Passing'
  <2>1. pc' = "recv" /\ cur' = None
    BY <1>5 DEF Inv, TypeOK, CreateQueued, InPass
  <2>2. \A t \in Sessions, k \in Places : cur' # <<t, k>>
    BY <2>1, ConstantsAssumption DEF Places, Outside
  <2>. QED BY <1>5, <2>1, <2>2 DEF Inv, Passing
<1>15. PlayerHasSession'
  BY <1>5, <1>7, <1>8, <1>9 DEF Inv, TypeOK, PlayerHasSession, Listed
<1>16. SomebodyUpdates'
  BY <1>5, <1>7, <1>8 DEF Inv, SomebodyUpdates, Listed
<1>17. NoPooledSession'
  BY <1>5 DEF Inv, NoPooledSession, Listed
<1>18. LuaPlayerHasSession'
  BY <1>2, <1>5, <1>7 DEF Inv, TypeOK, LuaPlayerHasSession
<1>19. InstanceIsMap'
  BY <1>4, <1>6, <1>7 DEF Inv, InstanceIsMap
<1>. QED BY <1>9, <1>10, <1>11, <1>12, <1>13, <1>14, <1>15, <1>16, <1>17, <1>18, <1>19 DEF Inv

LEMMA CreateWithoutSlotInv ==
  ASSUME NEW g \in Gates, NEW p \in Players, Inv, CreateWithoutSlot(g, p)
  PROVE  Inv'
<1>1. ses' \in [Sessions -> SessionRecords]
  <2>1. InvalidSession(ses[sessions[p]]) \in SessionRecords
    BY InvalidSessionType DEF Inv, TypeOK, CreateWithoutSlot, MayAsk
  <2>. QED BY <2>1 DEF Inv, TypeOK, CreateWithoutSlot
<1>2. TypeOK'
  BY <1>1, ConstantsAssumption, SMTT(15) DEF Inv, TypeOK, Passing, CreateWithoutSlot,
      MayAsk, Free, Places, Outside, InPass
<1>3. Owned' /\ Fresh' /\ WithPlayer' /\ Located' /\ Passing'
  BY DEF Inv, Owned, Fresh, WithPlayer, Located, Passing, CreateWithoutSlot, MayAsk,
      Free, InvalidSession, OneSessionPerPlayer, Listed, Outside, Places, Disconnect
<1>4. /\ PlayerHasSession' /\ SomebodyUpdates' /\ NoPooledSession'
      /\ LuaPlayerHasSession' /\ InstanceIsMap'
  BY DEF Inv, PlayerHasSession, SomebodyUpdates, NoPooledSession, LuaPlayerHasSession,
      InstanceIsMap, CreateWithoutSlot, MayAsk, Free, InvalidSession, Listed, Outside,
      Disconnect
<1>. QED BY <1>2, <1>3, <1>4 DEF Inv

LEMMA HandleCloseSessionInv ==
  ASSUME NEW g \in Gates, NEW p \in Players, NEW i \in 1..MaxIdx,
         Inv, HandleCloseSession(g, p, i)
  PROVE  Inv'
<1>1. ses' \in [Sessions -> SessionRecords]
  <2>1. InvalidSession(ses[sessions[p]]) \in SessionRecords
    BY InvalidSessionType DEF Inv, TypeOK, HandleCloseSession, MayAsk
  <2>. QED BY <2>1 DEF Inv, TypeOK, HandleCloseSession
<1>2. TypeOK'
  BY <1>1, ConstantsAssumption, SMTT(15) DEF Inv, TypeOK, Passing, HandleCloseSession,
      MayAsk, Places, Outside, InPass
<1>3. Owned' /\ Fresh' /\ WithPlayer' /\ Located' /\ Passing'
  BY DEF Inv, Owned, Fresh, WithPlayer, Located, Passing, HandleCloseSession, MayAsk,
      InvalidSession, OneSessionPerPlayer, Listed, Outside, Places, Disconnect
<1>4. /\ PlayerHasSession' /\ SomebodyUpdates' /\ NoPooledSession'
      /\ LuaPlayerHasSession' /\ InstanceIsMap'
  BY DEF Inv, PlayerHasSession, SomebodyUpdates, NoPooledSession, LuaPlayerHasSession,
      InstanceIsMap, HandleCloseSession, MayAsk, InvalidSession, Listed, Outside,
      Disconnect
<1>. QED BY <1>2, <1>3, <1>4 DEF Inv

LEMMA EndRecvInv ==
  ASSUME Inv, EndRecv
  PROVE  Inv'
<1>1. TypeOK'
  BY ConstantsAssumption, SMTT(15) DEF Inv, TypeOK, Passing, EndRecv, Outside, Places,
      InPass
<1>2. Owned' /\ Fresh' /\ WithPlayer' /\ Located'
  BY DEF Inv, Owned, Fresh, WithPlayer, Located, EndRecv, Outside, OneSessionPerPlayer,
      Listed
<1>3. /\ PlayerHasSession' /\ SomebodyUpdates' /\ NoPooledSession'
      /\ LuaPlayerHasSession' /\ InstanceIsMap'
  BY DEF Inv, PlayerHasSession, SomebodyUpdates, NoPooledSession, LuaPlayerHasSession,
      InstanceIsMap, EndRecv, Outside, Listed
<1>4. Passing'
  BY ConstantsAssumption, SMTT(15) DEF Inv, TypeOK, Passing, EndRecv, Outside, Places,
      SessionRecords, InPass
<1>. QED BY <1>1, <1>2, <1>3, <1>4 DEF Inv

-----------------------------------------------------------------------------
(* The waiting sessions, the network threads and the clock *)

LEMMA QueueJoinInv ==
  ASSUME NEW p \in Players, NEW m \in Maps \cup {Gone}, Inv, QueueJoin(p, m)
  PROVE  Inv'
<1>1. ses' \in [Sessions -> SessionRecords]
  <2>1. CreatePlayer(ses[queued[p]], m) \in SessionRecords
    BY CreatePlayerType DEF Inv, TypeOK, QueueJoin
  <2>. QED BY <2>1 DEF Inv, TypeOK, QueueJoin
<1>2. TypeOK'
  BY <1>1, ConstantsAssumption, SMTT(15) DEF Inv, TypeOK, Passing, QueueJoin,
      JoinGlobal, Places, Outside, InPass
<1>3. Fresh' /\ Passing' /\ InstanceIsMap'
  BY DEF Inv, Fresh, Passing, InstanceIsMap, QueueJoin, CreatePlayer, JoinGlobal,
      Outside, Places
<1>4. Owned'
  BY SMTT(15) DEF Inv, TypeOK, Owned, QueueJoin, CreatePlayer, JoinGlobal,
      OneSessionPerPlayer, Listed, SessionRecords, Places, InPass, Outside
<1>5. WithPlayer'
  BY ConstantsAssumption, SMTT(15) DEF Inv, TypeOK, WithPlayer, Owned, Fresh, QueueJoin,
      CreatePlayer, JoinGlobal, Listed, SessionRecords, Places, InPass,
      OneSessionPerPlayer, Outside
<1>6. Located'
  BY ConstantsAssumption, SMTT(15) DEF Inv, TypeOK, Located, Owned, Fresh, QueueJoin,
      CreatePlayer, JoinGlobal, Outside, SessionRecords, Places, InPass,
      OneSessionPerPlayer, Listed
<1>7. PlayerHasSession'
  BY ConstantsAssumption, SMTT(15) DEF Inv, TypeOK, PlayerHasSession, QueueJoin,
      CreatePlayer, JoinGlobal, Listed, SessionRecords, Places, InPass, Outside
<1>8. SomebodyUpdates'
  BY ConstantsAssumption, SMTT(15) DEF Inv, TypeOK, SomebodyUpdates, Owned, Fresh,
      QueueJoin, CreatePlayer, JoinGlobal, Listed, Outside, SessionRecords, Places,
      InPass, OneSessionPerPlayer
<1>9. NoPooledSession'
  BY ConstantsAssumption, SMTT(15) DEF Inv, TypeOK, NoPooledSession, Located, QueueJoin,
      CreatePlayer, JoinGlobal, Listed, SessionRecords, Places, InPass, Outside
<1>10. LuaPlayerHasSession'
  BY ConstantsAssumption, SMTT(15) DEF Inv, TypeOK, LuaPlayerHasSession, Owned, Fresh,
      QueueJoin, CreatePlayer, JoinGlobal, SessionRecords, Places, InPass,
      OneSessionPerPlayer, Listed, Outside
<1>. QED BY <1>2, <1>3, <1>4, <1>5, <1>6, <1>7, <1>8, <1>9, <1>10 DEF Inv

LEMMA QueueRefuseInv ==
  ASSUME NEW p \in Players, Inv, QueueRefuse(p)
  PROVE  Inv'
<1>1. ses' \in [Sessions -> SessionRecords]
  <2>1. Blank \in SessionRecords
    BY NewRecords DEF Inv
  <2>. QED BY <2>1 DEF Inv, TypeOK, QueueRefuse
<1>2. TypeOK'
  BY <1>1, ConstantsAssumption, SMTT(15) DEF Inv, TypeOK, Passing, QueueRefuse, Places,
      Outside, InPass
<1>3. Fresh' /\ NoPooledSession' /\ InstanceIsMap'
  BY DEF Inv, Fresh, NoPooledSession, InstanceIsMap, QueueRefuse, Blank, Outside, Listed
<1>4. Owned'
  BY ConstantsAssumption, SMTT(15) DEF Inv, TypeOK, Owned, QueueRefuse, Blank,
      OneSessionPerPlayer, Listed, SessionRecords, Places, InPass, Outside
<1>5. WithPlayer'
  BY ConstantsAssumption, SMTT(15) DEF Inv, TypeOK, WithPlayer, Owned, QueueRefuse,
      Blank, Listed, SessionRecords, Places, InPass, OneSessionPerPlayer, Outside
<1>6. Located'
  BY ConstantsAssumption, SMTT(15) DEF Inv, TypeOK, Located, Owned, NoPooledSession,
      PlayerHasSession, QueueRefuse, Blank, Outside, SessionRecords, Places, InPass,
      OneSessionPerPlayer, Listed
<1>7. Passing'
  BY ConstantsAssumption, SMTT(15) DEF Inv, TypeOK, Passing, QueueRefuse, Blank, Places,
      Outside, SessionRecords, InPass
<1>8. PlayerHasSession'
  BY ConstantsAssumption, SMTT(15) DEF Inv, TypeOK, PlayerHasSession, Owned,
      QueueRefuse, Blank, Listed, SessionRecords, Places, InPass, OneSessionPerPlayer,
      Outside
<1>9. SomebodyUpdates'
  BY ConstantsAssumption, SMTT(15) DEF Inv, TypeOK, SomebodyUpdates, Owned, QueueRefuse,
      Blank, Listed, Outside, SessionRecords, Places, InPass, OneSessionPerPlayer
<1>10. LuaPlayerHasSession'
  BY ConstantsAssumption, SMTT(15) DEF Inv, TypeOK, LuaPlayerHasSession, Owned,
      QueueRefuse, Blank, SessionRecords, Places, InPass, OneSessionPerPlayer, Listed,
      Outside
<1>. QED BY <1>2, <1>3, <1>4, <1>5, <1>6, <1>7, <1>8, <1>9, <1>10 DEF Inv

LEMMA EndQueueInv ==
  ASSUME Inv, EndQueue
  PROVE  Inv'
<1>1. TypeOK'
  BY ConstantsAssumption, SMTT(15) DEF Inv, TypeOK, Passing, EndQueue, Places, Outside,
      InPass
<1>2. Owned' /\ Fresh' /\ WithPlayer' /\ Located' /\ Passing'
  BY DEF Inv, Owned, Fresh, WithPlayer, Located, Passing, EndQueue, OneSessionPerPlayer,
      Listed, Outside, Places
<1>3. /\ PlayerHasSession' /\ SomebodyUpdates' /\ NoPooledSession'
      /\ LuaPlayerHasSession' /\ InstanceIsMap'
  BY DEF Inv, PlayerHasSession, SomebodyUpdates, NoPooledSession, LuaPlayerHasSession,
      InstanceIsMap, EndQueue, Listed, Outside
<1>. QED BY <1>1, <1>2, <1>3 DEF Inv

LEMMA RemoveServerSocketInv ==
  ASSUME NEW g \in Gates, Inv, RemoveServerSocket(g)
  PROVE  Inv'
<1>1. TypeOK'
  BY ConstantsAssumption, SMTT(15) DEF Inv, TypeOK, Passing, RemoveServerSocket, Places,
      Outside, InPass
<1>2. Owned' /\ Fresh' /\ WithPlayer' /\ Located' /\ Passing'
  BY DEF Inv, Owned, Fresh, WithPlayer, Located, Passing, RemoveServerSocket,
      OneSessionPerPlayer, Listed, Outside, Places
<1>3. /\ PlayerHasSession' /\ SomebodyUpdates' /\ NoPooledSession'
      /\ LuaPlayerHasSession' /\ InstanceIsMap'
  BY DEF Inv, PlayerHasSession, SomebodyUpdates, NoPooledSession, LuaPlayerHasSession,
      InstanceIsMap, RemoveServerSocket, Listed, Outside
<1>. QED BY <1>1, <1>2, <1>3 DEF Inv

LEMMA OnSocketCloseInv ==
  ASSUME NEW g \in Gates, Inv, OnSocketClose(g)
  PROVE  Inv'
<1>1. ses' \in [Sessions -> SessionRecords]
  <2>1. \A s \in Sessions : [ses[s] EXCEPT !.sock = None] \in SessionRecords
    BY SocketTypes DEF Inv, TypeOK
  <2>. QED BY <2>1 DEF Inv, TypeOK, OnSocketClose
<1>2. TypeOK'
  BY <1>1, ConstantsAssumption, SMTT(15) DEF Inv, TypeOK, Passing, OnSocketClose,
      Places, Outside, InPass
<1>3. Owned' /\ WithPlayer' /\ Passing'
  BY DEF Inv, Owned, WithPlayer, Passing, OnSocketClose, ClosedSessions,
      OneSessionPerPlayer, Listed, Places, Outside
<1>4. SomebodyUpdates' /\ NoPooledSession' /\ InstanceIsMap'
  BY DEF Inv, SomebodyUpdates, NoPooledSession, InstanceIsMap, OnSocketClose,
      ClosedSessions, Listed, Outside
<1>5. Fresh'
  BY SMTT(15) DEF Inv, TypeOK, Fresh, OnSocketClose, ClosedSessions, Outside,
      SessionRecords, Places, InPass, Listed
<1>6. Located'
  BY SMTT(15) DEF Inv, TypeOK, Located, OnSocketClose, ClosedSessions, Outside,
      SessionRecords, Places, InPass, Listed
<1>7. PlayerHasSession'
  BY SMTT(15) DEF Inv, TypeOK, PlayerHasSession, OnSocketClose, ClosedSessions, Listed,
      SessionRecords, Places, InPass, Outside
<1>8. LuaPlayerHasSession'
  BY SMTT(15) DEF Inv, TypeOK, LuaPlayerHasSession, OnSocketClose, ClosedSessions,
      SessionRecords, Places, InPass, Listed, Outside
<1>. QED BY <1>2, <1>3, <1>4, <1>5, <1>6, <1>7, <1>8 DEF Inv

LEMMA ClockInv ==
  ASSUME NEW s \in Sessions, Inv, Clock(s)
  PROVE  Inv'
<1>1. ses' \in [Sessions -> SessionRecords]
  <2>1. [ses[s] EXCEPT !.logout = "due"] \in SessionRecords
    BY SocketTypes DEF Inv, TypeOK
  <2>. QED BY <2>1 DEF Inv, TypeOK, Clock
<1>2. TypeOK'
  BY <1>1, ConstantsAssumption, SMTT(15) DEF Inv, TypeOK, Passing, Clock, Places,
      Outside, InPass
<1>3. Owned' /\ Fresh' /\ WithPlayer' /\ Located' /\ Passing'
  BY DEF Inv, Owned, Fresh, WithPlayer, Located, Passing, Clock, OneSessionPerPlayer,
      Listed, Outside, Places
<1>4. /\ PlayerHasSession' /\ SomebodyUpdates' /\ NoPooledSession'
      /\ LuaPlayerHasSession' /\ InstanceIsMap'
  BY DEF Inv, PlayerHasSession, SomebodyUpdates, NoPooledSession, LuaPlayerHasSession,
      InstanceIsMap, Clock, Listed, Outside
<1>. QED BY <1>2, <1>3, <1>4 DEF Inv

-----------------------------------------------------------------------------
(* The theorems *)

LEMMA InvInit ==
  ASSUME Init
  PROVE  Inv
<1>1. \A s \in Sessions : ses[s] = Blank /\ ~Listed(s)
  BY ConstantsAssumption DEF Init, Listed
<1>2. TypeOK
  BY NewRecords DEF Init, TypeOK, InPass
<1>3. Owned /\ Fresh
  BY <1>1, ConstantsAssumption DEF Init, Owned, OneSessionPerPlayer, Fresh, Blank
<1>4. WithPlayer /\ SomebodyUpdates /\ LuaPlayerHasSession /\ InstanceIsMap
  BY <1>1 DEF Init, WithPlayer, SomebodyUpdates, LuaPlayerHasSession, InstanceIsMap,
         Blank, Outside
<1>5. Located /\ PlayerHasSession /\ NoPooledSession
  BY DEF Init, Located, PlayerHasSession, NoPooledSession
<1>6. Passing
  BY ConstantsAssumption DEF Init, Passing, Places, Outside
<1>. QED BY <1>2, <1>3, <1>4, <1>5, <1>6 DEF Inv

LEMMA InvStutters ==
  ASSUME Inv, UNCHANGED vars
  PROVE  Inv'
<1>1. TypeOK' /\ Owned' /\ Fresh' /\ WithPlayer'
  BY DEF vars, Inv, TypeOK, InPass, Owned, OneSessionPerPlayer, Fresh, WithPlayer, Listed
<1>2. Located' /\ Passing' /\ PlayerHasSession' /\ SomebodyUpdates'
  BY DEF vars, Inv, Located, Passing, PlayerHasSession, SomebodyUpdates, Listed
<1>3. NoPooledSession' /\ LuaPlayerHasSession' /\ InstanceIsMap'
  BY DEF vars, Inv, NoPooledSession, LuaPlayerHasSession, InstanceIsMap, Listed
<1>. QED BY <1>1, <1>2, <1>3 DEF Inv

LEMMA InvStep ==
  ASSUME Inv, [Next]_vars
  PROVE  Inv'
<1>1. ASSUME Packets PROVE Inv'
  BY <1>1, SceneLoadedInv, LoadFailsInv, PlayerStraysInv, TransferHereInv, TransferAwayInv
  DEF Packets
<1>2. ASSUME Recv PROVE Inv'
  BY <1>2, CreateWithoutSlotInv, HandleCloseSessionInv, CreateQueuedInv, CreateSessionInv
  DEF Recv
<1>3. ASSUME MainLoop PROVE Inv'
  <2>1. ASSUME Updates PROVE Inv'
    BY <2>1, UpdateMovedInv, UpdateNoSocketInv, UpdateBeginInv, UpdateEndInv DEF Updates
  <2>2. ASSUME NEW bad \in SUBSET Sessions, PushPlayers(bad) PROVE Inv'
    BY <2>2, PushPlayersInv
  <2>3. ASSUME EndPass \/ EndRecv \/ EndQueue PROVE Inv'
    BY <2>3, EndPassInv, EndRecvInv, EndQueueInv
  <2>4. ASSUME NEW p \in Players, QueueRefuse(p) \/ \E m \in Maps \cup {Gone} : QueueJoin(p, m)
        PROVE  Inv'
    BY <2>4, QueueRefuseInv, QueueJoinInv
  <2>. QED BY <1>3, <2>1, <2>2, <2>3, <2>4 DEF MainLoop
<1>4. ASSUME Network \/ \E s \in Sessions : Clock(s) PROVE Inv'
  BY <1>4, RemoveServerSocketInv, OnSocketCloseInv, ClockInv DEF Network
<1>. QED BY <1>1, <1>2, <1>3, <1>4, InvStutters DEF Next

LEMMA InvHolds == Spec => []Inv
<1>1. Init => Inv BY InvInit
<1>2. Inv /\ [Next]_vars => Inv' BY InvStep
<1>. QED BY <1>1, <1>2, PTL DEF Spec

\* The sets of sessions of Park and of the map managers always agree with the
\* table and with the sessions' instance ids: every session of the table is in
\* the care of exactly the pass that updates its map, and no pass updates a
\* session that has been deleted.
THEOREM SessionsHeldHolds == Spec => []SessionsHeld
<1>1. Inv => SessionsHeld
  BY DEF Inv, SessionsHeld
<1>. QED BY <1>1, InvHolds, PTL

\* A player's object is in a map only while its session is in the table, its
\* LuaPlayer is loaded as long as the session is, and it has one session.
THEOREM PlayersHaveSessionsHolds == Spec => []PlayersHaveSessions
<1>1. Inv => PlayersHaveSessions
  BY DEF Inv, Owned, PlayersHaveSessions
<1>. QED BY <1>1, InvHolds, PTL
=============================================================================
