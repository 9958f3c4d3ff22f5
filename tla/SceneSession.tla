-------------------------- MODULE SceneSession --------------------------
(***************************************************************************)
(* The sessions of a scene server: the table of Park, the set of sessions  *)
(* outside any map, the sets of the map managers, the sessions that wait   *)
(* for an older one of their player, and the players waiting to be pushed  *)
(* into a map.  The main loop of WorldRunnable updates the maps, receives  *)
(* the gateways' packets, updates the sessions outside the maps and then   *)
(* looks at the waiting ones; network threads close gateway connections    *)
(* in between.                                                             *)
(*                                                                         *)
(* Packets are not kept: a handler takes whatever a gateway or a client    *)
(* may send.  CreatePlayer is taken to succeed.  bDeleted is not kept      *)
(* either: it is set only in a call of Update that ends in DeleteSession.  *)
(***************************************************************************)
EXTENDS Integers, FiniteSets

CONSTANTS
  Gates,      \* gateway connections (CSceneCommServer objects)
  Players,    \* role guids
  Sessions,   \* slots of the session pool
  Maps,       \* maps with a manager on this server
  Handled,    \* the maps this scene server is configured to serve
  Born,       \* the default map
  MaxIdx,     \* bound on the session indices a gateway hands out
  MaxMoves,   \* bound on the changes of scene a client asks for in a session
  MaxAsks,    \* bound on how often the gateways ask for the end of a session
  Gone,       \* an instance map whose manager does not exist
  None

ASSUME ConstantsAssumption ==
  /\ Handled \subseteq Maps /\ Born \in Maps
  /\ MaxIdx \in Nat \ {0}
  /\ MaxMoves \in Nat /\ MaxAsks \in Nat
  /\ Gone \notin Maps /\ Gone # None
  /\ None \notin Gates \cup Players \cup Sessions \cup Maps
  /\ None \notin Sessions \X (Maps \cup {None})

VARIABLES
  gate,      \* connection state of each gateway
  sessions,  \* m_sessions: player -> session
  global,    \* m_globalSessions
  mapSess,   \* MapSessions of each map manager
  pool,      \* m_objectinsertpool of each map manager, by the players' sessions
  stored,    \* m_PlayerStorage of each map manager, by the players' sessions
  queued,    \* _queueSessions: player -> session
  ses,       \* the session objects, each with its player object
  lua,       \* playerDataList: player -> session of the loaded LuaPlayer
  pc,        \* the pass the main loop is in
  todo,      \* sessions the pass has not come to, each with the pass's map
  cur        \* the session whose Update is under way, with the pass's map

vars == <<gate, sessions, global, mapSess, pool, stored, queued, ses, lua,
          pc, todo, cur>>

\* GameSession as the pool keeps it.
Blank == [free |-> TRUE, guid |-> None, idx |-> 0, sock |-> None, inst |-> None,
          logout |-> "off", next |-> FALSE, out |-> FALSE,
          plr |-> FALSE, mgr |-> None, map |-> None, moves |-> 0, asks |-> 0]

\* One that is in no container and was not given back to the pool.
Leaked == [Blank EXCEPT !.free = FALSE]

Outside == None                           \* instance id 0
Listed(s) == \E p \in Players : sessions[p] = s
Free == {s \in Sessions : ses[s].free}
Idle == cur = None

-----------------------------------------------------------------------------
(* Operations on one session *)

\* InitSession
InitSession(p, i, g) ==
  [Blank EXCEPT !.free = FALSE, !.guid = p, !.idx = i, !.sock = g]

\* CreatePlayer: InitData gives the session a player at the saved map.
CreatePlayer(rec, m) == [rec EXCEPT !.plr = TRUE, !.map = m]

\* Disconnect: SetNextSceneServerID(0), SetLogoutTimer(1)
Disconnect(rec) == [rec EXCEPT !.next = FALSE, !.logout = "set"]

\* What Player::RemoveFromWorld does to the session and its player
LeaveMap(rec) == [rec EXCEPT !.mgr = None, !.inst = Outside]

-----------------------------------------------------------------------------
Init ==
  /\ gate = [g \in Gates |-> "up"]
  /\ sessions = [p \in Players |-> None]
  /\ global = {}
  /\ mapSess = [m \in Maps |-> {}]
  /\ pool = [m \in Maps |-> {}]
  /\ stored = [m \in Maps |-> {}]
  /\ queued = [p \in Players |-> None]
  /\ ses = [s \in Sessions |-> Blank]
  /\ lua = [p \in Players |-> None]
  /\ pc = "maps" /\ todo = {} /\ cur = None

-----------------------------------------------------------------------------
(* sPark.Update: the map managers *)

\* MapMgr::Update of every map pushes the players that wait into the map and
\* goes through its sessions.  A player at an illegal position (bad) is sent
\* back.  Pushes of one map and sessions of another touch nothing in common.
PushPlayers(bad) ==
  LET waiting == UNION {pool[m] : m \in Maps}
      of(m) == pool[m] \ bad
  IN /\ pc = "maps" /\ bad \subseteq waiting
     /\ ses' = [s \in Sessions |->
                  IF s \in bad THEN Disconnect([ses[s] EXCEPT !.inst = Outside])
                  ELSE ses[s]]
     /\ global' = global \cup bad
     /\ mapSess' = [m \in Maps |-> mapSess[m] \cup of(m)]
     /\ stored' = [m \in Maps |-> stored[m] \cup of(m)]
     /\ pool' = [m \in Maps |-> {}]
     /\ todo' = UNION {{<<s, m>> : s \in mapSess'[m]} : m \in Maps}
     /\ pc' = "mapSessions"
     /\ UNCHANGED <<gate, sessions, queued, lua, cur>>

-----------------------------------------------------------------------------
(* GameSession::Update, from the pass over a map's sessions and from the     *)
(* pass over the sessions outside the maps.                                  *)

\* The sessions of the pass lose s.
EraseFrom(m, s) ==
  IF m = Outside
    THEN /\ global' = global \ {s} /\ UNCHANGED mapSess
    ELSE /\ mapSess' = [mapSess EXCEPT ![m] = @ \ {s}] /\ UNCHANGED global

\* Mutant: the player's object stays in its map.
LogoutInMap(s) == UNCHANGED stored

\* LuaPlayer:Logout removes the player from its map.
LogoutFromMap(s) == stored' = [m \in Maps |-> stored[m] \ {lua[ses[s].guid]}]

\* RemovePlayerByGuid
LogoutLua(s) == [lua EXCEPT ![ses[s].guid] = None]

\* LogoutPlayer(true) finds something to log out.
LogsOut(s) ==
  LET p == ses[s].guid
  IN ~ses[s].out /\ ses[s].plr /\ lua[p] # None /\ sessions[p] # None

\* Update returns 1: bDeleted, LogoutPlayer(true), and DeleteSession.
EndSession(s, m) ==
  /\ IF LogsOut(s)
       THEN LogoutFromMap(s) /\ lua' = LogoutLua(s)
       ELSE UNCHANGED <<stored, lua>>
  /\ sessions' = [sessions EXCEPT ![ses[s].guid] = None]
  /\ ses' = [ses EXCEPT ![s] = Blank]
  /\ EraseFrom(m, s)
  /\ cur' = None

InPass == pc \in {"mapSessions", "global"}

\* The pass reaches a session that has gone elsewhere.
UpdateMoved(s, m) ==
  /\ InPass /\ Idle /\ <<s, m>> \in todo
  /\ ses[s].inst # m
  /\ EraseFrom(m, s)
  /\ todo' = todo \ {<<s, m>>}
  /\ UNCHANGED <<gate, sessions, pool, stored, queued, ses, lua, pc, cur>>

\* Update of a session whose gateway has gone
UpdateNoSocket(s, m) ==
  /\ InPass /\ Idle /\ <<s, m>> \in todo
  /\ ses[s].inst = m
  /\ ses[s].sock = None
  /\ EndSession(s, m)
  /\ todo' = todo \ {<<s, m>>}
  /\ UNCHANGED <<gate, pool, queued, pc>>

UpdateBegin(s, m) ==
  /\ InPass /\ Idle /\ <<s, m>> \in todo
  /\ ses[s].inst = m
  /\ ses[s].sock # None
  /\ cur' = <<s, m>>
  /\ todo' = todo \ {<<s, m>>}
  /\ UNCHANGED <<gate, sessions, global, mapSess, pool, stored, queued, ses, lua, pc>>

\* A client asks for another scene (HandlePlayerSceneTransfer), or its player
\* walks out of the map's bounds and is taken to the default map.
MayMove(s, d) ==
  /\ ses[s].plr /\ ses[s].mgr # None
  /\ ses[s].map # d /\ ses[s].moves < MaxMoves

Moved(s, d) == [LeaveMap(ses[s]) EXCEPT !.map = d, !.moves = @ + 1]

\* RemoveFromWorld in the middle of the session's own Update, which then returns
\* unless the session was outside the maps already (its player was refused).
RemoveFromWorld(s, m) ==
  /\ stored' = [stored EXCEPT ![ses[s].mgr] = @ \ {s}]
  /\ global' = global \cup {s}
  /\ mapSess' = IF m = Outside THEN mapSess ELSE [mapSess EXCEPT ![m] = @ \ {s}]
  /\ cur' = IF m = Outside THEN cur ELSE None

\* SafeTeleport to a map of this server
TransferHere(s, m, d) ==
  /\ cur = <<s, m>> /\ MayMove(s, d) /\ d \in Handled \cup {Born}
  /\ ses' = [ses EXCEPT ![s] = Moved(s, d)]
  /\ RemoveFromWorld(s, m)
  /\ UNCHANGED <<gate, sessions, pool, queued, lua, pc, todo>>

\* A map updates its players before its sessions; one that has walked out of the
\* map is taken to the default map and its session out of this one.
PlayerStrays(s, m) ==
  /\ pc = "mapSessions" /\ Idle /\ <<s, m>> \in todo
  /\ s \in stored[m] /\ MayMove(s, Born)
  /\ ses' = [ses EXCEPT ![s] = Moved(s, Born)]
  /\ stored' = [stored EXCEPT ![m] = @ \ {s}]
  /\ global' = global \cup {s}
  /\ UNCHANGED <<gate, sessions, mapSess, pool, queued, lua, pc, todo, cur>>

\* SceneServerChangeProc: the player is to leave for another scene server.
TransferAway(s, m, d) ==
  /\ cur = <<s, m>> /\ MayMove(s, d) /\ d \notin Handled
  /\ ses' = [ses EXCEPT ![s] = [Moved(s, d) EXCEPT !.logout = "set", !.next = TRUE]]
  /\ RemoveFromWorld(s, m)
  /\ UNCHANGED <<gate, sessions, pool, queued, lua, pc, todo>>

\* Mutant: the player waits for the map but its session stays outside it.
InsertWithoutInstance(rec) == [rec EXCEPT !.mgr = rec.map]

\* Object::AddToWorld and Player::AddToWorld
AddToWorld(rec) == [rec EXCEPT !.mgr = rec.map, !.inst = rec.map]

\* The client has loaded its scene (onSceneLoaded): the player waits to be pushed.
SceneLoaded(s, m) ==
  /\ cur = <<s, m>> /\ ses[s].plr /\ ses[s].mgr = None /\ ses[s].map \in Maps
  /\ ses' = [ses EXCEPT ![s] = AddToWorld(@)]
  /\ pool' = [pool EXCEPT ![ses[s].map] = @ \cup {s}]
  /\ EraseFrom(m, s)
  /\ cur' = None
  /\ UNCHANGED <<gate, sessions, stored, queued, lua, pc, todo>>

\* There is no such map: LogoutPlayer(false) and Disconnect.
LoadFails(s, m) ==
  /\ cur = <<s, m>> /\ ses[s].plr /\ ses[s].mgr = None /\ ses[s].map = Gone
  /\ ses' = [ses EXCEPT ![s] = Disconnect([@ EXCEPT !.plr = FALSE, !.out = TRUE])]
  /\ lua' = LogoutLua(s)
  /\ UNCHANGED <<gate, sessions, global, mapSess, pool, stored, queued, pc, todo, cur>>

\* All packets are handled: the timer decides.
UpdateEnd(s, m) ==
  /\ cur = <<s, m>>
  /\ IF ses[s].logout = "due"
       THEN EndSession(s, m)
       ELSE /\ cur' = None
            /\ UNCHANGED <<sessions, global, mapSess, stored, ses, lua>>
  /\ UNCHANGED <<gate, pool, queued, pc, todo>>

PassDone == Idle /\ todo = {}

EndPass ==
  /\ InPass /\ PassDone
  /\ pc' = IF pc = "mapSessions" THEN "recv" ELSE "queue"
  /\ UNCHANGED <<gate, sessions, global, mapSess, pool, stored, queued, ses, lua,
                 todo, cur>>

-----------------------------------------------------------------------------
(* UpdateServerRecvPackets: a gateway that is still registered is heard. *)

\* CreateSession of a player without a session
CreateSession(g, p, i, m, s) ==
  /\ pc = "recv" /\ gate[g] = "up" /\ sessions[p] = None /\ s \in Free
  /\ ses' = [ses EXCEPT ![s] = CreatePlayer(InitSession(p, i, g), m)]
  /\ lua' = [lua EXCEPT ![p] = s]
  /\ sessions' = [sessions EXCEPT ![p] = s]
  /\ global' = global \cup {s}
  /\ UNCHANGED <<gate, mapSess, pool, stored, queued, pc, todo, cur>>

\* _queueSessions.insert never replaces an entry.
InsertQueued(p, s) == IF queued[p] = None THEN [queued EXCEPT ![p] = s] ELSE queued

\* InvalidSession of the player's session.  The gateways do not ask for ever.
MayAsk(p) == sessions[p] # None /\ ses[sessions[p]].asks < MaxAsks

InvalidSession(rec) == [Disconnect(rec) EXCEPT !.asks = @ + 1]

\* CreateSession of a player that has one: the older is told to leave and the
\* new one waits.
CreateQueued(g, p, i, s) ==
  /\ pc = "recv" /\ gate[g] = "up" /\ MayAsk(p) /\ s \in Free
  /\ ses' = [ses EXCEPT ![sessions[p]] = InvalidSession(@),
                        ![s] = IF queued[p] = None THEN InitSession(p, i, g)
                               ELSE Leaked]
  /\ queued' = InsertQueued(p, s)
  /\ UNCHANGED <<gate, sessions, global, mapSess, pool, stored, lua, pc, todo, cur>>

\* CreateSession when the session pool is empty tells the older session to leave.
CreateWithoutSlot(g, p) ==
  /\ pc = "recv" /\ gate[g] = "up" /\ MayAsk(p) /\ Free = {}
  /\ ses' = [ses EXCEPT ![sessions[p]] = InvalidSession(@)]
  /\ UNCHANGED <<gate, sessions, global, mapSess, pool, stored, queued, lua, pc,
                 todo, cur>>

\* HandleCloseSession: InvalidSession(guid, sessionIndex)
HandleCloseSession(g, p, i) ==
  /\ pc = "recv" /\ gate[g] = "up"
  /\ MayAsk(p) /\ ses[sessions[p]].idx = i
  /\ ses' = [ses EXCEPT ![sessions[p]] = InvalidSession(@)]
  /\ UNCHANGED <<gate, sessions, global, mapSess, pool, stored, queued, lua, pc,
                 todo, cur>>

\* UpdateSessions begins with the sessions outside the maps.
EndRecv ==
  /\ pc = "recv"
  /\ pc' = "global"
  /\ todo' = {<<s, Outside>> : s \in global}
  /\ UNCHANGED <<gate, sessions, global, mapSess, pool, stored, queued, ses, lua, cur>>

-----------------------------------------------------------------------------
(* UpdateSessions: the sessions that wait for an older one *)

\* Mutant: the joined session is updated by nobody.
JoinListedOnly(s) == global

\* AddGlobalSession
JoinGlobal(s) == global \cup {s}

\* The older session is gone: the new one joins.
QueueJoin(p, m) ==
  LET s == queued[p]
  IN /\ pc = "queue" /\ s # None /\ sessions[p] = None
     /\ ses' = [ses EXCEPT ![s] = CreatePlayer(@, m)]
     /\ lua' = [lua EXCEPT ![p] = s]
     /\ sessions' = [sessions EXCEPT ![p] = s]
     /\ global' = JoinGlobal(s)
     /\ queued' = [queued EXCEPT ![p] = None]
     /\ UNCHANGED <<gate, mapSess, pool, stored, pc, todo, cur>>

\* It is not: the new one is given back to the pool.
QueueRefuse(p) ==
  LET s == queued[p]
  IN /\ pc = "queue" /\ s # None /\ sessions[p] # None
     /\ ses' = [ses EXCEPT ![s] = Blank]
     /\ queued' = [queued EXCEPT ![p] = None]
     /\ UNCHANGED <<gate, sessions, global, mapSess, pool, stored, lua, pc, todo, cur>>

EndQueue ==
  /\ pc = "queue" /\ \A p \in Players : queued[p] = None
  /\ pc' = "maps"
  /\ UNCHANGED <<gate, sessions, global, mapSess, pool, stored, queued, ses, lua,
                 todo, cur>>

-----------------------------------------------------------------------------
(* Network threads and the clock *)

\* OnDisconnect takes the connection off the list; the receiving pass holds its lock.
RemoveServerSocket(g) ==
  /\ gate[g] = "up" /\ pc # "recv"
  /\ gate' = [gate EXCEPT ![g] = "removed"]
  /\ UNCHANGED <<sessions, global, mapSess, pool, stored, queued, ses, lua, pc,
                 todo, cur>>

\* g has been taken off the list, and OnSocketClose is still to come.
LostGateway(g) == g # None /\ gate[g] = "removed"

\* The sessions of Park that came by way of g
ClosedSessions(g) == {s \in Sessions : Listed(s) /\ ses[s].sock = g}

\* OnSocketClose recognises the sessions by GetGateServerSocket, which answers
\* NULL for a connection that is down: the library is taken to report it as
\* connected until OnDisconnect returns.
OnSocketClose(g) ==
  /\ gate[g] = "removed"
  /\ gate' = [gate EXCEPT ![g] = "closed"]
  /\ ses' = [s \in Sessions |->
               IF s \in ClosedSessions(g) THEN [ses[s] EXCEPT !.sock = None]
               ELSE ses[s]]
  /\ UNCHANGED <<sessions, global, mapSess, pool, stored, queued, lua, pc, todo, cur>>

\* The logout timer of a session comes due.
Clock(s) ==
  /\ ses[s].logout = "set"
  /\ ses' = [ses EXCEPT ![s].logout = "due"]
  /\ UNCHANGED <<gate, sessions, global, mapSess, pool, stored, queued, lua, pc,
                 todo, cur>>

-----------------------------------------------------------------------------
Places == Maps \cup {Outside}

Packets ==
  \E s \in Sessions, m \in Places :
    \/ SceneLoaded(s, m)
    \/ LoadFails(s, m)
    \/ PlayerStrays(s, m)
    \/ \E d \in Maps : TransferHere(s, m, d) \/ TransferAway(s, m, d)

Recv ==
  \E g \in Gates, p \in Players :
    \/ CreateWithoutSlot(g, p)
    \/ \E i \in 1..MaxIdx :
         \/ HandleCloseSession(g, p, i)
         \/ \E s \in Sessions : CreateQueued(g, p, i, s)
         \/ \E s \in Sessions, m \in Maps \cup {Gone} : CreateSession(g, p, i, m, s)

Updates ==
  \E s \in Sessions, m \in Places :
    UpdateMoved(s, m) \/ UpdateNoSocket(s, m) \/ UpdateBegin(s, m) \/ UpdateEnd(s, m)

MainLoop ==
  \/ \E bad \in SUBSET Sessions : PushPlayers(bad)
  \/ Updates
  \/ EndPass
  \/ EndRecv
  \/ \E p \in Players, m \in Maps \cup {Gone} : QueueJoin(p, m)
  \/ \E p \in Players : QueueRefuse(p)
  \/ EndQueue

Network == \E g \in Gates : RemoveServerSocket(g) \/ OnSocketClose(g)

Next == Packets \/ Recv \/ MainLoop \/ Network \/ \E s \in Sessions : Clock(s)

Spec == Init /\ [][Next]_vars

\* The main thread keeps turning and timers come due.
FairSpec ==
  /\ Spec
  /\ WF_vars(MainLoop)
  /\ \A s \in Sessions : WF_vars(Clock(s))
  /\ \A g \in Gates : WF_vars(OnSocketClose(g))

-----------------------------------------------------------------------------
(* Properties *)

SessionRecords ==
  [free : BOOLEAN, guid : Players \cup {None}, idx : 0..MaxIdx,
   sock : Gates \cup {None}, inst : Places, logout : {"off", "set", "due"},
   next : BOOLEAN, out : BOOLEAN, plr : BOOLEAN, mgr : Maps \cup {None},
   map : Maps \cup {Gone, None}, moves : 0..MaxMoves,
   asks : 0..MaxAsks]

\* The state has the expected shape, pool slots in use differ from free ones,
\* and the variables of a pass are empty outside it.
TypeOK ==
  /\ gate \in [Gates -> {"up", "removed", "closed"}]
  /\ sessions \in [Players -> Sessions \cup {None}]
  /\ queued \in [Players -> Sessions \cup {None}]
  /\ lua \in [Players -> Sessions \cup {None}]
  /\ global \subseteq Sessions
  /\ mapSess \in [Maps -> SUBSET Sessions]
  /\ pool \in [Maps -> SUBSET Sessions]
  /\ stored \in [Maps -> SUBSET Sessions]
  /\ ses \in [Sessions -> SessionRecords]
  /\ pc \in {"maps", "mapSessions", "recv", "global", "queue"}
  /\ todo \subseteq Sessions \X Places
  /\ cur \in (Sessions \X Places) \cup {None}
  /\ ~InPass => todo = {} /\ cur = None

\* A player's object is in a map, or waits to be pushed into it, only while its
\* session is in Park's table and knows the map: no map manager ever updates,
\* or tells others of, a player whose session has been deleted.
PlayerHasSession ==
  \A m \in Maps : \A s \in pool[m] \cup stored[m] :
    Listed(s) /\ ses[s].plr /\ ses[s].mgr = m

\* A session of the table is always in the care of the pass that its instance
\* id names, or its player waits to be pushed into that map; a session in
\* nobody's care would never be updated again and its player never saved.
SomebodyUpdates ==
  \A s \in Sessions : Listed(s) =>
    IF ses[s].inst = Outside THEN s \in global
    ELSE s \in mapSess[ses[s].inst] \cup pool[ses[s].inst]

\* The passes go through sessions of the table only: a deleted session is in no
\* set by the time it is back in the pool.
NoPooledSession ==
  \A s \in global \cup UNION {mapSess[m] : m \in Maps} : Listed(s)

\* A LuaPlayer is loaded exactly as long as its session is in the table, and it
\* belongs to that session: no session is deleted without the final save that
\* LuaPlayer:Logout makes, and LogoutPlayer finds its player.  The exception is
\* a session whose player could not enter its map.
LuaPlayerHasSession ==
  \A p \in Players :
    LET s == sessions[p]
    IN lua[p] = IF s # None /\ ~ses[s].out THEN s ELSE None

\* A player has one session in the table and at most one that waits; any other
\* session object is free or has been dropped from every container.
OneSessionPerPlayer ==
  \A s \in Sessions, p \in Players :
    ses[s].guid = p <=> s \in {sessions[p], queued[p]} \ {None}

\* The instance id by which the passes choose a session is that of the map its
\* player is in or waits for, so no session is passed over for its player's sake.
InstanceIsMap ==
  \A s \in Sessions : ses[s].inst # Outside => ses[s].mgr = ses[s].inst

\* The sets of sessions agree with the table and with what the sessions say of
\* themselves: each session of the table is updated by the one pass that its
\* instance id names, its player's map, and the passes update no other.
SessionsHeld == TypeOK /\ SomebodyUpdates /\ NoPooledSession /\ InstanceIsMap

\* Sessions, player objects and LuaPlayers come and go together, one of each for
\* a player.
PlayersHaveSessions == PlayerHasSession /\ LuaPlayerHasSession /\ OneSessionPerPlayer

\* A player's session that was told to leave, or whose gateway connection was
\* taken from it, leaves the table in the end, wherever it is and whatever its
\* client does.
ClosingLeaves ==
  \A p \in Players :
    (/\ sessions[p] # None
     /\ ses[sessions[p]].logout # "off" \/ ses[sessions[p]].sock = None)
      ~> sessions[p] = None

\* When a gateway's connection is lost, the sessions it had in the table leave.
GatewayLossEnds ==
  \A p \in Players :
    (sessions[p] # None /\ LostGateway(ses[sessions[p]].sock)) ~> sessions[p] = None

\* Nobody's session is left over, whoever ends it.
SessionsEnd == ClosingLeaves /\ GatewayLossEnds

\* Once a session has been told to leave (Disconnect), its last data is that of
\* a player who quits: GameSession.h says of Disconnect that Update will then
\* send the gateway the packet that saves and quits.
CloseIsFinal ==
  [][\A s \in Sessions :
       (Listed(s) /\ ses[s].logout # "off" /\ ~ses[s].next) => ~ses[s].next']_vars

\* Park.cpp says of the session put into _queueSessions that it joins later, and
\* of the older one that it is waited for: a session that waits is not discarded.
DelayedJoin ==
  [][\A p \in Players :
       queued[p] # None => queued'[p] = queued[p] \/ sessions'[p] = queued[p]]_vars
=============================================================================
