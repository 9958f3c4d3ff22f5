# Formal models of the ARPG server framework

This directory holds TLA+ models of the server in `src/`, configurations that
check them with TLC, and proofs checked by TLAPS. Every definition is taken from
the code; `PROJECT.json` ("map") names the lines each one stands for. The
repository has no tests and a one-line README: what is said of the intended
behaviour is quoted from comments, log messages and assertions.

## 1. The system

Four kinds of process talk over TCP. All of them have a main loop with a fixed
order of passes, and network threads that run a connection's `OnUserPacketRecved`
and `OnDisconnect` concurrently with it. The socket library, the thread-safe
queues (`FastQueue`), the object pools and the event manager are not part of the
repository; they are modelled from how the code uses them.

| Component | State | Operations | What is hard | Module |
|---|---|---|---|---|
| Login server: accounts (`AccountCache`, `DirectSocket`, `InformationCore`) | account cache, documents, session keys | login of a client, creation of an account, a gateway's question about a key, reload | the cache and the database are changed in separate steps, with locks only around the cache | `LoginService` |
| Login server: gateways (`LogonCommServer`, `InformationCore`) | table of gateways and their load | registration, ping, timeout, loss | ids are drawn without a lock; load figures are written by network threads while gateways come and go | `ServerLinks` |
| Gateway: links (`LogonCommHandler`, `SceneCommHandler`, `*CommClient`) | the current connection to each server | connect, authenticate, ping, time out, notice a loss, cut clients off | the main loop and the network threads both clear the pointer; a mute line is noticed at each end on its own | `ServerLinks` |
| Gateway: sessions (`GameSocket`, `SceneCommHandler`, `LogonComm*`) | one `GameSocket` per client, sockets waiting for the login server, pending list, online list | authenticate, wait for an older client of the account, ask for roles, enter and change a scene, end in a dozen ways | three kinds of thread use the same lists; the locks are released between the steps of one callback | `GatewaySession` |
| Gateway: relay | per-connection packet queues | forward packets by session index and guid | order and loss when a queue is full | none |
| Central server: sessions (`PlayerMgr`, `PlayerServant`, `MasterCommServer`, Lua `player_manager`) | online list, pending list, servants, loaded `LuaPlayer`s, `online_flag` | role list request, role creation, game entry, scene notices, final save, close | a second login while the first one leaves; a scene server that does not answer; gateways that die at any time | `MasterServant`, `AccountLogin` |
| Central server: player data (Lua `player_*`, `lua_player`, `server_packet_handler`) | the loaded role, its document | load, save, coins, experience, levels, the exchange with the scene servers | which copy is right when a server stops, a role moves, or a packet changes its place | `PlayerData` |
| Central server: backpack (Lua `item_*`, `base_item`) | the items of a role and their documents | create, use, sell, spend, move, wear, tidy up, clear | partial success when the bag is full, several documents per operation, bound and unbound items of one kind | `Backpack` |
| Central server: queues (`MasterCommServer`) | a send and a receive queue per gateway | send, flush | a packet that does not fit goes to the back of its queue | `Requeue` of `PlayerData` |
| Central server: shop, mounts, skills, GM commands | fields of the role | checks and assignments | items and money are spent in several steps | their effects in `Backpack`, `PlayerData` |
| Central server: calendar (`WorldRunnable`) | times of the last resets | hourly, daily, weekly resets | which time stamp is compared | none |
| Central server: guild, mail, quest, social, team, charge | none | empty stubs | nothing | none |
| Scene server: sessions (`Park`, `GameSession`, `GateCommHandler`, `SceneCommServer`) | table of sessions, sessions outside any map, queued sessions | create, close, change of scene, logout with or without a save | a session moves between three owners; a new one for the same player arrives before the old one is gone | `SceneSession` |
| Scene server: maps (`MapMgr`, `MapCell`, `Object`, `Monster`) | cells, objects, the active monsters and two lists of pending changes | push, remove, move, activate, kill, respawn | activity follows players and fights from cell to cell; changes are applied a turn later | `MapGrid` |
| Scene server: monster AI and fights (Lua `base_ai`, `lua_monster`, `skill_*`, `player_combat`) | AI state, target, timers, hit points, effects under way | find a target, follow, attack, go home, be hurt, die, respawn; cast, hit, revive | timers and delayed effects that fire after the state they were planned in has changed | `MonsterCombat` |
| Scene server: synchronisation (`Player.cpp`, Lua `player_sync`) | what a player has gathered | periodic and final data for the central server | data in two places, sent out of order | `PlayerData` |
| Scene server: instances (`InstanceMgr`) | instances by map and id | create, enter, expire, delete | nothing creates one | none |
| Lua runtime (`LuaCommon/`) | timers, handlers | register, fire, cancel | a timer cancelled by its own callback | as used by `MonsterCombat` |
| Main programs, configuration, bindings; protocol files | start-up state | | I/O and layouts | none |

How they interact. A client gets a session key from the login server and connects
to a gateway. The gateway asks the login server about the key, keeps the client in
its pending list while another client of the account is online, then lists it as
online and sends a role list request to the central server. The central server
makes a servant (its session) or queues it behind the account's old one. Choosing
a role loads a `LuaPlayer`; the gateway is told which scene server to enter. The
scene server plays the role, sends experience and positions to the central server
through any gateway, and at the end its final data, after which the servant
leaves. A gateway that loses a client tells the scene server, or the central
server when it cannot reach the scene; a gateway that dies is noticed by the
network threads of both.

What makes the components correct, in short: one session of an account at a time
in every server, found under its own guid; nobody waits for ever; no list refers
to an object that has been deleted or pooled; a lost link is replaced and its
clients are cut off; what the database says of a role that is not loaded is that
it is offline; experience is not counted twice and coins change only in play;
items are conserved by every operation and the documents are the items in
memory; monsters near a player run and monsters far from all players do not; a
monster dies once and never stays in a state it has no timer to leave.
PROJECT.json ("hazards") names the line where each of these could go wrong.

## 2. The modules

* `AccountLogin` - the abstract promise of the central server to an account: at
  most one session holds it, later ones wait, and one of them takes over only
  when the holder has left. It says nothing of servants, gateways or packets.
* `MasterServant` - the sessions of the central server. `online` is
  `m_onlinePlayerList`, `queue` is `_queueServants`, `kept` the local list of the
  pass, `svt` the servant objects in their pool, `plr`/`saved` the Lua objects,
  `flag` the database's `online_flag`, `gate` the gateway connections. There is one
  action per packet handler (`HandleRequestRoleList`, `HandleCloseServantRequest`,
  `HandleSavePlayerDataReq`, ...), one for the pass over the servants, one per
  branch of the pass over the pending list, and the actions of the network
  threads and the clock. `pc` is the position of the main loop, whose order
  (receive, servants, their packets, pending list) is that of
  `WorldRunnable::run`. The code handles departures and packets servant by
  servant in one pass; the model lets all departures come before the packets,
  because servants of different keys touch no common state in that pass.
  A handler takes any guid, session index and gateway: nothing is assumed of the
  other servers.
* `GatewaySession` - the clients of one gateway. `sock` is the `GameSocket`,
  `waiting` is `m_pendingAuthSockets`, `pending` `m_pendingGameSockets`, `online`
  `online_players`, `call` the authentication callback under way on the login
  connection's thread, split wherever the code holds no lock. `asked` are the
  requests the login server has not answered. With `Interleaved = FALSE` a
  callback and an `OnDisconnect` each run in one piece, which isolates what goes
  wrong only because of the threads.
* `SceneSession` - the sessions of a scene server. `sessions` is `m_sessions` of
  `Park`, `global` its sessions outside any map, `mapSess`, `pool` and `stored` the
  `MapSessions`, `m_objectinsertpool` and `m_PlayerStorage` of the map managers,
  `queued` is `_queueSessions`, `ses` the session objects in their pool with their
  players, `lua` the `playerDataList` of the Lua side, `gate` the gateway
  connections. `pc` follows `WorldRunnable::run`: the maps push the players that
  wait (`maps`) and update their sessions (`mapSessions`), the gateways' packets
  are received (`recv`), then the sessions outside the maps are updated (`global`)
  and the waiting ones are looked at (`queue`). `todo` is what a pass has not come
  to. A session's `Update` takes several steps: it begins (`cur`), handles any
  packets of its client, each of which may move the session to another owner and
  so end the update, and ends with the look at the logout timer. Network threads
  and timers run between any two steps.
* `MapGrid` - the cells of a map. `grid` is one record, so that the operations of
  the code compose as they do there: where each object is (`at`), which monsters
  have a busy AI (`fight`) or `Active` set (`on`), which cells are active and
  loaded, and the two pending lists (`add`, `del`). `run` is `activeMonsters`,
  `life` the stages from birth to respawn. A pass over the active monsters runs
  from `StartPass` to `ApplyPending`; everything else a turn of the main loop does
  comes between two passes, in any order. `UpdateCellActivity` decides for all
  cells at once what the code decides in a loop: the decision depends on players
  and fights only, which the loop does not change.
* `LoginService` - accounts and session keys. `accounts` is the cache, `docs` the
  number of documents of each name, `keys` the session keys, `login` and `ask` what
  each `HandleLogin` of a client and each `HandleUserAccountAuthRequest` of a
  gateway does next. A step ends wherever the code releases `setBusy` or
  `m_sessionKeyLock`; a reload holds `setBusy` from its query to the removal of the
  names it did not find. The key is a digest of the name, so only its presence is
  kept. The assertion of `HandleLogin` is an outcome (`failed`).
* `ServerLinks` - the connections between a gateway and a login, central or scene
  server. One record per connection holds both ends: what the gateway knows of it
  (`gate`, `auth`, `known`, `pongLate`) and what the server does (`serv`, `list`,
  `reg`, `gid`, `pingLate`, `hand`). `cur` is the pointer of the gateway's handler,
  `wait` the connection whose challenge the main loop is waiting for (holding the
  lock that `ConnectionDropped` needs), `info` and `count` the login server's table
  of gateways and of their load. The gateway's main loop is `UpdateSockets`, its
  network thread `OnDisconnect`; the login server's packets run on its network
  threads in two steps where no lock covers both, those of the other servers on
  their main thread. Lines get lost, fall mute, or are slow (`Lose`, `FallMute`,
  `HeldUp`, `AuthTimeout`).
* `MonsterCombat` - one monster and the players around it. `m` is the AI of
  `base_ai.lua` (state, target, place, path, hit points, the timers that are set),
  `life` and `active` the monster on the map, `effects` the delayed damage of the
  players' skills, `blows` that of the monster's. There is an action for every
  timer (`RandMove`, `FindTarget`, `UpdateCombat`, `DoAttack`), for the walk and its
  end, for casts and their effects, for death, corpse and respawn, for the cell
  falling asleep and waking, and for what players do meanwhile (`Go`, `Relive`).
  `OnBeAttacked` and its like are operators on `m`, composed as the code composes
  the calls. `LuaMonster` makes every AI peaceful at present; the AI is modelled
  for all types it takes.
* `Backpack` - the items of one role. `bag` has the items (`item`) and the tables of
  the worn equipment, the backpack and the bank (`packs`); `db` are the documents of
  `player_items`; `writes` the documents an operation has still to write, each a
  step of its own, in the order of the code, with a crash possible between two.
  Memory is changed in one go, as the Lua code does. Where the code goes through
  `pairs()`, every order is allowed: `ContainItem` and `RemoveAmount` are the sets of
  ways to fill and to empty stacks.
* `PlayerData` - level, experience and coins of one role. `doc` is its document,
  `info` and `plr` what the central server has in memory, `copy` the scene server's
  player, `toMaster`, `toScene` and `arriving` the packets under way. Levels are
  written at once, experience at logout; coins are changed by the central server,
  written at once and sent to the scene. A packet may be put back to the end of
  its queue (`Requeue`), and either server may stop.
* `MC*` - values for the function-valued constants, and the symmetry sets.
* `MasterServantProofs`, `GatewaySessionProofs`, `SceneSessionProofs`,
  `MapGridProofs`, `MonsterCombatProofs`, `LoginServiceProofs`, `ServerLinksProofs` -
  the theorems about the module of that name. `PlayerProofs` - the theorems about
  the two modules on a role's data, `Backpack` and `PlayerData`.

The modules meet at the messages. What one sends, the other takes in any order
and any number: `MasterServant`, `GatewaySession` and `SceneSession` assume nothing
of the packets that come from the other processes. `ServerLinks` gives them the
losses of connections they model as actions (`GateClosing`, `ConnectionDropped`,
`OnSocketClose`); `MapGrid` takes fights as an input, `MonsterCombat` the sleep of
the cell; `PlayerData` takes logins and logouts as `MasterServant` and
`SceneSession` order them.

## 3. The runs

| Run | Checks | Shows |
|---|---|---|
| `MasterServant` | `SessionsKeyed`, `OneServantPerAccount`, `PoolAccounted`, `LuaPlayerHasServant`, `OnlineFlagCleared`, `NoFreedSocket` | the safety of the central server's sessions, with two gateways, two accounts (one with a role), three servants, when no gateway dies between the connection test and the admission of a queued login |
| `MasterServantLive` | `LoginsEnd`, `OneLoginAtATime` | queued logins and closing servants leave in the end, and `MasterServant` implements `AccountLogin`, with gateways that may die at that point too |
| `Gateway` | `ListsKeyed`, `OneClientPerAccount`, `InSceneReachable` | one online client per account, the lists' keys and their disjointness, with three connections of one account and all threads interleaved |
| `GatewayOrdered` | `NoStaleSocket`, `RemovesOwnPending`, `ClientsLeave` | with callbacks in one piece: no reference to a deleted socket, no client forgotten by the pending list, every client gets in or is cut off |
| `GatewayAuthRace` | `AuthRequestAssertion` (violated) | the finding: the assertion of `HandleAccountAuthResult` can fail |
| `SceneSession` | `SessionsHeld`, `PlayersHaveSessions`, `SessionsEnd` | with two gateways, one player with up to three session objects and two maps: every session in the table is in somebody's care, players and Lua objects do not outlive their session, and a session told to leave or whose gateway is lost leaves |
| `MapGrid` | `NearPlayersActive`, `ActivationAgrees`, `WokenWithCell`, `KilledRespawns` | with two players and a monster on four by two cells: cells near players are active, monsters run in active cells only, the pending lists never lose a change, and a killed monster respawns |
| `LoginService` | `AccountsRecorded`, `GrantsBounded` | an account the server knows is in the database or about to be; a key lets a client in at most once per login and gateway connection that asks for it at that moment |
| `ServerLinks` | `LinkAlive`, `Registrations`, `LostLinksEnd`, `ClientsCut` | the pointer a gateway works with is not to a connection that has ended; the login server's table has one entry per registered gateway; lost links are replaced and forgotten, and their clients cut off |
| `MonsterCombat` | `Watched`, `KilledOnce`, `EvadeEnds`, `TargetDropped` | a monster that fights or goes home has the timer that brings it back, is killed and rewarded once, and gives up targets that are gone |
| `Backpack` | `Placed`, `WithinLimits`, `DbAgrees`, `UnitsKept` | items are in one table within its limit, the documents are the items whenever an operation is over, moving and tidying up conserve units |
| `PlayerData` | `ExpCountedOnce`, `AcceptedKept`, `CoinsKept`, `GainedIsSent` | experience is never counted twice, what the central server accepted is kept, coins change in play only, and what a scene server gathered is sent |

Several properties are conjunctions of named parts, each with its own comment
(`SessionsKeyed` is the type invariant, `OnlineKeyed` and `ReAddAssertion`).

Bounds. Two gateways are enough for every property that compares a servant's
gateway with another's; the handlers never relate more than two. Three servants
give one online and two pending of one account, or sessions of two accounts. One
session index makes all sessions collide, which is the worst case for the code's
comparisons. `WaitLimit = 0` and `ReclaimAfter = 3` keep the order of the two
deadlines (5 s and 15 s in the code); the clock ticks at most once per turn of the
main loop, which is what a turn of 50 ms with a one-second resolution allows at
most. Three connections let one client replace another that is replacing a third.
Symmetry is used for gateways, servants and sockets, in safety runs only.
In `SceneSession` three session objects are the one in the table, one that waits
and one more that asks; `MaxMoves = 1` and `MaxAsks = 2` bound what clients and
gateways ask for during one session, without which no session would have to come
to rest (a gateway that asks again sets the timer again). The two maps are one
this server serves and one it does not. One player is enough for the liveness
run, because sessions of different players share only the passes. In `MapGrid`
a row of four cells holds a jump of more than two cells and the shorter ones, and
the second row tells the two coordinates apart; two players can keep each other's cells
active; monsters share nothing but the lists, which are keyed by guid.

`LoginService`: two clients can log in to one account at once or to two; two
gateways can ask for one key at once; two logins of an account reuse its key, and
one reload can fall between any two steps. `ServerLinks`: three connections let a
late `OnDisconnect` meet the connection that replaced the one it is about, with a
third to come; one fault of any kind is enough to bring every handler into play,
and the timeouts need none. A login server runs beside a central or a scene
server, because links to the latter two share nothing but the lock, which the
login server's does not. `MonsterCombat`: one player, because the monster keeps
nothing of a player but that it is its target, and the others only add choices of
targets; three places are home, the end of the leash and beyond it; two hit
points tell hurt from dead; one effect of the player may be under way when
another cast, whose damage is done at once, kills the monster.
`Backpack`: a backpack of two places and a bank of three fill up at once; stacks
of three take two units at a time in whole, in part and over the edge; three
guids are one more than the backpack holds; one crash falls between any two
writes. `PlayerData`: two scene servers and one move; two points of experience
and needs of one and two points give a level, a rest that stays in memory, and a
packet with less than a level; two logins are a first one and one that must not
be taken for it; one fault is a stop of either server or a packet put back.

Fairness. `MasterServant!FairSpec`: the main loop's own steps and the clock are
weakly fair, because the loop is a thread that never blocks on a peer; handlers,
gateways and clients are not fair. `GatewaySession!FairSpec`: the main loop, the
rest of a callback that has begun and the `OnDisconnect` of a connection that is
down; the login server, the clients and the central server owe nothing.
`SceneSession!FairSpec`: the main loop, the logout timers and the `OnSocketClose`
of a connection that has gone. Without `MaxAsks` this would not do: each
`InvalidSession` sets the timer anew. `MapGrid!FairSpec`: the main loop weakly, a
monster's events strongly, because they are enabled between two passes only and
the event holder runs all that are due once in every turn. `ServerLinks!FairSpec`:
the gateway's `UpdateSockets` (it runs every turn; a new connection strongly,
since the retry time comes again as long as the link is missing), callbacks of
connections that are down, handlers of packets that have arrived, and the clocks;
that a link stands is not assumed. `MonsterCombat!Spec`: the update timer, which
is set again after each call, and the walk of a monster that the map updates;
attacks, searches and players are not fair. `PlayerData!FairSpec`: the periodic
synchronisation of a player in the world and a logout that the scene server has
scheduled. `LoginService` and `Backpack` state no liveness: their operations end
by themselves.

### Statements the code does not keep

`GatewayAuthRace` is the recorded finding: `HandleAccountAuthResult` releases the
pending lock and then asserts `sock->m_nAuthRequestID == request_id`, while the
client's `OnDisconnect` may reset it. The following configurations check one
property each, which quotes a comment or an assertion, and TLC refutes it. They
can be run by hand with `tlc -config <name>.cfg <module>`.

| Configuration | Module | Property | What the code says | What happens |
|---|---|---|---|---|
| `MasterServantRace` | `MCMasterServant` | `NoFreedSocket` | `PlayerServant.cpp:181`: no servant keeps the pointer of a socket until it is reclaimed | a gateway whose `OnDisconnect` runs between the test at `PlayerMgr.cpp:221` and `AddServant` leaves its queued login online with a pointer that outlives the socket |
| `GatewayUnreported` | `MCGatewaySession` | `SessionEndReported` | `SceneCommHandler.cpp:313`: the end of a session is reported | a client that ends after the role list request and before it enters a scene is reported to nobody |
| `SceneSessionClose` | `MCSceneSession` | `CloseIsFinal` | `GameSession.h:96`: after `Disconnect`, `Update` saves and quits | a change of scene among the packets handled in the same `Update` turns the last data into that of a player who goes on |
| `SceneSessionJoin` | `MCSceneSession` | `DelayedJoin` | `Park.cpp:506`: the session joins later | the waiting session is discarded while the older one is still leaving |
| `LoginServiceReload` | `MCLoginService` | `AccountAssertion` | `DirectSocketMsgHandler.cpp:40`: `ASSERT(pAccount != NULL)` | a reload between the new account's entry into the cache and its insertion into the database takes it out again |
| `ServerLinksCut` | `MCServerLinks` | `ClientsAlwaysCut` | `SceneCommHandler.cpp:111`: clients are closed in `ConnectionDropped`, which both ways of losing a connection reach | a scene server's connection that ends after its authentication and before it is given the server's id does not call it: its `OnDisconnect` does nothing, and clients who then enter stay |
| `MonsterCombatCorpse` | `MCMonsterCombat` | `DeadHasNoTimers` | `base_ai.lua:417`: all timers are taken off | `EnterActiveMode` sets timers on a corpse when a player comes near its cell again |
| `BackpackBind` | `MCBackpack` | `BindKept` | `item_interface.lua:213`: stacks that are bound alike are looked for | a stack that was bound by use and is moved into one found by the binding its prototype starts with loses its binding |
| `PlayerDataNewRole` | `MCPlayerData` | `NewRoleIsNew` | `player_db.lua:47`: the first login of a new role | when the central server stops during the first session, the next login gives the role its start values again |
| `PlayerDataSavedBack` | `MCPlayerData` | `SavedBack` | `player_sync.lua:7`: the data is saved back to the central server | experience gathered since the last synchronisation is not in the data sent at logout |
| `PlayerDataSceneCoins` | `MCPlayerData` | `SceneKnowsCoins` | `player_money.lua:215`: the coins are synchronised to the scene server | coins that change between the data for the next scene server and its notice of arrival go to the old one |

## 4. The proofs

`MasterServantProofs` proves for every number of gateways, accounts, roles,
servants, and every deadline (assumption `ConstantsAssumption`):

* `TypeCorrect` - the type invariant;
* `OneServantPerAccountHolds` - an account has at most one servant online;
* `OnlineKeyedHolds` - the online list is keyed by the servants' own guids;
* `ReAddAssertionHolds` - the assertion of `ReAddServantWithRealGuid` holds;
* `SessionsKeyedHolds` - the three together, the property `SessionsKeyed`;
* `PoolAccountedHolds` - a pool slot is in exactly one place;
* `LuaPlayerHasServantHolds` - a loaded `LuaPlayer` has the servant that is online
  under its role;
* `OnlineFlagClearedHolds` - the database says that a role which is not loaded, or
  which the scene has saved for the last time, is offline;
* `OneLoginAtATimeHolds` - the module implements `AccountLogin`;
* `NoFreedSocketHolds` - a servant has let go of its gateway's socket before the
  socket's memory is reclaimed, as long as no network thread runs between the check
  of a pending servant and its admission (`~Preempted`). `MasterServantRace` shows
  that this is needed: with `Preempted` TLC finds the freed socket.

None of the first six but the type invariant is inductive alone. A servant changes its key when it
enters the game, so "keyed by its guid" needs "one servant per account" (the role's
key must be free), and "one per account" needs the key to tell the account:
`online[k]` must belong to the account of `k`, else the search by account and the
search by guid could disagree. Both need the pool: a servant taken from the pool
must not be listed. `SessionInv` is the conjunction of these and of the fact that a
servant about to be admitted (`pc = "add"`) still heads the queue and has a free
account. The proof has one step per action. Lemmas about the pending list as a
sequence without repetitions (`ElemsTail`, `DistinctAppend`, ...) stand at its
beginning.

For the refinement an account's holder is its servant in the online list
(`HolderMap`) and those who wait are its servants in the pending list (`WaitingMap`).
Every action is a step of `AccountLogin` for one account or leaves both maps alone;
that the holder is one servant, and that a servant which waits does not hold, comes
from `SessionInv`. `NoFreedSocketHolds` is about time: `SocketAges` bounds, for every
servant that still has the socket of a closed connection, how long ago it closed, by
what the main loop must have done since. The pass over the pending list and the one
over the online list each run once in a turn, and a turn is shorter than the limit
(`ConstantsAssumption`), so the bound is kept by each of them.

`GatewaySessionProofs` proves, for any number of clients, accounts and guids:

* `ListsKeyedHolds`, `OneClientPerAccountHolds`, `InSceneReachableHolds` - the three
  safety properties of the client lists, when sockets are not deleted or callbacks
  do not interleave with the passes (`Orderly`), the two cases their runs check;
* `NoStaleSocketHolds` and `RemovesOwnPendingHolds` - no list refers to a freed
  socket, and a client's end removes its own entry only, when callbacks do not
  interleave (`~Interleaved`). `GatewayAuthRace` shows that they need this.

`ListsInv` is inductive under `Orderly`. It says which sockets have a guid and when
(`Guided`, `OneGuid`), that the socket of a callback under way is not listed yet
(`CallNew`), that each list holds a socket under the keys the socket has (`Keyed`),
that no socket is in both lists (`Apart`), that who plays is online
(`InSceneReachable`), and, for the runs without interleaving, that a closed socket has
left the lists (`ClosedOut`) and a connected one is in one of them (`HeldOnce`). Without `Orderly` it is false: a callback can insert a socket
that is down already, the pass deletes it, and the list keeps what is a new client's
memory later, so that even the keys are wrong.

`ServerLinksProofs` proves, for any number of gateways, connections and faults:

* `LinkAliveHolds` - the pointer a gateway works with is not to a connection that has
  ended, with the one exception `LinkAlive` names;
* `RegistrationsHolds` - the login server's table of gateways and its counters agree
  with its connections, for every id that was given out once.

`LinksInv` has three parts. `Fits` is about one connection: what its two ends can
be at the same time. `Pointers` tells why `OnDisconnect` finds what it has to clear:
a connection that the gateway does not wait for has been answered, and while it
waits the lock keeps `OnDisconnect` out. `Tables` has a counting argument: an id is
drawn when a challenge has been handled, so `idHigh` is at most the number of
connections whose challenge is over (`Spent`), and with it the ids stay within the
table although two threads may draw the same one; two connections have one id
only if it is in `twice`.

`SceneSessionProofs` proves, for every number of gateways, players, session slots
and maps and every bound, both safety properties of its run:

* `SessionsHeldHolds` - `SessionsHeld`: each session of the table is in the set of
  the pass that its instance id names, and no pass sees a session that has gone;
* `PlayersHaveSessionsHolds` - `PlayersHaveSessions`: players and `LuaPlayer`s come
  and go with their sessions.

`Inv` adds to the properties what a step needs. A map's set may still hold a
session that left for the outside before its turn, but only while the pass has not
come to it (`Located`); with `Passing`, what the pass has still to do is in the set
it goes through, and the session whose update is under way is where the pass found
it. So `DeleteSession`, which erases from one set, leaves no copy in another
(`EndSessionInv`), and `RemoveFromWorld` in the middle of an update leaves no
player in a map (`RemoveFromWorldInv`). That a session which waits is not in the
table and has been nowhere (`Owned`, `Fresh`) is what lets it join. The lemmas on
`SessionRecords` say what each handler makes of a session object.

`MapGridProofs` proves, for a grid of any size and any number of players and
monsters:

* `ActivationAgreesHolds` - the pending lists lead to the monsters that have
  `Active` set, which are in active cells;
* `NearPlayersActiveHolds` - the cells around every player are active;
* `WokenWithCellHolds` - a monster asleep in an active cell walked there in its sleep,
  in the pass after its deactivation; no other step leaves one behind.

The operations of the map are composed of a few, so the proof is by lemmas about
the record between two of them: each of `Activate`, `Deactivate`, `SetActivity` and
the moves keeps `Sound` (a monster that is somewhere was born with its cell, one
with `Active` set is in an active cell) and `Agrees` (what `ApplyPending` would make
of the lists), and what a later operation relies on is still so (`Later`). A cell
that a leaving player lets go of is not near another one, because being near is
symmetric (`AroundSymmetric`). For `WokenWithCell` each operation is shown to add no
monster to `Asleep`, those that sleep in an active cell; only `UpdateMoving` may.

`MonsterCombatProofs` proves, for any number of players, places, hit points and
effects under way and for every type of AI:

* `WatchedHolds` - a monster that fights or goes home has the timer that ends it;
* `KilledOnceHolds` - one that does not look for targets dies and is rewarded once
  in each life.

`CombatInv` says in addition that a dead monster of such a type rests: its AI is
idle and only the timer of its random walk may be set, so nothing in it can bring
it back to a fight before it respawns. Each operator on the monster has a lemma
that says which of its fields it changes.

`LoginServiceProofs` proves `AccountsRecordedHolds`, the property
`AccountsRecorded`, for any number of clients, gateway connections, logins and
reloads. `RecordInv` adds that the names a reload has read have documents, which
are never taken away, and that before the first reload whoever has looked an
account up still finds it. `GrantsBoundedHolds` proves that a login lets its account
in at most once by each gateway connection: `Share` charges to every login that has
ended the connections that may still accept the key it set, which are all but those
that are about to delete it.

`PlayerProofs` proves of `Backpack`, for any prototypes, stack sizes, limits and
equipment, any number of items and crashes:

* `PlacedHolds` - every item is in the one table its `pack_index` names, and every
  stack holds at least one unit and at most its prototype's limit;
* `WithinLimitsHolds` - the backpack and the bank keep their limits, also when a
  crash cuts off the writes of an operation, and as long as nothing has crashed one
  item is worn at each place;
* `DbAgreesHolds` - when an operation is over the documents are the items, and while
  a move is written they hold no unit less than the items;
* `UnitsKeptHolds` - a move and a tidying up keep the units of every prototype.

None of the four is inductive, because the documents come back as the items after a
crash: `WithinLimits` has to hold of the documents at every point between two writes.
`BackpackInv` says that what is still to be written covers every difference between
the documents and the items (`WritesInv`), that among those writes no item comes into
a pack with a limit before one that has to leave it is gone (`Ordered`: a piece of
equipment taken off goes into the pack after the one put on has left it), and that in
a move no stack is lowered before the stacks it fills are raised (`RaisedFirst`). One
lemma, `Performed`, reduces the request handlers to what they leave behind (`Sound`);
`WriteStep` shows that a single write keeps the rest, `CrashStep` that the documents
alone are enough to go on from. Creating items is a step that only adds (`Grown`), so
that a bonus of several entries is followed entry by entry (`SoundGrown`).

The sums over the stacks and the recursions of `Bonus` and `MergedStacks` need
induction, and the induction theorems of the library, which take an operator, cannot be
instantiated. They are replaced by the existence of a least counter-example, among
natural numbers (`Least`) or among the subsets of a finite set (`LeastSubset`). With it
the lemmas on sums say that `Sum` is additive, monotone and the same on two functions
that agree, that the recursions have a solution (`IterExists`, `MergeExists`), and that
each turn of the merge keeps the sum of the stacks (`TurnBalanced`). So nothing is
assumed of the order in which `pairs()` finds the stacks.

Of `PlayerData`, `PlayerProofs` proves, for any scene servers, any levels and what they
need, any coins, and any number of logins, changes of scene server, stops of a server
and packets put back:

* `ExpCountedOnceHolds` - what a role owns, what is on the way to the central server
  and what a scene server has gathered are together within what was earned;
* `AcceptedKeptHolds` - experience that was taken stays until a server stops or a
  packet is put back, and a level stays in any case;
* `CoinsKeptHolds` - coins change in play only, with the exception `CoinsKept` names.

`RoleInv` has five parts besides the types. `ExpInv` bounds what the document holds as
well as what the `LuaPlayer` does, because a stop of the central server goes back to the
document; it also says that a level gained is in the document at once. `LoginInv`
tells what the document may lack of a role that is logged in, and that only a role
whose first session was ended by a stop can be taken for a new one. `SessionsInv` keeps
the sessions of copies and packets at or below the number of logins, so that a packet
of an earlier session is never taken for one of this session. `PlaceInv`, which holds
until something stops or a packet is put back, is why `Logout` may leave out the save
after `HandleSavePlayerDataReq`: the role is on its way to a scene server, on one, in
the one packet of this session that ends its visit, or saved, and no packet with
experience comes after that one. With a packet put back it is false, and experience is
lost, as the condition of `AcceptedKept` says. `ExpInv` is followed through the queue
by the lemmas on the sum of what its packets carry (`UnderAppend`, `UnderTail`), and
through a rise by several levels by `ReachedFacts`: there is a level to rise to, again
by a least element, and what it needs is not more than what the role has.

The theorems assume what `ConstantsAssumption` (in `PlayerData`, `RoleAssumption`)
says of the constants. That `Off` is none of the values it stands for the absence of holds of any model value.

So of the properties the passing runs check, only the liveness properties are
model-checked alone. They are out of the prover's reach, and with them ENABLED and so
that no state is a deadlock. No module declares a RECURSIVE operator.

## 5. What is not modelled

See "components" in `PROJECT.json` for each.

* Instances. `InstanceMgr` has code to create and delete them, but nothing calls
  it: the teleports that are carried out lead to normal scenes, whose maps are
  made at the start, and `EjectFromInstance` is empty. A model would have to
  invent its callers.
* The relay of packets at the gateway, and the queues at both its ends. Their
  effect, packets lost or overtaken, is part of the modules that receive them;
  the queues themselves are loops over a network buffer.
* The calendar (`WorldRunnable`): a function of the clock that changes its own
  time stamps and announces events that have no receiver. That the weekly check
  compares with the time stamp of another reset (`WorldRunnable.cpp:94`) is
  listed as a hazard without a property.
* Guild, mail, quest, social, team and charge are empty stubs.
* Main programs, configuration, databases, tables of Lua bindings, protocol
  layouts and vendored code: no protocol state.

Within the modelled components: packet contents, relogin tokens (their use is
commented out), the packet backlog and the per-address limit of the gateway, and
the order of packets on a connection (the session modules take packets in any
order, which only adds behaviours to the safety runs). `SceneSession` takes
`CreatePlayer` to succeed; the hazard of its failure is listed. It does not keep
`bDeleted`, which is set only in the call that deletes the session, nor a client's
packets to a session that has lost its player object, and takes a connection to
report itself as connected until its `OnDisconnect` returns. `MapGrid` is about
normal scenes (instances force all their cells), leaves out positions within a
cell and with them the in-range sets, and monsters that do not respawn. What is
not stated of the map because it does not hold: a cell with nobody near need not
be inactive. It stays active after a jump of exactly two cells (`MapMgr.cpp:672`
speaks of two, the condition says more than two), and after a fight that ends far
from all players; and a monster that was deactivated after a pass takes one more
step in the next one, and if that leads into an active cell it stays there without
being updated. `LoginService` takes banned addresses as an input and leaves out
the choice of the least loaded gateway and the registration by PHP, whose call is
commented out. `ServerLinks` takes challenges that are handled to be accepted.
`MonsterCombat` leaves out the threat list, which nothing reads, the formulas and
shapes of skills (arithmetic on floating point numbers), fights between players,
auras and partners. `Backpack` leaves out what an item does when it is used,
beyond how many units of it are gone, and smelting, an empty handler.
`PlayerData` leaves out hit points and positions, which are copied, cash, which is
handled as coins are, play time and names.

## 6. Plan

Done: `AccountLogin`, `MasterServant`, `GatewaySession`, `SceneSession`, `MapGrid`,
`LoginService`, `ServerLinks`, `MonsterCombat`, `Backpack`, `PlayerData`, and the proofs
of their safety properties.

Worth modelling later: gateway, central and scene server composed over FIFO links
(equal session indices of two gateways, stale answers), the in-range sets of
`MapGrid` as a symmetric relation, and instances once something creates them.
