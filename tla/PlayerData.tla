----------------------------- MODULE PlayerData -----------------------------
(***************************************************************************)
(* The level, the experience and the coins of one role: the document of    *)
(* character_datas, the PlayerInfo and the LuaPlayer of the central        *)
(* server, and the copy a scene server works on.  Experience is earned on  *)
(* a scene server, gathered there and sent to the central server from time *)
(* to time; levels and coins are decided by the central server, written at *)
(* once and sent back.  The role may log out, change to another scene      *)
(* server, be dropped by the central server, and either server may stop.   *)
(*                                                                         *)
(* Cash is handled as coins are; hit points and positions are copied, and  *)
(* left out.  Sessions themselves are MasterServant's and SceneSession's:  *)
(* here a copy on a scene server is made once the last one is gone.        *)
(***************************************************************************)
EXTENDS Integers, Sequences, Functions, TLC

CONSTANTS
  Scenes,      \* scene server ids
  MaxLevel,    \* MAX_PLAYER_LEVEL
  NeedExp,     \* GetLevelUpNeedExp: the experience for each level
  CoinLimit,   \* the coins a role may have
  MaxExp,      \* bound on the experience earned
  MaxMoney,    \* bound on the changes of coins
  MaxLogins,   \* bound on the logins
  MaxMoves,    \* bound on the changes of scene server
  MaxFaults,   \* bound on the stops of a server and the packets put back
  Off

\* The LuaPlayer of the central server, the data for the scene server to be
\* entered, and the LuaPlayer there.
Players == [exp : Nat, coins : 0..CoinLimit, first : BOOLEAN, saved : BOOLEAN]
Entries == [scene : Scenes, level : 1..MaxLevel, coins : 0..CoinLimit]
Copies ==
  [at : Scenes, level : 1..MaxLevel, coins : 0..CoinLimit, gained : Nat,
   lua : BOOLEAN, cpp : BOOLEAN, next : Scenes \cup {Off}, session : Nat]

ASSUME RoleAssumption ==
  /\ Scenes \subseteq Nat \ {0}
  /\ Off \notin Scenes \cup Players \cup Entries \cup Copies
  /\ MaxLevel \in Nat \ {0} /\ NeedExp \in [2..MaxLevel -> Nat \ {0}]
  /\ {CoinLimit, MaxExp, MaxMoney, MaxLogins, MaxMoves, MaxFaults} \subseteq Nat

VARIABLES
  doc,       \* the document in character_datas
  info,      \* PlayerInfo: level, and whether last_online_time is set
  plr,       \* the LuaPlayer of the central server, or Off
  home,      \* the scene server its servant knows of, or 0
  arriving,  \* the data under way to the scene server to be entered, or Off
  copy,      \* the LuaPlayer of the scene server, or Off
  toMaster,  \* packets to the central server
  toScene,   \* packets to the scene servers
  earned,    \* the experience earned so far
  count      \* how often the bounded things have happened

roleVars == <<doc, info, plr, home, arriving, copy, toMaster, toScene, earned, count>>

Happens(what, limit) == count[what] < limit /\ count' = [count EXCEPT ![what] = @ + 1]
Fault(what) == count.crash + count.requeue < MaxFaults /\ Happens(what, MaxFaults)

RoleInit ==
  /\ doc = [level |-> 1, exp |-> 0, coins |-> 0, logged |-> FALSE]
  /\ info = [level |-> 1, logged |-> FALSE]
  /\ plr = Off /\ home = 0 /\ arriving = Off /\ copy = Off
  /\ toMaster = <<>> /\ toScene = <<>> /\ earned = 0
  /\ count = [login |-> 0, money |-> 0, move |-> 0, crash |-> 0, requeue |-> 0]

-----------------------------------------------------------------------------
(* The central server *)

\* FillEnterGameData
EnterGameData(s, p) == [scene |-> s, level |-> info.level, coins |-> p.coins]

\* A role without last_online_time is taken for a new one.
LoadFromDB ==
  LET old == info.logged
  IN  [exp |-> IF old THEN doc.exp ELSE 0, coins |-> IF old THEN doc.coins ELSE 0,
       first |-> ~old, saved |-> FALSE]

\* ChoosePlayerEnterGame
ChoosePlayerEnterGame(s) ==
  /\ plr = Off /\ arriving = Off
  /\ Happens("login", MaxLogins)
  /\ plr' = LoadFromDB
  /\ info' = [info EXCEPT !.logged = TRUE]
  /\ arriving' = EnterGameData(s, LoadFromDB)
  /\ UNCHANGED <<doc, home, copy, toMaster, toScene, earned>>

\* SyncObjectDataToScene: sent to the scene server the servant knows of.
SyncToScene(m) == Append(toScene, [m EXCEPT !.scene = home])

\* Mutants: the save of the money waits for the logout, which forgets it;
\* nothing is saved at logout.
SaveNoMoney(coins) == doc
SaveNothing == doc

SavePlayerToDB == [doc EXCEPT !.level = info.level, !.exp = plr.exp, !.logged = TRUE]

SaveMoneyDataToDB(coins) == [doc EXCEPT !.coins = coins]

\* AddCoins and DeductCoins, and the same for cash.
ChangeCoins(coins) ==
  /\ plr # Off /\ coins # plr.coins
  /\ Happens("money", MaxMoney)
  /\ plr' = [plr EXCEPT !.coins = coins]
  /\ doc' = SaveMoneyDataToDB(coins)
  /\ toScene' = SyncToScene([scene |-> 0, level |-> 0, coins |-> coins])
  /\ UNCHANGED <<info, home, arriving, copy, toMaster, earned>>

\* The experience of all the levels up to one.
ExpOf(l) == FoldFunction(+, 0, [k \in 2..l |-> NeedExp[k]])

\* The level a role of level l reaches with e beyond it.
Reached(l, e) ==
  CHOOSE n \in l..MaxLevel :
    /\ ExpOf(n) - ExpOf(l) <= e
    /\ n < MaxLevel => ExpOf(n + 1) - ExpOf(l) > e

\* UpdateLevel: a level gained is written with the experience and sent to the
\* scene server; experience alone stays in memory.
UpdateLevel(add) ==
  LET sum == plr.exp + add
      level == Reached(info.level, sum)
      rest == sum - (ExpOf(level) - ExpOf(info.level))
  IN  /\ info' = [info EXCEPT !.level = level]
      /\ plr' = [plr EXCEPT !.exp = rest]
      /\ IF level = info.level THEN UNCHANGED <<doc, toScene>>
         ELSE /\ doc' = [doc EXCEPT !.level = level, !.exp = rest]
              /\ toScene' = SyncToScene([scene |-> 0, level |-> level, coins |-> -1])

Receive(kind) == toMaster # <<>> /\ Head(toMaster).kind = kind /\ toMaster' = Tail(toMaster)

\* HandleSyncObjectDataFromScene
HandleSyncObjectData ==
  /\ Receive("sync")
  /\ IF plr # Off /\ Head(toMaster).exp > 0 THEN UpdateLevel(Head(toMaster).exp)
     ELSE UNCHANGED <<info, plr, doc, toScene>>
  /\ UNCHANGED <<home, arriving, copy, earned, count>>

\* HandleEnterSceneNotice
HandleEnterSceneNotice ==
  /\ Receive("enter")
  /\ home' = IF plr # Off THEN Head(toMaster).scene ELSE home
  /\ UNCHANGED <<doc, info, plr, arriving, copy, toScene, earned, count>>

\* HandleSavePlayerDataReq: hand the role to the next scene server, or save it.
\* One of an earlier session is refused.
HandleSavePlayerData ==
  LET m == Head(toMaster)
  IN  /\ Receive("save")
      /\ IF plr = Off \/ m.session # count.login THEN UNCHANGED <<doc, plr, arriving>>
         ELSE IF m.next # 0
           THEN arriving' = EnterGameData(m.next, plr) /\ UNCHANGED <<doc, plr>>
           ELSE /\ doc' = SavePlayerToDB
                /\ plr' = [plr EXCEPT !.saved = TRUE]
                /\ UNCHANGED arriving
      /\ UNCHANGED <<info, home, copy, toScene, earned, count>>

\* LuaPlayer:Logout, when the data has come or is no longer waited for.
LogoutPlayer ==
  /\ plr # Off
  /\ doc' = IF plr.saved THEN doc ELSE SavePlayerToDB
  /\ plr' = Off /\ home' = 0 /\ arriving' = Off
  /\ UNCHANGED <<info, copy, toMaster, toScene, earned, count>>

\* The central server stops; at the restart it reads its PlayerInfo objects.
MasterCrash ==
  /\ Fault("crash")
  /\ info' = [level |-> doc.level, logged |-> doc.logged]
  /\ plr' = Off /\ home' = 0 /\ arriving' = Off
  /\ toMaster' = <<>> /\ toScene' = <<>>
  /\ UNCHANGED <<doc, copy, earned>>

-----------------------------------------------------------------------------
(* The scene servers *)

\* CreatePlayer and LuaPlayer:InitData: setting the hit points marks the
\* object to be sent, then the script's own mark is cleared.
CreatePlayer ==
  /\ arriving # Off /\ copy = Off
  /\ copy' = [at |-> arriving.scene, level |-> arriving.level, coins |-> arriving.coins,
              gained |-> 0, lua |-> FALSE, cpp |-> TRUE, next |-> Off,
              session |-> count.login]
  /\ arriving' = Off
  /\ toMaster' = Append(toMaster, [kind |-> "enter", scene |-> arriving.scene])
  /\ UNCHANGED <<doc, info, plr, home, toScene, earned, count>>

IsInWorld == copy # Off /\ copy.next = Off

\* SetDataSyncFlag
SetDataSyncFlag(c) == IF c.lua THEN c ELSE [c EXCEPT !.lua = TRUE, !.cpp = TRUE]

\* Mutant: the gathered experience is sent again the next time.
ResetMarksOnly(c) == [c EXCEPT !.lua = FALSE, !.cpp = FALSE]

\* Mutant: the script's mark stays.
ResetCppOnly(c) == [c EXCEPT !.gained = 0, !.cpp = FALSE]

\* The end of SyncPlayerDataToMaster, and ResetSyncObjectDatas.
ResetSyncData(c) == [c EXCEPT !.gained = 0, !.lua = FALSE, !.cpp = FALSE]

\* AddPlayerExp
AddPlayerExp(e) ==
  /\ IsInWorld /\ earned + e <= MaxExp
  /\ earned' = earned + e
  /\ copy' = SetDataSyncFlag([copy EXCEPT !.gained = @ + e])
  /\ UNCHANGED <<doc, info, plr, home, arriving, toMaster, toScene, count>>

\* Player::Update, every tenth time.
SyncUpdateDataMasterServer ==
  /\ IsInWorld /\ copy.cpp
  /\ toMaster' = Append(toMaster, [kind |-> "sync", exp |-> copy.gained])
  /\ copy' = ResetSyncData(copy)
  /\ UNCHANGED <<doc, info, plr, home, arriving, toScene, earned, count>>

\* HandleSyncObjectDataFromMaster; a level gained heals, which is to be sent.
HandleObjectDataFromMaster ==
  /\ toScene # <<>> /\ toScene' = Tail(toScene)
  /\ LET m == Head(toScene)
     IN  copy' = IF copy = Off \/ copy.at # m.scene THEN copy
                 ELSE IF m.coins >= 0 THEN [copy EXCEPT !.coins = m.coins]
                 ELSE IF m.level > copy.level
                   THEN SetDataSyncFlag([copy EXCEPT !.level = m.level])
                 ELSE copy
  /\ UNCHANGED <<doc, info, plr, home, arriving, toMaster, earned, count>>

\* SceneServerChangeProc, to a map of another scene server: out of
\* the world, and logged out a little later.
LeaveForScene(s) ==
  /\ IsInWorld /\ s # copy.at
  /\ Happens("move", MaxMoves)
  /\ copy' = [copy EXCEPT !.next = s]
  /\ UNCHANGED <<doc, info, plr, home, arriving, toMaster, toScene, earned>>

\* LuaPlayer:Logout on the scene server and SaveBackDataToMaster: what has
\* been gathered since the last synchronisation is not in the packet.
SceneLogout ==
  /\ copy # Off
  /\ toMaster' = Append(toMaster,
       [kind |-> "save", next |-> IF copy.next = Off THEN 0 ELSE copy.next,
        session |-> copy.session])
  /\ copy' = Off
  /\ UNCHANGED <<doc, info, plr, home, arriving, toScene, earned, count>>

SceneCrash ==
  /\ copy # Off /\ Fault("crash")
  /\ copy' = Off
  /\ UNCHANGED <<doc, info, plr, home, arriving, toMaster, toScene, earned>>

\* The send queue of CSceneCommServer: a packet that does not fit goes to the back.
Requeue ==
  /\ Len(toMaster) > 1 /\ Fault("requeue")
  /\ toMaster' = Append(Tail(toMaster), Head(toMaster))
  /\ UNCHANGED <<doc, info, plr, home, arriving, copy, toScene, earned>>

RoleNext ==
  \/ \E s \in Scenes : ChoosePlayerEnterGame(s) \/ LeaveForScene(s)
  \/ \E n \in 0..CoinLimit : ChangeCoins(n)
  \/ \E e \in 1..MaxExp : AddPlayerExp(e)
  \/ HandleSyncObjectData \/ HandleEnterSceneNotice \/ HandleSavePlayerData
  \/ LogoutPlayer \/ CreatePlayer \/ SyncUpdateDataMasterServer
  \/ HandleObjectDataFromMaster \/ SceneLogout
  \/ MasterCrash \/ SceneCrash \/ Requeue

RoleSpec == RoleInit /\ [][RoleNext]_roleVars

\* The scene server keeps updating a player in its world and carries out the
\* logout it has scheduled.
FairSpec ==
  /\ RoleSpec
  /\ WF_roleVars(SyncUpdateDataMasterServer)
  /\ WF_roleVars(SceneLogout /\ copy.next # Off)

-----------------------------------------------------------------------------
(* Properties *)

Owned == IF plr = Off THEN ExpOf(doc.level) + doc.exp ELSE ExpOf(info.level) + plr.exp
Coins == IF plr = Off THEN doc.coins ELSE plr.coins

\* The experience on the way to the central server.
UnderWay ==
  LET exps == [i \in DOMAIN toMaster |->
                IF toMaster[i].kind = "sync" THEN toMaster[i].exp ELSE 0]
  IN  FoldFunction(+, 0, exps)

\* No experience is counted twice: what the role owns, what is on its way and
\* what a scene server has gathered is never more than what was earned.
ExpCountedOnce ==
  /\ doc.level \in 1..MaxLevel /\ info.level \in 1..MaxLevel
  /\ home \in Scenes \cup {0}
  /\ plr # Off => plr.coins \in 0..CoinLimit
  /\ Owned + UnderWay + (IF copy = Off THEN 0 ELSE copy.gained) <= earned

\* Experience the central server has taken is not lost by a change of scene
\* server, a logout or the next login, whichever end of the session comes
\* first; a level is not even lost when a server stops or packets change places.
AcceptedKept ==
  [][ /\ count'.crash + count'.requeue = 0 => Owned' >= Owned
      /\ info'.level >= info.level ]_roleVars

\* The coins of a role change only while it is logged in: no login, logout or
\* stop of a server takes or gives any.  The exception is a role whose first
\* session was ended by a stop, up to the end of the session after it.
CoinsKept ==
  [][Coins' # Coins /\ (plr = Off \/ plr' = Off) =>
       count'.crash > 0 /\ (~doc.logged \/ (plr # Off /\ plr.first))]_roleVars

\* What a scene server has gathered is sent, or the role leaves it.
GainedIsSent ==
  (copy # Off /\ copy.gained > 0) ~> (copy = Off \/ copy.gained = 0)

\* "First login of a new role": a role that has coins is not taken for one.
NewRoleIsNew ==
  [][Coins' # Coins => plr # Off /\ plr' # Off]_roleVars

\* "Save the data back to the central server": what a scene server has
\* gathered when the role leaves is not dropped.
SavedBack ==
  [][copy # Off /\ copy' = Off /\ count' = count => copy.gained = 0]_roleVars

\* "Synchronise the coins to the scene server": once nothing is on its way,
\* the scene server of a role knows its coins.
SceneKnowsCoins ==
  copy # Off /\ plr # Off /\ arriving = Off /\ toScene = <<>> /\ toMaster = <<>>
    /\ copy.session = count.login => copy.coins = plr.coins
=============================================================================
