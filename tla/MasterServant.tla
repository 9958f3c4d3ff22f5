------------------------- MODULE MasterServant -------------------------
(***************************************************************************)
(* The sessions of the central (master) server: CPlayerMgr with its online *)
(* map and its pending list, the CPlayerServant objects, the LuaPlayer     *)
(* objects the Lua side hangs on them, and the 50 ms main loop of          *)
(* WorldRunnable that drives them, interleaved with the network threads    *)
(* that run a gateway connection's OnDisconnect.                           *)
(*                                                                         *)
(* The module is open: a handler takes any gateway, guid and session index *)
(* in its parameter sets, so what holds here holds whatever the gateways   *)
(* and the scene servers send.  Messages sent to them are not kept.        *)
(***************************************************************************)
EXTENDS Integers, Sequences, FiniteSets

CONSTANTS
  Gates,         \* gateway connections (CMasterCommServer objects)
  Accounts,      \* agent + account names; each also stands for its temporary guid
  Roles,         \* role guids
  AccountOf,     \* the account a role is created for
  Servants,      \* slots of the servant pool
  Scenes,        \* scene server ids
  MaxIdx,        \* bound on the session indices a gateway hands out
  WaitLimit,     \* seconds a closing servant waits for the scene's data (5)
  ReclaimAfter,  \* seconds after which a closed socket's memory is reclaimed (15)
  Preempted,     \* may a network thread run inside a step of the queue pass?
  None

ASSUME ConstantsAssumption ==
  /\ AccountOf \in [Roles -> Accounts]
  /\ Accounts \cap Roles = {}
  /\ None \notin Gates \cup Accounts \cup Roles \cup Servants
  /\ Scenes \subseteq Nat \ {0}
  /\ MaxIdx \in Nat \ {0}
  /\ WaitLimit \in Nat
  /\ ReclaimAfter \in Nat /\ ReclaimAfter > WaitLimit + 2
  /\ Preempted \in BOOLEAN

VARIABLES
  gate,     \* connection state of each gateway and its age once closed
  online,   \* m_onlinePlayerList: guid -> servant
  queue,    \* _queueServants
  kept,     \* vecReAddServants of the queue pass under way
  svt,      \* the servant objects
  roles,    \* the roles created so far (playerDataList, character_datas)
  plr,      \* playerDataList[r].obj: the servant of the loaded LuaPlayer
  saved,    \* offline_data_save of the loaded LuaPlayer
  flag,     \* character_datas.online_flag
  pc,       \* where the main loop is
  ticked    \* a second has passed during this turn of the main loop

vars == <<gate, online, queue, kept, svt, roles, plr, saved, flag, pc, ticked>>

Guids == Accounts \cup Roles
Indices == 1..MaxIdx
NotWaiting == -1
WaitAges == NotWaiting..(WaitLimit + 2)

\* CPlayerServant as Term leaves it in the pool, and one that was dropped
\* from the pending list without being given back to the pool.
Blank == [acct |-> None, guid |-> None, idx |-> 0, sock |-> None, scene |-> 0,
          wait |-> NotWaiting, fresh |-> FALSE, list |-> {}, deleted |-> TRUE]
Leaked == [Blank EXCEPT !.deleted = FALSE]

ServantRecords ==
  [acct : Accounts \cup {None}, guid : Guids \cup {None}, idx : 0..MaxIdx,
   sock : Gates \cup {None}, scene : Scenes \cup {0}, wait : WaitAges,
   fresh : BOOLEAN, list : SUBSET Roles, deleted : BOOLEAN]

Elems(q) == {q[i] : i \in 1..Len(q)}
Distinct(q) == \A i, j \in 1..Len(q) : q[i] = q[j] => i = j
Pending == Elems(queue) \cup Elems(kept)
OnlineServants == {online[k] : k \in Guids} \ {None}
RolesOf(a) == {r \in roles : AccountOf[r] = a}
Connected(g) == g # None /\ gate[g].conn = "up"
Freed(g) == gate[g].conn = "down" /\ gate[g].age = ReclaimAfter
IsWaitLastData(s) == svt[s].wait # NotWaiting

\* The servant of account a in the online list, if there is one.
Holder(a) ==
  IF \E s \in OnlineServants : svt[s].acct = a
    THEN CHOOSE s \in OnlineServants : svt[s].acct = a ELSE None

\* Mutant: looks only under the account's temporary guid.
FindServantByTempGuid(a) == online[a]

\* CPlayerMgr::FindServant(agent, account)
FindServant(a) == Holder(a)

-----------------------------------------------------------------------------
(* Operations on one servant object *)

\* Mutant: a repeated call restarts the wait.
SetWaitLastDataAgain(rec) == [rec EXCEPT !.wait = 0]

SetWaitLastData(rec) ==
  [rec EXCEPT !.wait = IF @ = NotWaiting THEN 0 ELSE @]

\* In a scene: wait for the scene's last data.  Otherwise leave at once.
DisConnect(rec) ==
  IF rec.scene # 0 THEN SetWaitLastData(rec) ELSE [rec EXCEPT !.sock = None]

\* objPoolMgr.newPlayerServant, Init and SetCommSocketPtr
NewServant(a, i, g) ==
  [Blank EXCEPT !.acct = a, !.guid = a, !.idx = i, !.sock = g, !.deleted = FALSE]

ResetCurPlayerGUID(rec, r) == [rec EXCEPT !.guid = r]

\* Mutant: Term without giving the slot back to the pool.
TermOnly(rec) == [rec EXCEPT !.deleted = TRUE]

\* Term and deleteObject
gcPlayerServant(rec) == Blank

\* AddServant: enter the servant under its guid and read the role list.
FillRoleListInfo(rec) ==
  [rec EXCEPT !.list = RolesOf(rec.acct), !.fresh = FALSE]

-----------------------------------------------------------------------------
Init ==
  /\ gate = [g \in Gates |-> [conn |-> "up", age |-> 0]]
  /\ online = [k \in Guids |-> None]
  /\ queue = <<>> /\ kept = <<>>
  /\ svt = [s \in Servants |-> Blank]
  /\ roles \in SUBSET Roles
  /\ plr = [r \in Roles |-> None]
  /\ saved = [r \in Roles |-> FALSE]
  /\ flag = [r \in Roles |-> 0]
  /\ pc = "recv"
  /\ ticked = FALSE

-----------------------------------------------------------------------------
(* UpdateServerRecvPackets: the handlers of the packets the gateways sent. *)

\* The request of a session i of gateway g.  An account that is still online
\* is told to leave and the new servant queues up behind it.
HandleRequestRoleList(g, a, i) ==
  LET old == FindServant(a)
      closeOld == old # None /\ (svt[old].sock # g \/ ~IsWaitLastData(old))
      new == NewServant(a, i, g)
  IN /\ pc = "recv"
     /\ gate[g].conn # "down"
     /\ \E s \in Servants :
          /\ svt[s] = Blank
          /\ IF old = None
               THEN /\ online' = [online EXCEPT ![a] = s]
                    /\ svt' = [svt EXCEPT ![s] = FillRoleListInfo(new)]
                    /\ UNCHANGED queue
               ELSE /\ queue' = Append(queue, s)
                    /\ svt' = [svt EXCEPT ![old] = IF closeOld THEN DisConnect(@) ELSE @,
                                          ![s] = [new EXCEPT !.fresh = TRUE]]
                    /\ UNCHANGED online
     /\ UNCHANGED <<gate, kept, roles, plr, saved, flag, pc, ticked>>

\* CPlayerMgr::InvalidServant(guid, i, from, false, from = None, direct).  The
\* pass over the pending list compares nothing but the session index.
InvalidServant(k, i, from, direct) ==
  LET s == online[k]
      hit == /\ s # None
             /\ svt[s].idx = i
             /\ svt[s].guid = k
             /\ from # None => svt[s].sock = from
      listed == s # None /\ svt[s].idx = i
      returns == listed /\ ~hit
      cleared(t) == ~returns /\ t \in Elems(queue) /\ svt[t].idx = i
  IN /\ svt' = [t \in Servants |->
                  IF hit /\ t = s
                    THEN IF direct THEN [svt[t] EXCEPT !.sock = None]
                                   ELSE SetWaitLastData(svt[t])
                  ELSE IF cleared(t) THEN [svt[t] EXCEPT !.sock = None]
                  ELSE svt[t]]
     /\ flag' = IF hit /\ k \in Roles THEN [flag EXCEPT ![k] = 0] ELSE flag

\* A gateway reports that the client of session i is gone.
HandleCloseServantRequest(g, k, i, direct) ==
  /\ pc = "recv"
  /\ gate[g].conn # "down"
  /\ InvalidServant(k, i, g, direct)
  /\ UNCHANGED <<gate, online, queue, kept, roles, plr, saved, pc, ticked>>

\* A player leaves its scene server for another one.  Whether the notice is
\* older than the last setting compares the clocks of two machines: late.
HandleChangeSceneServerNotice(k, late) ==
  /\ pc = "recv"
  /\ online[k] # None
  /\ ~late
  /\ svt' = [svt EXCEPT ![online[k]].scene = 0]
  /\ UNCHANGED <<gate, online, queue, kept, roles, plr, saved, flag, pc, ticked>>

\* A player has appeared in scene server n.
HandleEnterSceneNotice(r, n) ==
  /\ pc = "recv"
  /\ online[r] # None /\ plr[r] # None
  /\ svt' = [svt EXCEPT ![online[r]].scene = n]
  /\ UNCHANGED <<gate, online, queue, kept, roles, plr, saved, flag, pc, ticked>>

\* The scene's final data of session i (next scene 0): save and leave at once.
\* On the way to another scene (next scene not 0) no session state changes.
HandleSavePlayerDataReq(r, i) ==
  /\ pc = "recv"
  /\ online[r] # None /\ plr[r] # None
  /\ svt[online[r]].idx = i
  /\ saved' = [saved EXCEPT ![r] = TRUE]
  /\ InvalidServant(r, i, None, TRUE)
  /\ UNCHANGED <<gate, online, queue, kept, roles, plr, pc, ticked>>

EndRecv ==
  /\ pc = "recv"
  /\ pc' = "update"
  /\ UNCHANGED <<gate, online, queue, kept, svt, roles, plr, saved, flag, ticked>>

-----------------------------------------------------------------------------
(* UpdatePlayerServants: each servant leaves or handles its own packets. *)

\* Mutant: a closing servant waits until the scene's data has come.
IsGoneNoTimeout(s) == svt[s].sock = None

IsGone(s) == svt[s].sock = None \/ svt[s].wait > WaitLimit

\* Mutant: the LuaPlayer of a servant that timed out is not logged out.
LogsOutClosed(r, gone) ==
  plr[r] # None /\ \E s \in gone : svt[s].guid = r /\ svt[s].sock = None

\* LogoutPlayer(GetCurPlayerGUID()) of a servant that leaves finds LuaPlayer r.
LogsOut(r, gone) == plr[r] # None /\ \E s \in gone : svt[s].guid = r

\* Mutant: logs out without saving.
LogoutFlagUnsaved(r) == flag[r]

\* LuaPlayer:Logout saves, with the flag off, unless the scene's data was saved.
LogoutFlag(r) == IF saved[r] THEN flag[r] ELSE 0

\* LogoutServant(true), gcPlayerServant and erase of every servant that lost
\* its socket or waited too long.
UpdatePlayerServants ==
  LET gone == {s \in OnlineServants : IsGone(s)}
  IN /\ pc = "update"
     /\ online' = [k \in Guids |-> IF online[k] \in gone THEN None ELSE online[k]]
     /\ svt' = [s \in Servants |-> IF s \in gone THEN gcPlayerServant(svt[s]) ELSE svt[s]]
     /\ flag' = [r \in Roles |-> IF LogsOut(r, gone) THEN LogoutFlag(r) ELSE flag[r]]
     /\ plr' = [r \in Roles |-> IF LogsOut(r, gone) THEN None ELSE plr[r]]
     /\ saved' = [r \in Roles |-> IF LogsOut(r, gone) THEN FALSE ELSE saved[r]]
     /\ pc' = "play"
     /\ UNCHANGED <<gate, queue, kept, roles, ticked>>

\* HandleRoleCreateReq: the role list read at login bounds the number.
RoleCreate(k, r) ==
  /\ pc = "play"
  /\ online[k] # None
  /\ r \notin roles
  /\ AccountOf[r] = svt[online[k]].acct
  /\ Cardinality(svt[online[k]].list) <= 1
  /\ roles' = roles \cup {r}
  /\ UNCHANGED <<gate, online, queue, kept, svt, plr, saved, flag, pc, ticked>>

\* HandleEnterGameReq: the servant moves from key k to the key of the chosen
\* role; the role's data loads or fails to.
EnterGame(k, r, loads) ==
  /\ pc = "play"
  /\ online[k] # None
  /\ r \in RolesOf(svt[online[k]].acct)
  /\ online' = [online EXCEPT ![k] = None, ![r] = online[k]]
  /\ svt' = [svt EXCEPT ![online[k]] = ResetCurPlayerGUID(@, r)]
  /\ IF loads
       THEN /\ plr' = [plr EXCEPT ![r] = online[k]]
            /\ saved' = [saved EXCEPT ![r] = FALSE]
            /\ flag' = [flag EXCEPT ![r] = 1]
       ELSE UNCHANGED <<plr, saved, flag>>
  /\ UNCHANGED <<gate, queue, kept, roles, pc, ticked>>

EndPlay ==
  /\ pc = "play"
  /\ pc' = "queue"
  /\ UNCHANGED <<gate, online, queue, kept, svt, roles, plr, saved, flag, ticked>>

-----------------------------------------------------------------------------
(* UpdateQueueServants: one pass over the pending list. *)

QueueHead == Head(queue)

\* Lost its gateway: dropped, and never given back to the pool.
QueueDrop ==
  /\ pc = "queue" /\ queue # <<>>
  /\ ~Connected(svt[QueueHead].sock)
  /\ queue' = Tail(queue)
  /\ svt' = [svt EXCEPT ![QueueHead] = Leaked]
  /\ UNCHANGED <<gate, online, kept, roles, plr, saved, flag, pc, ticked>>

\* Queued less than a second ago, or the account is still leaving: stays.
QueueKeep ==
  /\ pc = "queue" /\ queue # <<>>
  /\ Connected(svt[QueueHead].sock)
  /\ LET old == FindServant(svt[QueueHead].acct)
     IN svt[QueueHead].fresh \/ (old # None /\ (svt[old].deleted \/ IsWaitLastData(old)))
  /\ queue' = Tail(queue)
  /\ kept' = Append(kept, QueueHead)
  /\ UNCHANGED <<gate, online, svt, roles, plr, saved, flag, pc, ticked>>

\* The account is online and not leaving: the login is refused.
QueueRefuse ==
  /\ pc = "queue" /\ queue # <<>>
  /\ Connected(svt[QueueHead].sock)
  /\ ~svt[QueueHead].fresh
  /\ LET old == FindServant(svt[QueueHead].acct)
     IN old # None /\ ~svt[old].deleted /\ ~IsWaitLastData(old)
  /\ queue' = Tail(queue)
  /\ svt' = [svt EXCEPT ![QueueHead] = gcPlayerServant(@)]
  /\ UNCHANGED <<gate, online, kept, roles, plr, saved, flag, pc, ticked>>

\* The account is free: the socket has been found connected ...
QueueCheck ==
  /\ pc = "queue" /\ queue # <<>>
  /\ Connected(svt[QueueHead].sock)
  /\ ~svt[QueueHead].fresh
  /\ FindServant(svt[QueueHead].acct) = None
  /\ pc' = "add"
  /\ UNCHANGED <<gate, online, queue, kept, svt, roles, plr, saved, flag, ticked>>

\* ... and the servant goes online.
QueueAdd ==
  /\ pc = "add"
  /\ online' = [online EXCEPT ![svt[QueueHead].guid] = QueueHead]
  /\ svt' = [svt EXCEPT ![QueueHead] = FillRoleListInfo(@)]
  /\ queue' = Tail(queue)
  /\ pc' = "queue"
  /\ UNCHANGED <<gate, kept, roles, plr, saved, flag, ticked>>

EndQueue ==
  /\ pc = "queue" /\ queue = <<>>
  /\ queue' = kept /\ kept' = <<>>
  /\ pc' = "recv"
  /\ ticked' = FALSE
  /\ UNCHANGED <<gate, online, svt, roles, plr, saved, flag>>

-----------------------------------------------------------------------------
(* The network threads and the clock *)

\* TcpSocket: IsConnected() turns false before OnDisconnect runs.
GateClosing(g) ==
  /\ gate[g].conn = "up"
  /\ gate' = [gate EXCEPT ![g].conn = "closing"]
  /\ UNCHANGED <<online, queue, kept, svt, roles, plr, saved, flag, pc, ticked>>

\* OnDisconnect and OnGateCommServerDisconnect, or TimeoutSockets
GateOnDisconnect(g) ==
  /\ gate[g].conn = "closing"
  /\ pc = "add" => Preempted
  /\ gate' = [gate EXCEPT ![g] = [conn |-> "down", age |-> 0]]
  /\ svt' = [s \in Servants |->
               IF s \in OnlineServants /\ svt[s].sock = g
                 THEN SetWaitLastData(svt[s]) ELSE svt[s]]
  /\ UNCHANGED <<online, queue, kept, roles, plr, saved, flag, pc, ticked>>

\* A new connection; the value g of one whose memory is gone may name it.
GateConnect(g) ==
  /\ Freed(g)
  /\ \A s \in Servants : svt[s].sock # g
  /\ gate' = [gate EXCEPT ![g] = [conn |-> "up", age |-> 0]]
  /\ UNCHANGED <<online, queue, kept, svt, roles, plr, saved, flag, pc, ticked>>

\* A second passes; a turn of the main loop takes less than a second.
Tick ==
  /\ ~ticked
  /\ ticked' = TRUE
  /\ gate' = [g \in Gates |->
                IF gate[g].conn = "down" /\ gate[g].age < ReclaimAfter
                  THEN [gate[g] EXCEPT !.age = @ + 1] ELSE gate[g]]
  /\ svt' = [s \in Servants |->
               [svt[s] EXCEPT !.fresh = FALSE,
                              !.wait = IF @ = NotWaiting \/ @ = WaitLimit + 2
                                         THEN @ ELSE @ + 1]]
  /\ UNCHANGED <<online, queue, kept, roles, plr, saved, flag, pc>>

-----------------------------------------------------------------------------
Recv ==
  \/ \E g \in Gates, a \in Accounts, i \in Indices : HandleRequestRoleList(g, a, i)
  \/ \E g \in Gates, k \in Guids, i \in Indices, direct \in BOOLEAN :
       HandleCloseServantRequest(g, k, i, direct)
  \/ \E k \in Guids, late \in BOOLEAN : HandleChangeSceneServerNotice(k, late)
  \/ \E r \in Roles, n \in Scenes : HandleEnterSceneNotice(r, n)
  \/ \E r \in Roles, i \in Indices : HandleSavePlayerDataReq(r, i)

Play ==
  \/ \E k \in Guids, r \in Roles : RoleCreate(k, r)
  \/ \E k \in Guids, r \in Roles, loads \in BOOLEAN : EnterGame(k, r, loads)

MainLoop ==
  \/ EndRecv
  \/ UpdatePlayerServants
  \/ EndPlay
  \/ QueueDrop
  \/ QueueKeep
  \/ QueueRefuse
  \/ QueueCheck
  \/ QueueAdd
  \/ EndQueue

Network ==
  \E g \in Gates : GateClosing(g) \/ GateOnDisconnect(g) \/ GateConnect(g)

Next == Recv \/ Play \/ MainLoop \/ Network \/ Tick

Spec == Init /\ [][Next]_vars

\* The main thread keeps turning and the clock keeps ticking.
FairSpec == Spec /\ WF_vars(MainLoop) /\ WF_vars(Tick)

-----------------------------------------------------------------------------
(* Properties *)

\* Every variable has its type.
TypeOK ==
  /\ gate \in [Gates -> [conn : {"up", "closing", "down"}, age : 0..ReclaimAfter]]
  /\ online \in [Guids -> Servants \cup {None}]
  /\ queue \in Seq(Servants)
  /\ kept \in Seq(Servants)
  /\ svt \in [Servants -> ServantRecords]
  /\ roles \subseteq Roles
  /\ plr \in [Roles -> Servants \cup {None}]
  /\ saved \in [Roles -> BOOLEAN]
  /\ flag \in [Roles -> {0, 1}]
  /\ pc \in {"recv", "update", "play", "queue", "add"}
  /\ ticked \in BOOLEAN

\* The online list never holds two servants of one account, whichever gateways
\* its logins came through (HandleRequestRoleList, UpdateQueueServants).
OneServantPerAccount ==
  \A s, t \in OnlineServants : svt[s].acct = svt[t].acct => s = t

\* The list's key is the servant's own guid, a guid of the servant's account:
\* InvalidServant's test of it (PlayerMgr.cpp:105) never fails.
OnlineKeyed ==
  \A k \in Guids : online[k] # None =>
    /\ svt[online[k]].guid = k
    /\ IF k \in Roles THEN AccountOf[k] = svt[online[k]].acct ELSE k = svt[online[k]].acct

\* The assertion of ReAddServantWithRealGuid (PlayerMgr.cpp:92): when a servant
\* is about to move to the key of a role, no other servant is listed there.
ReAddAssertion ==
  \A k \in Guids, r \in roles :
    online[k] # None /\ AccountOf[r] = svt[online[k]].acct
      => online[r] \in {None, online[k]}

\* The online list can be trusted: every variable has its type, the key is the
\* servant's guid, and the key a servant is about to move to is free.
SessionsKeyed == TypeOK /\ OnlineKeyed /\ ReAddAssertion

\* A pool slot is in use in exactly one place: online, pending or nowhere.
PoolAccounted ==
  /\ \A s \in Servants : svt[s] \in {Blank, Leaked} <=> s \notin OnlineServants \cup Pending
  /\ OnlineServants \cap Pending = {}
  /\ Distinct(queue) /\ Distinct(kept)
  /\ Elems(queue) \cap Elems(kept) = {}

\* No account owns two of the role guids.
OneRoleEach == \A r, t \in Roles : AccountOf[r] = AccountOf[t] => r = t

\* A loaded LuaPlayer's servant is the one that is online under the role: the
\* Lua side never keeps a pointer to a servant that went back to the pool.
LuaPlayerHasServant ==
  OneRoleEach => \A r \in Roles : plr[r] # None => online[r] = plr[r]

\* What the database says of a role that is not loaded is that it is offline,
\* by whichever of the three ways the session ended.
OnlineFlagCleared ==
  \A r \in Roles : flag[r] = 1 => plr[r] # None /\ ~saved[r]

\* The comment at PlayerServant.cpp:181: no servant keeps the pointer of a
\* gateway socket until the socket's memory is reclaimed.
NoFreedSocket ==
  \A s \in OnlineServants \cup Pending : svt[s].sock # None => ~Freed(svt[s].sock)

\* A login that had to queue is admitted, refused or dropped in the end.
QueuedLoginLeaves == \A s \in Servants : s \in Pending ~> s \notin Pending

\* A servant that waits for its scene's last data leaves even if none comes.
WaitingServantLeaves ==
  \A s \in Servants : (s \in OnlineServants /\ IsWaitLastData(s)) ~> s \notin OnlineServants

\* Nobody waits for ever: neither a login that had to queue, of which the next
\* attempts ask again and again, nor a session for data that never comes.
LoginsEnd == QueuedLoginLeaves /\ WaitingServantLeaves

\* The servants keep the promise of AccountLogin: the account's holder is its
\* servant in the online list, the waiting ones are its pending servants.
Login == INSTANCE AccountLogin WITH
  Sessions <- Servants,
  holder <- [a \in Accounts |-> Holder(a)],
  waiting <- [a \in Accounts |-> {s \in Pending : svt[s].acct = a}]

OneLoginAtATime == Login!LoginSpec
=============================================================================
