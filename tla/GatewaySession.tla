------------------------- MODULE GatewaySession -------------------------
(***************************************************************************)
(* The client connections of one gateway: the GameSocket objects, the      *)
(* sockets that wait for the login server's answer, the pending list of    *)
(* authenticated clients and the online list.  Three kinds of thread share *)
(* them: the main loop of GatewayServer.cpp, the thread of the login       *)
(* server's connection, which runs the authentication callback, and the    *)
(* clients' network threads, which run OnDisconnect.                       *)
(*                                                                         *)
(* The module is open towards the central server and the scene servers:    *)
(* their packets name any guid and session.  A client authenticates once   *)
(* on a connection; the value of a socket stands for its session index.    *)
(***************************************************************************)
EXTENDS Integers, FiniteSets

CONSTANTS
  Socks,        \* GameSocket objects, one for each connection of a client
  Accounts,     \* agent + account names; each also stands for its temporary guid
  Roles,        \* role guids
  AccountOf,    \* the account of a role
  Scenes,       \* scene server ids
  Deletes,      \* are closed sockets deleted?  They are, after 15 seconds
  Turns,        \* turns of the main loop that those seconds take at least
  Fallible,     \* the servers whose connection may drop: scene ids, 0 for the central server
  Interleaved,  \* do the threads interleave, or does each callback run in one piece?
  None

ASSUME ConstantsAssumption ==
  /\ AccountOf \in [Roles -> Accounts]
  /\ Accounts \cap Roles = {}
  /\ None \notin Socks \cup Accounts \cup Roles
  /\ Scenes \subseteq Nat \ {0}
  /\ Fallible \subseteq Scenes \cup {0}
  /\ Turns \in Nat
  /\ Deletes \in BOOLEAN
  /\ Interleaved \in BOOLEAN

VARIABLES
  sock,     \* the GameSocket objects
  asked,    \* requests the login server has not answered
  waiting,  \* m_pendingAuthSockets
  pending,  \* m_pendingGameSockets: temporary guid -> socket
  online,   \* online_players: guid -> socket
  call,     \* the authentication callback under way
  links,    \* the servers that are connected: scene ids, and 0 for the central server
  pc        \* where the main loop is

vars == <<sock, asked, waiting, pending, online, call, links, pc>>

Guids == Accounts \cup Roles
Master == 0

Blank == [conn |-> "none", acct |-> None, guid |-> None, auth |-> {}, req |-> FALSE,
          scene |-> 0, delay |-> FALSE, told |-> "no", turns |-> 0]
Idle == [s |-> None, ok |-> FALSE, at |-> "idle"]

OnlineSocks == {online[k] : k \in Guids} \ {None}
PendingSocks == {pending[a] : a \in Accounts} \ {None}

GotResult(r) == r.auth \cap {"ok", "failed"} # {}
Succeeded(r) == "ok" \in r.auth

\* TcpSocket::Disconnect: the connection is down, OnDisconnect is still to run.
Disconnect(r) == IF r.conn = "open" THEN [r EXCEPT !.conn = "shut"] ELSE r

DisconnectAll(S) == [s \in Socks |-> IF s \in S THEN Disconnect(sock[s]) ELSE sock[s]]

\* With the threads in one piece a lost connection's OnDisconnect comes first,
\* then the rest of the callback under way, then anything else.
Quiet == Interleaved \/ \A s \in Socks : sock[s].conn \notin {"shut", "closing"}
Free == Quiet /\ (Interleaved \/ call = Idle)

\* The first online socket of the account, for a socket that has one.
OnlineOf(a) == {s \in OnlineSocks : sock[s].acct = a}

Init ==
  /\ sock = [s \in Socks |-> Blank]
  /\ asked = {} /\ waiting = {}
  /\ pending = [a \in Accounts |-> None]
  /\ online = [k \in Guids |-> None]
  /\ call = Idle
  /\ links = Scenes \cup {Master}
  /\ pc = "recv"

-----------------------------------------------------------------------------
(* A client's network thread *)

OnConnect(s) ==
  /\ Free
  /\ sock[s] = Blank
  /\ sock' = [sock EXCEPT ![s].conn = "open"]
  /\ UNCHANGED <<asked, waiting, pending, online, call, links, pc>>

\* The first packet: ask the login server about the session key.
HandleUserAuthSession(s, a) ==
  /\ Free
  /\ sock[s].conn = "open" /\ sock[s].acct = None
  /\ sock' = [sock EXCEPT ![s].acct = a, ![s].req = TRUE, ![s].auth = {"sent"}]
  /\ asked' = asked \cup {s}
  /\ waiting' = waiting \cup {s}
  /\ UNCHANGED <<pending, online, call, links, pc>>

\* There is no login server, or the login type is unknown.
AuthNotSent(s) ==
  /\ Free
  /\ sock[s].conn = "open" /\ sock[s].acct = None
  /\ sock' = [sock EXCEPT ![s] = Disconnect(@)]
  /\ UNCHANGED <<asked, waiting, pending, online, call, links, pc>>

\* The client closes the connection.
ClientLeaves(s) ==
  /\ Free
  /\ sock[s].conn = "open"
  /\ sock' = [sock EXCEPT ![s] = Disconnect(@)]
  /\ UNCHANGED <<asked, waiting, pending, online, call, links, pc>>

\* UnauthedSocketClose
UnauthedSocketClose(s) == waiting \ {s}

\* OnDisconnect: withdraw the request to the login server ...
OnDisconnectRequest(s) ==
  /\ sock[s].conn = "shut"
  /\ sock' = [sock EXCEPT ![s].conn = "closing", ![s].req = FALSE]
  /\ waiting' = IF sock[s].req THEN UnauthedSocketClose(s) ELSE waiting
  /\ UNCHANGED <<asked, pending, online, call, links, pc>>

\* Mutant: leaves the pending list alone.
KeepPending(s) == pending

\* RemoveDisconnectedSocketFromPendingGameList: whoever waits under the guid.
RemovePending(s) ==
  [a \in Accounts |-> IF a = sock[s].guid THEN None ELSE pending[a]]

\* Mutant: the state of the authentication is not reset.
KeepSession(r) == [r EXCEPT !.scene = 0]

\* The session's end, for a client that has got its result
GiveUpSession(r) == [r EXCEPT !.auth = {"sent", "failed"}, !.scene = 0]

\* ... then leave the scene, or else the pending list, and give up the session.
OnDisconnectSession(s) ==
  LET r == sock[s]
      inScene == Succeeded(r) /\ r.scene # 0
      tells == inScene /\ (r.scene \in links \/ Master \in links)
  IN /\ r.conn = "closing"
     /\ sock' = [sock EXCEPT ![s] =
                   [(IF GotResult(r) THEN GiveUpSession(r) ELSE r)
                      EXCEPT !.conn = "down", !.told = IF tells THEN "closed" ELSE @]]
     /\ pending' = IF Succeeded(r) /\ r.scene = 0 THEN RemovePending(s) ELSE pending
     /\ UNCHANGED <<asked, waiting, online, call, links, pc>>

-----------------------------------------------------------------------------
(* The thread of the login server's connection *)

\* HandleAccountAuthResult up to the release of the pending lock
HandleAccountAuthResult(s, ok) ==
  /\ Free
  /\ call = Idle
  /\ s \in asked
  /\ asked' = asked \ {s}
  /\ IF s \in waiting /\ ~GotResult(sock[s])
       THEN /\ waiting' = waiting \ {s}
            /\ call' = [s |-> s, ok |-> ok, at |-> "found"]
       ELSE UNCHANGED <<waiting, call>>
  /\ UNCHANGED <<sock, pending, online, links, pc>>

\* The answers under way are lost with the connection.
LogonConnectionDropped ==
  /\ Free
  /\ asked # {}
  /\ asked' = {}
  /\ UNCHANGED <<sock, waiting, pending, online, call, links, pc>>

SessionAuthedFailCallback ==
  /\ Quiet
  /\ call.at = "found" /\ ~call.ok
  /\ sock' = [sock EXCEPT ![call.s].auth = @ \cup {"failed"}]
  /\ call' = Idle
  /\ UNCHANGED <<asked, waiting, pending, online, links, pc>>

SessionAuthedSuccessCallback ==
  /\ Quiet
  /\ call.at = "found" /\ call.ok
  /\ sock' = [sock EXCEPT ![call.s].auth = @ \cup {"ok"},
                          ![call.s].guid = sock[call.s].acct,
                          ![call.s].req = FALSE]
  /\ call' = [call EXCEPT !.at = "check"]
  /\ UNCHANGED <<asked, waiting, pending, online, links, pc>>

\* AddPendingGameList: an online client of the account is cut off ...
AddPendingCheck ==
  LET old == OnlineOf(sock[call.s].acct)
  IN /\ Quiet
     /\ call.at = "check"
     /\ IF old = {} THEN UNCHANGED sock
        ELSE \E t \in old :
               sock' = [DisconnectAll({t}) EXCEPT ![call.s].delay = TRUE]
     /\ call' = [call EXCEPT !.at = "insert"]
     /\ UNCHANGED <<asked, waiting, pending, online, links, pc>>

\* Mutant: the one that is replaced stays connected.
KeepConnected(s) == sock

\* The one that is replaced is disconnected.
CutOffReplaced(s) == DisconnectAll({s})

\* ... one that is still waiting is cut off and erased ...
AddPendingReplace ==
  LET a == sock[call.s].guid
  IN /\ Quiet
     /\ call.at = "insert" /\ pending[a] # None
     /\ sock' = CutOffReplaced(pending[a])
     /\ pending' = [pending EXCEPT ![a] = None]
     /\ UNCHANGED <<asked, waiting, online, call, links, pc>>

\* ... and the newcomer takes its place.
AddPendingInsert ==
  LET a == sock[call.s].guid
  IN /\ Quiet
     /\ call.at = "insert" /\ pending[a] = None
     /\ pending' = [pending EXCEPT ![a] = call.s]
     /\ call' = Idle
     /\ UNCHANGED <<sock, asked, waiting, online, links, pc>>

-----------------------------------------------------------------------------
(* UpdateClientRecvQueuePackets: the packets of the other servers *)

\* The central server closes session i: at once, or by way of its scene.
HandleCloseGameSocket(k, i, direct) ==
  LET client == online[k]
      r == sock[client]
  IN /\ Free /\ pc = "recv" /\ Master \in links
     /\ client # None /\ client = i
     /\ sock' = [sock EXCEPT ![client] =
                   IF direct THEN [Disconnect(r) EXCEPT !.auth = {"failed"}, !.told = "closed"]
                   ELSE [r EXCEPT !.told = "closed"]]
     /\ UNCHANGED <<asked, waiting, pending, online, call, links, pc>>

\* Mutant: the client is not entered again.
EraseGuid(k, r) == [online EXCEPT ![k] = None]

\* UpdateGameSocektGuid: erase, then insert, which never replaces an entry.
UpdateGameSocektGuid(k, r) ==
  LET rest == [online EXCEPT ![k] = None]
  IN IF rest[r] = None THEN [rest EXCEPT ![r] = online[k]] ELSE rest

\* AddNewPlayerToSceneServer: nothing is sent when the scene is not connected.
EnterScene(r, n) == IF n \in links THEN [r EXCEPT !.scene = n] ELSE r

\* The central server has loaded the role that the client chose.
HandleChooseGameRoleResponse(k, r, n) ==
  LET client == online[k]
  IN /\ Free /\ pc = "recv" /\ Master \in links
     /\ client # None
     /\ online' = IF k = r THEN online ELSE UpdateGameSocektGuid(k, r)
     /\ sock' = [sock EXCEPT ![client] = EnterScene([@ EXCEPT !.guid = r], n)]
     /\ UNCHANGED <<asked, waiting, pending, call, links, pc>>

HandleChangeSceneServerMasterNotice(k, n) ==
  LET client == online[k]
  IN /\ Free /\ pc = "recv" /\ Master \in links
     /\ client # None
     /\ sock' = [sock EXCEPT ![client] = EnterScene(@, n)]
     /\ UNCHANGED <<asked, waiting, pending, online, call, links, pc>>

EndRecv ==
  /\ Free
  /\ pc = "recv" /\ pc' = "sockets"
  /\ UNCHANGED <<sock, asked, waiting, pending, online, call, links>>

-----------------------------------------------------------------------------
(* The rest of the main loop *)

\* sSocketDeleter.Update, then UpdateGameSockets, which cuts off the clients in
\* late, whose ping is overdue, and removes those whose session is given up.
\* A callback takes less time than the deletion of its socket.
UpdateGameSockets(late) ==
  LET deletes(s) == Deletes /\ sock[s].conn = "down" /\ sock[s].turns = Turns /\ call.s # s
      gone == {s \in OnlineSocks : ~Succeeded(sock[s])}
  IN /\ Free /\ pc = "sockets"
     /\ sock' = [s \in Socks |->
                   IF deletes(s) THEN [Blank EXCEPT !.conn = "freed"]
                   ELSE IF s \in late \cup gone THEN Disconnect(sock[s])
                   ELSE sock[s]]
     /\ online' = [k \in Guids |-> IF online[k] \in gone THEN None ELSE online[k]]
     /\ pc' = "pending"
     /\ UNCHANGED <<asked, waiting, pending, call, links>>

\* Mutant: does not look for an online client of the account.
MayEnterUnchecked(a) ==
  pending[a] # None /\ GotResult(sock[pending[a]]) /\ ~sock[pending[a]].delay

\* No online client of the account, the delay is over, the answer has come.
MayEnter(a) ==
  /\ pending[a] # None
  /\ OnlineOf(sock[pending[a]].acct) = {}
  /\ ~sock[pending[a]].delay
  /\ GotResult(sock[pending[a]])

\* Mutant: a client that goes online also stays in the pending list.
KeepEntered(enters) == pending

ErasePending(enters) == [a \in Accounts |-> IF a \in enters THEN None ELSE pending[a]]

Aged(r) == IF r.conn = "down" /\ r.turns < Turns THEN [r EXCEPT !.turns = @ + 1] ELSE r

\* UpdatePendingGameSockets, under the lock of the pending list: cut off the
\* online clients that are waited for, let the others in, ask for their roles.
UpdatePendingGameSockets ==
  LET enters == {a \in Accounts : MayEnter(a)}
      entering == {pending[a] : a \in enters}
      waitedFor == UNION {OnlineOf(sock[pending[a]].acct) :
                            a \in {b \in Accounts : pending[b] # None}}
  IN /\ Free /\ pc = "pending"
     /\ online' = [k \in Guids |-> IF k \in enters /\ online[k] = None
                                     THEN pending[k] ELSE online[k]]
     /\ pending' = ErasePending(enters)
     /\ sock' = [s \in Socks |->
          IF s \in entering
            THEN [sock[s] EXCEPT !.told = IF Master \in links THEN "asked" ELSE @]
          ELSE IF s \in waitedFor THEN Disconnect(sock[s])
          ELSE Aged(sock[s])]
     /\ pc' = "recv"
     /\ UNCHANGED <<asked, waiting, call, links>>

\* The second that a client waits when it has cut off another one is over.
DelayOver(s) ==
  /\ Free
  /\ sock[s].delay
  /\ sock' = [sock EXCEPT ![s].delay = FALSE]
  /\ UNCHANGED <<asked, waiting, pending, online, call, links, pc>>

\* CloseAllGameSockets: the clients in scene n, all for the central server.
CutOff(n) == {s \in OnlineSocks : n = Master \/ sock[s].scene = n}

\* ConnectionDropped, CentreConnectionDropped
ConnectionDropped(n) ==
  /\ Free
  /\ n \in links \cap Fallible
  /\ links' = links \ {n}
  /\ sock' = DisconnectAll(CutOff(n))
  /\ UNCHANGED <<asked, waiting, pending, online, call, pc>>

\* ConnectSceneServer, ConnectCentre, from UpdateSockets
Reconnect(n) ==
  /\ Free /\ pc = "sockets"
  /\ n \in (Scenes \cup {Master}) \ links
  /\ links' = links \cup {n}
  /\ UNCHANGED <<sock, asked, waiting, pending, online, call, pc>>

-----------------------------------------------------------------------------
Client ==
  \E s \in Socks :
    \/ OnConnect(s)
    \/ \E a \in Accounts : HandleUserAuthSession(s, a)
    \/ AuthNotSent(s)
    \/ ClientLeaves(s)

Close == \E s \in Socks : OnDisconnectRequest(s) \/ OnDisconnectSession(s)

Callback ==
  \/ SessionAuthedFailCallback
  \/ SessionAuthedSuccessCallback
  \/ AddPendingCheck
  \/ AddPendingReplace
  \/ AddPendingInsert

Login ==
  \/ \E s \in Socks, ok \in BOOLEAN : HandleAccountAuthResult(s, ok)
  \/ LogonConnectionDropped

Servers ==
  \/ \E k \in Guids, i \in Socks, direct \in BOOLEAN : HandleCloseGameSocket(k, i, direct)
  \/ \E r \in Roles, k \in Guids, n \in Scenes :
       k \in {AccountOf[r], r} /\ HandleChooseGameRoleResponse(k, r, n)
  \/ \E k \in Guids, n \in Scenes : HandleChangeSceneServerMasterNotice(k, n)
  \/ \E n \in Scenes \cup {Master} : ConnectionDropped(n) \/ Reconnect(n)

MainLoop ==
  \/ EndRecv
  \/ \E late \in SUBSET OnlineSocks : UpdateGameSockets(late)
  \/ UpdatePendingGameSockets

Next == Client \/ Close \/ Callback \/ Login \/ Servers \/ MainLoop
          \/ \E s \in Socks : DelayOver(s)

Spec == Init /\ [][Next]_vars

\* The main loop turns, a callback that has begun runs to its end, and a closed
\* connection's OnDisconnect runs.
FairSpec ==
  /\ Spec
  /\ WF_vars(MainLoop)
  /\ WF_vars(Callback)
  /\ \A s \in Socks : WF_vars(OnDisconnectRequest(s) \/ OnDisconnectSession(s))
  /\ \A s \in Socks : WF_vars(DelayOver(s))

-----------------------------------------------------------------------------
(* Properties *)

\* Every variable has its type.
TypeOK ==
  /\ sock \in [Socks ->
       [conn : {"none", "open", "shut", "closing", "down", "freed"},
        acct : Accounts \cup {None}, guid : Guids \cup {None},
        auth : SUBSET {"sent", "ok", "failed"}, req : BOOLEAN, scene : Scenes \cup {0},
        delay : BOOLEAN, told : {"no", "asked", "closed"}, turns : 0..Turns]]
  /\ asked \subseteq Socks /\ waiting \subseteq Socks
  /\ pending \in [Accounts -> Socks \cup {None}]
  /\ online \in [Guids -> Socks \cup {None}]
  /\ call \in [s : Socks \cup {None}, ok : BOOLEAN,
               at : {"idle", "found", "check", "insert"}]
  /\ links \subseteq Scenes \cup {Master}
  /\ pc \in {"recv", "sockets", "pending"}

\* The assertion of __AddGameSocketToOnlineList and the reason of
\* __CheckGameSocketOnlineAndDisconnect: one online client for each account.
OneClientPerAccount ==
  \A s, t \in OnlineSocks : sock[s].acct = sock[t].acct => s = t

\* A client is online under one guid, the one its packets are sent with.
OnlineKeyed == \A k \in Guids : online[k] # None => sock[online[k]].guid = k

\* The assertion of AddPendingGameList: a client in the pending list has not
\* entered a scene; nor is it in the online list.
PendingNotOnline ==
  /\ PendingSocks \cap OnlineSocks = {}
  /\ \A s \in PendingSocks : sock[s].scene = 0

\* The lists can be trusted: every variable has its type, the online list's keys
\* are its clients' guids, and nobody is in both lists or waits inside a scene.
ListsKeyed == TypeOK /\ OnlineKeyed /\ PendingNotOnline

\* A client in a scene can be reached under its guid as long as it is connected.
InSceneReachable ==
  \A s \in Socks : sock[s].conn = "open" /\ sock[s].scene # 0 => online[sock[s].guid] = s

\* The assertion of HandleAccountAuthResult: the socket that the answer is for
\* still has the request when its callback begins.
AuthRequestAssertion == call.at = "found" => sock[call.s].req

\* No list refers to a socket whose object has been deleted.
NoDeletedSocket ==
  \A s \in waiting \cup PendingSocks \cup OnlineSocks : sock[s].conn # "freed"

\* A socket that is used is still the one that was found: no answer meets a
\* withdrawn request and no list holds a deleted object.
NoStaleSocket == AuthRequestAssertion /\ NoDeletedSocket

\* Only a closed socket leaves the pending list without going online.
RemovesOwnPending ==
  [][\A a \in Accounts :
       pending[a] # None /\ pending'[a] # pending[a] /\ pending[a] \notin OnlineSocks'
         => sock'[pending[a]].conn # "open"]_vars

\* A session that the central server was asked for and that is over has been
\* closed there, directly or by its scene server.
SessionEndReported ==
  \A s \in Socks : sock[s].conn = "down" => sock[s].told # "asked"

\* A client in the pending list gets in or is cut off.
PendingLeaves == \A s \in Socks : s \in PendingSocks ~> s \notin PendingSocks

\* A client that is cut off leaves the lists, which frees its account.
ClosedLeaves == \A s \in Socks : sock[s].conn = "shut" ~> s \notin PendingSocks \cup OnlineSocks

\* No client blocks its account for ever, neither one that waits to get in nor
\* one that is cut off.
ClientsLeave == PendingLeaves /\ ClosedLeaves
=============================================================================
