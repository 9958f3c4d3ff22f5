---------------------------- MODULE ServerLinks ----------------------------
(***************************************************************************)
(* The links between a gateway and the three kinds of servers it connects  *)
(* to: connecting, authentication, pings, timeouts at both ends, loss and  *)
(* reconnection, and the table of gateways of the login server.            *)
(*                                                                         *)
(* At the gateway the main loop works on the links (UpdateSockets) and a   *)
(* network thread runs OnDisconnect and takes the answers to challenges    *)
(* and pings.  The login server handles packets on its network threads,    *)
(* the other servers on their main threads.                                *)
(*                                                                         *)
(* Disconnect marks the connection as down; OnDisconnect runs then or      *)
(* later.  A connection that has fallen mute carries nothing any more and  *)
(* neither end is told.  The gateways have the right key, so a challenge   *)
(* that is handled is accepted, and it is handled within the ping timeout. *)
(***************************************************************************)
EXTENDS Integers, FiniteSets

CONSTANTS
  Gateways,    \* gateway processes
  Realms,      \* the sets of servers that may be running: of "login", "master", "scene"
  MaxConns,    \* bound on the connections made
  MaxFaults,   \* bound on lost and mute connections and on slow answers
  None

ASSUME ConstantsAssumption ==
  /\ Realms # {} /\ \A S \in Realms : S \subseteq {"login", "master", "scene"}
  /\ MaxConns \in Nat /\ MaxFaults \in Nat
  /\ None \notin Nat \cup Gateways

VARIABLES
  up,       \* the servers that are running; a connection to another one fails
  conn,     \* the connection objects, both ends
  cur,      \* m_pLoginServerSocket, m_pMasterServer, m_sceneServers[...]
  wait,     \* the connection whose challenge the main loop waits for
  clients,  \* the link by which a gateway's clients entered the scene server
  idHigh,   \* gateway_id_high of the login server
  info,     \* m_gatewayConnectionInfo: id -> connection
  count,    \* m_PlayerCounter: id -> connection, or the nameless entry
  issued,   \* history: the ids that were given out
  twice,    \* history: those that were given to two connections
  made,     \* connections made
  faults    \* faults so far

vars == <<up, conn, cur, wait, clients, idHigh, info, count, issued, twice, made, faults>>
ids == <<idHigh, issued, twice>>
tables == <<up, ids, info, count>>

Conns == 1..MaxConns         \* in the order in which they are made
Ids == 1..MaxConns
Servers == {"login", "master", "scene"}
Nameless == 0                \* an entry that operator[] has made

Blank == [gw |-> None, to |-> None, mute |-> FALSE,
          gate |-> "open", auth |-> FALSE, known |-> FALSE, pongLate |-> FALSE,
          serv |-> "open", list |-> "no", reg |-> FALSE, gid |-> 0,
          pingLate |-> FALSE, hand |-> "none", seen |-> 0, chal |-> FALSE]

\* The connection as both constructors leave it, the challenge sent
NewConn(g, v) == [Blank EXCEPT !.gw = g, !.to = v, !.list = "new", !.chal = TRUE]

Used == {k \in Conns : conn[k].gw # None}
Links(v) == {k \in Used : conn[k].to = v}

\* Disconnect at one end; the other learns of it unless the line is mute.
ShutGate(r) ==
  IF r.gate = "open"
    THEN [r EXCEPT !.gate = "shut", !.serv = IF r.serv = "open" /\ ~r.mute THEN "shut" ELSE @]
    ELSE r
ShutServ(r) ==
  IF r.serv = "open"
    THEN [r EXCEPT !.serv = "shut", !.gate = IF r.gate = "open" /\ ~r.mute THEN "shut" ELSE @]
    ELSE r

Through(r) == r.gate = "open" /\ r.serv = "open" /\ ~r.mute

Init ==
  /\ up \in Realms
  /\ conn = [k \in Conns |-> Blank]
  /\ cur = [g \in Gateways |-> [v \in Servers |-> None]]
  /\ wait = [g \in Gateways |-> None]
  /\ clients = [g \in Gateways |-> None]
  /\ idHigh = 0
  /\ info = [i \in Ids |-> None] /\ count = [i \in Ids |-> None]
  /\ issued = {} /\ twice = {} /\ made = 0 /\ faults = 0

-----------------------------------------------------------------------------
(* The gateway: UpdateSockets of LogonCommHandler and of CSceneCommHandler *)

\* ConnectSceneServer and ConnectCentre set the pointer before the challenge is
\* answered, ConnectLoginServer afterwards.
Connect(g, v) ==
  LET k == made + 1
  IN /\ v \in up /\ wait[g] = None /\ cur[g][v] = None
     /\ made < MaxConns
     /\ conn' = [conn EXCEPT ![k] = NewConn(g, v)]
     /\ cur' = IF v = "login" THEN cur ELSE [cur EXCEPT ![g][v] = k]
     /\ wait' = [wait EXCEPT ![g] = k]
     /\ made' = k
     /\ UNCHANGED <<clients, faults, tables>>

\* The answer is there.  Only now is the connection to a scene server given the
\* server's id, without which its OnDisconnect does nothing.
Authenticated(g) ==
  LET k == wait[g]
  IN /\ k # None /\ conn[k].auth
     /\ conn' = [conn EXCEPT ![k].known = TRUE]
     /\ cur' = [cur EXCEPT ![g][conn[k].to] = k]
     /\ wait' = [wait EXCEPT ![g] = None]
     /\ UNCHANGED <<clients, made, faults, tables>>

\* It does not come in time, because of the line or because the server is slow.
AuthTimeout(g) ==
  LET k == wait[g]
      lost == ~Through(conn[k])
  IN /\ k # None /\ ~conn[k].auth
     /\ (~lost => faults < MaxFaults)
     /\ faults' = IF lost THEN faults ELSE faults + 1
     /\ conn' = [conn EXCEPT ![k] = ShutGate(@)]
     /\ cur' = [cur EXCEPT ![g][conn[k].to] = None]
     /\ wait' = [wait EXCEPT ![g] = None]
     /\ UNCHANGED <<clients, made, tables>>

\* No pong for a minute.
PongTimeout(g, v) ==
  LET k == cur[g][v]
  IN /\ wait[g] = None /\ k # None /\ conn[k].pongLate
     /\ conn' = [conn EXCEPT ![k] = ShutGate(@)]
     /\ cur' = [cur EXCEPT ![g][v] = None]
     /\ UNCHANGED <<wait, clients, made, faults, tables>>

\* The gateway itself has not pinged the scene server: the link is kept.
PongExcused(g) ==
  LET k == cur[g]["scene"]
  IN /\ wait[g] = None
     /\ k # None /\ conn[k].pongLate /\ Through(conn[k])
     /\ conn' = [conn EXCEPT ![k].pongLate = FALSE]
     /\ UNCHANGED <<cur, wait, clients, made, faults, tables>>

\* AddNewPlayerToSceneServer sends a client's entry by way of the link.
ClientsEnter(g) ==
  /\ wait[g] = None
  /\ cur[g]["scene"] # None /\ clients[g] = None
  /\ clients' = [clients EXCEPT ![g] = cur[g]["scene"]]
  /\ UNCHANGED <<conn, cur, wait, made, faults, tables>>

-----------------------------------------------------------------------------
(* The gateway: network threads *)

\* ConnectionDropped of either handler takes the lock that UpdateSockets holds
\* while it waits for an answer.
LockFree(g, v) ==
  wait[g] # None => (v = "login") # (conn[wait[g]].to = "login")

\* Whether OnDisconnect calls the handler: the connection has its server's id.
\* The central server's is set by HandleAuthResponse.
Noticed(r) ==
  CASE r.to = "login" -> TRUE
    [] r.to = "master" -> r.auth
    [] r.to = "scene" -> r.known

\* Mutant: the pointer is kept.
KeepPointer(g, v) == cur

\* ConnectionDropped, CentreConnectionDropped: whichever connection is current
DropPointer(g, v) == [cur EXCEPT ![g][v] = None]

\* Mutant: the clients stay.
KeepClients(g, v) == clients

\* CloseAllGameSockets
CloseAllGameSockets(g, v) ==
  IF v = "login" THEN clients ELSE [clients EXCEPT ![g] = None]

OnDisconnect(k) ==
  LET g == conn[k].gw
      v == conn[k].to
  IN /\ k \in Used /\ conn[k].gate = "shut"
     /\ conn' = [conn EXCEPT ![k].gate = "done"]
     /\ IF Noticed(conn[k])
          THEN /\ LockFree(g, v)
               /\ cur' = DropPointer(g, v)
               /\ clients' = CloseAllGameSockets(g, v)
          ELSE UNCHANGED <<cur, clients>>
     /\ UNCHANGED <<wait, made, faults, tables>>

-----------------------------------------------------------------------------
(* The login server *)

\* The answer reaches the gateway's network thread if the line still stands.
Answer(r) == [r EXCEPT !.auth = Through(r)]

\* HandleAuthChallenge: GenerateGatewayInfoID is ++ without a lock ...
GenerateId(k) ==
  /\ conn[k].to = "login" /\ conn[k].chal /\ conn[k].serv = "open"
  /\ conn' = [conn EXCEPT ![k].chal = FALSE, ![k].hand = "auth", ![k].seen = idHigh]
  /\ UNCHANGED <<cur, wait, clients, made, faults, tables>>

\* AddGatewayConnectInfo: insert keeps an entry that is there.
AddGatewayConnectInfo(i, k) == [info EXCEPT ![i] = IF @ = None THEN k ELSE @]

\* ... then the gateway is registered under it.
RegisterGateway(k) ==
  LET i == conn[k].seen + 1
  IN /\ conn[k].to = "login" /\ conn[k].hand = "auth"
     /\ idHigh' = i
     /\ issued' = issued \cup {i}
     /\ twice' = twice \cup ({i} \cap issued)
     /\ info' = AddGatewayConnectInfo(i, k)
     /\ count' = [count EXCEPT ![i] = IF @ = None THEN k ELSE @]
     /\ conn' = [conn EXCEPT ![k] = [Answer(@) EXCEPT !.reg = TRUE, !.gid = i,
                                                      !.hand = "none", !.seen = 0]]
     /\ UNCHANGED <<up, cur, wait, clients, made, faults>>

\* The connection that a gateway works with, and pings.
Pinging(k) ==
  /\ k \in Used /\ conn[k].reg /\ Through(conn[k]) /\ conn[k].hand = "none"
  /\ cur[conn[k].gw][conn[k].to] = k

\* HandlePing of the login server: is the gateway registered?
LoginPing(k) ==
  /\ Pinging(k) /\ conn[k].to = "login"
  /\ conn' = [conn EXCEPT ![k].hand = IF info[conn[k].gid] = None THEN "pong" ELSE "count"]
  /\ UNCHANGED <<cur, wait, clients, made, faults, tables>>

\* Ping and pong set both ends' clocks right.
Ponged(r) == [r EXCEPT !.hand = "none", !.pingLate = FALSE,
                       !.pongLate = IF Through(r) THEN FALSE ELSE @]

\* Its load is stored by operator[], which makes an entry where there is none.
LoginPong(k) ==
  LET i == conn[k].gid
  IN /\ conn[k].to = "login" /\ conn[k].hand \in {"count", "pong"}
     /\ count' = [count EXCEPT ![i] = IF conn[k].hand = "count" /\ @ = None
                                      THEN Nameless ELSE @]
     /\ conn' = [conn EXCEPT ![k] = Ponged(@)]
     /\ UNCHANGED <<up, cur, wait, clients, ids, info, made, faults>>

\* Mutant: the load of a gateway that has gone is kept.
RemoveInfoOnly(k) ==
  LET i == conn[k].gid
  IN /\ info' = IF i = 0 THEN info ELSE [info EXCEPT ![i] = None]
     /\ UNCHANGED <<ids, count>>

\* RemoveGatewayConnectInfo of the connection's id
RemoveGatewayConnectInfo(k) ==
  LET i == conn[k].gid
      found == i # 0 /\ info[i] # None
  IN /\ info' = IF found THEN [info EXCEPT ![i] = None] ELSE info
     /\ count' = IF found THEN [count EXCEPT ![i] = None] ELSE count
     /\ UNCHANGED ids

\* OnDisconnect; a connection that has timed out is removed already.
LoginOnDisconnect(k) ==
  /\ conn[k].to = "login" /\ conn[k].serv = "shut" /\ conn[k].hand = "none"
  /\ IF conn[k].list # "no" THEN RemoveGatewayConnectInfo(k) ELSE UNCHANGED <<ids, info, count>>
  /\ conn' = [conn EXCEPT ![k].serv = "gone", ![k].list = "no"]
  /\ UNCHANGED <<up, cur, wait, clients, made, faults>>

-----------------------------------------------------------------------------
(* The central and the scene server handle their packets on the main thread. *)

\* HandleAuthChallenge of the central server, HandleGatewayAuthReq of the scene
\* server, which moves the connection to the set of its platform
HandleAuthReq(k) ==
  /\ conn[k].to \in {"master", "scene"} /\ conn[k].chal /\ conn[k].list = "new"
  /\ conn' = [conn EXCEPT ![k] = [Answer(@) EXCEPT !.chal = FALSE, !.reg = TRUE,
                !.list = IF conn[k].to = "scene" THEN "platform" ELSE conn[k].list]]
  /\ UNCHANGED <<cur, wait, clients, made, faults, tables>>

HandlePing(k) ==
  /\ Pinging(k) /\ conn[k].to # "login"
  /\ conn[k].pingLate \/ conn[k].pongLate
  /\ conn' = [conn EXCEPT ![k] = Ponged(@)]
  /\ UNCHANGED <<cur, wait, clients, made, faults, tables>>

\* OnDisconnect of the central server
MasterOnDisconnect(k) ==
  /\ conn[k].to = "master" /\ conn[k].serv = "shut"
  /\ conn' = [conn EXCEPT ![k].serv = "gone", ![k].list = "no"]
  /\ UNCHANGED <<cur, wait, clients, made, faults, tables>>

\* OnDisconnect of the scene server reads which set the connection is in (seen) ...
SceneOnDisconnect(k) ==
  /\ conn[k].to = "scene" /\ conn[k].serv = "shut"
  /\ conn' = [conn EXCEPT ![k].serv = IF conn[k].list = "no" THEN "gone" ELSE "closing",
                          ![k].seen = IF conn[k].reg THEN 1 ELSE 0]
  /\ UNCHANGED <<cur, wait, clients, made, faults, tables>>

\* ... and takes it out of that set once it has the lock.
SceneRemoveSocket(k) ==
  /\ conn[k].to = "scene" /\ conn[k].serv = "closing"
  /\ conn' = [conn EXCEPT ![k].serv = "gone", ![k].seen = 0,
                ![k].list = IF (conn[k].seen = 1) = (@ = "platform") THEN "no" ELSE @]
  /\ UNCHANGED <<cur, wait, clients, made, faults, tables>>

\* Mutant: the list keeps what has timed out.
KeepListed(r) == ShutServ(r)

Unlisted(r) == ShutServ([r EXCEPT !.list = "no"])

\* TimeoutSockets of each server: no ping for one minute, or two
TimeoutSocket(k) ==
  /\ k \in Used /\ conn[k].list # "no" /\ conn[k].pingLate
  /\ IF conn[k].to = "login" THEN RemoveGatewayConnectInfo(k) ELSE UNCHANGED <<ids, info, count>>
  /\ conn' = [conn EXCEPT ![k] = Unlisted(@)]
  /\ UNCHANGED <<up, cur, wait, clients, made, faults>>

-----------------------------------------------------------------------------
(* The line, the clocks, and the objects *)

Lose(k) ==
  /\ k \in Used /\ Through(conn[k]) /\ faults < MaxFaults
  /\ conn' = [conn EXCEPT ![k].gate = "shut", ![k].serv = "shut"]
  /\ faults' = faults + 1
  /\ UNCHANGED <<cur, wait, clients, made, tables>>

FallMute(k) ==
  /\ k \in Used /\ Through(conn[k]) /\ faults < MaxFaults
  /\ conn' = [conn EXCEPT ![k].mute = TRUE, ![k].chal = FALSE]
  /\ faults' = faults + 1
  /\ UNCHANGED <<cur, wait, clients, made, tables>>

\* Nobody pings a connection that is mute, or that its gateway does not work with.
Unpinged(k) ==
  LET r == conn[k]
  IN /\ k \in Used /\ r.list # "no" /\ ~r.chal /\ r.hand # "auth" /\ ~r.pingLate
     /\ ~Through(r) \/ (cur[r.gw][r.to] # k /\ wait[r.gw] # k)

PingsStop(k) ==
  /\ Unpinged(k)
  /\ conn' = [conn EXCEPT ![k].pingLate = TRUE]
  /\ UNCHANGED <<cur, wait, clients, made, faults, tables>>

\* No pong comes on a connection that does not stand.
Unanswered(k) ==
  LET r == conn[k]
  IN k \in Used /\ cur[r.gw][r.to] = k /\ wait[r.gw] # k /\ ~r.pongLate /\ ~Through(r)

PongsStop(k) ==
  /\ Unanswered(k)
  /\ conn' = [conn EXCEPT ![k].pongLate = TRUE]
  /\ UNCHANGED <<cur, wait, clients, made, faults, tables>>

\* A minute passes without a ping or a pong on a link that stands.
HeldUp(k) ==
  /\ Pinging(k) /\ wait[conn[k].gw] # k /\ faults < MaxFaults
  /\ conn' = [conn EXCEPT ![k].pingLate = TRUE, ![k].pongLate = TRUE]
  /\ faults' = faults + 1
  /\ UNCHANGED <<cur, wait, clients, made, tables>>

\* SocketDeleter frees both objects; one that something still refers to is kept to
\* tell what the reference is to.
Referred(k) ==
  \/ conn[k].list # "no"
  \/ \E g \in Gateways : wait[g] = k \/ clients[g] = k \/ \E v \in Servers : cur[g][v] = k

Free(k) ==
  /\ k \in Used /\ conn[k].gate = "done" /\ conn[k].serv = "gone"
  /\ conn[k].hand = "none" /\ ~Referred(k)
  /\ conn' = [conn EXCEPT ![k] = Blank]
  /\ UNCHANGED <<cur, wait, clients, made, faults, tables>>

-----------------------------------------------------------------------------
UpdateSockets(g) ==
  \/ \E v \in Servers : Connect(g, v)
  \/ Authenticated(g) \/ AuthTimeout(g)
  \/ \E v \in Servers : PongTimeout(g, v)
  \/ PongExcused(g)

ServerSide(k) ==
  \/ GenerateId(k) \/ RegisterGateway(k) \/ LoginPing(k) \/ LoginPong(k)
  \/ LoginOnDisconnect(k)
  \/ HandleAuthReq(k) \/ HandlePing(k)
  \/ MasterOnDisconnect(k) \/ SceneOnDisconnect(k) \/ SceneRemoveSocket(k)
  \/ TimeoutSocket(k)

Clocks(k) == PingsStop(k) \/ PongsStop(k)

Next ==
  \/ \E g \in Gateways : UpdateSockets(g) \/ ClientsEnter(g)
  \/ \E k \in Conns :
       \/ OnDisconnect(k) \/ ServerSide(k)
       \/ Lose(k) \/ FallMute(k) \/ HeldUp(k) \/ Clocks(k) \/ Free(k)

Spec == Init /\ [][Next]_vars

\* What a connection's callbacks, its handlers and the clocks have still to do
Pending(k) ==
  \/ OnDisconnect(k) \/ LoginOnDisconnect(k) \/ MasterOnDisconnect(k)
  \/ SceneOnDisconnect(k) \/ SceneRemoveSocket(k)
  \/ GenerateId(k) \/ RegisterGateway(k) \/ HandleAuthReq(k)
  \/ TimeoutSocket(k) \/ Clocks(k)

\* The main loops turn, callbacks run, handlers that have begun end, and the
\* clocks go.  A gateway that could connect again and again does so.
FairSpec ==
  /\ Spec
  /\ \A g \in Gateways :
       /\ WF_vars(Authenticated(g) \/ AuthTimeout(g))
       /\ WF_vars(\E v \in Servers : PongTimeout(g, v))
       /\ SF_vars(\E v \in Servers : Connect(g, v))
  /\ \A k \in Conns : WF_vars(Pending(k)) /\ WF_vars(LoginPong(k))

-----------------------------------------------------------------------------
(* Properties *)

ConnRecords ==
  [gw : Gateways \cup {None}, to : Servers \cup {None}, mute : BOOLEAN,
   gate : {"open", "shut", "done"}, auth : BOOLEAN, known : BOOLEAN,
   pongLate : BOOLEAN, serv : {"open", "shut", "closing", "gone"},
   list : {"no", "new", "platform"}, reg : BOOLEAN, gid : {0} \cup Ids,
   pingLate : BOOLEAN, hand : {"none", "auth", "count", "pong"},
   seen : {0} \cup Ids, chal : BOOLEAN]

TypeOK ==
  /\ up \in Realms
  /\ conn \in [Conns -> ConnRecords]
  /\ cur \in [Gateways -> [Servers -> Conns \cup {None}]]
  /\ wait \in [Gateways -> Conns \cup {None}]
  /\ clients \in [Gateways -> Conns \cup {None}]
  /\ idHigh \in {0} \cup Ids
  /\ twice \subseteq issued /\ issued \subseteq Ids
  /\ info \in [Ids -> Conns \cup {None}]
  /\ count \in [Ids -> Conns \cup {None, Nameless}]
  /\ made \in 0..MaxConns /\ faults \in 0..MaxFaults

\* The pointer a gateway works with is never to a connection that has ended and
\* will be freed, except while it waits: ConnectionDropped clears it.  Not so a
\* scene server's connection that ends between the answer to its challenge and the
\* moment the main loop sees it; its OnDisconnect does nothing.
LinkAlive ==
  /\ TypeOK
  /\ \A g \in Gateways, v \in Servers :
       LET k == cur[g][v]
       IN k # None /\ wait[g] # k =>
            /\ conn[k].gw = g /\ conn[k].to = v
            /\ conn[k].gate = "done" => v = "scene" /\ conn[k].auth

\* A gateway is registered with the login server by its own connection, which has
\* not been given up, and its load is counted under the same id, from when it is
\* registered until it is removed (a load that was on its way when it was removed
\* leaves a nameless entry); and every connection the login server keeps is
\* registered.  Two that were given the same id share one registration, and the
\* first to end takes it away.
Registrations ==
  /\ \A i \in Ids \ twice :
       /\ info[i] # None => conn[info[i]].gid = i /\ conn[info[i]].list # "no"
       /\ count[i] # Nameless => count[i] = info[i]
       /\ count[i] = Nameless => info[i] = None
  /\ \A k \in Links("login") :
       conn[k].reg /\ conn[k].list # "no" /\ conn[k].gid \notin twice
         => info[conn[k].gid] = k

\* A gateway works with a connection to each server that stands.
LinkUp(g, v) == cur[g][v] # None /\ Through(conn[cur[g][v]])

\* A link that is missing or lost, noticed or not, is replaced by one that stands,
\* unless the bound on connections is reached.
LostLinkReplaced ==
  \A g \in Gateways, v \in Servers :
    (v \in up /\ ~LinkUp(g, v)) ~> (LinkUp(g, v) \/ made = MaxConns)

\* The servers' lists do not keep a connection that is lost or that nobody pings:
\* the login server offers no such gateway as registered for ever.
ListedEnds ==
  \A k \in Conns :
    (k \in Used /\ conn[k].list # "no" /\ ~Through(conn[k])) ~> conn[k].list = "no"

\* A lost link does not stay, on either side: the gateway gets another one and the
\* server forgets it.
LostLinksEnd == LostLinkReplaced /\ ListedEnds

\* The clients that entered a scene server by a link are cut off when the link ends,
\* by its OnDisconnect, if that has a server id to go by.
ClientsCut ==
  \A g \in Gateways, k \in Conns :
    (clients[g] = k /\ conn[k].known /\ conn[k].gate # "done" /\ ~Through(conn[k]))
      ~> clients[g] # k

\* ConnectionDropped closes the clients because both ways of losing a connection
\* call it (SceneCommHandler.cpp:111): no client stays when its link is gone.
ClientsAlwaysCut ==
  \A g \in Gateways, k \in Conns :
    (clients[g] = k /\ ~Through(conn[k])) ~> clients[g] # k
=============================================================================
