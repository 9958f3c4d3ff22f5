--------------------- MODULE GatewaySessionProofs ---------------------
(* Proofs about GatewaySession, for any number of client connections,      *)
(* accounts, role guids and scene servers.                                 *)
EXTENDS GatewaySession, TLAPS

-----------------------------------------------------------------------------
(* The inductive invariant *)

SockRecords ==
  [conn : {"none", "open", "shut", "closing", "down", "freed"},
   acct : Accounts \cup {None}, guid : Guids \cup {None},
   auth : SUBSET {"sent", "ok", "failed"}, req : BOOLEAN, scene : Scenes \cup {0},
   delay : BOOLEAN, told : {"no", "asked", "closed"}, turns : 0..Turns]

\* Sockets are deleted, or the threads interleave, but not both.
Orderly == ~Deletes \/ ~Interleaved

\* The account a guid belongs to.
Owner(k) == IF k \in Roles THEN AccountOf[k] ELSE k

\* A guid is given by the callback, for the socket's own account; nobody has
\* succeeded, entered a scene or a list without one.
Guided ==
  \A s \in Socks :
    /\ sock[s].guid = None => sock[s].scene = 0 /\ ~Succeeded(sock[s])
    /\ sock[s].guid # None => Owner(sock[s].guid) = sock[s].acct
    /\ s \in waiting => sock[s].guid = None /\ sock[s].acct # None /\ s # call.s

\* The socket of the callback under way is in no list yet.
CallNew ==
  /\ call.at = "idle" <=> call.s = None
  /\ call.s # None =>
       /\ sock[call.s].acct # None /\ sock[call.s].scene = 0
       /\ sock[call.s].guid = IF call.at = "found" THEN None ELSE sock[call.s].acct
       /\ \A k \in Guids : online[k] # call.s
       /\ \A a \in Accounts : pending[a] # call.s

\* Both lists are keyed by the guids of the sockets, which wait outside scenes.
Keyed ==
  /\ \A k \in Guids : online[k] # None => sock[online[k]].guid = k
  /\ \A a \in Accounts : pending[a] # None =>
       sock[pending[a]].guid = a /\ sock[pending[a]].scene = 0

\* Nobody is in both lists.
Apart == \A a \in Accounts, k \in Guids : pending[a] # None => online[k] # pending[a]

\* An account is online under one of its guids.
OneGuid ==
  \A j, k \in Guids : online[j] # None /\ online[k] # None /\ Owner(j) = Owner(k) => j = k

\* When the threads do not interleave, a closed socket has left the pending
\* list and its authentication, and a deleted one has left everything.
ClosedOut ==
  ~Interleaved => \A s \in Socks :
    /\ sock[s].conn \in {"down", "freed"} => ~Succeeded(sock[s])
    /\ \A a \in Accounts : pending[a] = s => Succeeded(sock[s])
    /\ s \in waiting => sock[s].conn \in {"open", "shut"} /\ sock[s].req
    /\ sock[s].conn = "freed" => \A k \in Guids : online[k] # s
    /\ s = call.s => sock[s].conn = "open"
    /\ s = call.s /\ call.at = "found" => sock[s].req
    /\ s = call.s /\ call.at # "found" => Succeeded(sock[s])

\* When the threads do not interleave, a connected client that has succeeded is
\* in a list or on its way there, nobody waits for a client that is not cut off,
\* and one that is cut off is the only one under its guid.
HeldOnce ==
  ~Interleaved =>
    /\ \A s \in Socks : sock[s].conn = "open" /\ Succeeded(sock[s]) =>
         \/ s = call.s
         \/ \E k \in Guids : online[k] = s
         \/ \E a \in Accounts : pending[a] = s
    /\ \A k \in Guids : online[k] # None /\ sock[online[k]].conn = "open" =>
         /\ pending[Owner(k)] = None
         /\ call.at = "insert" => sock[call.s].acct # Owner(k)
    /\ \A s \in Socks, a \in Accounts :
         /\ sock[s].conn \in {"shut", "closing"} /\ Succeeded(sock[s])
         /\ sock[s].scene = 0 /\ sock[s].guid = a
         => pending[a] \in {s, None}

Lists ==
  /\ Guided /\ CallNew /\ Keyed /\ Apart /\ OneGuid
  /\ InSceneReachable /\ ClosedOut /\ HeldOnce

ListsInv == TypeOK /\ Lists

-----------------------------------------------------------------------------
(* Types *)

\* The records of the sockets, and the operations on them.
LEMMA BlankType == Blank \in SockRecords /\ [Blank EXCEPT !.conn = "freed"] \in SockRecords
<1>1. 0 \in 0..Turns
  BY ConstantsAssumption
<1>2. Blank \in SockRecords
  BY <1>1 DEF Blank, SockRecords
<1> QED BY <1>2 DEF SockRecords

LEMMA RecordTypes ==
  ASSUME NEW r \in SockRecords
  PROVE  /\ Disconnect(r) \in SockRecords
         /\ GiveUpSession(r) \in SockRecords
         /\ Aged(r) \in SockRecords
         /\ \A n \in Scenes : EnterScene(r, n) \in SockRecords
<1>1. Disconnect(r) \in SockRecords
  BY DEF Disconnect, SockRecords
<1>2. GiveUpSession(r) \in SockRecords
  BY DEF GiveUpSession, SockRecords
<1>3. Aged(r) \in SockRecords
  <2>1. r.turns < Turns => r.turns + 1 \in 0..Turns
    BY ConstantsAssumption DEF SockRecords
  <2> QED BY <2>1 DEF Aged, SockRecords
<1>4. \A n \in Scenes : EnterScene(r, n) \in SockRecords
  BY DEF EnterScene, SockRecords
<1> QED BY <1>1, <1>2, <1>3, <1>4

LEMMA DisconnectAllType ==
  ASSUME TypeOK, NEW S
  PROVE  DisconnectAll(S) \in [Socks -> SockRecords]
BY RecordTypes DEF DisconnectAll, TypeOK, SockRecords

\* The clients in the lists are sockets.
LEMMA ListTypes ==
  ASSUME TypeOK
  PROVE  /\ sock \in [Socks -> SockRecords]
         /\ OnlineSocks \subseteq Socks /\ PendingSocks \subseteq Socks
         /\ None \notin Socks
         /\ \A k \in Guids : online[k] # None => online[k] \in Socks
         /\ \A a \in Accounts : pending[a] # None => pending[a] \in Socks
         /\ call.s # None => call.s \in Socks
         /\ call = [s |-> call.s, ok |-> call.ok, at |-> call.at]
         /\ call.at \in {"idle", "found", "check", "insert"}
BY ConstantsAssumption DEF TypeOK, SockRecords, OnlineSocks, PendingSocks

\* Every action keeps the types.
LEMMA NextTypeOK ==
  ASSUME TypeOK, CallNew, [Next]_vars
  PROVE  TypeOK'
<1>0. /\ sock \in [Socks -> SockRecords]
      /\ \A k \in Guids : online[k] # None => online[k] \in Socks
      /\ \A a \in Accounts : pending[a] # None => pending[a] \in Socks
      /\ call.s # None => call.s \in Socks
      /\ \A S : DisconnectAll(S) \in [Socks -> SockRecords]
  BY ListTypes, DisconnectAllType
<1>1. ASSUME NEW s \in Socks, OnConnect(s) PROVE TypeOK'
  <2>1. [sock[s] EXCEPT !.conn = "open"] \in SockRecords
    BY <1>0 DEF SockRecords
  <2> QED BY <1>0, <1>1, <2>1 DEF OnConnect, TypeOK, SockRecords
<1>2. ASSUME NEW s \in Socks, NEW a \in Accounts, HandleUserAuthSession(s, a) PROVE TypeOK'
  <2>0. \A r \in SockRecords :
          [r EXCEPT !.acct = a, !.req = TRUE, !.auth = {"sent"}] \in SockRecords
    BY DEF SockRecords
  <2>1. [sock[s] EXCEPT !.acct = a, !.req = TRUE, !.auth = {"sent"}] \in SockRecords
    BY <1>0, <2>0
  <2>2. sock' = [sock EXCEPT ![s] = [sock[s] EXCEPT !.acct = a, !.req = TRUE, !.auth = {"sent"}]]
    BY <1>0, <1>2 DEF HandleUserAuthSession
  <2>3. sock' \in [Socks -> SockRecords]
    BY <1>0, <2>1, <2>2
  <2> QED BY <1>2, <2>3 DEF HandleUserAuthSession, TypeOK, SockRecords
<1>3. ASSUME NEW s \in Socks, AuthNotSent(s) \/ ClientLeaves(s) PROVE TypeOK'
  <2>1. sock' \in [Socks -> SockRecords]
    BY <1>0, <1>3, RecordTypes DEF AuthNotSent, ClientLeaves
  <2> QED BY <1>3, <2>1 DEF AuthNotSent, ClientLeaves, TypeOK, SockRecords
<1>4. ASSUME NEW s \in Socks, OnDisconnectRequest(s) PROVE TypeOK'
  <2>0. \A r \in SockRecords : [r EXCEPT !.conn = "closing", !.req = FALSE] \in SockRecords
    BY DEF SockRecords
  <2>1. [sock[s] EXCEPT !.conn = "closing", !.req = FALSE] \in SockRecords
    BY <1>0, <2>0
  <2>2. sock' = [sock EXCEPT ![s] = [sock[s] EXCEPT !.conn = "closing", !.req = FALSE]]
    BY <1>0, <1>4 DEF OnDisconnectRequest
  <2>3. sock' \in [Socks -> SockRecords]
    BY <1>0, <2>1, <2>2
  <2> QED
    BY <1>4, <2>3 DEF OnDisconnectRequest, UnauthedSocketClose, TypeOK, SockRecords
<1>5. ASSUME NEW s \in Socks, OnDisconnectSession(s) PROVE TypeOK'
  <2>1. \A r \in SockRecords, t \in {"no", "asked", "closed"} :
           [r EXCEPT !.conn = "down", !.told = t] \in SockRecords
    BY DEF SockRecords
  <2>2. /\ sock[s] \in SockRecords /\ GiveUpSession(sock[s]) \in SockRecords
        /\ sock[s].told \in {"no", "asked", "closed"}
    BY <1>0, RecordTypes DEF SockRecords
  <2>3. PICK r \in {sock[s], GiveUpSession(sock[s])}, t \in {"closed", sock[s].told} :
          sock' = [sock EXCEPT ![s] = [r EXCEPT !.conn = "down", !.told = t]]
    BY <1>5 DEF OnDisconnectSession, GiveUpSession
  <2>4. sock' \in [Socks -> SockRecords]
    <3>1. [r EXCEPT !.conn = "down", !.told = t] \in SockRecords
      BY <2>1, <2>2
    <3> QED BY <1>0, <2>3, <3>1
  <2>5. pending' \in [Accounts -> Socks \cup {None}]
    BY <1>5 DEF OnDisconnectSession, RemovePending, TypeOK
  <2> QED BY <1>5, <2>4, <2>5 DEF OnDisconnectSession, TypeOK, SockRecords
<1>6. ASSUME NEW s \in Socks, NEW ok \in BOOLEAN, HandleAccountAuthResult(s, ok) PROVE TypeOK'
  BY <1>6 DEF HandleAccountAuthResult, TypeOK
<1>7. ASSUME LogonConnectionDropped \/ EndRecv \/ UNCHANGED vars PROVE TypeOK'
  BY <1>7 DEF LogonConnectionDropped, EndRecv, vars, TypeOK
<1>8. ASSUME SessionAuthedFailCallback PROVE TypeOK'
  <2>1. call.s \in Socks
    BY <1>0, <1>8 DEF SessionAuthedFailCallback, CallNew
  <2>2. [sock[call.s] EXCEPT !.auth = @ \cup {"failed"}] \in SockRecords
    BY <1>0, <2>1 DEF SockRecords
  <2>3. sock' \in [Socks -> SockRecords]
    BY <1>0, <1>8, <2>1, <2>2 DEF SessionAuthedFailCallback
  <2> QED BY <1>8, <2>3 DEF SessionAuthedFailCallback, TypeOK, SockRecords, Idle
<1>9. ASSUME SessionAuthedSuccessCallback PROVE TypeOK'
  <2>1. call.s \in Socks /\ sock[call.s].acct \in Accounts
    BY <1>0, <1>9 DEF SessionAuthedSuccessCallback, CallNew, SockRecords
  <2>0. \A r \in SockRecords, a \in Accounts :
          [r EXCEPT !.auth = @ \cup {"ok"}, !.guid = a, !.req = FALSE] \in SockRecords
    BY DEF SockRecords, Guids
  <2>2. [sock[call.s] EXCEPT !.auth = @ \cup {"ok"}, !.guid = sock[call.s].acct, !.req = FALSE]
          \in SockRecords
    BY <1>0, <2>1, <2>0
  <2>3. sock' = [sock EXCEPT ![call.s] =
          [sock[call.s] EXCEPT !.auth = @ \cup {"ok"}, !.guid = sock[call.s].acct, !.req = FALSE]]
    BY <1>0, <1>9, <2>1 DEF SessionAuthedSuccessCallback
  <2>4. sock' \in [Socks -> SockRecords]
    BY <1>0, <2>1, <2>2, <2>3
  <2> QED BY <1>9, <2>4 DEF SessionAuthedSuccessCallback, TypeOK, SockRecords
<1>10. ASSUME AddPendingCheck PROVE TypeOK'
  <2>1. call.s \in Socks
    BY <1>0, <1>10 DEF AddPendingCheck, CallNew
  <2>2. \A r \in SockRecords : [r EXCEPT !.delay = TRUE] \in SockRecords
    BY DEF SockRecords
  <2>3. sock' \in [Socks -> SockRecords]
    <3>1. CASE sock' = sock
      BY <1>0, <3>1
    <3>2. CASE \E t : sock' = [DisconnectAll({t}) EXCEPT ![call.s].delay = TRUE]
      <4>1. PICK t : sock' = [DisconnectAll({t}) EXCEPT ![call.s].delay = TRUE]
        BY <3>2
      <4>2. DisconnectAll({t}) \in [Socks -> SockRecords]
        BY <1>0
      <4> QED BY <2>1, <2>2, <4>1, <4>2
    <3> QED BY <1>10, <3>1, <3>2 DEF AddPendingCheck
  <2> QED BY <1>10, <2>3 DEF AddPendingCheck, TypeOK, SockRecords
<1>11. ASSUME AddPendingReplace \/ AddPendingInsert PROVE TypeOK'
  <2>1. sock' \in [Socks -> SockRecords]
    BY <1>0, <1>11 DEF AddPendingReplace, AddPendingInsert, CutOffReplaced
  <2>2. pending' \in [Accounts -> Socks \cup {None}]
    BY <1>11 DEF AddPendingReplace, AddPendingInsert, TypeOK
  <2>3. UNCHANGED <<asked, waiting, online, links, pc>> /\ (call' = call \/ call' = Idle)
    BY <1>11 DEF AddPendingReplace, AddPendingInsert
  <2>4. call' \in [s : Socks \cup {None}, ok : BOOLEAN, at : {"idle", "found", "check", "insert"}]
    <3>1. Idle \in [s : Socks \cup {None}, ok : BOOLEAN, at : {"idle", "found", "check", "insert"}]
      BY DEF Idle
    <3> QED BY <2>3, <3>1 DEF TypeOK
  <2> QED BY <2>1, <2>2, <2>3, <2>4 DEF TypeOK, SockRecords
<1>12. ASSUME NEW k \in Guids, NEW i \in Socks, NEW direct \in BOOLEAN,
              HandleCloseGameSocket(k, i, direct)
       PROVE  TypeOK'
  <2>1. \A r \in SockRecords : /\ [r EXCEPT !.auth = {"failed"}, !.told = "closed"] \in SockRecords
                               /\ [r EXCEPT !.told = "closed"] \in SockRecords
    BY DEF SockRecords
  <2>2. online[k] \in Socks /\ Disconnect(sock[online[k]]) \in SockRecords
    BY <1>0, <1>12, RecordTypes DEF HandleCloseGameSocket
  <2>3. sock' \in [Socks -> SockRecords]
    BY <1>0, <1>12, <2>1, <2>2 DEF HandleCloseGameSocket
  <2> QED BY <1>12, <2>3 DEF HandleCloseGameSocket, TypeOK, SockRecords
<1>13. ASSUME NEW k \in Guids, NEW r \in Roles, NEW n \in Scenes,
              HandleChooseGameRoleResponse(k, r, n)
       PROVE  TypeOK'
  <2>1. online[k] \in Socks /\ [sock[online[k]] EXCEPT !.guid = r] \in SockRecords
    BY <1>0, <1>13 DEF HandleChooseGameRoleResponse, SockRecords, Guids
  <2>2. EnterScene([sock[online[k]] EXCEPT !.guid = r], n) \in SockRecords
    BY <2>1, RecordTypes
  <2>3. sock' = [sock EXCEPT ![online[k]] = EnterScene([sock[online[k]] EXCEPT !.guid = r], n)]
    BY <1>0, <1>13, <2>1 DEF HandleChooseGameRoleResponse
  <2>4. sock' \in [Socks -> SockRecords]
    BY <1>0, <2>1, <2>2, <2>3
  <2>5. online' \in [Guids -> Socks \cup {None}]
    BY <1>13, <2>1 DEF HandleChooseGameRoleResponse, UpdateGameSocektGuid, TypeOK, Guids
  <2> QED BY <1>13, <2>4, <2>5 DEF HandleChooseGameRoleResponse, TypeOK, SockRecords
<1>14. ASSUME NEW k \in Guids, NEW n \in Scenes, HandleChangeSceneServerMasterNotice(k, n)
       PROVE  TypeOK'
  <2>1. online[k] \in Socks /\ EnterScene(sock[online[k]], n) \in SockRecords
    BY <1>0, <1>14, RecordTypes DEF HandleChangeSceneServerMasterNotice
  <2>2. sock' \in [Socks -> SockRecords]
    BY <1>0, <1>14, <2>1 DEF HandleChangeSceneServerMasterNotice
  <2> QED BY <1>14, <2>2 DEF HandleChangeSceneServerMasterNotice, TypeOK, SockRecords
<1>15. ASSUME NEW n \in Scenes \cup {Master}, ConnectionDropped(n) \/ Reconnect(n) PROVE TypeOK'
  <2>1. sock' \in [Socks -> SockRecords] /\ links' \subseteq Scenes \cup {Master}
    BY <1>0, <1>15 DEF ConnectionDropped, Reconnect, TypeOK
  <2> QED BY <1>15, <2>1 DEF ConnectionDropped, Reconnect, TypeOK, SockRecords
<1>16. ASSUME NEW late \in SUBSET OnlineSocks, UpdateGameSockets(late) PROVE TypeOK'
  <2>1. \A s \in Socks : Disconnect(sock[s]) \in SockRecords
    BY <1>0, RecordTypes
  <2>2. sock' \in [Socks -> SockRecords]
    BY <1>0, <1>16, <2>1, BlankType DEF UpdateGameSockets
  <2>3. online' \in [Guids -> Socks \cup {None}]
    BY <1>16 DEF UpdateGameSockets, TypeOK
  <2> QED BY <1>16, <2>2, <2>3 DEF UpdateGameSockets, TypeOK, SockRecords
<1>17. ASSUME UpdatePendingGameSockets PROVE TypeOK'
  <2>1. \A s \in Socks : /\ Disconnect(sock[s]) \in SockRecords /\ Aged(sock[s]) \in SockRecords
                         /\ \A t \in {"asked", sock[s].told} :
                              [sock[s] EXCEPT !.told = t] \in SockRecords
    <3>1. \A r \in SockRecords : \A t \in {"asked", r.told} :
            [r EXCEPT !.told = t] \in SockRecords
      BY DEF SockRecords
    <3> QED BY <1>0, <3>1, RecordTypes
  <2>2. ASSUME NEW s \in Socks PROVE sock'[s] \in SockRecords
    <3>1. \/ sock'[s] = Disconnect(sock[s]) \/ sock'[s] = Aged(sock[s])
          \/ \E t \in {"asked", sock[s].told} : sock'[s] = [sock[s] EXCEPT !.told = t]
      BY <1>17 DEF UpdatePendingGameSockets
    <3> QED BY <2>1, <3>1
  <2>3. sock' \in [Socks -> SockRecords]
    BY <1>17, <2>2 DEF UpdatePendingGameSockets
  <2>4. /\ online' \in [Guids -> Socks \cup {None}]
        /\ pending' \in [Accounts -> Socks \cup {None}]
    <3>1. \A a \in Accounts : MayEnter(a) => pending[a] \in Socks
      BY <1>0 DEF MayEnter
    <3>2. pending' \in [Accounts -> Socks \cup {None}]
      BY <1>17 DEF UpdatePendingGameSockets, ErasePending, TypeOK
    <3>3. online' \in [Guids -> Socks \cup {None}]
      BY <1>17, <3>1 DEF UpdatePendingGameSockets, TypeOK
    <3> QED BY <3>2, <3>3
  <2> QED BY <1>17, <2>3, <2>4 DEF UpdatePendingGameSockets, TypeOK, SockRecords
<1>18. ASSUME NEW s \in Socks, DelayOver(s) PROVE TypeOK'
  <2>0. \A r \in SockRecords : [r EXCEPT !.delay = FALSE] \in SockRecords
    BY DEF SockRecords
  <2>1. [sock[s] EXCEPT !.delay = FALSE] \in SockRecords
    BY <1>0, <2>0
  <2>2. sock' \in [Socks -> SockRecords]
    BY <1>0, <1>18, <2>1 DEF DelayOver
  <2> QED BY <1>18, <2>2 DEF DelayOver, TypeOK, SockRecords
<1> QED
  BY <1>1, <1>2, <1>3, <1>4, <1>5, <1>6, <1>7, <1>8, <1>9, <1>10, <1>11, <1>12, <1>13, <1>14,
     <1>15, <1>16, <1>17, <1>18
  DEF Next, Client, Close, Callback, Login, Servers, MainLoop

-----------------------------------------------------------------------------
(* Steps that close sockets and change no list *)

LEMMA Owners ==
  /\ \A k \in Guids : Owner(k) \in Accounts
  /\ \A a \in Accounts : a \in Guids /\ Owner(a) = a
  /\ \A r \in Roles : r \in Guids /\ Owner(r) = AccountOf[r]
  /\ None \notin Guids /\ None \notin Accounts
BY ConstantsAssumption DEF Owner, Guids

\* A socket that keeps all that the lists know of it; it may be cut off, and a
\* session may be taken from it when it is online.
Stays(s) ==
  /\ sock'[s].acct = sock[s].acct /\ sock'[s].guid = sock[s].guid
  /\ sock'[s].scene = sock[s].scene /\ sock'[s].req = sock[s].req
  /\ \/ sock'[s].conn = sock[s].conn
     \/ sock[s].conn = "open" /\ sock'[s].conn = "shut" /\ (Interleaved \/ s # call.s)
  /\ \/ Succeeded(sock'[s]) = Succeeded(sock[s])
     \/ ~Succeeded(sock'[s]) /\ \E k \in Guids : online[k] = s

\* The socket of a callback stays the same, and so does its place in it; when it
\* comes to the insertion, the online client of its account has been cut off.
CallStays ==
  /\ call'.s = call.s
  /\ call'.at = "idle" <=> call.at = "idle"
  /\ call'.at = "found" <=> call.at = "found"
  /\ call'.at = "insert" => call.at = "insert" \/ \A k \in Guids :
       online[k] # None /\ Owner(k) = sock[call.s].acct => sock'[online[k]].conn # "open"

\* Nobody else waits under the guid of a connected client that has succeeded.
LEMMA ConnectedIsAlone ==
  ASSUME ListsInv, ~Interleaved, NEW s \in Socks, NEW a \in Accounts,
         s # call.s, sock[s].conn = "open", Succeeded(sock[s]), sock[s].guid = a
  PROVE  pending[a] \in {s, None}
<1> USE DEF ListsInv, Lists
<1>1. CASE \E k \in Guids : online[k] = s
  <2>1. PICK k \in Guids : online[k] = s
    BY <1>1
  <2>2. s # None /\ k = a
    BY <2>1, ListTypes DEF Keyed
  <2>3. pending[Owner(k)] = None
    BY <2>1, <2>2 DEF HeldOnce
  <2> QED BY <2>2, <2>3, Owners
<1>2. CASE \E b \in Accounts : pending[b] = s
  BY <1>2, ListTypes DEF Keyed
<1> QED BY <1>1, <1>2 DEF HeldOnce

LEMMA StaysKeepsLists ==
  ASSUME ListsInv, \A s \in Socks : Stays(s), CallStays, UNCHANGED <<waiting, pending, online>>
  PROVE  Lists'
<1> USE DEF ListsInv, Lists, Stays
<1>1. Guided'
  BY DEF Guided, CallStays
<1>2. CallNew'
  BY ListTypes DEF CallNew, CallStays
<1>3. Keyed' /\ Apart' /\ OneGuid'
  BY ListTypes DEF Keyed, Apart, OneGuid
<1>4. InSceneReachable'
  BY DEF InSceneReachable
<1>5. ClosedOut'
  <2>1. \A s \in Socks, a \in Accounts : pending[a] = s => \A k \in Guids : online[k] # s
    BY ConstantsAssumption DEF Apart, TypeOK
  <2>2. \A s \in Socks : s = call.s => \A k \in Guids : online[k] # s
    BY ListTypes DEF CallNew
  <2> QED BY <2>1, <2>2 DEF ClosedOut, CallStays
<1>6. HeldOnce'
  <2> SUFFICES ASSUME ~Interleaved PROVE HeldOnce'
    BY DEF HeldOnce
  <2>1. ASSUME NEW s \in Socks, sock'[s].conn = "open", Succeeded(sock'[s])
        PROVE  \/ s = call.s
               \/ \E k \in Guids : online[k] = s
               \/ \E a \in Accounts : pending[a] = s
    BY <2>1 DEF HeldOnce
  <2>2. ASSUME NEW k \in Guids, online[k] # None, sock'[online[k]].conn = "open"
        PROVE  /\ pending[Owner(k)] = None
               /\ call'.at = "insert" => sock'[call.s].acct # Owner(k)
    BY <2>2, ListTypes DEF HeldOnce, CallStays, CallNew
  <2>3. ASSUME NEW s \in Socks, NEW a \in Accounts,
               sock'[s].conn \in {"shut", "closing"}, Succeeded(sock'[s]),
               sock'[s].scene = 0, sock'[s].guid = a
        PROVE  pending[a] \in {s, None}
    <3>1. CASE sock[s].conn = "open"
      BY <2>3, <3>1, ConnectedIsAlone
    <3>2. CASE sock[s].conn # "open"
      BY <2>3, <3>2 DEF HeldOnce
    <3> QED BY <3>1, <3>2
  <2> QED BY <2>1, <2>2, <2>3 DEF HeldOnce, CallStays
<1> QED BY <1>1, <1>2, <1>3, <1>4, <1>5, <1>6

\* Disconnect changes only the connection.
LEMMA DisconnectStays ==
  ASSUME TypeOK, NEW S, S \subseteq Socks, Interleaved \/ call.s \notin S,
         sock' = DisconnectAll(S)
  PROVE  \A s \in Socks : Stays(s)
BY DEF TypeOK, DisconnectAll, Disconnect, Stays, Succeeded

\* Closing by the client, by the network, or by the central server.
LEMMA ClosingLists ==
  ASSUME ListsInv,
         \/ \E s \in Socks : AuthNotSent(s) \/ ClientLeaves(s) \/ DelayOver(s)
         \/ \E n \in Scenes \cup {Master} : ConnectionDropped(n) \/ Reconnect(n)
         \/ LogonConnectionDropped \/ EndRecv \/ UNCHANGED vars
  PROVE  Lists'
<1>1. UNCHANGED <<waiting, pending, online>> /\ CallStays
  BY DEF AuthNotSent, ClientLeaves, DelayOver, ConnectionDropped, Reconnect,
         LogonConnectionDropped, EndRecv, vars, CallStays
<1>2. \A s \in Socks : s = call.s => \A k \in Guids : online[k] # s
  BY ListTypes DEF CallNew, ListsInv, Lists
<1>3. call = Idle => call.s \notin Socks
  BY ListTypes DEF Idle, ListsInv
<1>4. ASSUME NEW s \in Socks, AuthNotSent(s) \/ ClientLeaves(s)
      PROVE  \A t \in Socks : Stays(t)
  <2>1. sock' = DisconnectAll({s}) /\ (Interleaved \/ call = Idle)
    BY <1>4 DEF AuthNotSent, ClientLeaves, DisconnectAll, Free, ListsInv, TypeOK
  <2> QED BY <1>3, <2>1, DisconnectStays DEF ListsInv
<1>5. ASSUME NEW s \in Socks, DelayOver(s)
      PROVE  \A t \in Socks : Stays(t)
  BY <1>5 DEF DelayOver, Stays, Succeeded, ListsInv, TypeOK
<1>6. ASSUME NEW n \in Scenes \cup {Master}, ConnectionDropped(n)
      PROVE  \A t \in Socks : Stays(t)
  <2>1. CutOff(n) \subseteq Socks /\ call.s \notin CutOff(n)
    BY <1>2, ListTypes DEF CutOff, OnlineSocks, ListsInv
  <2> QED BY <1>6, <2>1, DisconnectStays DEF ConnectionDropped, ListsInv
<1>7. UNCHANGED sock => \A t \in Socks : Stays(t)
  BY DEF Stays
<1>8. \A t \in Socks : Stays(t)
  BY <1>4, <1>5, <1>6, <1>7 DEF Reconnect, LogonConnectionDropped, EndRecv, vars
<1> QED BY <1>1, <1>8, StaysKeepsLists

LEMMA HandleCloseGameSocketLists ==
  ASSUME ListsInv, NEW k \in Guids, NEW i \in Socks, NEW direct \in BOOLEAN,
         HandleCloseGameSocket(k, i, direct)
  PROVE  Lists'
<1>1. UNCHANGED <<waiting, pending, online>> /\ CallStays
  BY DEF HandleCloseGameSocket, CallStays
<1>2. online[k] \in Socks /\ online[k] # call.s
  BY ListTypes DEF HandleCloseGameSocket, CallNew, ListsInv, Lists
<1>3. \A s \in Socks : Stays(s)
  BY <1>2 DEF HandleCloseGameSocket, Disconnect, Stays, Succeeded, ListsInv, TypeOK
<1> QED BY <1>1, <1>3, StaysKeepsLists

LEMMA AddPendingCheckLists ==
  ASSUME ListsInv, AddPendingCheck
  PROVE  Lists'
<1>1. UNCHANGED <<waiting, pending, online>>
  BY DEF AddPendingCheck
<1>2. CallStays
  <2>1. ASSUME NEW k \in Guids, online[k] # None, Owner(k) = sock[call.s].acct
        PROVE  sock'[online[k]].conn # "open"
    <3>1. OnlineOf(sock[call.s].acct) = {online[k]}
      <4>1. \A j \in Guids : online[j] # None => sock[online[j]].acct = Owner(j)
        BY Owners, ListTypes DEF Keyed, Guided, ListsInv, Lists
      <4>2. \A j \in Guids : online[j] # None /\ Owner(j) = Owner(k) => j = k
        BY <2>1 DEF OneGuid, ListsInv, Lists
      <4> QED BY <2>1, <4>1, <4>2 DEF OnlineOf, OnlineSocks
    <3>2. sock' = [DisconnectAll({online[k]}) EXCEPT ![call.s].delay = TRUE]
      BY <3>1 DEF AddPendingCheck
    <3> QED BY <2>1, <3>2, ListTypes DEF DisconnectAll, Disconnect, ListsInv, SockRecords
  <2>2. call'.s = call.s /\ call.at = "check" /\ call'.at = "insert"
    BY ListTypes DEF AddPendingCheck, ListsInv
  <2> QED BY <2>1, <2>2 DEF CallStays
<1>3. call.s \in Socks /\ \A k \in Guids : online[k] # call.s
  BY ListTypes DEF AddPendingCheck, CallNew, ListsInv, Lists
<1>4. ASSUME NEW t \in OnlineSocks, sock' = [DisconnectAll({t}) EXCEPT ![call.s].delay = TRUE],
             NEW s \in Socks
      PROVE  Stays(s)
  BY <1>3, <1>4 DEF OnlineSocks, DisconnectAll, Disconnect, Stays, Succeeded, ListsInv, TypeOK
<1>5. UNCHANGED sock => \A s \in Socks : Stays(s)
  BY DEF Stays
<1>6. \A s \in Socks : Stays(s)
  BY <1>4, <1>5 DEF AddPendingCheck, OnlineOf
<1> QED BY <1>1, <1>2, <1>6, StaysKeepsLists

-----------------------------------------------------------------------------
(* The clients' network threads *)

\* What a step on socket s alone leaves as it was
OnlySock(s) == \A t \in Socks : t # s => sock'[t] = sock[t]

LEMMA OnConnectLists ==
  ASSUME ListsInv, NEW s \in Socks, OnConnect(s)
  PROVE  Lists'
<1> USE DEF ListsInv, Lists
<1>1. UNCHANGED <<waiting, pending, online, call>>
  BY DEF OnConnect
<1>2. \A t \in Socks :
        /\ sock'[t].acct = sock[t].acct /\ sock'[t].guid = sock[t].guid
        /\ sock'[t].scene = sock[t].scene /\ sock'[t].req = sock[t].req
        /\ Succeeded(sock'[t]) = Succeeded(sock[t])
  BY DEF OnConnect, Blank, Succeeded, TypeOK
<1>3. /\ sock'[s].conn = "open" /\ sock[s].conn = "none" /\ sock[s].scene = 0
      /\ \A t \in Socks : t # s => sock'[t].conn = sock[t].conn
  BY DEF OnConnect, Blank, TypeOK
<1>4. Guided' /\ CallNew'
  BY <1>1, <1>2, ListTypes DEF Guided, CallNew
<1>5. Keyed' /\ Apart' /\ OneGuid'
  BY <1>1, <1>2, ListTypes DEF Keyed, Apart, OneGuid
<1>6. InSceneReachable'
  BY <1>1, <1>2, <1>3 DEF InSceneReachable
<1>7. ClosedOut'
  BY <1>1, <1>2, <1>3 DEF ClosedOut
<1>8. HeldOnce'
  <2>1. ~Succeeded(sock[s]) /\ s # call.s /\ \A k \in Guids : online[k] # s
    BY <1>2, Owners, ListTypes DEF OnConnect, Blank, Succeeded, CallNew, Keyed
  <2> QED BY <1>1, <1>2, <1>3, <2>1, ListTypes DEF HeldOnce, CallNew
<1> QED BY <1>4, <1>5, <1>6, <1>7, <1>8

LEMMA HandleUserAuthSessionLists ==
  ASSUME ListsInv, NEW s \in Socks, NEW a \in Accounts, HandleUserAuthSession(s, a)
  PROVE  Lists'
<1> USE DEF ListsInv, Lists
<1>1. /\ OnlySock(s) /\ sock'[s].acct = a /\ sock'[s].guid = sock[s].guid
      /\ sock'[s].scene = sock[s].scene /\ sock'[s].req /\ sock'[s].conn = "open"
      /\ ~Succeeded(sock'[s])
      /\ waiting' = waiting \cup {s} /\ UNCHANGED <<pending, online, call>>
  BY DEF HandleUserAuthSession, OnlySock, TypeOK, Succeeded
<1>2. sock[s].acct = None /\ sock[s].guid = None /\ sock[s].scene = 0
  BY Owners, ListTypes DEF HandleUserAuthSession, Guided, SockRecords
<1>3. /\ s # call.s /\ \A k \in Guids : online[k] # s
      /\ \A b \in Accounts : pending[b] # s
  BY <1>2, Owners, ListTypes DEF CallNew, Keyed
<1>4. Guided'
  BY <1>1, <1>2, <1>3, Owners DEF Guided, OnlySock
<1>5. CallNew'
  BY <1>1, <1>3, ListTypes DEF CallNew, OnlySock
<1>6. Keyed' /\ Apart' /\ OneGuid'
  BY <1>1, <1>3, ListTypes DEF Keyed, Apart, OneGuid, OnlySock
<1>7. InSceneReachable'
  BY <1>1, <1>2 DEF InSceneReachable, OnlySock
<1>8. ClosedOut'
  BY <1>1, <1>3 DEF ClosedOut, OnlySock
<1>9. HeldOnce'
  BY <1>1, <1>3, ListTypes DEF HeldOnce, CallNew, OnlySock
<1> QED BY <1>4, <1>5, <1>6, <1>7, <1>8, <1>9

LEMMA OnDisconnectRequestLists ==
  ASSUME ListsInv, NEW s \in Socks, OnDisconnectRequest(s)
  PROVE  Lists'
<1> USE DEF ListsInv, Lists
<1>1. /\ OnlySock(s) /\ sock'[s].acct = sock[s].acct /\ sock'[s].guid = sock[s].guid
      /\ sock'[s].scene = sock[s].scene /\ sock'[s].auth = sock[s].auth
      /\ sock[s].conn = "shut" /\ sock'[s].conn = "closing"
      /\ waiting' = IF sock[s].req THEN waiting \ {s} ELSE waiting
      /\ UNCHANGED <<pending, online, call>>
  BY DEF OnDisconnectRequest, UnauthedSocketClose, OnlySock, TypeOK
<1>2. Guided'
  BY <1>1 DEF Guided, OnlySock, Succeeded
<1>3. CallNew'
  BY <1>1, ListTypes DEF CallNew, OnlySock
<1>4. Keyed' /\ Apart' /\ OneGuid'
  BY <1>1, ListTypes DEF Keyed, Apart, OneGuid, OnlySock
<1>5. InSceneReachable'
  BY <1>1 DEF InSceneReachable, OnlySock
<1>6. ClosedOut'
  BY <1>1 DEF ClosedOut, OnlySock, Succeeded
<1>7. HeldOnce'
  BY <1>1, ListTypes DEF HeldOnce, CallNew, OnlySock, Succeeded
<1> QED BY <1>2, <1>3, <1>4, <1>5, <1>6, <1>7

LEMMA OnDisconnectSessionLists ==
  ASSUME ListsInv, NEW s \in Socks, OnDisconnectSession(s)
  PROVE  Lists'
<1> USE DEF ListsInv, Lists
<1>1. /\ OnlySock(s) /\ sock'[s].acct = sock[s].acct /\ sock'[s].guid = sock[s].guid
      /\ sock'[s].conn = "down" /\ sock[s].conn = "closing"
      /\ sock'[s].scene \in {0, sock[s].scene}
      /\ ~Succeeded(sock'[s])
      /\ UNCHANGED <<waiting, online, call>>
  BY DEF OnDisconnectSession, GiveUpSession, GotResult, Succeeded, OnlySock, TypeOK
<1>2. /\ \A a \in Accounts : pending'[a] \in {None, pending[a]}
      /\ Succeeded(sock[s]) /\ sock[s].scene = 0
           => \A a \in Accounts : a = sock[s].guid => pending'[a] = None
  BY DEF OnDisconnectSession, RemovePending, TypeOK
<1>3. Guided'
  BY <1>1 DEF Guided, OnlySock
<1>4. CallNew'
  BY <1>1, <1>2, ListTypes DEF CallNew, OnlySock
<1>5. Keyed' /\ Apart' /\ OneGuid'
  BY <1>1, <1>2, ListTypes DEF Keyed, Apart, OneGuid, OnlySock
<1>6. InSceneReachable'
  BY <1>1 DEF InSceneReachable, OnlySock
<1>7. ClosedOut'
  <2>1. ~Interleaved => \A a \in Accounts : pending'[a] # s
    BY <1>2, ListTypes DEF ClosedOut, Keyed
  <2>2. ~Interleaved => s \notin waiting /\ s # call.s
    BY <1>1 DEF ClosedOut
  <2> QED BY <1>1, <1>2, <2>1, <2>2, ListTypes DEF ClosedOut, OnlySock
<1>8. HeldOnce'
  <2> SUFFICES ASSUME ~Interleaved PROVE HeldOnce'
    BY DEF HeldOnce
  <2>1. \A a \in Accounts : pending[a] \in {s, pending'[a]}
    BY <1>1 DEF OnDisconnectSession, RemovePending, HeldOnce
  <2> QED BY <1>1, <1>2, <2>1, ListTypes, Owners DEF HeldOnce, CallNew, OnlySock
<1> QED BY <1>3, <1>4, <1>5, <1>6, <1>7, <1>8

-----------------------------------------------------------------------------
(* The thread of the login server's connection *)

LEMMA HandleAccountAuthResultLists ==
  ASSUME ListsInv, NEW s \in Socks, NEW ok \in BOOLEAN, HandleAccountAuthResult(s, ok)
  PROVE  Lists'
<1> USE DEF ListsInv, Lists
<1>1. UNCHANGED <<sock, pending, online>>
  BY DEF HandleAccountAuthResult
<1>2. CASE UNCHANGED <<waiting, call>>
  <2>1. (\A t \in Socks : Stays(t)) /\ CallStays
    BY <1>1, <1>2 DEF Stays, CallStays
  <2> QED BY <1>1, <1>2, <2>1, StaysKeepsLists
<1>3. CASE ~UNCHANGED <<waiting, call>>
  <2>1. /\ s \in waiting /\ waiting' = waiting \ {s} /\ call = Idle
        /\ call' = [s |-> s, ok |-> ok, at |-> "found"]
        /\ Quiet
    BY <1>3 DEF HandleAccountAuthResult, Free
  <2>2. sock[s].guid = None /\ sock[s].acct # None /\ sock[s].scene = 0 /\ s # None
    BY <2>1, ListTypes DEF Guided
  <2>3. Guided'
    BY <1>1, <2>1 DEF Guided
  <2>4. CallNew'
    BY <1>1, <2>1, <2>2, Owners DEF CallNew, Keyed
  <2>5. Keyed' /\ Apart' /\ OneGuid' /\ InSceneReachable'
    BY <1>1 DEF Keyed, Apart, OneGuid, InSceneReachable
  <2>6. ClosedOut'
    BY <1>1, <2>1 DEF ClosedOut, Quiet
  <2>7. HeldOnce'
    BY <1>1, <2>1, ListTypes DEF HeldOnce, Idle
  <2> QED BY <2>3, <2>4, <2>5, <2>6, <2>7
<1> QED BY <1>2, <1>3

LEMMA SessionAuthedFailCallbackLists ==
  ASSUME ListsInv, SessionAuthedFailCallback
  PROVE  Lists'
<1> USE DEF ListsInv, Lists
<1>1. PICK s \in Socks : s = call.s
  BY ListTypes DEF SessionAuthedFailCallback, CallNew
<1>2. /\ OnlySock(s) /\ sock'[s] = [sock[s] EXCEPT !.auth = @ \cup {"failed"}]
      /\ call' = Idle /\ UNCHANGED <<waiting, pending, online>>
  BY <1>1 DEF SessionAuthedFailCallback, OnlySock, TypeOK
<1>3. \A t \in Socks :
        /\ sock'[t].acct = sock[t].acct /\ sock'[t].guid = sock[t].guid
        /\ sock'[t].scene = sock[t].scene /\ sock'[t].conn = sock[t].conn
        /\ sock'[t].req = sock[t].req /\ Succeeded(sock'[t]) = Succeeded(sock[t])
  BY <1>2, ListTypes DEF OnlySock, SockRecords, Succeeded
<1>4. Guided' /\ CallNew'
  BY <1>2, <1>3, ListTypes DEF Guided, CallNew, Idle
<1>5. Keyed' /\ Apart' /\ OneGuid'
  BY <1>2, <1>3, ListTypes DEF Keyed, Apart, OneGuid
<1>6. InSceneReachable'
  BY <1>2, <1>3 DEF InSceneReachable
<1>7. ClosedOut'
  BY <1>2, <1>3, ListTypes DEF ClosedOut, Idle
<1>8. HeldOnce'
  <2>1. ~Succeeded(sock[s])
    BY <1>1 DEF SessionAuthedFailCallback, CallNew, Guided
  <2> QED BY <1>1, <1>2, <1>3, <2>1, ListTypes DEF HeldOnce, Idle
<1> QED BY <1>4, <1>5, <1>6, <1>7, <1>8

LEMMA SessionAuthedSuccessCallbackLists ==
  ASSUME ListsInv, SessionAuthedSuccessCallback
  PROVE  Lists'
<1> USE DEF ListsInv, Lists
<1>1. PICK s \in Socks : s = call.s
  BY ListTypes DEF SessionAuthedSuccessCallback, CallNew
<1>2. /\ OnlySock(s) /\ sock'[s].acct = sock[s].acct /\ sock'[s].guid = sock[s].acct
      /\ sock'[s].scene = sock[s].scene /\ sock'[s].conn = sock[s].conn
      /\ Succeeded(sock'[s])
      /\ call'.s = s /\ call'.at = "check" /\ UNCHANGED <<waiting, pending, online>>
  BY <1>1 DEF SessionAuthedSuccessCallback, OnlySock, TypeOK, Succeeded
<1>3. /\ sock[s].acct \in Accounts /\ sock[s].scene = 0 /\ s # None /\ s \notin waiting
      /\ \A k \in Guids : online[k] # s
      /\ \A a \in Accounts : pending[a] # s
  BY <1>1, ListTypes DEF CallNew, Guided, SockRecords
<1>4. Guided'
  BY <1>2, <1>3, Owners DEF Guided, OnlySock
<1>5. CallNew'
  BY <1>2, <1>3, Owners DEF CallNew
<1>6. Keyed' /\ Apart' /\ OneGuid'
  BY <1>2, <1>3, ListTypes DEF Keyed, Apart, OneGuid, OnlySock
<1>7. InSceneReachable'
  BY <1>2, <1>3 DEF InSceneReachable, OnlySock
<1>8. ClosedOut'
  BY <1>1, <1>2, <1>3 DEF ClosedOut, OnlySock
<1>9. HeldOnce'
  BY <1>1, <1>2, <1>3, ListTypes DEF HeldOnce, ClosedOut, OnlySock
<1> QED BY <1>4, <1>5, <1>6, <1>7, <1>8, <1>9

LEMMA AddPendingReplaceLists ==
  ASSUME ListsInv, AddPendingReplace
  PROVE  Lists'
<1> USE DEF ListsInv, Lists
<1>1. PICK s \in Socks : s = call.s /\ sock[s].guid \in Accounts
  BY ListTypes DEF AddPendingReplace, CallNew, SockRecords
<1>2. PICK b \in Accounts : b = sock[s].guid
  BY <1>1
<1>3. PICK t \in Socks : t = pending[b] /\ t # s
  BY <1>1, <1>2, ListTypes DEF AddPendingReplace, CallNew
<1>4. UNCHANGED <<waiting, online, call>> /\ pending' = [pending EXCEPT ![b] = None]
  BY <1>1, <1>2 DEF AddPendingReplace
<1>5. \A u \in Socks : Stays(u) /\ Succeeded(sock'[u]) = Succeeded(sock[u])
  <2>1. sock' = DisconnectAll({t})
    BY <1>1, <1>2, <1>3 DEF AddPendingReplace, CutOffReplaced
  <2>2. \A u \in Socks : Succeeded(sock'[u]) = Succeeded(sock[u])
    BY <2>1 DEF DisconnectAll, Disconnect, Succeeded, TypeOK
  <2> QED BY <1>1, <1>3, <2>1, <2>2, DisconnectStays
<1>6. \A a \in Accounts : pending'[a] \in {None, pending[a]}
  BY <1>4 DEF TypeOK
<1>7. Guided'
  BY <1>4, <1>5 DEF Guided, Stays
<1>8. CallNew'
  BY <1>4, <1>5, <1>6, ListTypes DEF CallNew, Stays
<1>9. Keyed' /\ Apart' /\ OneGuid'
  BY <1>4, <1>5, <1>6, ListTypes DEF Keyed, Apart, OneGuid, Stays
<1>10. InSceneReachable'
  BY <1>4, <1>5 DEF InSceneReachable, Stays
<1>11. ClosedOut'
  BY <1>4, <1>5, <1>6, ListTypes DEF ClosedOut, Stays
<1>12. HeldOnce'
  <2> SUFFICES ASSUME ~Interleaved PROVE HeldOnce'
    BY DEF HeldOnce
  <2>1. \A u \in Socks : sock[u].conn \notin {"shut", "closing"}
    BY DEF AddPendingReplace, Quiet
  <2>2. \A u \in Socks : u # t => sock'[u] = sock[u]
    BY <1>1, <1>2, <1>3 DEF AddPendingReplace, CutOffReplaced, DisconnectAll
  <2>3. pending'[b] = None /\ \A a \in Accounts : a # b => pending'[a] = pending[a]
    BY <1>4 DEF TypeOK
  <2>4. sock'[t].conn # "open" /\ sock'[t].guid = b
    BY <1>1, <1>2, <1>3 DEF AddPendingReplace, CutOffReplaced, DisconnectAll, Disconnect, Keyed, TypeOK
  <2>5. sock'[s] = sock[s]
    BY <1>3, <2>2
  <2> QED BY <1>1, <1>3, <1>4, <2>1, <2>2, <2>3, <2>4, <2>5, ListTypes, Owners DEF HeldOnce
<1> QED BY <1>7, <1>8, <1>9, <1>10, <1>11, <1>12

LEMMA AddPendingInsertLists ==
  ASSUME ListsInv, AddPendingInsert
  PROVE  Lists'
<1> USE DEF ListsInv, Lists
<1>1. PICK s \in Socks : s = call.s /\ sock[s].guid \in Accounts
  BY ListTypes DEF AddPendingInsert, CallNew, SockRecords
<1>2. PICK b \in Accounts : b = sock[s].guid
  BY <1>1
<1>3. /\ call' = Idle /\ UNCHANGED <<sock, waiting, online>>
      /\ pending' = [pending EXCEPT ![b] = s]
  BY <1>1, <1>2 DEF AddPendingInsert
<1>4. pending'[b] = s /\ \A a \in Accounts : a # b => pending'[a] = pending[a]
  BY <1>3 DEF TypeOK
<1>5. /\ sock[s].scene = 0 /\ \A k \in Guids : online[k] # s
      /\ ~Interleaved => Succeeded(sock[s])
  BY <1>1, ListTypes DEF CallNew, ClosedOut, AddPendingInsert
<1>6. Guided' /\ CallNew'
  BY <1>3, ListTypes DEF Guided, CallNew, Idle
<1>7. Keyed' /\ Apart' /\ OneGuid'
  BY <1>2, <1>3, <1>4, <1>5 DEF Keyed, Apart, OneGuid
<1>8. InSceneReachable'
  BY <1>3 DEF InSceneReachable
<1>9. ClosedOut'
  BY <1>3, <1>4, <1>5, ListTypes DEF ClosedOut, Idle
<1>10. HeldOnce'
  <2> SUFFICES ASSUME ~Interleaved PROVE HeldOnce'
    BY DEF HeldOnce
  <2>1. \A u \in Socks : sock[u].conn \notin {"shut", "closing"}
    BY DEF AddPendingInsert, Quiet
  <2>2. sock[s].acct = b /\ call.at = "insert" /\ pending[b] = None
    BY <1>1, <1>2 DEF AddPendingInsert, CallNew
  <2> QED BY <1>1, <1>3, <1>4, <2>1, <2>2, Owners DEF HeldOnce, Idle
<1> QED BY <1>6, <1>7, <1>8, <1>9, <1>10

-----------------------------------------------------------------------------
(* The main loop *)

LEMMA HandleChooseGameRoleResponseLists ==
  ASSUME ListsInv, NEW k \in Guids, NEW r \in Roles, NEW n \in Scenes,
         k \in {AccountOf[r], r}, HandleChooseGameRoleResponse(k, r, n)
  PROVE  Lists'
<1> USE DEF ListsInv, Lists
<1>1. PICK s \in Socks : s = online[k] /\ s # None
  BY ListTypes DEF HandleChooseGameRoleResponse
<1>2. /\ OnlySock(s) /\ sock'[s].acct = sock[s].acct /\ sock'[s].guid = r
      /\ sock'[s].conn = sock[s].conn /\ sock'[s].req = sock[s].req
      /\ Succeeded(sock'[s]) = Succeeded(sock[s])
      /\ UNCHANGED <<waiting, pending, call>>
  BY <1>1 DEF HandleChooseGameRoleResponse, EnterScene, OnlySock, TypeOK, Succeeded
<1>3. /\ r \in Guids /\ r # None /\ Owner(k) = Owner(r)
      /\ sock[s].guid = k /\ sock[s].acct = Owner(r) /\ k # None
  BY <1>1, Owners DEF Keyed, Guided
<1>4. k # r => online[r] = None
  BY <1>1, <1>3 DEF OneGuid
<1>5. /\ online'[r] = s /\ (k # r => online'[k] = None)
      /\ \A j \in Guids : j # k /\ j # r => online'[j] = online[j]
  BY <1>1, <1>3, <1>4 DEF HandleChooseGameRoleResponse, UpdateGameSocektGuid, TypeOK
<1>6. /\ s # call.s /\ s \notin waiting /\ \A a \in Accounts : pending[a] # s
      /\ \A j \in Guids : j # k => online[j] # s
  BY <1>1, <1>3 DEF CallNew, Guided, Apart, Keyed
<1>7. Guided'
  BY <1>2, <1>3, <1>6 DEF Guided, OnlySock
<1>8. CallNew'
  BY <1>2, <1>5, <1>6, ListTypes DEF CallNew, OnlySock
<1>9. Keyed'
  BY <1>2, <1>4, <1>5, <1>6, ListTypes DEF Keyed, OnlySock
<1>10. Apart'
  BY <1>2, <1>5, <1>6 DEF Apart
<1>11. OneGuid'
  <2>1. \A j \in Guids : j # k /\ j # r /\ online[j] # None => Owner(j) # Owner(r)
    BY <1>1, <1>3 DEF OneGuid
  <2> QED BY <1>5, <2>1 DEF OneGuid
<1>12. InSceneReachable'
  <2>1. \A t \in Socks : t # s /\ online[sock[t].guid] = t /\ sock[t].guid \in Guids =>
          sock[t].guid # k /\ sock[t].guid # r
    BY <1>1, <1>4, ListTypes
  <2>2. \A t \in Socks : sock[t].scene # 0 => sock[t].guid \in Guids
    BY ListTypes DEF Guided, SockRecords
  <2> QED BY <1>2, <1>5, <2>1, <2>2 DEF InSceneReachable, OnlySock
<1>13. ClosedOut'
  <2>1. ~Interleaved => \A t \in Socks : sock'[t].conn = "freed" => \A j \in Guids : online'[j] # t
    BY <1>1, <1>2, <1>5, <1>6, ListTypes DEF ClosedOut, OnlySock
  <2>2. \A t \in Socks :
          /\ sock'[t].conn = sock[t].conn /\ sock'[t].req = sock[t].req
          /\ Succeeded(sock'[t]) = Succeeded(sock[t])
    BY <1>2 DEF OnlySock
  <2> QED BY <1>2, <2>1, <2>2 DEF ClosedOut
<1>14. HeldOnce'
  <2> SUFFICES ASSUME ~Interleaved PROVE HeldOnce'
    BY DEF HeldOnce
  <2>1. \A t \in Socks : sock[t].conn \notin {"shut", "closing"}
    BY DEF HandleChooseGameRoleResponse, Free, Quiet
  <2>2. \A t \in Socks :
          /\ sock'[t].acct = sock[t].acct /\ sock'[t].conn = sock[t].conn
          /\ Succeeded(sock'[t]) = Succeeded(sock[t])
    BY <1>2 DEF OnlySock
  <2>3. \A t \in Socks, j \in Guids : online[j] = t => online'[j] = t \/ online'[r] = t
    BY <1>1, <1>4, <1>5, ListTypes
  <2>4. \A j \in Guids : online'[j] # None => \E i \in Guids :
          online[i] = online'[j] /\ Owner(i) = Owner(j)
    BY <1>1, <1>3, <1>5
  <2>5. \A t \in Socks : sock'[t].conn = "open" /\ Succeeded(sock'[t]) =>
          \/ t = call.s
          \/ \E j \in Guids : online'[j] = t
          \/ \E a \in Accounts : pending[a] = t
    BY <1>3, <2>2, <2>3 DEF HeldOnce
  <2>6. \A j \in Guids : online'[j] # None /\ sock'[online'[j]].conn = "open" =>
          /\ pending[Owner(j)] = None
          /\ call.at = "insert" => sock[call.s].acct # Owner(j)
    BY <2>2, <2>4, ListTypes DEF HeldOnce
  <2>7. call.s \in Socks => sock'[call.s].acct = sock[call.s].acct
    BY <2>2
  <2> QED BY <1>2, <2>1, <2>2, <2>5, <2>6, <2>7, ListTypes DEF HeldOnce, CallNew
<1> QED BY <1>7, <1>8, <1>9, <1>10, <1>11, <1>12, <1>13, <1>14

LEMMA HandleChangeSceneServerMasterNoticeLists ==
  ASSUME ListsInv, NEW k \in Guids, NEW n \in Scenes, HandleChangeSceneServerMasterNotice(k, n)
  PROVE  Lists'
<1> USE DEF ListsInv, Lists
<1>1. PICK s \in Socks : s = online[k] /\ s # None
  BY ListTypes DEF HandleChangeSceneServerMasterNotice
<1>2. /\ OnlySock(s) /\ sock'[s].acct = sock[s].acct /\ sock'[s].guid = sock[s].guid
      /\ sock'[s].conn = sock[s].conn /\ sock'[s].req = sock[s].req
      /\ Succeeded(sock'[s]) = Succeeded(sock[s])
      /\ UNCHANGED <<waiting, pending, online, call>>
  BY <1>1 DEF HandleChangeSceneServerMasterNotice, EnterScene, OnlySock, TypeOK, Succeeded
<1>3. /\ sock[s].guid = k /\ k # None /\ s # call.s
      /\ \A a \in Accounts : pending[a] # s
  BY <1>1, Owners DEF CallNew, Apart, Keyed
<1>4. Guided' /\ CallNew'
  BY <1>2, <1>3, ListTypes DEF Guided, CallNew, OnlySock
<1>5. Keyed' /\ Apart' /\ OneGuid'
  BY <1>2, <1>3, ListTypes DEF Keyed, Apart, OneGuid, OnlySock
<1>6. InSceneReachable'
  BY <1>1, <1>2, <1>3 DEF InSceneReachable, OnlySock
<1>7. ClosedOut'
  BY <1>2, <1>3 DEF ClosedOut, OnlySock
<1>8. HeldOnce'
  <2>1. ~Interleaved => \A t \in Socks : sock[t].conn \notin {"shut", "closing"}
    BY DEF HandleChangeSceneServerMasterNotice, Free, Quiet
  <2>2. \A t \in Socks :
          /\ sock'[t].acct = sock[t].acct /\ sock'[t].conn = sock[t].conn
          /\ Succeeded(sock'[t]) = Succeeded(sock[t])
    BY <1>2 DEF OnlySock
  <2>3. call.at = "insert" => sock'[call.s].acct = sock[call.s].acct
    BY <2>2, ListTypes DEF CallNew
  <2>4. \A j \in Guids : online[j] # None => sock'[online[j]].conn = sock[online[j]].conn
    BY <2>2, ListTypes
  <2> QED BY <1>2, <2>1, <2>2, <2>3, <2>4 DEF HeldOnce
<1> QED BY <1>4, <1>5, <1>6, <1>7, <1>8

\* Sockets may only be deleted when the threads do not interleave: then a closed
\* socket is online at most, and the same step removes it from there.
LEMMA UpdateGameSocketsLists ==
  ASSUME Orderly, ListsInv, NEW late \in SUBSET OnlineSocks, UpdateGameSockets(late)
  PROVE  Lists'
<1> USE DEF ListsInv, Lists
<1> DEFINE Dies(s) == Deletes /\ sock[s].conn = "down" /\ call.s # s /\ ~Interleaved
<1>1. UNCHANGED <<waiting, pending, call>>
  BY DEF UpdateGameSockets
<1>2. \A k \in Guids :
        /\ online'[k] \in {None, online[k]}
        /\ online[k] # None /\ ~Succeeded(sock[online[k]]) => online'[k] = None
        /\ online'[k] = None => online[k] = None \/ ~Succeeded(sock[online[k]])
  BY DEF UpdateGameSockets, OnlineSocks
<1>3. \A s \in Socks : s = call.s => \A k \in Guids : online[k] # s
  BY ListTypes DEF CallNew
<1>4. ASSUME NEW s \in Socks
      PROVE  \/ Dies(s) /\ sock'[s] = [Blank EXCEPT !.conn = "freed"]
             \/ sock'[s] = sock[s] /\ ((\A k \in Guids : online[k] # s) \/ Succeeded(sock[s]))
             \/ sock'[s] = Disconnect(sock[s]) /\ s # call.s
  <2>1. CASE Deletes /\ sock[s].conn = "down" /\ sock[s].turns = Turns /\ call.s # s
    BY <2>1 DEF UpdateGameSockets, Orderly
  <2>2. CASE ~(Deletes /\ sock[s].conn = "down" /\ sock[s].turns = Turns /\ call.s # s)
    <3>1. sock'[s] = IF s \in late \cup {t \in OnlineSocks : ~Succeeded(sock[t])}
                       THEN Disconnect(sock[s]) ELSE sock[s]
      BY <2>2 DEF UpdateGameSockets
    <3>2. s \in OnlineSocks => s # call.s
      BY <1>3 DEF OnlineSocks
    <3>3. s \notin OnlineSocks => \A k \in Guids : online[k] # s
      BY ListTypes DEF OnlineSocks
    <3> QED BY <3>1, <3>2, <3>3
  <2> QED BY <2>1, <2>2
<1>5. \A s \in Socks : Dies(s) =>
        /\ ~Succeeded(sock[s]) /\ s \notin waiting
        /\ \A a \in Accounts : pending[a] # s
        /\ \A k \in Guids : online'[k] # s
  BY <1>2, ListTypes DEF ClosedOut
<1>6. \A s \in Socks :
        \/ /\ Dies(s) /\ sock'[s].acct = None /\ sock'[s].guid = None /\ sock'[s].scene = 0
           /\ sock'[s].conn = "freed" /\ ~Succeeded(sock'[s])
        \/ /\ sock'[s].acct = sock[s].acct /\ sock'[s].guid = sock[s].guid
           /\ sock'[s].scene = sock[s].scene /\ sock'[s].req = sock[s].req
           /\ Succeeded(sock'[s]) = Succeeded(sock[s])
           /\ \/ sock'[s].conn = sock[s].conn
              \/ sock[s].conn = "open" /\ sock'[s].conn = "shut" /\ s # call.s
           /\ sock'[s].conn = "open" => (\A k \in Guids : online[k] # s) \/ Succeeded(sock[s])
  <2> TAKE s \in Socks
  <2>1. CASE sock'[s] = [Blank EXCEPT !.conn = "freed"] /\ Dies(s)
    BY <2>1 DEF Blank, Succeeded
  <2>2. CASE sock'[s] = sock[s] /\ ((\A k \in Guids : online[k] # s) \/ Succeeded(sock[s]))
    BY <2>2
  <2>3. CASE sock'[s] = Disconnect(sock[s]) /\ s # call.s
    BY <2>3, ListTypes DEF Disconnect, Succeeded, SockRecords
  <2> QED BY <1>4, <2>1, <2>2, <2>3
<1> HIDE DEF Dies
<1>7. \A s \in Socks : s = call.s => ~Dies(s)
  BY DEF Dies
<1>8. Guided'
  BY <1>1, <1>5, <1>6 DEF Guided
<1>9. CallNew'
  BY <1>1, <1>2, <1>6, <1>7, ListTypes DEF CallNew
<1>10. Keyed'
  BY <1>1, <1>2, <1>5, <1>6, ListTypes DEF Keyed
<1>11. Apart' /\ OneGuid'
  BY <1>1, <1>2 DEF Apart, OneGuid
<1>12. InSceneReachable'
  <2>1. \A s \in Socks : sock[s].scene # 0 => sock[s].guid \in Guids
    BY ListTypes DEF Guided, SockRecords
  <2> QED BY <1>2, <1>6, <2>1, ListTypes DEF InSceneReachable
<1>13. ClosedOut'
  BY <1>1, <1>2, <1>5, <1>6, <1>7, ListTypes DEF ClosedOut
<1>14. HeldOnce'
  <2> SUFFICES ASSUME ~Interleaved PROVE HeldOnce'
    BY DEF HeldOnce
  <2>1. \A s \in Socks : sock[s].conn \notin {"shut", "closing"}
    BY DEF UpdateGameSockets, Free, Quiet
  <2>2. call = Idle
    BY DEF UpdateGameSockets, Free
  <2>3. \A s \in Socks : sock'[s].conn = "open" /\ Succeeded(sock'[s]) =>
          \/ s = call.s
          \/ \E k \in Guids : online'[k] = s
          \/ \E a \in Accounts : pending[a] = s
    BY <1>2, <1>6 DEF HeldOnce
  <2>4. \A k \in Guids : online'[k] # None /\ sock'[online'[k]].conn = "open" =>
          pending[Owner(k)] = None
    BY <1>2, <1>6, ListTypes DEF HeldOnce
  <2>5. ASSUME NEW s \in Socks, NEW a \in Accounts,
               sock'[s].conn \in {"shut", "closing"}, Succeeded(sock'[s]), sock'[s].guid = a
        PROVE  pending[a] \in {s, None}
    <3>1. sock[s].conn = "open" /\ s # call.s /\ Succeeded(sock[s]) /\ sock[s].guid = a
      BY <1>6, <2>1, <2>5
    <3> QED BY <3>1, ConnectedIsAlone
  <2> QED BY <1>1, <2>2, <2>3, <2>4, <2>5 DEF HeldOnce, Idle
<1> QED BY <1>8, <1>9, <1>10, <1>11, <1>12, <1>13, <1>14

LEMMA UpdatePendingGameSocketsLists ==
  ASSUME ListsInv, UpdatePendingGameSockets
  PROVE  Lists'
<1> USE DEF ListsInv, Lists
<1>1. UNCHANGED <<waiting, call>>
  BY DEF UpdatePendingGameSockets
<1>2. \A a \in Accounts : MayEnter(a) =>
        /\ a \in Guids /\ pending[a] # None /\ pending[a] \in Socks
        /\ sock[pending[a]].guid = a /\ sock[pending[a]].acct = a
        /\ \A k \in Guids : online[k] # None => Owner(k) # a
  BY Owners, ListTypes DEF MayEnter, OnlineOf, OnlineSocks, Keyed, Guided
<1>3. \A a \in Accounts : pending'[a] = IF MayEnter(a) THEN None ELSE pending[a]
  BY DEF UpdatePendingGameSockets, ErasePending
<1>4. /\ \A a \in Accounts : MayEnter(a) => online'[a] = pending[a]
      /\ \A k \in Guids : k \notin Accounts \/ ~MayEnter(k) => online'[k] = online[k]
  BY <1>2, Owners DEF UpdatePendingGameSockets
<1>5. ASSUME NEW s \in Socks
      PROVE  /\ sock'[s].acct = sock[s].acct /\ sock'[s].guid = sock[s].guid
             /\ sock'[s].scene = sock[s].scene /\ sock'[s].req = sock[s].req
             /\ Succeeded(sock'[s]) = Succeeded(sock[s])
             /\ \/ sock'[s].conn = sock[s].conn
                \/ sock[s].conn = "open" /\ sock'[s].conn = "shut" /\ s # call.s
  <2>1. \/ \E t : sock'[s] = [sock[s] EXCEPT !.told = t]
        \/ sock'[s] = Disconnect(sock[s]) /\ \E k \in Guids : online[k] = s
        \/ sock'[s] = Aged(sock[s])
    <3> DEFINE entering == {pending[a] : a \in {b \in Accounts : MayEnter(b)}}
               waitedFor == UNION {OnlineOf(sock[pending[a]].acct) :
                                     a \in {b \in Accounts : pending[b] # None}}
    <3>1. sock'[s] = IF s \in entering
                       THEN [sock[s] EXCEPT !.told = IF Master \in links THEN "asked" ELSE @]
                     ELSE IF s \in waitedFor THEN Disconnect(sock[s]) ELSE Aged(sock[s])
      BY DEF UpdatePendingGameSockets
    <3>2. s \in waitedFor => \E k \in Guids : online[k] = s
      BY DEF OnlineOf, OnlineSocks
    <3> HIDE DEF entering, waitedFor
    <3>3. \E t : s \in entering => sock'[s] = [sock[s] EXCEPT !.told = t]
      BY <3>1
    <3> QED BY <3>1, <3>2, <3>3
  <2>2. sock[s] \in SockRecords
    BY ListTypes
  <2>3. s = call.s => \A k \in Guids : online[k] # s
    BY ListTypes DEF CallNew
  <2>4. ASSUME NEW t, sock'[s] = [sock[s] EXCEPT !.told = t]
        PROVE  /\ sock'[s].acct = sock[s].acct /\ sock'[s].guid = sock[s].guid
               /\ sock'[s].scene = sock[s].scene /\ sock'[s].req = sock[s].req
               /\ sock'[s].auth = sock[s].auth /\ sock'[s].conn = sock[s].conn
    BY <2>2, <2>4 DEF SockRecords
  <2> QED BY <2>1, <2>2, <2>3, <2>4 DEF Disconnect, Aged, Succeeded, SockRecords
<1>6. Guided'
  BY <1>1, <1>5 DEF Guided
<1>7. CallNew'
  BY <1>1, <1>3, <1>4, <1>5, ListTypes, Owners DEF CallNew
<1>8. Keyed'
  BY <1>2, <1>3, <1>4, <1>5, ListTypes DEF Keyed
<1>9. Apart'
  BY <1>2, <1>3, <1>4 DEF Apart, Keyed
<1>10. OneGuid'
  BY <1>2, <1>4, Owners DEF OneGuid
<1>11. InSceneReachable'
  <2>1. \A s \in Socks : sock[s].scene # 0 => sock[s].guid \in Guids
    BY ListTypes DEF Guided, SockRecords
  <2>2. \A s \in Socks, k \in Guids : online[k] = s => online'[k] = s
    BY <1>2, <1>4, ListTypes, Owners
  <2> QED BY <1>5, <2>1, <2>2 DEF InSceneReachable
<1>12. ClosedOut'
  <2>1. ~Interleaved => \A s \in Socks : sock[s].conn = "freed" => \A k \in Guids : online'[k] # s
    BY <1>2, <1>4 DEF ClosedOut
  <2> QED BY <1>1, <1>3, <1>5, <2>1, ListTypes DEF ClosedOut
<1>13. HeldOnce'
  <2> SUFFICES ASSUME ~Interleaved PROVE HeldOnce'
    BY DEF HeldOnce
  <2>1. \A s \in Socks : sock[s].conn \notin {"shut", "closing"}
    BY DEF UpdatePendingGameSockets, Free, Quiet
  <2>2. call = Idle
    BY DEF UpdatePendingGameSockets, Free
  <2>3. \A s \in Socks : sock'[s].conn = "open" /\ Succeeded(sock'[s]) =>
          \/ s = call.s
          \/ \E k \in Guids : online'[k] = s
          \/ \E a \in Accounts : pending'[a] = s
    <3>1. \A s \in Socks, k \in Guids : online[k] = s => online'[k] = s
      BY <1>2, <1>4, ListTypes, Owners
    <3>2. ASSUME NEW a \in Accounts
          PROVE  pending'[a] = pending[a] \/ (a \in Guids /\ online'[a] = pending[a])
      <4>1. CASE MayEnter(a)
        BY <1>4, <4>1, Owners
      <4>2. CASE ~MayEnter(a)
        BY <1>3, <4>2
      <4> QED BY <4>1, <4>2
    <3> QED BY <1>5, <3>1, <3>2 DEF HeldOnce
  <2>4. \A k \in Guids : online'[k] # None /\ sock'[online'[k]].conn = "open" =>
          pending'[Owner(k)] = None
    BY <1>2, <1>3, <1>4, <1>5, ListTypes, Owners DEF HeldOnce
  <2>5. ASSUME NEW s \in Socks, NEW a \in Accounts,
               sock'[s].conn \in {"shut", "closing"}, Succeeded(sock'[s]), sock'[s].guid = a
        PROVE  pending'[a] \in {s, None}
    <3>1. sock[s].conn = "open" /\ s # call.s /\ Succeeded(sock[s]) /\ sock[s].guid = a
      BY <1>5, <2>1, <2>5
    <3>2. pending[a] \in {s, None}
      BY <3>1, ConnectedIsAlone
    <3> QED BY <1>3, <3>2
  <2> QED BY <1>1, <2>2, <2>3, <2>4, <2>5 DEF HeldOnce, Idle
<1> QED BY <1>6, <1>7, <1>8, <1>9, <1>10, <1>11, <1>12, <1>13

-----------------------------------------------------------------------------
(* The theorems *)

LEMMA InitLists ==
  ASSUME Init
  PROVE  ListsInv
<1>1. TypeOK
  BY BlankType DEF Init, TypeOK, SockRecords, Idle
<1>2. Lists
  BY ConstantsAssumption
  DEF Init, Lists, Guided, CallNew, Keyed, Apart, OneGuid, InSceneReachable, ClosedOut,
      HeldOnce, Blank, Idle, Succeeded
<1> QED BY <1>1, <1>2 DEF ListsInv

LEMMA NextLists ==
  ASSUME Orderly, ListsInv, [Next]_vars
  PROVE  ListsInv'
<1>1. TypeOK'
  BY NextTypeOK DEF ListsInv, Lists
<1>2. Lists'
  <2>1. CASE Client
    BY <2>1, OnConnectLists, HandleUserAuthSessionLists, ClosingLists DEF Client
  <2>2. CASE Close
    BY <2>2, OnDisconnectRequestLists, OnDisconnectSessionLists DEF Close
  <2>3. CASE Callback
    BY <2>3, SessionAuthedFailCallbackLists, SessionAuthedSuccessCallbackLists,
       AddPendingCheckLists, AddPendingReplaceLists, AddPendingInsertLists DEF Callback
  <2>4. CASE Login
    BY <2>4, HandleAccountAuthResultLists, ClosingLists DEF Login
  <2>5. CASE Servers
    BY <2>5, HandleCloseGameSocketLists, HandleChooseGameRoleResponseLists,
       HandleChangeSceneServerMasterNoticeLists, ClosingLists DEF Servers
  <2>6. CASE MainLoop
    BY <2>6, UpdateGameSocketsLists, UpdatePendingGameSocketsLists, ClosingLists DEF MainLoop
  <2>7. CASE (\E s \in Socks : DelayOver(s)) \/ UNCHANGED vars
    BY <2>7, ClosingLists
  <2> QED BY <2>1, <2>2, <2>3, <2>4, <2>5, <2>6, <2>7 DEF Next
<1> QED BY <1>1, <1>2 DEF ListsInv

\* The inductive invariant of the client lists.
THEOREM ListsInvariant ==
  ASSUME Orderly
  PROVE  Spec => []ListsInv
<1>1. ListsInv /\ [Next]_vars => ListsInv'
  BY NextLists
<1> QED BY <1>1, InitLists, PTL DEF Spec

\* The online list's keys are its clients' guids, nobody is in both lists or
\* waits inside a scene, and every variable has its type: what the assertions of
\* AddPendingGameList and __AddGameSocketToOnlineList take for granted.
THEOREM ListsKeyedHolds ==
  ASSUME Orderly
  PROVE  Spec => []ListsKeyed
<1>1. ListsInv => ListsKeyed
  BY ListTypes DEF ListsInv, Lists, Keyed, Apart, ListsKeyed, OnlineKeyed, PendingNotOnline,
                   OnlineSocks, PendingSocks
<1> QED BY <1>1, ListsInvariant, PTL

\* An account has at most one client online on a gateway, however the login
\* server's thread, the clients' threads and the main loop interleave.
THEOREM OneClientPerAccountHolds ==
  ASSUME Orderly
  PROVE  Spec => []OneClientPerAccount
<1>1. ListsInv => OneClientPerAccount
  <2> SUFFICES ASSUME ListsInv, NEW s \in OnlineSocks, NEW t \in OnlineSocks,
                      sock[s].acct = sock[t].acct
               PROVE  s = t
    BY DEF OneClientPerAccount
  <2>1. PICK j \in Guids, k \in Guids : s = online[j] /\ t = online[k] /\ s # None /\ t # None
    BY DEF OnlineSocks
  <2>2. Owner(j) = sock[s].acct /\ Owner(k) = sock[t].acct
    BY <2>1, ListTypes, Owners DEF ListsInv, Lists, Keyed, Guided
  <2> QED BY <2>1, <2>2 DEF ListsInv, Lists, OneGuid
<1> QED BY <1>1, ListsInvariant, PTL

\* A connected client in a scene is in the online list under its guid, so that
\* the packets of its scene server reach it (UpdateGameSocektGuid).
THEOREM InSceneReachableHolds ==
  ASSUME Orderly
  PROVE  Spec => []InSceneReachable
<1>1. ListsInv => InSceneReachable
  BY DEF ListsInv, Lists
<1> QED BY <1>1, ListsInvariant, PTL

\* When every callback and every OnDisconnect runs in one piece, no answer of
\* the login server meets a withdrawn request (the assertion of
\* HandleAccountAuthResult) and no list holds a deleted GameSocket.
THEOREM NoStaleSocketHolds ==
  ASSUME ~Interleaved
  PROVE  Spec => []NoStaleSocket
<1>1. Orderly
  BY DEF Orderly
<1>2. ListsInv => NoStaleSocket
  <2> SUFFICES ASSUME ListsInv PROVE NoStaleSocket
    OBVIOUS
  <2>1. AuthRequestAssertion
    BY ListTypes DEF AuthRequestAssertion, ListsInv, Lists, CallNew, ClosedOut
  <2>2. ASSUME NEW s \in waiting \cup PendingSocks \cup OnlineSocks
        PROVE  sock[s].conn # "freed"
    BY ListTypes DEF ListsInv, Lists, ClosedOut, PendingSocks, OnlineSocks, TypeOK
  <2> QED BY <2>1, <2>2 DEF NoStaleSocket, NoDeletedSocket
<1> QED BY <1>1, <1>2, ListsInvariant, PTL

\* A step that takes a client from the pending list has closed it or puts it in
\* the online list: RemoveDisconnectedSocketFromPendingGameList, which goes by
\* the guid alone, takes no other client's place away.
LEMMA NextRemovesOwn ==
  ASSUME ~Interleaved, ListsInv, [Next]_vars, NEW a \in Accounts,
         pending[a] # None, pending'[a] # pending[a], pending[a] \notin OnlineSocks'
  PROVE  sock'[pending[a]].conn # "open"
<1> USE DEF ListsInv, Lists
<1>0. pending[a] \in Socks /\ sock[pending[a]].guid = a
  BY ListTypes DEF Keyed
<1>1. CASE \E s \in Socks : OnDisconnectSession(s)
  <2>1. PICK s \in Socks : OnDisconnectSession(s)
    BY <1>1
  <2>2. /\ a = sock[s].guid /\ Succeeded(sock[s]) /\ sock[s].scene = 0
        /\ sock[s].conn = "closing" /\ sock'[s].conn = "down"
    BY <2>1 DEF OnDisconnectSession, RemovePending, TypeOK
  <2>3. pending[a] = s
    BY <2>2 DEF HeldOnce
  <2> QED BY <2>2, <2>3
<1>2. CASE AddPendingReplace
  BY <1>0, <1>2 DEF AddPendingReplace, CutOffReplaced, DisconnectAll, Disconnect, TypeOK
<1>3. CASE AddPendingInsert
  BY <1>3 DEF AddPendingInsert, TypeOK
<1>4. CASE UpdatePendingGameSockets
  <2>1. MayEnter(a) /\ a \in Guids
    BY <1>4, Owners DEF UpdatePendingGameSockets, ErasePending
  <2>2. online[a] = None
    BY <2>1, Owners, ListTypes DEF MayEnter, OnlineOf, OnlineSocks, Keyed, Guided
  <2>3. online'[a] = pending[a]
    BY <1>4, <2>1, <2>2 DEF UpdatePendingGameSockets
  <2> QED BY <2>1, <2>3 DEF OnlineSocks
<1>5. CASE UNCHANGED pending
  BY <1>5
<1> QED
  BY <1>1, <1>2, <1>3, <1>4, <1>5
  DEF Next, Client, Close, Callback, Login, Servers, MainLoop, vars, OnConnect,
      HandleUserAuthSession, AuthNotSent, ClientLeaves, OnDisconnectRequest,
      HandleAccountAuthResult, LogonConnectionDropped, SessionAuthedFailCallback,
      SessionAuthedSuccessCallback, AddPendingCheck, HandleCloseGameSocket,
      HandleChooseGameRoleResponse, HandleChangeSceneServerMasterNotice, ConnectionDropped,
      Reconnect, EndRecv, UpdateGameSockets, DelayOver

\* Only a closed client leaves the pending list without going online.
THEOREM RemovesOwnPendingHolds ==
  ASSUME ~Interleaved
  PROVE  Spec => RemovesOwnPending
<1>1. Orderly
  BY DEF Orderly
<1>2. ListsInv /\ [Next]_vars =>
        [\A a \in Accounts :
           pending[a] # None /\ pending'[a] # pending[a] /\ pending[a] \notin OnlineSocks'
             => sock'[pending[a]].conn # "open"]_vars
  BY NextRemovesOwn
<1> QED BY <1>1, <1>2, ListsInvariant, PTL DEF Spec, RemovesOwnPending

=============================================================================
