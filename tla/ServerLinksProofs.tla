------------------------- MODULE ServerLinksProofs -------------------------
(* Proofs about ServerLinks, for any number of gateways, connections and   *)
(* faults.                                                                 *)
EXTENDS ServerLinks, TLAPS, FiniteSetTheorems

-----------------------------------------------------------------------------
(* The inductive invariant *)

\* Of one connection: what has not been challenged is not registered, and only
\* what is registered with the login server has an id and is pinged.
Fit(r) ==
  /\ r.gw # None => r.to \in Servers
  /\ r.gw = None => r.list = "no" /\ ~r.chal /\ r.hand = "none" /\ ~r.reg
  /\ r.chal \/ r.hand = "auth" => ~r.auth /\ ~r.reg /\ ~r.pingLate
  /\ r.hand = "auth" => r.to = "login" /\ r.list = "new" /\ ~r.chal
  /\ r.chal /\ r.to = "login" /\ r.serv = "open" => r.list = "new"
  /\ r.hand \in {"count", "pong"} => r.gid # 0
  /\ r.gid # 0 <=> r.reg /\ r.to = "login"

\* Only connections that have been made are in use.
Fits == \A k \in Conns : Fit(conn[k]) /\ (k > made => conn[k].gw = None)

\* A gateway's pointers are to its own connections.  One that it does not wait
\* for has been answered, so that its OnDisconnect clears the pointer; one that
\* it waits for keeps its OnDisconnect from running, unless that does nothing.
Pointers ==
  \A g \in Gateways :
    /\ wait[g] # None =>
         /\ conn[wait[g]].gw = g
         /\ conn[wait[g]].gate = "done" =>
              \/ conn[wait[g]].to = "scene"
              \/ conn[wait[g]].to = "master" /\ ~conn[wait[g]].auth
    /\ \A v \in Servers : cur[g][v] # None =>
         /\ conn[cur[g][v]].gw = g /\ conn[cur[g][v]].to = v
         /\ wait[g] # cur[g][v] =>
              /\ conn[cur[g][v]].auth /\ conn[cur[g][v]].known
              /\ conn[cur[g][v]].gate = "done" => v = "scene"

\* The connections whose challenge has been handled or lost
Spent == {k \in Conns : k <= made /\ ~conn[k].chal /\ conn[k].hand # "auth"}

\* Each id is drawn for a connection of its own.
IdsBounded ==
  /\ idHigh <= Cardinality(Spent)
  /\ \A k \in Conns : conn[k].hand = "auth" => conn[k].seen <= Cardinality(Spent)

\* The tables and the connections have only ids that were given out, and two
\* connections have one id only if it was given out twice.
IdsIssued ==
  /\ \A k \in Conns : conn[k].gid # 0 => conn[k].gid \in issued
  /\ \A i \in Ids : info[i] # None \/ count[i] # None => i \in issued
  /\ \A j, k \in Conns :
       conn[j].gid = conn[k].gid /\ conn[j].gid # 0 => j = k \/ conn[j].gid \in twice

Tables == IdsBounded /\ IdsIssued /\ Registrations

LinksInv == TypeOK /\ Fits /\ Pointers /\ Tables

-----------------------------------------------------------------------------
(* What a step that changes one connection leaves as it was *)

LEMMA ConnsFacts ==
  /\ MaxConns \in Nat /\ Conns \subseteq Nat /\ Ids = Conns /\ 0 \notin Conns
  /\ None \notin Conns /\ None \notin Ids /\ None # 0 /\ None \notin Gateways
BY ConstantsAssumption DEF Conns, Ids

\* The gateway's end has not ended and its authentication is what it was.
SameGate(r, q) ==
  /\ q.gw = r.gw /\ q.to = r.to /\ q.auth = r.auth /\ q.known = r.known
  /\ q.gate = "done" <=> r.gate = "done"

\* The login server's registration is what it was, and a challenge that has been
\* handled is not handled again.
SameServ(r, q) ==
  /\ q.gw = r.gw /\ q.to = r.to /\ q.gid = r.gid
  /\ r.to = "login" => q.list = r.list /\ q.reg = r.reg
  /\ q.chal => r.chal
  /\ q.hand = "auth" => r.hand = "auth" /\ q.seen = r.seen

LEMMA FitsStay ==
  ASSUME TypeOK, Fits, NEW k \in Conns, NEW q, conn' = [conn EXCEPT ![k] = q],
         Fit(q), q.gw = conn[k].gw, made' = made
  PROVE  Fits'
BY DEF Fits, TypeOK

LEMMA PointersStay ==
  ASSUME TypeOK, Pointers, NEW k \in Conns, NEW q, conn' = [conn EXCEPT ![k] = q],
         SameGate(conn[k], q), UNCHANGED <<cur, wait>>
  PROVE  Pointers'
<1>1. \A j \in Conns : SameGate(conn[j], conn'[j])
  BY DEF SameGate, TypeOK
<1>2. /\ \A g \in Gateways : wait[g] # None => wait[g] \in Conns
      /\ \A g \in Gateways, v \in Servers : cur[g][v] # None => cur[g][v] \in Conns
  BY DEF TypeOK
<1> QED BY <1>1, <1>2 DEF Pointers, SameGate

\* The connections that are spent stay so, and so their number does not fall.
LEMMA SpentGrows ==
  ASSUME TypeOK, made' \in 0..MaxConns, made <= made', Spent \subseteq Spent'
  PROVE  /\ IsFiniteSet(Spent) /\ IsFiniteSet(Spent')
         /\ Cardinality(Spent) \in Nat /\ Cardinality(Spent') \in Nat
         /\ Cardinality(Spent) <= Cardinality(Spent') /\ Cardinality(Spent') <= made'
<1>1. made' \in Nat /\ IsFiniteSet(1..made') /\ Cardinality(1..made') = made'
  <2>1. made' \in Nat /\ made' >= 0
    BY ConnsFacts
  <2> QED BY <2>1, FS_Interval
<1>2. Spent' \in SUBSET (1..made') /\ Spent \in SUBSET Spent'
  BY ConnsFacts, <1>1 DEF Spent, Conns
<1>3. IsFiniteSet(Spent') /\ Cardinality(Spent') <= made'
  BY <1>1, <1>2, FS_Subset
<1>4. IsFiniteSet(Spent) /\ Cardinality(Spent) <= Cardinality(Spent')
  BY <1>2, <1>3, FS_Subset
<1> QED BY <1>3, <1>4, FS_CardinalityType

LEMMA SeenNat ==
  ASSUME TypeOK
  PROVE  \A k \in Conns : conn[k].seen \in Nat
<1>1. \A r \in ConnRecords : r.seen \in {0} \cup Ids
  BY DEF ConnRecords
<1>2. \A k \in Conns : conn[k] \in ConnRecords
  BY DEF TypeOK
<1>3. {0} \cup Ids \subseteq Nat
  BY ConnsFacts
<1> QED BY <1>1, <1>2, <1>3

LEMMA IdsStay ==
  ASSUME TypeOK, IdsBounded, made' \in 0..MaxConns, made <= made', Spent \subseteq Spent',
         idHigh' = idHigh,
         \A k \in Conns : conn'[k].hand = "auth" =>
           conn[k].hand = "auth" /\ conn'[k].seen = conn[k].seen
  PROVE  IdsBounded'
<1>1. /\ Cardinality(Spent) \in Nat /\ Cardinality(Spent') \in Nat
      /\ Cardinality(Spent) <= Cardinality(Spent')
  BY SpentGrows
<1>2. idHigh \in Nat
  BY ConnsFacts DEF TypeOK
<1>3. \A k \in Conns : conn[k].seen \in Nat
  BY SeenNat
<1> QED BY <1>1, <1>2, <1>3 DEF IdsBounded

\* A registered connection is a login server's.
LEMMA InfoConns ==
  ASSUME TypeOK, Fits, Registrations, NEW i \in Ids \ twice, info[i] # None
  PROVE  info[i] \in Conns /\ conn[info[i]].to = "login" /\ conn[info[i]].gid = i
<1>1. info[i] \in Conns /\ i # 0
  BY ConnsFacts DEF TypeOK
<1>2. conn[info[i]].gid = i
  BY DEF Registrations
<1>3. conn[info[i]].to = "login"
  BY <1>1, <1>2 DEF Fits, Fit
<1> QED BY <1>1, <1>2, <1>3

LEMMA RegistrationsStay ==
  ASSUME TypeOK, Fits, IdsIssued, Registrations,
         \A j \in Conns :
           /\ conn'[j].gw = conn[j].gw /\ conn'[j].to = conn[j].to
           /\ conn'[j].gid = conn[j].gid
           /\ conn[j].to = "login" => conn'[j].list = conn[j].list /\ conn'[j].reg = conn[j].reg,
         UNCHANGED <<info, count, issued, twice>>
  PROVE  IdsIssued' /\ Registrations'
<1>1. IdsIssued'
  BY DEF IdsIssued
<1>2. Registrations'
  BY InfoConns DEF Registrations, Links, Used
<1> QED BY <1>1, <1>2

LEMMA TablesStay ==
  ASSUME TypeOK, Fits, Tables, NEW k \in Conns, NEW q, conn' = [conn EXCEPT ![k] = q],
         SameServ(conn[k], q), UNCHANGED <<tables, made>>
  PROVE  Tables'
<1>1. \A j \in Conns : SameServ(conn[j], conn'[j])
  BY DEF SameServ, TypeOK
<1>2. IdsBounded'
  <2>1. made \in Nat /\ Spent \subseteq Spent'
    BY <1>1, ConnsFacts DEF Spent, SameServ, tables, TypeOK
  <2> QED BY <1>1, <2>1, IdsStay DEF SameServ, Tables, tables, ids, TypeOK
<1>3. IdsIssued' /\ Registrations'
  BY <1>1, RegistrationsStay DEF Tables, SameServ, tables, ids
<1> QED BY <1>2, <1>3 DEF Tables

\* A step that changes one connection and nothing that the pointers or the tables
\* know of it.
Plain ==
  \E k \in Conns, q \in ConnRecords :
    /\ conn' = [conn EXCEPT ![k] = q]
    /\ SameGate(conn[k], q) /\ SameServ(conn[k], q) /\ Fit(q)

LEMMA PlainInv ==
  ASSUME LinksInv, Plain, UNCHANGED <<cur, wait, clients, made, tables>>, faults' \in 0..MaxFaults
  PROVE  LinksInv'
<1> USE DEF LinksInv
<1>1. PICK k \in Conns, q \in ConnRecords :
        /\ conn' = [conn EXCEPT ![k] = q]
        /\ SameGate(conn[k], q) /\ SameServ(conn[k], q) /\ Fit(q)
  BY DEF Plain
<1>2. TypeOK'
  BY <1>1 DEF TypeOK, tables, ids
<1>3. Fits'
  BY <1>1, FitsStay DEF SameGate
<1>4. Pointers'
  BY <1>1, PointersStay
<1>5. Tables'
  BY <1>1, <1>2, TablesStay
<1> QED BY <1>2, <1>3, <1>4, <1>5

LEMMA PlainSteps ==
  ASSUME LinksInv, NEW k \in Conns,
         \/ \E g \in Gateways : k = cur[g]["scene"] /\ PongExcused(g)
         \/ LoginPing(k) \/ HandlePing(k) \/ MasterOnDisconnect(k)
         \/ SceneOnDisconnect(k) \/ SceneRemoveSocket(k)
         \/ Lose(k) \/ FallMute(k) \/ PingsStop(k) \/ PongsStop(k) \/ HeldUp(k)
  PROVE  LinksInv'
<1> USE DEF LinksInv
<1>1. PICK r \in ConnRecords : r = conn[k] /\ Fit(r)
  BY DEF TypeOK, Fits
<1> DEFINE Kept(q) == q \in ConnRecords /\ SameGate(r, q) /\ SameServ(r, q) /\ Fit(q)
<1>2. UNCHANGED <<cur, wait, clients, made, tables>> /\ faults' \in 0..MaxFaults
  <2>1. \/ faults' = faults
        \/ faults < MaxFaults /\ faults' = faults + 1
    BY DEF PongExcused, LoginPing, HandlePing, MasterOnDisconnect, SceneOnDisconnect,
           SceneRemoveSocket, Lose, FallMute, PingsStop, PongsStop, HeldUp
  <2>2. faults' \in 0..MaxFaults
    BY <2>1, ConstantsAssumption DEF TypeOK
  <2>3. UNCHANGED <<cur, wait, clients, made, tables>>
    BY DEF PongExcused, LoginPing, HandlePing, MasterOnDisconnect, SceneOnDisconnect,
           SceneRemoveSocket, Lose, FallMute, PingsStop, PongsStop, HeldUp
  <2> QED BY <2>2, <2>3
<1> SUFFICES \E q : conn' = [conn EXCEPT ![k] = q] /\ Kept(q)
  BY <1>1, <1>2, PlainInv DEF Plain
<1> HIDE DEF Kept
<1>3. CASE \E g \in Gateways : k = cur[g]["scene"] /\ PongExcused(g)
  <2>1. Kept([r EXCEPT !.pongLate = FALSE])
    BY <1>1 DEF Kept, SameGate, SameServ, Fit, ConnRecords
  <2>2. conn' = [conn EXCEPT ![k] = [r EXCEPT !.pongLate = FALSE]]
    BY <1>1, <1>3 DEF PongExcused, TypeOK
  <2> QED BY <2>1, <2>2
<1>4. CASE LoginPing(k)
  <2>1. r.reg /\ r.to = "login" /\ r.hand = "none" /\ r.gid # 0
    BY <1>1, <1>4 DEF LoginPing, Pinging, Fit
  <2>2. ASSUME NEW h \in {"pong", "count"} PROVE Kept([r EXCEPT !.hand = h])
    <3>1. [r EXCEPT !.hand = h] \in ConnRecords /\ h # "auth"
      BY DEF ConnRecords
    <3>2. r.gw # None /\ r.gid # 0
      BY <1>1, <1>4, <2>1 DEF LoginPing, Pinging, Used
    <3>3. Fit([r EXCEPT !.hand = h])
      BY <1>1, <3>1, <3>2 DEF Fit, ConnRecords
    <3>4. SameGate(r, [r EXCEPT !.hand = h]) /\ SameServ(r, [r EXCEPT !.hand = h])
      BY <3>1 DEF SameGate, SameServ, ConnRecords
    <3> QED BY <3>1, <3>3, <3>4 DEF Kept
  <2>3. PICK h \in {"pong", "count"} : conn' = [conn EXCEPT ![k] = [r EXCEPT !.hand = h]]
    BY <1>1, <1>4 DEF LoginPing, TypeOK
  <2> QED BY <2>2, <2>3
<1>5. CASE HandlePing(k)
  <2>1. r.to # "login" /\ r.hand = "none"
    BY <1>1, <1>5 DEF HandlePing, Pinging
  <2>2. ASSUME NEW b \in BOOLEAN
        PROVE  Kept([r EXCEPT !.hand = "none", !.pingLate = FALSE, !.pongLate = b])
    <3> DEFINE q == [r EXCEPT !.hand = "none", !.pingLate = FALSE, !.pongLate = b]
    <3>1. q \in ConnRecords
      BY DEF ConnRecords
    <3>2. SameGate(r, q) /\ SameServ(r, q) /\ Fit(q)
      BY <1>1, <2>1 DEF SameGate, SameServ, Fit, ConnRecords
    <3> QED BY <3>1, <3>2 DEF Kept
  <2>3. Kept(Ponged(r))
    BY <1>1, <2>2 DEF Ponged, ConnRecords
  <2> QED BY <1>1, <1>5, <2>3 DEF HandlePing, TypeOK
<1>6. CASE MasterOnDisconnect(k)
  <2>1. Kept([r EXCEPT !.serv = "gone", !.list = "no"])
    BY <1>1, <1>6 DEF MasterOnDisconnect, Kept, SameGate, SameServ, Fit, ConnRecords
  <2>2. conn' = [conn EXCEPT ![k] = [r EXCEPT !.serv = "gone", !.list = "no"]]
    BY <1>1, <1>6 DEF MasterOnDisconnect, TypeOK
  <2> QED BY <2>1, <2>2
<1>7. CASE SceneOnDisconnect(k)
  <2>1. 1 \in Ids /\ r.hand # "auth"
    BY <1>1, <1>7, ConstantsAssumption DEF SceneOnDisconnect, Ids, Conns, Fit
  <2>2. ASSUME NEW s \in {"gone", "closing"}, NEW n \in {0, 1}
        PROVE  Kept([r EXCEPT !.serv = s, !.seen = n])
    BY <1>1, <1>7, <2>1 DEF SceneOnDisconnect, Kept, SameGate, SameServ, Fit, ConnRecords
  <2>3. PICK s \in {"gone", "closing"}, n \in {0, 1} :
          conn' = [conn EXCEPT ![k] = [r EXCEPT !.serv = s, !.seen = n]]
    BY <1>1, <1>7 DEF SceneOnDisconnect, TypeOK
  <2> QED BY <2>2, <2>3
<1>8. CASE SceneRemoveSocket(k)
  <2>1. r.to = "scene" /\ r.list \in {"no", "new", "platform"}
    BY <1>1, <1>8 DEF SceneRemoveSocket, ConnRecords
  <2>2. ASSUME NEW l \in {"no", r.list}
        PROVE  Kept([r EXCEPT !.serv = "gone", !.seen = 0, !.list = l])
    <3> DEFINE q == [r EXCEPT !.serv = "gone", !.seen = 0, !.list = l]
    <3>1. q \in ConnRecords
      BY DEF ConnRecords
    <3>2. SameGate(r, q) /\ SameServ(r, q) /\ Fit(q)
      BY <1>1, <2>1 DEF SameGate, SameServ, Fit, ConnRecords
    <3> QED BY <3>1, <3>2 DEF Kept
  <2>3. PICK l \in {"no", r.list} :
          conn' = [conn EXCEPT ![k] = [r EXCEPT !.serv = "gone", !.seen = 0, !.list = l]]
    BY <1>1, <1>8 DEF SceneRemoveSocket, TypeOK
  <2> QED BY <2>2, <2>3
<1>9. CASE Lose(k)
  <2>1. Kept([r EXCEPT !.gate = "shut", !.serv = "shut"])
    BY <1>1, <1>9 DEF Lose, Through, Kept, SameGate, SameServ, Fit, ConnRecords
  <2>2. conn' = [conn EXCEPT ![k] = [r EXCEPT !.gate = "shut", !.serv = "shut"]]
    BY <1>1, <1>9 DEF Lose, TypeOK
  <2> QED BY <2>1, <2>2
<1>10. CASE FallMute(k)
  <2>1. Kept([r EXCEPT !.mute = TRUE, !.chal = FALSE])
    BY <1>1 DEF Kept, SameGate, SameServ, Fit, ConnRecords
  <2>2. conn' = [conn EXCEPT ![k] = [r EXCEPT !.mute = TRUE, !.chal = FALSE]]
    BY <1>1, <1>10 DEF FallMute, TypeOK
  <2> QED BY <2>1, <2>2
<1>11. CASE PingsStop(k)
  <2>1. Kept([r EXCEPT !.pingLate = TRUE])
    BY <1>1, <1>11 DEF PingsStop, Unpinged, Kept, SameGate, SameServ, Fit, ConnRecords
  <2>2. conn' = [conn EXCEPT ![k] = [r EXCEPT !.pingLate = TRUE]]
    BY <1>1, <1>11 DEF PingsStop, TypeOK
  <2> QED BY <2>1, <2>2
<1>12. CASE PongsStop(k)
  <2>1. Kept([r EXCEPT !.pongLate = TRUE])
    BY <1>1 DEF Kept, SameGate, SameServ, Fit, ConnRecords
  <2>2. conn' = [conn EXCEPT ![k] = [r EXCEPT !.pongLate = TRUE]]
    BY <1>1, <1>12 DEF PongsStop, TypeOK
  <2> QED BY <2>1, <2>2
<1>13. CASE HeldUp(k)
  <2>1. Kept([r EXCEPT !.pingLate = TRUE, !.pongLate = TRUE])
    BY <1>1, <1>13 DEF HeldUp, Pinging, Kept, SameGate, SameServ, Fit, ConnRecords
  <2>2. conn' = [conn EXCEPT ![k] = [r EXCEPT !.pingLate = TRUE, !.pongLate = TRUE]]
    BY <1>1, <1>13 DEF HeldUp, TypeOK
  <2> QED BY <2>1, <2>2
<1> QED BY <1>3, <1>4, <1>5, <1>6, <1>7, <1>8, <1>9, <1>10, <1>11, <1>12, <1>13

-----------------------------------------------------------------------------
(* The gateway's steps *)

LEMMA ConnectInv ==
  ASSUME LinksInv, NEW g \in Gateways, NEW v \in Servers, Connect(g, v)
  PROVE  LinksInv'
<1> USE DEF LinksInv
<1>1. PICK k \in Conns : k = made + 1
  BY ConstantsAssumption DEF Connect, TypeOK, Conns
<1>2. PICK q \in ConnRecords : q = NewConn(g, v)
  BY DEF NewConn, Blank, ConnRecords
<1>3. /\ q.gw = g /\ q.to = v /\ q.gate = "open" /\ ~q.auth /\ ~q.reg /\ q.gid = 0
      /\ q.hand = "none" /\ q.chal /\ ~q.pingLate /\ q.list = "new"
  BY <1>2 DEF NewConn, Blank
<1>4. /\ conn' = [conn EXCEPT ![k] = q] /\ made' = k /\ wait' = [wait EXCEPT ![g] = k]
      /\ UNCHANGED <<clients, faults, tables>> /\ wait[g] = None /\ cur[g][v] = None
      /\ \A h \in Gateways, w \in Servers :
           cur'[h][w] = IF h = g /\ w = v /\ v # "login" THEN k ELSE cur[h][w]
  BY <1>1, <1>2 DEF Connect, TypeOK
<1>5. conn[k].gw = None /\ conn[k].gid = 0
  BY <1>1, ConnsFacts DEF Fits, Fit, TypeOK
<1>6. conn'[k] = q /\ \A j \in Conns : j # k => conn'[j] = conn[j]
  BY <1>4 DEF TypeOK
<1>7. TypeOK'
  <2>1. cur' \in [Gateways -> [Servers -> Conns \cup {None}]]
    BY <1>1 DEF Connect, TypeOK
  <2>2. made' \in 0..MaxConns
    BY <1>4, ConnsFacts DEF Conns
  <2> QED BY <1>4, <2>1, <2>2 DEF TypeOK, tables, ids
<1>8. Fits'
  <2>1. Fit(q)
    BY <1>3, ConnsFacts DEF Fit
  <2>2. \A j \in Conns : j > made' => j # k /\ j > made
    BY <1>1, <1>4, ConnsFacts DEF TypeOK
  <2> QED BY <1>6, <2>1, <2>2 DEF Fits
<1>9. Pointers'
  <2>1. /\ \A h \in Gateways : wait[h] # None => wait[h] \in Conns /\ wait[h] # k
        /\ \A h \in Gateways, w \in Servers : cur[h][w] # None => cur[h][w] \in Conns /\ cur[h][w] # k
    BY <1>5, ConnsFacts DEF Pointers, TypeOK
  <2>2. wait'[g] = k /\ \A h \in Gateways : h # g => wait'[h] = wait[h]
    BY <1>4 DEF TypeOK
  <2> QED BY <1>3, <1>4, <1>6, <2>1, <2>2, ConnsFacts DEF Pointers
<1>10. IdsBounded'
  <2>1. Spent \subseteq Spent' /\ made <= made' /\ made' \in 0..MaxConns
    BY <1>1, <1>4, <1>6, ConnsFacts DEF Spent, TypeOK, Conns
  <2> QED BY <1>3, <1>4, <1>6, <2>1, IdsStay DEF Tables, tables, ids
<1>11. IdsIssued'
  BY <1>3, <1>4, <1>6 DEF IdsIssued, Tables, tables, ids
<1>12. Registrations'
  <2>1. \A i \in Ids \ twice : info[i] # None => info[i] \in Conns /\ info[i] # k
    BY <1>5, InfoConns, ConnsFacts DEF Tables
  <2> QED BY <1>3, <1>4, <1>6, <2>1 DEF Registrations, Tables, tables, ids, Links, Used
<1> QED BY <1>7, <1>8, <1>9, <1>10, <1>11, <1>12 DEF Tables

LEMMA ShutGateKeeps ==
  ASSUME NEW r \in ConnRecords, Fit(r)
  PROVE  /\ ShutGate(r) \in ConnRecords /\ Fit(ShutGate(r))
         /\ SameGate(r, ShutGate(r)) /\ SameServ(r, ShutGate(r))
<1>1. CASE r.gate # "open"
  BY <1>1 DEF ShutGate, SameGate, SameServ
<1>2. CASE r.gate = "open"
  <2>1. PICK s \in {"open", "shut", "closing", "gone"} :
          /\ ShutGate(r) = [r EXCEPT !.gate = "shut", !.serv = s]
          /\ s = "open" => r.serv = "open"
    BY <1>2 DEF ShutGate, ConnRecords
  <2>2. PICK q \in ConnRecords : q = [r EXCEPT !.gate = "shut", !.serv = s]
    BY DEF ConnRecords
  <2>3. /\ q.gate = "shut" /\ q.serv = s /\ q.gw = r.gw /\ q.to = r.to /\ q.auth = r.auth /\ q.known = r.known
        /\ q.gid = r.gid /\ q.reg = r.reg /\ q.list = r.list /\ q.chal = r.chal
        /\ q.hand = r.hand /\ q.seen = r.seen /\ q.pingLate = r.pingLate
    BY <2>2 DEF ConnRecords
  <2>4. Fit(q)
    BY <2>1, <2>2, <2>3 DEF Fit
  <2>5. SameGate(r, q) /\ SameServ(r, q)
    BY <1>2, <2>2, <2>3 DEF SameGate, SameServ
  <2> QED BY <2>1, <2>2, <2>4, <2>5
<1> QED BY <1>1, <1>2

\* The pointers lose what a gateway no longer waits for or works with.
LEMMA PointersFall ==
  ASSUME TypeOK, Pointers, NEW k \in Conns, NEW q, conn' = [conn EXCEPT ![k] = q],
         SameGate(conn[k], q), NEW g \in Gateways, wait[g] \in {None, k}, wait'[g] = None,
         \A h \in Gateways : h # g => wait'[h] = wait[h],
         \A h \in Gateways, w \in Servers :
           cur'[h][w] = IF h = g /\ w = conn[k].to THEN None ELSE cur[h][w]
  PROVE  Pointers'
<1>1. \A j \in Conns : SameGate(conn[j], conn'[j])
  BY DEF SameGate, TypeOK
<1>2. /\ \A h \in Gateways : wait[h] # None => wait[h] \in Conns
      /\ \A h \in Gateways, w \in Servers : cur[h][w] # None => cur[h][w] \in Conns
  BY DEF TypeOK
<1> QED BY <1>1, <1>2 DEF Pointers, SameGate

LEMMA AuthTimeoutInv ==
  ASSUME LinksInv, NEW g \in Gateways, AuthTimeout(g)
  PROVE  LinksInv'
<1> USE DEF LinksInv
<1>1. PICK k \in Conns : k = wait[g]
  BY DEF AuthTimeout, TypeOK
<1>2. PICK q \in ConnRecords : /\ q = ShutGate(conn[k]) /\ Fit(q)
                               /\ SameGate(conn[k], q) /\ SameServ(conn[k], q)
  BY ShutGateKeeps DEF Fits, TypeOK
<1>3. /\ conn' = [conn EXCEPT ![k] = q] /\ wait' = [wait EXCEPT ![g] = None]
      /\ cur' = [cur EXCEPT ![g][conn[k].to] = None]
      /\ UNCHANGED <<clients, made, tables>>
  BY <1>1, <1>2 DEF AuthTimeout
<1>4. TypeOK'
  <2>1. faults' \in 0..MaxFaults
    BY ConstantsAssumption DEF AuthTimeout, TypeOK
  <2> QED BY <1>3, <2>1 DEF TypeOK, tables, ids
<1>5. Fits'
  BY <1>2, <1>3, FitsStay DEF SameGate
<1>6. Pointers'
  BY <1>1, <1>2, <1>3, PointersFall DEF TypeOK
<1>7. Tables'
  BY <1>2, <1>3, TablesStay
<1> QED BY <1>4, <1>5, <1>6, <1>7

LEMMA PongTimeoutInv ==
  ASSUME LinksInv, NEW g \in Gateways, NEW v \in Servers, PongTimeout(g, v)
  PROVE  LinksInv'
<1> USE DEF LinksInv
<1>1. PICK k \in Conns : k = cur[g][v] /\ conn[k].to = v
  BY DEF PongTimeout, TypeOK, Pointers
<1>2. PICK q \in ConnRecords : /\ q = ShutGate(conn[k]) /\ Fit(q)
                               /\ SameGate(conn[k], q) /\ SameServ(conn[k], q)
  BY ShutGateKeeps DEF Fits, TypeOK
<1>3. /\ conn' = [conn EXCEPT ![k] = q] /\ wait[g] = None
      /\ cur' = [cur EXCEPT ![g][v] = None]
      /\ UNCHANGED <<wait, clients, made, faults, tables>>
  BY <1>1, <1>2 DEF PongTimeout
<1>4. TypeOK'
  BY <1>3 DEF TypeOK, tables, ids
<1>5. Fits'
  BY <1>2, <1>3, FitsStay DEF SameGate
<1>6. Pointers'
  <2>1. \A h \in Gateways, w \in Servers :
          cur'[h][w] = IF h = g /\ w = conn[k].to THEN None ELSE cur[h][w]
    BY <1>1, <1>3 DEF TypeOK
  <2>2. wait[g] \in {None, k} /\ wait'[g] = None /\ \A h \in Gateways : h # g => wait'[h] = wait[h]
    BY <1>3
  <2> QED BY <1>2, <1>3, <2>1, <2>2, PointersFall
<1>7. Tables'
  BY <1>2, <1>3, TablesStay
<1> QED BY <1>4, <1>5, <1>6, <1>7

LEMMA AuthenticatedInv ==
  ASSUME LinksInv, NEW g \in Gateways, Authenticated(g)
  PROVE  LinksInv'
<1> USE DEF LinksInv
<1>1. PICK k \in Conns : k = wait[g] /\ k # None
  BY DEF Authenticated, TypeOK
<1>2. PICK r \in ConnRecords : r = conn[k] /\ Fit(r) /\ r.auth
  BY <1>1 DEF Authenticated, TypeOK, Fits
<1>3. PICK q \in ConnRecords : /\ q = [r EXCEPT !.known = TRUE] /\ q.known
                               /\ q.gw = r.gw /\ q.to = r.to /\ q.auth = r.auth /\ q.gate = r.gate
                               /\ Fit(q) /\ SameServ(r, q)
  <2>1. PICK q \in ConnRecords : q = [r EXCEPT !.known = TRUE]
    BY DEF ConnRecords
  <2>2. /\ q.known /\ q.gw = r.gw /\ q.to = r.to /\ q.auth = r.auth /\ q.gate = r.gate
        /\ q.gid = r.gid /\ q.reg = r.reg /\ q.list = r.list /\ q.chal = r.chal
        /\ q.hand = r.hand /\ q.seen = r.seen /\ q.pingLate = r.pingLate /\ q.serv = r.serv
    BY <2>1 DEF ConnRecords
  <2>3. Fit(q)
    BY <1>2, <2>2 DEF Fit
  <2>4. SameServ(r, q)
    BY <2>2 DEF SameServ
  <2> QED BY <2>1, <2>2, <2>3, <2>4
<1>4. /\ conn' = [conn EXCEPT ![k] = q] /\ wait' = [wait EXCEPT ![g] = None]
      /\ cur' = [cur EXCEPT ![g][r.to] = k]
      /\ UNCHANGED <<clients, made, faults, tables>>
  BY <1>1, <1>2, <1>3 DEF Authenticated, TypeOK
<1>5. TypeOK'
  BY <1>4 DEF TypeOK, tables, ids
<1>6. Fits'
  BY <1>2, <1>3, <1>4, FitsStay
<1>7. Pointers'
  <2>1. conn'[k] = q /\ \A j \in Conns : j # k => conn'[j] = conn[j]
    BY <1>4 DEF TypeOK
  <2>2. \A h \in Gateways, w \in Servers :
          cur'[h][w] = IF h = g /\ w = r.to THEN k ELSE cur[h][w]
    BY <1>4 DEF TypeOK
  <2>3. wait'[g] = None /\ \A h \in Gateways : h # g => wait'[h] = wait[h]
    BY <1>4 DEF TypeOK
  <2>4. r.gw = g /\ (r.gate = "done" => r.to = "scene")
    BY <1>1, <1>2 DEF Pointers
  <2>5. /\ \A h \in Gateways : wait[h] # None => wait[h] \in Conns
        /\ \A h \in Gateways, w \in Servers : cur[h][w] # None => cur[h][w] \in Conns
    BY DEF TypeOK
  <2>6. ASSUME NEW h \in Gateways, wait'[h] # None
        PROVE  /\ conn'[wait'[h]].gw = h
               /\ conn'[wait'[h]].gate = "done" =>
                    \/ conn'[wait'[h]].to = "scene"
                    \/ conn'[wait'[h]].to = "master" /\ ~conn'[wait'[h]].auth
    <3>1. h # g /\ wait'[h] = wait[h] /\ wait[h] \in Conns
      BY <2>3, <2>5, <2>6
    <3>2. wait[h] # k
      BY <1>2, <2>4, <2>6, <3>1 DEF Pointers
    <3> QED BY <2>1, <2>6, <3>1, <3>2 DEF Pointers
  <2>7. ASSUME NEW h \in Gateways, NEW w \in Servers, cur'[h][w] # None
        PROVE  /\ conn'[cur'[h][w]].gw = h /\ conn'[cur'[h][w]].to = w
               /\ wait'[h] # cur'[h][w] =>
                    /\ conn'[cur'[h][w]].auth /\ conn'[cur'[h][w]].known
                    /\ conn'[cur'[h][w]].gate = "done" => w = "scene"
    <3>1. CASE h = g /\ w = r.to
      <4>1. cur'[h][w] = k /\ conn'[k] = q
        BY <2>1, <2>2, <3>1
      <4> QED BY <1>2, <1>3, <2>4, <3>1, <4>1
    <3>2. CASE ~(h = g /\ w = r.to)
      <4>1. cur'[h][w] = cur[h][w] /\ cur[h][w] \in Conns
        BY <2>2, <2>5, <2>7, <3>2
      <4>2. conn[cur[h][w]].gw = h /\ conn[cur[h][w]].to = w
        BY <2>7, <4>1 DEF Pointers
      <4>3. cur[h][w] # k
        BY <1>2, <2>4, <3>2, <4>2
      <4>4. wait'[h] # cur[h][w] => wait[h] # cur[h][w]
        BY <1>1, <2>3, <4>3
      <4> QED BY <2>1, <2>7, <4>1, <4>3, <4>4 DEF Pointers
    <3> QED BY <3>1, <3>2
  <2> QED BY <2>6, <2>7 DEF Pointers
<1>8. Tables'
  BY <1>2, <1>3, <1>4, TablesStay
<1> QED BY <1>5, <1>6, <1>7, <1>8

LEMMA ClientsEnterInv ==
  ASSUME LinksInv, NEW g \in Gateways, ClientsEnter(g)
  PROVE  LinksInv'
<1> USE DEF LinksInv
<1>1. TypeOK'
  BY DEF ClientsEnter, TypeOK, tables, ids, Servers
<1>2. Fits' /\ Pointers'
  BY DEF ClientsEnter, Fits, Pointers
<1>3. Tables'
  <2>1. IdsBounded'
    BY DEF ClientsEnter, Tables, IdsBounded, Spent, tables, ids
  <2>2. IdsIssued' /\ Registrations'
    BY DEF ClientsEnter, Tables, IdsIssued, Registrations, Links, Used, tables, ids
  <2> QED BY <2>1, <2>2 DEF Tables
<1> QED BY <1>1, <1>2, <1>3

LEMMA OnDisconnectInv ==
  ASSUME LinksInv, NEW k \in Conns, OnDisconnect(k)
  PROVE  LinksInv'
<1> USE DEF LinksInv
<1>1. PICK r \in ConnRecords : r = conn[k] /\ Fit(r) /\ r.gw # None /\ r.gate = "shut"
  BY DEF OnDisconnect, Used, TypeOK, Fits
<1>2. r.gw \in Gateways /\ r.to \in Servers
  BY <1>1 DEF Fit, ConnRecords
<1>3. PICK q \in ConnRecords : /\ q = [r EXCEPT !.gate = "done"] /\ q.gate = "done"
                               /\ q.gw = r.gw /\ q.to = r.to /\ q.auth = r.auth
                               /\ q.known = r.known /\ Fit(q) /\ SameServ(r, q)
  <2>1. [r EXCEPT !.gate = "done"] \in ConnRecords
    BY DEF ConnRecords
  <2> QED BY <1>1, <2>1 DEF ConnRecords, Fit, SameServ
<1>4. conn' = [conn EXCEPT ![k] = q] /\ UNCHANGED <<wait, made, faults, tables>>
  BY <1>1, <1>3 DEF OnDisconnect, TypeOK
<1>5. \/ /\ LockFree(r.gw, r.to)
         /\ cur' = [cur EXCEPT ![r.gw][r.to] = None]
         /\ clients' \in {clients, [clients EXCEPT ![r.gw] = None]}
      \/ /\ (r.to = "scene" /\ ~r.known) \/ (r.to = "master" /\ ~r.auth)
         /\ UNCHANGED <<cur, clients>>
  BY <1>1, <1>2 DEF OnDisconnect, Noticed, DropPointer, CloseAllGameSockets, Servers
<1>6. TypeOK'
  <2>1. cur' \in [Gateways -> [Servers -> Conns \cup {None}]]
    <3>1. CASE cur' = [cur EXCEPT ![r.gw][r.to] = None]
      BY <1>2, <3>1 DEF TypeOK
    <3>2. CASE cur' = cur
      BY <3>2 DEF TypeOK
    <3> QED BY <1>5, <3>1, <3>2
  <2>2. clients' \in [Gateways -> Conns \cup {None}]
    BY <1>5 DEF TypeOK
  <2> QED BY <1>4, <2>1, <2>2 DEF TypeOK, tables, ids
<1>7. Fits'
  BY <1>1, <1>3, <1>4, FitsStay
<1>8. Pointers'
  <2>1. conn'[k] = q /\ \A j \in Conns : j # k => conn'[j] = conn[j]
    BY <1>4 DEF TypeOK
  <2>2. /\ \A h \in Gateways : wait[h] # None => wait[h] \in Conns
        /\ \A h \in Gateways, w \in Servers : cur[h][w] # None => cur[h][w] \in Conns
    BY DEF TypeOK
  <2>3. CASE /\ LockFree(r.gw, r.to)
             /\ cur' = [cur EXCEPT ![r.gw][r.to] = None]
    <3>1. \A h \in Gateways, w \in Servers :
            cur'[h][w] = IF h = r.gw /\ w = r.to THEN None ELSE cur[h][w]
      BY <2>3 DEF TypeOK
    <3>2. \A h \in Gateways : wait[h] # k
      BY <1>1, <1>2, <2>3, ConnsFacts DEF LockFree, Pointers
    <3> QED BY <1>1, <1>4, <2>1, <2>2, <3>1, <3>2 DEF Pointers
  <2>4. CASE /\ (r.to = "scene" /\ ~r.known) \/ (r.to = "master" /\ ~r.auth)
             /\ UNCHANGED cur
    BY <1>1, <1>3, <1>4, <2>1, <2>2, <2>4 DEF Pointers
  <2> QED BY <1>5, <2>3, <2>4
<1>9. Tables'
  BY <1>1, <1>3, <1>4, TablesStay
<1> QED BY <1>6, <1>7, <1>8, <1>9

-----------------------------------------------------------------------------
(* The servers' steps *)

LEMMA GenerateIdInv ==
  ASSUME LinksInv, NEW k \in Conns, GenerateId(k)
  PROVE  LinksInv'
<1> USE DEF LinksInv
<1>1. PICK r \in ConnRecords : /\ r = conn[k] /\ Fit(r)
                               /\ r.to = "login" /\ r.chal /\ r.serv = "open"
  BY DEF GenerateId, TypeOK, Fits
<1>2. idHigh \in {0} \cup Ids
  BY DEF TypeOK
<1>3. PICK q \in ConnRecords : q = [r EXCEPT !.chal = FALSE, !.hand = "auth", !.seen = idHigh]
  <2>1. \A s \in {0} \cup Ids : [r EXCEPT !.chal = FALSE, !.hand = "auth", !.seen = s] \in ConnRecords
    BY DEF ConnRecords
  <2> QED BY <1>2, <2>1
<1>4. /\ ~q.chal /\ q.hand = "auth" /\ q.seen = idHigh
      /\ q.gw = r.gw /\ q.to = r.to /\ q.auth = r.auth /\ q.known = r.known /\ q.gate = r.gate
      /\ q.gid = r.gid /\ q.reg = r.reg /\ q.list = r.list /\ q.pingLate = r.pingLate
  BY <1>3 DEF ConnRecords
<1>5. /\ conn' = [conn EXCEPT ![k] = q]
      /\ UNCHANGED <<cur, wait, clients, made, faults, tables>>
  BY <1>1, <1>3 DEF GenerateId, TypeOK
<1>6. conn'[k] = q /\ \A j \in Conns : j # k => conn'[j] = conn[j]
  BY <1>5 DEF TypeOK
<1>7. TypeOK'
  BY <1>5 DEF TypeOK, tables, ids
<1>8. Fits'
  <2>1. Fit(q)
    BY <1>1, <1>4 DEF Fit
  <2> QED BY <1>1, <1>4, <1>5, <2>1, FitsStay
<1>9. Pointers'
  BY <1>1, <1>4, <1>5, PointersStay DEF SameGate
<1>10. IdsBounded'
  <2>1. Spent' = Spent
    BY <1>1, <1>4, <1>5, <1>6 DEF Spent
  <2>2. idHigh <= Cardinality(Spent)
    BY DEF Tables, IdsBounded
  <2>3. ASSUME NEW j \in Conns, conn'[j].hand = "auth"
        PROVE  conn'[j].seen <= Cardinality(Spent)
    BY <1>4, <1>6, <2>2, <2>3 DEF Tables, IdsBounded
  <2> QED BY <1>5, <2>1, <2>2, <2>3 DEF IdsBounded, tables, ids
<1>11. IdsIssued' /\ Registrations'
  <2>1. \A j \in Conns :
          /\ conn'[j].gw = conn[j].gw /\ conn'[j].to = conn[j].to
          /\ conn'[j].gid = conn[j].gid
          /\ conn[j].to = "login" => conn'[j].list = conn[j].list /\ conn'[j].reg = conn[j].reg
    BY <1>1, <1>4, <1>6
  <2> QED BY <1>5, <2>1, RegistrationsStay DEF Tables, tables, ids
<1> QED BY <1>7, <1>8, <1>9, <1>10, <1>11 DEF Tables

\* The answer to a challenge changes no pointer that is waited for.
LEMMA AnswerPointers ==
  ASSUME TypeOK, Pointers, NEW k \in Conns, NEW q, conn' = [conn EXCEPT ![k] = q],
         q.gw = conn[k].gw, q.to = conn[k].to, q.known = conn[k].known,
         q.gate = conn[k].gate, ~conn[k].auth, q.auth => q.gate = "open",
         UNCHANGED <<cur, wait>>
  PROVE  Pointers'
<1>1. conn'[k] = q /\ \A j \in Conns : j # k => conn'[j] = conn[j]
  BY DEF TypeOK
<1>2. /\ \A g \in Gateways : wait[g] # None => wait[g] \in Conns
      /\ \A g \in Gateways, v \in Servers : cur[g][v] # None => cur[g][v] \in Conns
  BY DEF TypeOK
<1>3. ASSUME NEW g \in Gateways, wait[g] # None
      PROVE  /\ conn'[wait[g]].gw = g
             /\ conn'[wait[g]].gate = "done" =>
                  \/ conn'[wait[g]].to = "scene"
                  \/ conn'[wait[g]].to = "master" /\ ~conn'[wait[g]].auth
  BY <1>1, <1>2, <1>3 DEF Pointers
<1>4. ASSUME NEW g \in Gateways, NEW v \in Servers, cur[g][v] # None
      PROVE  /\ conn'[cur[g][v]].gw = g /\ conn'[cur[g][v]].to = v
             /\ wait[g] # cur[g][v] =>
                  /\ conn'[cur[g][v]].auth /\ conn'[cur[g][v]].known
                  /\ conn'[cur[g][v]].gate = "done" => v = "scene"
  BY <1>1, <1>2, <1>4 DEF Pointers
<1> QED BY <1>3, <1>4 DEF Pointers

LEMMA RegisterGatewayInv ==
  ASSUME LinksInv, NEW k \in Conns, RegisterGateway(k)
  PROVE  LinksInv'
<1> USE DEF LinksInv
<1>1. PICK r \in ConnRecords : r = conn[k] /\ Fit(r) /\ r.to = "login" /\ r.hand = "auth"
  BY DEF RegisterGateway, TypeOK, Fits
<1>2. ~r.auth /\ ~r.reg /\ ~r.pingLate /\ ~r.chal /\ r.list = "new" /\ r.gid = 0
  BY <1>1 DEF Fit
<1>3. PICK i : i = r.seen + 1
  OBVIOUS
<1>4. /\ conn' = [conn EXCEPT ![k] = [Answer(r) EXCEPT !.reg = TRUE, !.gid = i,
                                                       !.hand = "none", !.seen = 0]]
      /\ idHigh' = i /\ issued' = issued \cup {i} /\ twice' = twice \cup ({i} \cap issued)
      /\ info' = [info EXCEPT ![i] = IF @ = None THEN k ELSE @]
      /\ count' = [count EXCEPT ![i] = IF @ = None THEN k ELSE @]
      /\ UNCHANGED <<up, cur, wait, clients, made, faults>>
  BY <1>1, <1>3 DEF RegisterGateway, AddGatewayConnectInfo, TypeOK
<1>5. PICK q : /\ q = [Answer(r) EXCEPT !.reg = TRUE, !.gid = i, !.hand = "none", !.seen = 0]
               /\ conn' = [conn EXCEPT ![k] = q]
  BY <1>4
<1>6. /\ q.auth = Through(r) /\ q.reg /\ q.gid = i /\ q.hand = "none" /\ q.seen = 0
      /\ q.gw = r.gw /\ q.to = r.to /\ q.known = r.known /\ q.gate = r.gate
      /\ q.list = r.list /\ q.pingLate = r.pingLate /\ q.chal = r.chal
  BY <1>5 DEF Answer, ConnRecords
<1>7. conn'[k] = q /\ \A j \in Conns : j # k => conn'[j] = conn[j]
  BY <1>5 DEF TypeOK
<1>8. k \notin Spent /\ Spent' = Spent \cup {k} /\ Cardinality(Spent') <= made
      /\ Cardinality(Spent) \in Nat /\ Cardinality(Spent') = Cardinality(Spent) + 1
  <2>1. k \notin Spent
    BY <1>1 DEF Spent
  <2>2. k <= made
    BY <1>1, ConnsFacts DEF Fits, Fit, TypeOK
  <2>3. Spent' = Spent \cup {k}
    <3>1. ~conn'[k].chal /\ conn'[k].hand # "auth"
      BY <1>2, <1>6, <1>7
    <3> QED BY <1>4, <1>7, <2>2, <3>1 DEF Spent
  <2>4. made \in 0..MaxConns /\ made <= made
    BY ConnsFacts DEF TypeOK
  <2>5. /\ IsFiniteSet(Spent) /\ Cardinality(Spent) \in Nat
        /\ Cardinality(Spent') <= made'
    BY <1>4, <2>3, <2>4, SpentGrows
  <2> QED BY <1>4, <2>1, <2>3, <2>5, FS_AddElement
<1>9. i \in Nat /\ i <= Cardinality(Spent') /\ i \in Ids /\ i # 0
  <2>2. r.seen \in Nat
    BY <1>1, SeenNat
  <2>3. r.seen <= Cardinality(Spent)
    BY <1>1 DEF Tables, IdsBounded
  <2>4. made \in Nat /\ made <= MaxConns
    BY ConnsFacts DEF TypeOK
  <2> QED BY <1>3, <1>8, <2>2, <2>3, <2>4, ConnsFacts DEF Ids
<1>10. TypeOK'
  <2>1. q \in ConnRecords
    BY <1>5, <1>9 DEF Answer, Through, ConnRecords
  <2>2. /\ conn' \in [Conns -> ConnRecords]
        /\ info' \in [Ids -> Conns \cup {None}]
        /\ count' \in [Ids -> Conns \cup {None, Nameless}]
    BY <1>4, <1>5, <2>1 DEF TypeOK
  <2>3. twice' \subseteq issued' /\ issued' \subseteq Ids
    BY <1>4, <1>9 DEF TypeOK
  <2> QED BY <1>4, <1>9, <2>2, <2>3 DEF TypeOK
<1>11. Fits'
  <2>1. Fit(q)
    BY <1>1, <1>2, <1>6, <1>9 DEF Fit
  <2>2. made' = made /\ q.gw = conn[k].gw
    BY <1>1, <1>4, <1>6
  <2> QED BY <1>5, <2>1, <2>2, FitsStay
<1>12. Pointers'
  <2>1. /\ q.gw = conn[k].gw /\ q.to = conn[k].to /\ q.known = conn[k].known
        /\ q.gate = conn[k].gate /\ ~conn[k].auth /\ (q.auth => q.gate = "open")
    BY <1>1, <1>2, <1>6 DEF Through
  <2>2. UNCHANGED <<cur, wait>>
    BY <1>4
  <2> QED BY <1>5, <2>1, <2>2, AnswerPointers
<1>13. IdsBounded'
  <2>1. ASSUME NEW j \in Conns, conn'[j].hand = "auth"
        PROVE  conn'[j].seen <= Cardinality(Spent')
    <3>1. j # k /\ conn'[j] = conn[j]
      BY <1>6, <1>7, <2>1
    <3>2. conn[j].seen <= Cardinality(Spent)
      BY <2>1, <3>1 DEF Tables, IdsBounded
    <3>3. conn[j].seen \in Nat
      BY SeenNat
    <3> QED BY <1>8, <3>1, <3>2, <3>3
  <2> QED BY <1>4, <1>9, <2>1 DEF IdsBounded
<1>14. /\ \A x \in Ids : x # i => info'[x] = info[x] /\ count'[x] = count[x]
       /\ info[i] = None => info'[i] = k
       /\ count[i] = None => count'[i] = k
  BY <1>4, <1>9 DEF TypeOK
<1>15. IdsIssued'
  <2>1. \A j \in Conns : conn'[j].gid # 0 => conn'[j].gid \in issued'
    BY <1>4, <1>6, <1>7 DEF Tables, IdsIssued
  <2>2. \A x \in Ids : info'[x] # None \/ count'[x] # None => x \in issued'
    BY <1>4, <1>14 DEF Tables, IdsIssued
  <2>3. \A j, m \in Conns :
          conn'[j].gid = conn'[m].gid /\ conn'[j].gid # 0 => j = m \/ conn'[j].gid \in twice'
    BY <1>4, <1>6, <1>7 DEF Tables, IdsIssued
  <2> QED BY <2>1, <2>2, <2>3 DEF IdsIssued
<1>16. Registrations'
  <2>1. i \notin twice' => info'[i] = k /\ count'[i] = k
    BY <1>4, <1>9, <1>14 DEF Tables, IdsIssued
  <2>2. ASSUME NEW x \in Ids \ twice'
        PROVE  /\ info'[x] # None => conn'[info'[x]].gid = x /\ conn'[info'[x]].list # "no"
               /\ count'[x] # Nameless => count'[x] = info'[x]
               /\ count'[x] = Nameless => info'[x] = None
    <3>1. CASE x = i
      BY <1>2, <1>6, <1>7, <2>1, <2>2, <3>1, ConnsFacts DEF Nameless
    <3>2. CASE x # i
      <4>1. x \in Ids \ twice /\ info'[x] = info[x] /\ count'[x] = count[x]
        BY <1>4, <1>14, <2>2, <3>2
      <4>2. info[x] # None => info[x] \in Conns /\ info[x] # k
        BY <1>1, <1>2, <4>1, InfoConns, ConnsFacts DEF Tables
      <4> QED BY <1>7, <4>1, <4>2 DEF Tables, Registrations
    <3> QED BY <3>1, <3>2
  <2>3. ASSUME NEW j \in Conns, conn'[j].gw # None, conn'[j].to = "login", conn'[j].reg,
               conn'[j].list # "no", conn'[j].gid \notin twice'
        PROVE  info'[conn'[j].gid] = j
    <3>1. CASE j = k
      BY <1>6, <1>7, <2>1, <2>3, <3>1
    <3>2. CASE j # k
      <4>1. conn'[j] = conn[j] /\ conn[j].gid \notin twice
        BY <1>4, <1>7, <2>3, <3>2
      <4>2. conn[j].gid # 0
        BY <2>3, <4>1 DEF Fits, Fit
      <4>3. conn[j].gid \in issued /\ conn[j].gid \in Ids
        BY <4>2 DEF Tables, IdsIssued, TypeOK
      <4>4. conn[j].gid # i
        BY <1>4, <2>3, <4>1, <4>3
      <4>5. info[conn[j].gid] = j
        BY <2>3, <4>1 DEF Tables, Registrations, Links, Used
      <4> QED BY <1>14, <4>1, <4>3, <4>4, <4>5
    <3> QED BY <3>1, <3>2
  <2> QED BY <2>2, <2>3 DEF Registrations, Links, Used
<1> QED BY <1>10, <1>11, <1>12, <1>13, <1>15, <1>16 DEF Tables

\* Where the connection's registration is removed, it leaves the list or keeps
\* everything; a count without a name is made only for an id that is not registered.
LEMMA LoginPongInv ==
  ASSUME LinksInv, NEW k \in Conns, LoginPong(k)
  PROVE  LinksInv'
<1> USE DEF LinksInv
<1>1. PICK r \in ConnRecords : /\ r = conn[k] /\ Fit(r)
                               /\ r.to = "login" /\ r.hand \in {"count", "pong"}
  BY DEF LoginPong, TypeOK, Fits
<1>2. r.gid # 0 /\ r.gid \in Ids /\ r.gid \in issued /\ ~r.chal
  BY <1>1 DEF Fit, Tables, IdsIssued, TypeOK
<1>3. PICK b \in BOOLEAN : b = IF Through(r) THEN FALSE ELSE r.pongLate
  BY DEF ConnRecords
<1>4. PICK q \in ConnRecords : q = [r EXCEPT !.hand = "none", !.pingLate = FALSE, !.pongLate = b]
  BY DEF ConnRecords
<1>5. /\ q.hand = "none" /\ q.gw = r.gw /\ q.to = r.to /\ q.auth = r.auth /\ q.known = r.known
      /\ q.gate = r.gate /\ q.gid = r.gid /\ q.reg = r.reg /\ q.list = r.list
      /\ q.chal = r.chal /\ ~q.pingLate
  BY <1>4 DEF ConnRecords
<1>6. /\ conn' = [conn EXCEPT ![k] = q]
      /\ UNCHANGED <<up, cur, wait, clients, ids, info, made, faults>>
  BY <1>1, <1>3, <1>4 DEF LoginPong, Ponged, TypeOK
<1>7. conn'[k] = q /\ \A j \in Conns : j # k => conn'[j] = conn[j]
  BY <1>6 DEF TypeOK
<1>8. \A i \in Ids : \/ count'[i] = count[i]
                     \/ i = r.gid /\ count[i] = None /\ count'[i] = Nameless
  BY <1>1 DEF LoginPong, TypeOK
<1>9. count' \in [Ids -> Conns \cup {None, Nameless}]
  BY DEF LoginPong, TypeOK
<1>10. TypeOK'
  BY <1>6, <1>9 DEF TypeOK, ids
<1>11. Fits'
  <2>1. Fit(q)
    BY <1>1, <1>2, <1>5 DEF Fit
  <2> QED BY <1>1, <1>5, <1>6, <2>1, FitsStay
<1>12. Pointers'
  BY <1>1, <1>5, <1>6, PointersStay DEF SameGate
<1>13. IdsBounded'
  <2>1. Spent \subseteq Spent' /\ made \in 0..MaxConns /\ made <= made
    BY <1>2, <1>1, <1>5, <1>6, <1>7, ConnsFacts DEF Spent, TypeOK
  <2>2. \A j \in Conns : conn'[j].hand = "auth" =>
          conn[j].hand = "auth" /\ conn'[j].seen = conn[j].seen
    BY <1>5, <1>7
  <2> QED BY <1>6, <2>1, <2>2, IdsStay DEF Tables, ids
<1>14. IdsIssued'
  BY <1>1, <1>2, <1>5, <1>6, <1>7, <1>8 DEF Tables, IdsIssued, ids
<1>15. Registrations'
  <2>1. \A j \in Conns : /\ conn'[j].gid = conn[j].gid /\ conn'[j].list = conn[j].list
                         /\ conn'[j].reg = conn[j].reg /\ conn'[j].to = conn[j].to
                         /\ conn'[j].gw = conn[j].gw
    BY <1>1, <1>5, <1>7
  <2>2. ASSUME NEW x \in Ids \ twice
        PROVE  /\ info[x] # None => conn'[info[x]].gid = x /\ conn'[info[x]].list # "no"
               /\ count'[x] # Nameless => count'[x] = info[x]
               /\ count'[x] = Nameless => info[x] = None
    <3>1. info[x] # None => info[x] \in Conns
      BY DEF TypeOK
    <3>2. None # Nameless
      BY ConnsFacts DEF Nameless
    <3> QED BY <1>8, <2>1, <3>1, <3>2 DEF Tables, Registrations
  <2>3. \A j \in Links("login") :
          conn[j].reg /\ conn[j].list # "no" /\ conn[j].gid \notin twice
            => info[conn[j].gid] = j
    BY DEF Tables, Registrations
  <2> QED BY <1>6, <2>1, <2>2, <2>3 DEF Registrations, Links, Used, ids
<1> QED BY <1>10, <1>11, <1>12, <1>13, <1>14, <1>15 DEF Tables

\* A connection that leaves the login server's list takes its registration with it.
LEMMA LeavesList ==
  ASSUME TypeOK, Fits, Tables, NEW k \in Conns, NEW q, conn' = [conn EXCEPT ![k] = q],
         q.gw = conn[k].gw, q.to = conn[k].to, q.gid = conn[k].gid, q.list = "no",
         q.chal => conn[k].chal, q.hand # "auth", conn[k].hand # "auth",
         RemoveGatewayConnectInfo(k) \/ (conn[k].list = "no" /\ UNCHANGED <<ids, info, count>>),
         made' = made
  PROVE  Tables'
<1>1. conn'[k] = q /\ \A j \in Conns : j # k => conn'[j] = conn[j]
  BY DEF TypeOK
<1>2. UNCHANGED ids
  BY DEF RemoveGatewayConnectInfo
<1>3. PICK i : i = conn[k].gid
  OBVIOUS
<1>4. i = 0 \/ i \in Ids
  BY <1>3 DEF Tables, IdsIssued, TypeOK
<1>5. \A x \in Ids : \/ info'[x] = info[x] /\ count'[x] = count[x]
                     \/ x = i /\ info'[x] = None /\ count'[x] = None
  BY <1>3 DEF RemoveGatewayConnectInfo, TypeOK
<1>6. \/ conn[k].list = "no"
      \/ i = 0
      \/ i \in Ids /\ info'[i] = None
  BY <1>3, <1>4 DEF RemoveGatewayConnectInfo, TypeOK
<1>7. IdsBounded'
  <2>1. Spent \subseteq Spent' /\ made \in 0..MaxConns /\ made <= made
    BY <1>1, ConnsFacts DEF Spent, TypeOK
  <2>2. \A j \in Conns : conn'[j].hand = "auth" =>
          conn[j].hand = "auth" /\ conn'[j].seen = conn[j].seen
    BY <1>1
  <2> QED BY <1>2, <2>1, <2>2, IdsStay DEF Tables, ids
<1>8. IdsIssued'
  <2>1. \A j \in Conns : conn'[j].gid = conn[j].gid
    BY <1>1
  <2> QED BY <1>2, <1>5, <2>1 DEF Tables, IdsIssued, ids
<1>9. Registrations'
  <2>1. ASSUME NEW x \in Ids \ twice
        PROVE  /\ info'[x] # None => conn'[info'[x]].gid = x /\ conn'[info'[x]].list # "no"
               /\ count'[x] # Nameless => count'[x] = info'[x]
               /\ count'[x] = Nameless => info'[x] = None
    <3>1. CASE info'[x] = None /\ count'[x] = None
      BY <3>1, ConnsFacts DEF Nameless
    <3>2. CASE info'[x] = info[x] /\ count'[x] = count[x]
      <4>1. ASSUME info[x] # None
            PROVE  /\ info[x] \in Conns /\ info[x] # k
                   /\ conn[info[x]].gid = x /\ conn[info[x]].list # "no"
        <5>1. info[x] \in Conns /\ conn[info[x]].gid = x /\ conn[info[x]].list # "no"
          BY <4>1, InfoConns DEF Tables, Registrations
        <5>2. info[x] # k
          BY <1>3, <1>6, <3>2, <4>1, <5>1, ConnsFacts
        <5> QED BY <5>1, <5>2
      <4>2. /\ count[x] # Nameless => count[x] = info[x]
            /\ count[x] = Nameless => info[x] = None
        BY DEF Tables, Registrations
      <4> QED BY <1>1, <3>2, <4>1, <4>2
    <3> QED BY <1>5, <3>1, <3>2
  <2>2. ASSUME NEW j \in Conns, conn'[j].gw # None, conn'[j].to = "login", conn'[j].reg,
               conn'[j].list # "no", conn'[j].gid \notin twice
        PROVE  info'[conn'[j].gid] = j
    <3>1. j # k /\ conn'[j] = conn[j]
      BY <1>1, <2>2
    <3>2. conn[j].gid # 0
      BY <2>2, <3>1 DEF Fits, Fit
    <3>3. conn[j].gid \in Ids
      BY <3>2 DEF Tables, IdsIssued, TypeOK
    <3>4. conn[j].gid # i
      BY <1>3, <2>2, <3>1, <3>2 DEF Tables, IdsIssued
    <3>5. info[conn[j].gid] = j
      BY <2>2, <3>1 DEF Tables, Registrations, Links, Used
    <3> QED BY <1>5, <3>1, <3>3, <3>4, <3>5
  <2>3. twice' = twice
    BY <1>2 DEF ids
  <2> QED BY <2>1, <2>2, <2>3 DEF Registrations, Links, Used
<1> QED BY <1>7, <1>8, <1>9 DEF Tables

LEMMA RemovesTypes ==
  ASSUME TypeOK, NEW k \in Conns, RemoveGatewayConnectInfo(k) \/ UNCHANGED <<ids, info, count>>
  PROVE  /\ UNCHANGED ids
         /\ info' \in [Ids -> Conns \cup {None}]
         /\ count' \in [Ids -> Conns \cup {None, Nameless}]
BY DEF RemoveGatewayConnectInfo, TypeOK

LEMMA LoginOnDisconnectInv ==
  ASSUME LinksInv, NEW k \in Conns, LoginOnDisconnect(k)
  PROVE  LinksInv'
<1> USE DEF LinksInv
<1>1. PICK r \in ConnRecords : r = conn[k] /\ Fit(r) /\ r.to = "login" /\ r.hand = "none"
  BY DEF LoginOnDisconnect, TypeOK, Fits
<1>2. PICK q \in ConnRecords : q = [r EXCEPT !.serv = "gone", !.list = "no"]
  BY DEF ConnRecords
<1>3. /\ q.list = "no" /\ q.serv = "gone"
      /\ q.gw = r.gw /\ q.to = r.to /\ q.auth = r.auth /\ q.known = r.known /\ q.gate = r.gate
      /\ q.gid = r.gid /\ q.reg = r.reg /\ q.chal = r.chal /\ q.hand = r.hand
      /\ q.pingLate = r.pingLate
  BY <1>2 DEF ConnRecords
<1>4. /\ conn' = [conn EXCEPT ![k] = q]
      /\ UNCHANGED <<up, cur, wait, clients, made, faults>>
  BY <1>1, <1>2 DEF LoginOnDisconnect, TypeOK
<1>5. RemoveGatewayConnectInfo(k) \/ (conn[k].list = "no" /\ UNCHANGED <<ids, info, count>>)
  BY DEF LoginOnDisconnect
<1>6. TypeOK'
  <2>1. /\ UNCHANGED ids
        /\ info' \in [Ids -> Conns \cup {None}]
        /\ count' \in [Ids -> Conns \cup {None, Nameless}]
    BY <1>5, RemovesTypes
  <2> QED BY <1>4, <2>1 DEF TypeOK, ids
<1>7. Fits'
  <2>1. Fit(q)
    BY <1>1, <1>3 DEF Fit
  <2> QED BY <1>1, <1>3, <1>4, <2>1, FitsStay
<1>8. Pointers'
  BY <1>1, <1>3, <1>4, PointersStay DEF SameGate
<1>9. Tables'
  <2>1. /\ q.gw = conn[k].gw /\ q.to = conn[k].to /\ q.gid = conn[k].gid /\ q.list = "no"
        /\ (q.chal => conn[k].chal) /\ q.hand # "auth" /\ conn[k].hand # "auth"
    BY <1>1, <1>3
  <2> QED BY <1>4, <1>5, <2>1, LeavesList
<1> QED BY <1>6, <1>7, <1>8, <1>9

LEMMA TimeoutSocketInv ==
  ASSUME LinksInv, NEW k \in Conns, TimeoutSocket(k)
  PROVE  LinksInv'
<1> USE DEF LinksInv
<1>1. PICK r \in ConnRecords : r = conn[k] /\ Fit(r) /\ r.gw # None /\ r.pingLate
  BY DEF TimeoutSocket, Used, TypeOK, Fits
<1>2. ~r.chal /\ r.hand # "auth" /\ r.to \in Servers
  BY <1>1 DEF Fit
<1>3. PICK q \in ConnRecords :
        /\ q = Unlisted(r) /\ q.list = "no" /\ (q.gate = "done" <=> r.gate = "done")
        /\ q.gw = r.gw /\ q.to = r.to /\ q.auth = r.auth /\ q.known = r.known
        /\ q.gid = r.gid /\ q.reg = r.reg /\ q.chal = r.chal /\ q.hand = r.hand
        /\ q.pingLate = r.pingLate
  <2>1. PICK s \in {"open", "shut", "closing", "gone"}, h \in {"open", "shut", "done"} :
          /\ Unlisted(r) = [r EXCEPT !.list = "no", !.serv = s, !.gate = h]
          /\ h = "done" <=> r.gate = "done"
    <3>1. CASE r.serv # "open"
      <4>1. Unlisted(r) = [r EXCEPT !.list = "no", !.serv = r.serv, !.gate = r.gate]
        BY <3>1 DEF Unlisted, ShutServ, ConnRecords
      <4>2. r.serv \in {"open", "shut", "closing", "gone"} /\ r.gate \in {"open", "shut", "done"}
        BY DEF ConnRecords
      <4> QED BY <4>1, <4>2
    <3>2. CASE r.serv = "open" /\ r.gate = "open" /\ ~r.mute
      <4>1. Unlisted(r) = [r EXCEPT !.list = "no", !.serv = "shut", !.gate = "shut"]
        BY <3>2 DEF Unlisted, ShutServ, ConnRecords
      <4> QED BY <3>2, <4>1
    <3>3. CASE r.serv = "open" /\ ~(r.gate = "open" /\ ~r.mute)
      <4>1. Unlisted(r) = [r EXCEPT !.list = "no", !.serv = "shut", !.gate = r.gate]
        BY <3>3 DEF Unlisted, ShutServ, ConnRecords
      <4>2. r.gate \in {"open", "shut", "done"}
        BY DEF ConnRecords
      <4> QED BY <4>1, <4>2
    <3> QED BY <3>1, <3>2, <3>3
  <2>2. PICK q \in ConnRecords : q = [r EXCEPT !.list = "no", !.serv = s, !.gate = h]
    <3>1. \A a \in {"open", "shut", "closing", "gone"}, b \in {"open", "shut", "done"} :
            [r EXCEPT !.list = "no", !.serv = a, !.gate = b] \in ConnRecords
      BY DEF ConnRecords
    <3> QED BY <3>1
  <2>3. /\ q.list = "no" /\ q.gate = h
        /\ q.gw = r.gw /\ q.to = r.to /\ q.auth = r.auth /\ q.known = r.known
        /\ q.gid = r.gid /\ q.reg = r.reg /\ q.chal = r.chal /\ q.hand = r.hand
        /\ q.pingLate = r.pingLate
    BY <2>2 DEF ConnRecords
  <2> QED BY <2>1, <2>2, <2>3
<1>4. /\ conn' = [conn EXCEPT ![k] = q]
      /\ UNCHANGED <<up, cur, wait, clients, made, faults>>
  BY <1>1, <1>3 DEF TimeoutSocket, TypeOK
<1>5. Fit(q)
  BY <1>1, <1>2, <1>3 DEF Fit
<1>6. CASE r.to # "login"
  <2>1. UNCHANGED <<cur, wait, clients, made, tables>>
    BY <1>1, <1>4, <1>6 DEF TimeoutSocket, tables
  <2>2. SameGate(r, q)
    BY <1>3 DEF SameGate
  <2>3. SameServ(r, q)
    BY <1>2, <1>3, <1>6 DEF SameServ
  <2>4. faults' \in 0..MaxFaults
    BY <1>4 DEF TypeOK
  <2> QED BY <1>1, <1>4, <1>5, <2>1, <2>2, <2>3, <2>4, PlainInv DEF Plain
<1>7. CASE r.to = "login"
  <2>1. RemoveGatewayConnectInfo(k)
    BY <1>1, <1>7 DEF TimeoutSocket
  <2>2. TypeOK'
    <3>1. /\ UNCHANGED ids
          /\ info' \in [Ids -> Conns \cup {None}]
          /\ count' \in [Ids -> Conns \cup {None, Nameless}]
      BY <2>1, RemovesTypes
    <3> QED BY <1>4, <3>1 DEF TypeOK, ids
  <2>3. Fits'
    BY <1>1, <1>3, <1>4, <1>5, FitsStay
  <2>4. Pointers'
    BY <1>1, <1>3, <1>4, PointersStay DEF SameGate
  <2>5. Tables'
    BY <1>1, <1>2, <1>3, <1>4, <2>1, LeavesList
  <2> QED BY <2>2, <2>3, <2>4, <2>5
<1> QED BY <1>6, <1>7

LEMMA HandleAuthReqInv ==
  ASSUME LinksInv, NEW k \in Conns, HandleAuthReq(k)
  PROVE  LinksInv'
<1> USE DEF LinksInv
<1>1. PICK r \in ConnRecords : /\ r = conn[k] /\ Fit(r) /\ r.chal
                               /\ r.to \in {"master", "scene"} /\ r.list = "new"
  BY DEF HandleAuthReq, TypeOK, Fits
<1>2. ~r.auth /\ ~r.reg /\ ~r.pingLate /\ r.hand = "none" /\ r.gid = 0 /\ r.gw # None
  BY <1>1 DEF Fit, ConnRecords
<1>3. PICK l \in {"new", "platform"}, a \in BOOLEAN :
        /\ a => r.gate = "open"
        /\ conn' = [conn EXCEPT ![k] = [r EXCEPT !.auth = a, !.chal = FALSE, !.reg = TRUE,
                                                 !.list = l]]
  <2>1. Through(r) \in BOOLEAN /\ (Through(r) => r.gate = "open")
    BY DEF Through, ConnRecords
  <2>2. PICK l \in {"new", "platform"} : l = IF r.to = "scene" THEN "platform" ELSE r.list
    BY <1>1
  <2>3. [Answer(r) EXCEPT !.chal = FALSE, !.reg = TRUE, !.list = l] =
          [r EXCEPT !.auth = Through(r), !.chal = FALSE, !.reg = TRUE, !.list = l]
    BY <2>1 DEF Answer, ConnRecords
  <2>4. conn' = [conn EXCEPT ![k] = [Answer(r) EXCEPT !.chal = FALSE, !.reg = TRUE, !.list = l]]
    BY <1>1, <2>2 DEF HandleAuthReq, TypeOK
  <2> QED BY <2>1, <2>3, <2>4
<1>4. PICK q \in ConnRecords : /\ q = [r EXCEPT !.auth = a, !.chal = FALSE, !.reg = TRUE, !.list = l]
                               /\ conn' = [conn EXCEPT ![k] = q]
  <2>1. [r EXCEPT !.auth = a, !.chal = FALSE, !.reg = TRUE, !.list = l] \in ConnRecords
    BY DEF ConnRecords
  <2> QED BY <1>3, <2>1
<1>5. /\ q.auth = a /\ ~q.chal /\ q.reg /\ q.list = l
      /\ q.gw = r.gw /\ q.to = r.to /\ q.known = r.known /\ q.gate = r.gate
      /\ q.gid = r.gid /\ q.hand = r.hand /\ q.seen = r.seen /\ q.pingLate = r.pingLate
  BY <1>4 DEF ConnRecords
<1>6. UNCHANGED <<cur, wait, clients, made, faults, tables>>
  BY DEF HandleAuthReq
<1>7. TypeOK'
  <2>1. conn' \in [Conns -> ConnRecords]
    BY <1>4 DEF TypeOK
  <2> QED BY <1>6, <2>1 DEF TypeOK, tables, ids
<1>8. Fits'
  <2>1. Fit(q)
    BY <1>1, <1>2, <1>5 DEF Fit
  <2>2. q.gw = conn[k].gw /\ made' = made
    BY <1>1, <1>5, <1>6
  <2> QED BY <1>4, <2>1, <2>2, FitsStay
<1>9. Pointers'
  <2>1. /\ q.gw = conn[k].gw /\ q.to = conn[k].to /\ q.known = conn[k].known
        /\ q.gate = conn[k].gate /\ ~conn[k].auth /\ (q.auth => q.gate = "open")
    BY <1>1, <1>2, <1>3, <1>5
  <2>2. UNCHANGED <<cur, wait>>
    BY <1>6
  <2> QED BY <1>4, <2>1, <2>2, AnswerPointers
<1>10. Tables'
  <2>1. SameServ(conn[k], q)
    BY <1>1, <1>2, <1>5 DEF SameServ
  <2>2. UNCHANGED <<tables, made>>
    BY <1>6
  <2> QED BY <1>4, <2>1, <2>2, TablesStay
<1> QED BY <1>7, <1>8, <1>9, <1>10

LEMMA FreeInv ==
  ASSUME LinksInv, NEW k \in Conns, Free(k)
  PROVE  LinksInv'
<1> USE DEF LinksInv
<1>1. PICK q \in ConnRecords : q = Blank
  BY DEF Blank, ConnRecords
<1>2. /\ q.gw = None /\ q.list = "no" /\ ~q.chal /\ q.hand = "none" /\ ~q.reg /\ q.gid = 0
      /\ ~q.pingLate /\ ~q.auth
  BY <1>1 DEF Blank
<1>3. /\ conn' = [conn EXCEPT ![k] = q] /\ conn[k].list = "no" /\ conn[k].hand = "none"
      /\ UNCHANGED <<cur, wait, clients, made, faults, tables>>
  BY <1>1 DEF Free, Referred
<1>4. \A g \in Gateways : wait[g] # k /\ \A v \in Servers : cur[g][v] # k
  BY DEF Free, Referred
<1>5. conn'[k] = q /\ \A j \in Conns : j # k => conn'[j] = conn[j]
  BY <1>3 DEF TypeOK
<1>6. TypeOK'
  BY <1>3 DEF TypeOK, tables, ids
<1>7. Fits'
  <2>1. Fit(q)
    BY <1>2 DEF Fit
  <2>2. made' = made
    BY <1>3
  <2> QED BY <1>2, <1>5, <2>1, <2>2 DEF Fits
<1>8. Pointers'
  <2>1. /\ \A g \in Gateways : wait[g] # None => wait[g] \in Conns
        /\ \A g \in Gateways, v \in Servers : cur[g][v] # None => cur[g][v] \in Conns
    BY DEF TypeOK
  <2> QED BY <1>3, <1>4, <1>5, <2>1 DEF Pointers
<1>9. IdsBounded'
  <2>1. Spent \subseteq Spent' /\ made \in 0..MaxConns /\ made <= made
    BY <1>2, <1>3, <1>5, ConnsFacts DEF Spent, TypeOK
  <2>2. \A j \in Conns : conn'[j].hand = "auth" =>
          conn[j].hand = "auth" /\ conn'[j].seen = conn[j].seen
    BY <1>2, <1>5
  <2> QED BY <1>3, <2>1, <2>2, IdsStay DEF Tables, tables, ids
<1>10. IdsIssued'
  BY <1>2, <1>3, <1>5 DEF Tables, IdsIssued, tables, ids
<1>11. Registrations'
  <2>1. \A x \in Ids \ twice : info[x] # None => info[x] \in Conns /\ info[x] # k
    BY <1>3, InfoConns DEF Tables, Registrations
  <2> QED BY <1>2, <1>3, <1>5, <2>1 DEF Tables, Registrations, Links, Used, tables, ids
<1> QED BY <1>6, <1>7, <1>8, <1>9, <1>10, <1>11 DEF Tables

-----------------------------------------------------------------------------
(* The theorems *)

LEMMA InitInv == Init => LinksInv
<1> SUFFICES ASSUME Init PROVE LinksInv
  OBVIOUS
<1>1. \A k \in Conns : conn[k] = Blank
  BY DEF Init
<1>2. TypeOK
  <2>1. Blank \in ConnRecords
    BY DEF Blank, ConnRecords
  <2>2. conn \in [Conns -> ConnRecords]
    BY <2>1 DEF Init
  <2>3. 0 \in 0..MaxConns /\ 0 \in 0..MaxFaults
    BY ConstantsAssumption
  <2> QED BY <2>2, <2>3 DEF Init, TypeOK
<1>3. Fits /\ Pointers
  <2>1. Fit(Blank)
    BY DEF Fit, Blank
  <2>2. Blank.gw = None
    BY DEF Blank
  <2>3. Fits
    BY <1>1, <2>1, <2>2 DEF Fits
  <2>4. Pointers
    BY DEF Init, Pointers
  <2> QED BY <2>3, <2>4
<1>4. IdsBounded
  <2>1. Spent = {}
    BY ConnsFacts DEF Init, Spent, Conns
  <2>2. Cardinality(Spent) = 0
    BY <2>1, FS_EmptySet
  <2>3. \A k \in Conns : conn[k].hand # "auth"
    BY <1>1 DEF Blank
  <2> QED BY <2>2, <2>3 DEF Init, IdsBounded
<1>5. IdsIssued /\ Registrations
  <2>1. \A k \in Conns : conn[k].gid = 0 /\ conn[k].gw = None
    BY <1>1 DEF Blank
  <2>2. \A i \in Ids : info[i] = None /\ count[i] = None
    BY DEF Init
  <2> QED BY <2>1, <2>2, ConnsFacts DEF IdsIssued, Registrations, Links, Used, Nameless
<1> QED BY <1>2, <1>3, <1>4, <1>5 DEF LinksInv, Tables

LEMMA NextInv == LinksInv /\ [Next]_vars => LinksInv'
<1> SUFFICES ASSUME LinksInv, [Next]_vars PROVE LinksInv'
  OBVIOUS
<1>1. ASSUME NEW g \in Gateways, UpdateSockets(g) PROVE LinksInv'
  <2>1. ASSUME PongExcused(g) PROVE LinksInv'
    <3>1. PICK k \in Conns : k = cur[g]["scene"]
      BY <2>1 DEF PongExcused, LinksInv, TypeOK, Servers
    <3> QED BY <2>1, <3>1, PlainSteps
  <2> QED BY <1>1, <2>1, ConnectInv, AuthenticatedInv, AuthTimeoutInv, PongTimeoutInv
          DEF UpdateSockets
<1>2. ASSUME NEW g \in Gateways, ClientsEnter(g) PROVE LinksInv'
  BY <1>2, ClientsEnterInv
<1>3. ASSUME NEW k \in Conns, ServerSide(k) PROVE LinksInv'
  BY <1>3, GenerateIdInv, RegisterGatewayInv, LoginPongInv, LoginOnDisconnectInv,
     HandleAuthReqInv, TimeoutSocketInv, PlainSteps DEF ServerSide
<1>4. ASSUME NEW k \in Conns,
             OnDisconnect(k) \/ Lose(k) \/ FallMute(k) \/ HeldUp(k) \/ Clocks(k) \/ Free(k)
      PROVE  LinksInv'
  BY <1>4, OnDisconnectInv, FreeInv, PlainSteps DEF Clocks
<1>5. CASE UNCHANGED vars
  <2>1. TypeOK'
    BY <1>5 DEF LinksInv, TypeOK, vars
  <2>2. Fits' /\ Pointers'
    BY <1>5 DEF LinksInv, Fits, Pointers, vars
  <2>3. Tables'
    <3>1. IdsBounded'
      BY <1>5 DEF LinksInv, Tables, IdsBounded, Spent, vars
    <3>2. IdsIssued' /\ Registrations'
      BY <1>5 DEF LinksInv, Tables, IdsIssued, Registrations, Links, Used, vars
    <3> QED BY <3>1, <3>2 DEF Tables
  <2> QED BY <2>1, <2>2, <2>3 DEF LinksInv
<1> QED BY <1>1, <1>2, <1>3, <1>4, <1>5 DEF Next

\* The invariant: what the pointers, the connections and the tables of ids keep in
\* step whatever order the threads of both ends run in (UpdateSockets, OnDisconnect
\* and the login server's handlers), with any faults.
THEOREM LinksInvariant == Spec => []LinksInv
BY InitInv, NextInv, PTL DEF Spec

\* The pointer a gateway works with is never to a connection that has ended and
\* will be freed (ConnectionDropped clears it), but for the scene server's
\* connection that ends between its answer and the main loop's look at it.
THEOREM LinkAliveHolds == Spec => []LinkAlive
<1>1. LinksInv => LinkAlive
  <2> SUFFICES ASSUME LinksInv PROVE LinkAlive
    OBVIOUS
  <2>1. ASSUME NEW g \in Gateways, NEW v \in Servers, cur[g][v] # None, wait[g] # cur[g][v]
        PROVE  /\ conn[cur[g][v]].gw = g /\ conn[cur[g][v]].to = v
               /\ conn[cur[g][v]].gate = "done" => v = "scene" /\ conn[cur[g][v]].auth
    BY <2>1 DEF LinksInv, Pointers
  <2> QED BY <2>1 DEF LinkAlive, LinksInv
<1> QED BY <1>1, LinksInvariant, PTL

\* The login server's table of gateways and the count of their clients agree with
\* its connections, except for an id that the unlocked ++ of GenerateGatewayInfoID
\* gave out twice.
THEOREM RegistrationsHolds == Spec => []Registrations
<1>1. LinksInv => Registrations
  BY DEF LinksInv, Tables
<1> QED BY <1>1, LinksInvariant, PTL
=============================================================================
