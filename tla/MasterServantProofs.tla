---------------------- MODULE MasterServantProofs ----------------------
(* Proofs about MasterServant, for any number of gateways, accounts, role *)
(* guids and servants.                                                     *)
EXTENDS MasterServant, TLAPS

-----------------------------------------------------------------------------
(* The pending list as a sequence without repetitions *)

\* Taking the first element of a list off it.
LEMMA ElemsTail ==
  ASSUME NEW S, NEW q \in Seq(S), q # <<>>
  PROVE  /\ Head(q) \in S
         /\ Tail(q) \in Seq(S)
         /\ Elems(q) = {Head(q)} \cup Elems(Tail(q))
<1>1. Len(q) \in Nat \ {0} /\ Head(q) = q[1] /\ Tail(q) \in Seq(S)
  OBVIOUS
<1>2. Len(Tail(q)) = Len(q) - 1 /\ \A i \in 1..Len(Tail(q)) : Tail(q)[i] = q[i + 1]
  OBVIOUS
<1>3. ASSUME NEW i \in 1..Len(q) PROVE q[i] \in {Head(q)} \cup Elems(Tail(q))
  <2>1. CASE i = 1
    BY <1>1, <2>1
  <2>2. CASE i # 1
    <3>1. i - 1 \in 1..Len(Tail(q)) /\ Tail(q)[i - 1] = q[i]
      BY <1>1, <1>2, <2>2
    <3> QED BY <3>1 DEF Elems
  <2> QED BY <2>1, <2>2
<1>4. ASSUME NEW i \in 1..Len(Tail(q)) PROVE Tail(q)[i] \in Elems(q)
  <2>1. i + 1 \in 1..Len(q) /\ q[i + 1] = Tail(q)[i]
    BY <1>1, <1>2
  <2> QED BY <2>1 DEF Elems
<1>5. q[1] \in Elems(q)
  BY <1>1 DEF Elems
<1> QED BY <1>1, <1>3, <1>4, <1>5 DEF Elems

\* The first element of a list without repetitions is not in its tail.
LEMMA DistinctTail ==
  ASSUME NEW S, NEW q \in Seq(S), q # <<>>, Distinct(q)
  PROVE  Distinct(Tail(q)) /\ Head(q) \notin Elems(Tail(q))
<1>1. Len(q) \in Nat \ {0} /\ Head(q) = q[1]
  OBVIOUS
<1>2. Len(Tail(q)) = Len(q) - 1 /\ \A i \in 1..Len(Tail(q)) : Tail(q)[i] = q[i + 1]
  OBVIOUS
<1>3. ASSUME NEW i \in 1..Len(Tail(q)), NEW j \in 1..Len(Tail(q)), Tail(q)[i] = Tail(q)[j]
      PROVE  i = j
  <2>1. i + 1 \in 1..Len(q) /\ j + 1 \in 1..Len(q) /\ q[i + 1] = q[j + 1]
    BY <1>1, <1>2, <1>3
  <2> QED BY <2>1 DEF Distinct
<1>4. ASSUME NEW i \in 1..Len(Tail(q)) PROVE Tail(q)[i] # Head(q)
  <2>1. i + 1 \in 1..Len(q) /\ 1 \in 1..Len(q) /\ i + 1 # 1
    BY <1>1, <1>2
  <2> QED BY <1>1, <1>2, <2>1 DEF Distinct
<1> QED BY <1>3, <1>4 DEF Distinct, Elems

\* Adding an element at the end of a list.
LEMMA ElemsAppend ==
  ASSUME NEW S, NEW q \in Seq(S), NEW e \in S
  PROVE  /\ Append(q, e) \in Seq(S)
         /\ Elems(Append(q, e)) = Elems(q) \cup {e}
<1>1. Len(q) \in Nat /\ Len(Append(q, e)) = Len(q) + 1 /\ Append(q, e) \in Seq(S)
  OBVIOUS
<1>2. \A i \in 1..Len(q) : Append(q, e)[i] = q[i]
  OBVIOUS
<1>3. Append(q, e)[Len(q) + 1] = e
  OBVIOUS
<1>4. ASSUME NEW i \in 1..Len(Append(q, e)) PROVE Append(q, e)[i] \in Elems(q) \cup {e}
  <2>1. i \in 1..Len(q) \/ i = Len(q) + 1
    BY <1>1
  <2> QED BY <1>2, <1>3, <2>1 DEF Elems
<1>5. ASSUME NEW i \in 1..Len(q) PROVE q[i] \in Elems(Append(q, e))
  <2>1. i \in 1..Len(Append(q, e))
    BY <1>1
  <2> QED BY <1>2, <2>1 DEF Elems
<1>6. e \in Elems(Append(q, e))
  <2>1. Len(q) + 1 \in 1..Len(Append(q, e))
    BY <1>1
  <2> QED BY <1>3, <2>1 DEF Elems
<1> QED BY <1>1, <1>4, <1>5, <1>6 DEF Elems

\* Adding a new element keeps a list free of repetitions.
LEMMA DistinctAppend ==
  ASSUME NEW S, NEW q \in Seq(S), NEW e \in S, Distinct(q), e \notin Elems(q)
  PROVE  Distinct(Append(q, e))
<1>1. Len(q) \in Nat /\ Len(Append(q, e)) = Len(q) + 1
  OBVIOUS
<1>2. \A i \in 1..Len(q) : Append(q, e)[i] = q[i] /\ q[i] # e
  BY DEF Elems
<1>3. Append(q, e)[Len(q) + 1] = e
  OBVIOUS
<1>4. ASSUME NEW i \in 1..Len(Append(q, e)), NEW j \in 1..Len(Append(q, e)),
             Append(q, e)[i] = Append(q, e)[j]
      PROVE  i = j
  <2>1. (i \in 1..Len(q) \/ i = Len(q) + 1) /\ (j \in 1..Len(q) \/ j = Len(q) + 1)
    BY <1>1
  <2>2. CASE i \in 1..Len(q) /\ j \in 1..Len(q)
    BY <1>2, <1>4, <2>2 DEF Distinct
  <2>3. CASE i = Len(q) + 1 \/ j = Len(q) + 1
    BY <1>2, <1>3, <1>4, <2>1, <2>3
  <2> QED BY <2>1, <2>2, <2>3
<1> QED BY <1>4 DEF Distinct

\* The elements of a list are of the list's type.
LEMMA ElemsType ==
  ASSUME NEW S, NEW q \in Seq(S)
  PROVE  Elems(q) \subseteq S
BY DEF Elems

\* The empty list has no elements.
LEMMA ElemsEmpty == Elems(<<>>) = {} /\ Distinct(<<>>)
BY DEF Elems, Distinct

-----------------------------------------------------------------------------
(* Types *)

\* The queue pass has a servant to add whenever it is about to add one.
AddHasHead == pc = "add" => queue # <<>>

TypeInv == TypeOK /\ AddHasHead

\* The records of the pool are servant records.
LEMMA BlankType == Blank \in ServantRecords /\ Leaked \in ServantRecords
<1>1. NotWaiting \in WaitAges /\ 0 \in 0..MaxIdx
  BY ConstantsAssumption DEF WaitAges, NotWaiting
<1>2. Blank \in ServantRecords
  BY <1>1 DEF Blank, ServantRecords
<1> QED BY <1>2 DEF Leaked, ServantRecords

\* The operations on a servant's record keep its type.
LEMMA RecordTypes ==
  ASSUME NEW rec \in ServantRecords, roles \subseteq Roles
  PROVE  /\ SetWaitLastData(rec) \in ServantRecords
         /\ DisConnect(rec) \in ServantRecords
         /\ [rec EXCEPT !.sock = None] \in ServantRecords
         /\ \A r \in Roles : ResetCurPlayerGUID(rec, r) \in ServantRecords
         /\ FillRoleListInfo(rec) \in ServantRecords
         /\ gcPlayerServant(rec) \in ServantRecords
         /\ \A n \in Scenes \cup {0} : [rec EXCEPT !.scene = n] \in ServantRecords
<1>1. SetWaitLastData(rec) \in ServantRecords
  BY ConstantsAssumption DEF SetWaitLastData, ServantRecords, WaitAges, NotWaiting
<1>2. [rec EXCEPT !.sock = None] \in ServantRecords
  BY DEF ServantRecords
<1>3. DisConnect(rec) \in ServantRecords
  BY <1>1, <1>2 DEF DisConnect
<1>4. \A r \in Roles : ResetCurPlayerGUID(rec, r) \in ServantRecords
  BY DEF ResetCurPlayerGUID, ServantRecords, Guids
<1>5. FillRoleListInfo(rec) \in ServantRecords
  BY DEF FillRoleListInfo, ServantRecords, RolesOf
<1>6. \A n \in Scenes \cup {0} : [rec EXCEPT !.scene = n] \in ServantRecords
  BY DEF ServantRecords
<1> QED BY <1>1, <1>2, <1>3, <1>4, <1>5, <1>6, BlankType DEF gcPlayerServant

LEMMA NewServantType ==
  ASSUME NEW a \in Accounts, NEW i \in Indices, NEW g \in Gates
  PROVE  /\ NewServant(a, i, g) \in ServantRecords
         /\ [NewServant(a, i, g) EXCEPT !.fresh = TRUE] \in ServantRecords
<1>1. i \in 0..MaxIdx
  BY ConstantsAssumption DEF Indices
<1>2. NewServant(a, i, g) \in ServantRecords
  BY <1>1, BlankType DEF NewServant, ServantRecords, Guids
<1> QED BY <1>2 DEF ServantRecords

\* FindServant returns a servant of the online list or None.
LEMMA FindServantType ==
  ASSUME TypeOK, NEW a
  PROVE  /\ FindServant(a) \in Servants \cup {None}
         /\ FindServant(a) # None => /\ FindServant(a) \in OnlineServants
                                     /\ svt[FindServant(a)].acct = a
         /\ FindServant(a) = None => \A s \in OnlineServants : svt[s].acct # a
<1>1. OnlineServants \subseteq Servants /\ None \notin OnlineServants
  BY DEF TypeOK, OnlineServants
<1>2. CASE \E s \in OnlineServants : svt[s].acct = a
  BY <1>1, <1>2 DEF FindServant, Holder
<1>3. CASE ~ \E s \in OnlineServants : svt[s].acct = a
  BY <1>3 DEF FindServant, Holder
<1> QED BY <1>2, <1>3

\* The type invariant holds in every state.
LEMMA InitTypeInv == Init => TypeInv
<1> SUFFICES ASSUME Init PROVE TypeInv
  OBVIOUS
<1>1. queue \in Seq(Servants) /\ kept \in Seq(Servants)
  BY DEF Init
<1>2. svt \in [Servants -> ServantRecords]
  BY BlankType DEF Init
<1>3. gate \in [Gates -> [conn : {"up", "closing", "down"}, age : 0..ReclaimAfter]]
  BY ConstantsAssumption DEF Init
<1> QED BY <1>1, <1>2, <1>3 DEF Init, TypeInv, TypeOK, AddHasHead

LEMMA NextTypeInv == TypeInv /\ [Next]_vars => TypeInv'
<1> SUFFICES ASSUME TypeInv, [Next]_vars PROVE TypeInv'
  OBVIOUS
<1> USE DEF TypeInv, AddHasHead
<1>0. roles \subseteq Roles
  BY DEF TypeOK
<1>a. ASSUME NEW g \in Gates, NEW a \in Accounts, NEW i \in Indices,
             HandleRequestRoleList(g, a, i)
      PROVE  TypeInv'
  <2>1. FindServant(a) \in Servants \cup {None}
    BY FindServantType
  <2>p. PICK s \in Servants :
        IF FindServant(a) = None
          THEN /\ online' = [online EXCEPT ![a] = s]
               /\ svt' = [svt EXCEPT ![s] = FillRoleListInfo(NewServant(a, i, g))]
               /\ UNCHANGED queue
          ELSE /\ queue' = Append(queue, s)
               /\ svt' = [svt EXCEPT
                     ![FindServant(a)] =
                        IF FindServant(a) # None
                             /\ (svt[FindServant(a)].sock # g \/ ~IsWaitLastData(FindServant(a)))
                          THEN DisConnect(@) ELSE @,
                     ![s] = [NewServant(a, i, g) EXCEPT !.fresh = TRUE]]
               /\ UNCHANGED online
    BY <1>a DEF HandleRequestRoleList
  <2>2. svt' \in [Servants -> ServantRecords]
    <3>1. CASE FindServant(a) = None
      <4>1. FillRoleListInfo(NewServant(a, i, g)) \in ServantRecords
        BY <1>0, NewServantType, RecordTypes
      <4> QED BY <2>p, <3>1, <4>1 DEF TypeOK
    <3>2. CASE FindServant(a) # None
      <4>1. DisConnect(svt[FindServant(a)]) \in ServantRecords
        BY <2>1, <3>2, <1>0, RecordTypes DEF TypeOK
      <4>2. svt[FindServant(a)] \in ServantRecords
        BY <2>1, <3>2 DEF TypeOK
      <4> DEFINE rec == IF FindServant(a) # None
                             /\ (svt[FindServant(a)].sock # g \/ ~IsWaitLastData(FindServant(a)))
                          THEN DisConnect(svt[FindServant(a)]) ELSE svt[FindServant(a)]
      <4>3. rec \in ServantRecords
        BY <4>1, <4>2
      <4>4. svt' = [svt EXCEPT ![FindServant(a)] = rec,
                               ![s] = [NewServant(a, i, g) EXCEPT !.fresh = TRUE]]
        BY <2>p, <2>1, <3>2 DEF TypeOK
      <4> HIDE DEF rec
      <4> QED BY <2>1, <3>2, <4>3, <4>4, NewServantType DEF TypeOK
    <3> QED BY <3>1, <3>2
  <2>3. online' \in [Guids -> Servants \cup {None}] /\ queue' \in Seq(Servants)
    <3>1. Append(queue, s) \in Seq(Servants)
      BY ElemsAppend DEF TypeOK
    <3>2. [online EXCEPT ![a] = s] \in [Guids -> Servants \cup {None}]
      BY DEF TypeOK
    <3> QED BY <2>p, <3>1, <3>2 DEF TypeOK
  <2> QED BY <1>a, <2>2, <2>3 DEF HandleRequestRoleList, TypeOK
<1>b. ASSUME NEW k \in Guids, NEW i \in Indices, NEW from \in Gates \cup {None},
             NEW direct \in BOOLEAN, InvalidServant(k, i, from, direct)
      PROVE  svt' \in [Servants -> ServantRecords] /\ flag' \in [Roles -> {0, 1}]
  <2>1. \A s \in Servants : /\ svt[s] \in ServantRecords
                            /\ SetWaitLastData(svt[s]) \in ServantRecords
                            /\ [svt[s] EXCEPT !.sock = None] \in ServantRecords
    BY <1>0, RecordTypes DEF TypeOK
  <2>2. svt' \in [Servants -> ServantRecords]
    BY <1>b, <2>1 DEF InvalidServant
  <2>3. flag' \in [Roles -> {0, 1}]
    BY <1>b DEF InvalidServant, TypeOK
  <2> QED BY <2>2, <2>3
<1>c. ASSUME NEW g \in Gates, NEW k \in Guids, NEW i \in Indices, NEW direct \in BOOLEAN,
             HandleCloseServantRequest(g, k, i, direct)
      PROVE  TypeInv'
  BY <1>b, <1>c DEF HandleCloseServantRequest, TypeOK
<1>d. ASSUME NEW k \in Guids, NEW late \in BOOLEAN, HandleChangeSceneServerNotice(k, late)
      PROVE  TypeInv'
  <2>1. online[k] \in Servants /\ [svt[online[k]] EXCEPT !.scene = 0] \in ServantRecords
    BY <1>d, <1>0, RecordTypes DEF HandleChangeSceneServerNotice, TypeOK
  <2> QED BY <1>d, <2>1 DEF HandleChangeSceneServerNotice, TypeOK
<1>e. ASSUME NEW r \in Roles, NEW n \in Scenes, HandleEnterSceneNotice(r, n)
      PROVE  TypeInv'
  <2>1. r \in Guids /\ online[r] \in Servants
    BY <1>e DEF HandleEnterSceneNotice, TypeOK, Guids
  <2>2. [svt[online[r]] EXCEPT !.scene = n] \in ServantRecords
    BY <2>1, <1>0, RecordTypes DEF TypeOK
  <2> QED BY <1>e, <2>1, <2>2 DEF HandleEnterSceneNotice, TypeOK
<1>f. ASSUME NEW r \in Roles, NEW i \in Indices, HandleSavePlayerDataReq(r, i)
      PROVE  TypeInv'
  BY <1>b, <1>f DEF HandleSavePlayerDataReq, TypeOK, Guids
<1>g. ASSUME UpdatePlayerServants PROVE TypeInv'
  <2>1. svt' \in [Servants -> ServantRecords]
    BY <1>g, <1>0, RecordTypes DEF UpdatePlayerServants, TypeOK
  <2>2. online' \in [Guids -> Servants \cup {None}]
    BY <1>g DEF UpdatePlayerServants, TypeOK
  <2>3. plr' \in [Roles -> Servants \cup {None}] /\ saved' \in [Roles -> BOOLEAN]
    BY <1>g DEF UpdatePlayerServants, TypeOK
  <2>4. flag' \in [Roles -> {0, 1}]
    BY <1>g DEF UpdatePlayerServants, TypeOK, LogoutFlag
  <2> QED BY <1>g, <2>1, <2>2, <2>3, <2>4 DEF UpdatePlayerServants, TypeOK
<1>h. ASSUME NEW k \in Guids, NEW r \in Roles, RoleCreate(k, r) PROVE TypeInv'
  BY <1>h DEF RoleCreate, TypeOK
<1>i. ASSUME NEW k \in Guids, NEW r \in Roles, NEW loads \in BOOLEAN, EnterGame(k, r, loads)
      PROVE  TypeInv'
  <2>1. online[k] \in Servants
    BY <1>i DEF EnterGame, TypeOK
  <2>2. svt' \in [Servants -> ServantRecords]
    BY <1>i, <2>1, <1>0, RecordTypes DEF EnterGame, TypeOK
  <2>3. online' \in [Guids -> Servants \cup {None}]
    BY <1>i, <2>1 DEF EnterGame, TypeOK, Guids
  <2>4. /\ plr' \in [Roles -> Servants \cup {None}] /\ saved' \in [Roles -> BOOLEAN]
        /\ flag' \in [Roles -> {0, 1}]
    BY <1>i, <2>1 DEF EnterGame, TypeOK
  <2> QED BY <1>i, <2>2, <2>3, <2>4 DEF EnterGame, TypeOK
<1>j. ASSUME QueueDrop PROVE TypeInv'
  BY <1>j, ElemsTail, BlankType DEF QueueDrop, TypeOK, QueueHead
<1>k. ASSUME QueueKeep PROVE TypeInv'
  <2>1. queue' \in Seq(Servants) /\ QueueHead \in Servants
    BY <1>k, ElemsTail DEF QueueKeep, TypeOK, QueueHead
  <2>2. kept' \in Seq(Servants)
    BY <1>k, <2>1, ElemsAppend DEF QueueKeep, TypeOK
  <2> QED BY <1>k, <2>1, <2>2 DEF QueueKeep, TypeOK
<1>l. ASSUME QueueRefuse PROVE TypeInv'
  BY <1>l, ElemsTail, BlankType DEF QueueRefuse, TypeOK, QueueHead, gcPlayerServant
<1>m. ASSUME QueueCheck PROVE TypeInv'
  BY <1>m DEF QueueCheck, TypeOK
<1>n. ASSUME QueueAdd PROVE TypeInv'
  <2>1. queue' \in Seq(Servants) /\ QueueHead \in Servants
    BY <1>n, ElemsTail DEF QueueAdd, TypeOK, QueueHead
  <2>2. svt' \in [Servants -> ServantRecords]
    BY <1>n, <2>1, <1>0, RecordTypes DEF QueueAdd, TypeOK
  <2>3. online' \in [Guids -> Servants \cup {None}]
    BY <1>n, <2>1 DEF QueueAdd, TypeOK
  <2> QED BY <1>n, <2>1, <2>2, <2>3 DEF QueueAdd, TypeOK
<1>o. ASSUME EndQueue PROVE TypeInv'
  <2>1. <<>> \in Seq(Servants)
    OBVIOUS
  <2> QED BY <1>o, <2>1 DEF EndQueue, TypeOK
<1>p. ASSUME NEW g \in Gates, GateClosing(g) PROVE TypeInv'
  BY <1>p DEF GateClosing, TypeOK
<1>q. ASSUME NEW g \in Gates, GateOnDisconnect(g) PROVE TypeInv'
  <2>1. svt' \in [Servants -> ServantRecords]
    BY <1>q, <1>0, RecordTypes DEF GateOnDisconnect, TypeOK
  <2> QED BY <1>q, <2>1, ConstantsAssumption DEF GateOnDisconnect, TypeOK
<1>r. ASSUME NEW g \in Gates, GateConnect(g) PROVE TypeInv'
  BY <1>r, ConstantsAssumption DEF GateConnect, TypeOK
<1>s. ASSUME Tick PROVE TypeInv'
  <2>1. svt' \in [Servants -> ServantRecords]
    <3>1. ASSUME NEW w \in WaitAges
          PROVE  (IF w = NotWaiting \/ w = WaitLimit + 2 THEN w ELSE w + 1) \in WaitAges
      BY ConstantsAssumption DEF WaitAges, NotWaiting
    <3>2. ASSUME NEW s \in Servants
          PROVE  [svt[s] EXCEPT !.fresh = FALSE,
                                !.wait = IF @ = NotWaiting \/ @ = WaitLimit + 2
                                           THEN @ ELSE @ + 1] \in ServantRecords
      <4>1. svt[s] \in ServantRecords
        BY DEF TypeOK
      <4> QED BY <3>1, <4>1 DEF ServantRecords
    <3> QED BY <1>s, <3>2 DEF Tick
  <2>2. gate' \in [Gates -> [conn : {"up", "closing", "down"}, age : 0..ReclaimAfter]]
    <3>1. ASSUME NEW g \in Gates, gate[g].age < ReclaimAfter
          PROVE  [gate[g] EXCEPT !.age = @ + 1]
                   \in [conn : {"up", "closing", "down"}, age : 0..ReclaimAfter]
      <4>1. gate[g] \in [conn : {"up", "closing", "down"}, age : 0..ReclaimAfter]
        BY DEF TypeOK
      <4>2. gate[g].age + 1 \in 0..ReclaimAfter
        BY <3>1, <4>1, ConstantsAssumption
      <4> QED BY <4>1, <4>2
    <3> QED BY <1>s, <3>1 DEF Tick, TypeOK
  <2> QED BY <1>s, <2>1, <2>2 DEF Tick, TypeOK
<1>t. ASSUME EndRecv \/ EndPlay \/ UNCHANGED vars PROVE TypeInv'
  BY <1>t DEF EndRecv, EndPlay, vars, TypeOK
<1> QED
  BY <1>a, <1>c, <1>d, <1>e, <1>f, <1>g, <1>h, <1>i, <1>j, <1>k, <1>l, <1>m, <1>n, <1>o,
     <1>p, <1>q, <1>r, <1>s, <1>t
  DEF Next, Recv, Play, MainLoop, Network

\* Every variable keeps its type (all of MasterServant).
THEOREM TypeCorrect == Spec => []TypeOK
<1>1. Spec => []TypeInv
  BY InitTypeInv, NextTypeInv, PTL DEF Spec
<1>2. TypeInv => TypeOK
  BY DEF TypeInv
<1> QED BY <1>1, <1>2, PTL

-----------------------------------------------------------------------------
(* The sessions *)

Used == OnlineServants \cup Pending

\* A servant in use belongs to an account; a pending one is not yet in a role.
UsedRecords ==
  /\ \A s \in Used : svt[s].acct \in Accounts
  /\ \A s \in Pending : svt[s].guid = svt[s].acct

\* Between the check of a pending servant and its admission nobody takes its
\* account.
AddIsFree == pc = "add" => \A s \in OnlineServants : svt[s].acct # svt[QueueHead].acct

\* The inductive invariant of the sessions.
Sessions ==
  /\ PoolAccounted
  /\ UsedRecords
  /\ OneServantPerAccount
  /\ OnlineKeyed
  /\ AddIsFree

SessionInv == TypeInv /\ Sessions

\* Servants in use are servants, and None is none of them.
LEMMA UsedType ==
  ASSUME TypeOK
  PROVE  /\ OnlineServants \subseteq Servants /\ Pending \subseteq Servants
         /\ None \notin Servants /\ None \notin Accounts /\ None \notin Roles
         /\ \A k \in Guids : online[k] # None => online[k] \in OnlineServants
<1>1. Elems(queue) \subseteq Servants /\ Elems(kept) \subseteq Servants
  BY ElemsType DEF TypeOK
<1> QED BY <1>1, ConstantsAssumption DEF TypeOK, OnlineServants, Pending

\* No servant is listed under two keys.
LEMMA OnlineInjective ==
  ASSUME OnlineKeyed, NEW j \in Guids, NEW k \in Guids, online[j] = online[k], online[k] # None
  PROVE  j = k
BY DEF OnlineKeyed

\* Where the assertion of ReAddServantWithRealGuid comes from.
LEMMA ReAddFromSessions ==
  ASSUME TypeOK, OneServantPerAccount, OnlineKeyed
  PROVE  ReAddAssertion
<1> SUFFICES ASSUME NEW k \in Guids, NEW r \in roles, online[k] # None,
                    AccountOf[r] = svt[online[k]].acct, online[r] # None
             PROVE  online[r] = online[k]
  BY DEF ReAddAssertion
<1>1. r \in Roles /\ r \in Guids
  BY DEF TypeOK, Guids
<1>2. AccountOf[r] = svt[online[r]].acct
  BY <1>1 DEF OnlineKeyed
<1>3. online[r] \in OnlineServants /\ online[k] \in OnlineServants
  BY <1>1, UsedType
<1> QED BY <1>2, <1>3 DEF OneServantPerAccount

\* A step that moves no servant and changes no owner keeps the sessions.
LEMMA SameSessions ==
  ASSUME TypeInv, Sessions, UNCHANGED <<online, queue, kept>>,
         pc' = "add" => pc = "add",
         \A s \in Servants : /\ svt'[s].acct = svt[s].acct
                             /\ svt'[s].guid = svt[s].guid
                             /\ svt[s] \in {Blank, Leaked} => svt'[s] = svt[s]
  PROVE  Sessions'
<1> USE DEF TypeInv
<1>1. OnlineServants' = OnlineServants /\ Pending' = Pending /\ Used' = Used
  BY DEF OnlineServants, Pending, Used, Elems
<1>2. Used \subseteq Servants
  BY UsedType DEF Used
<1>3. ASSUME NEW s \in Used PROVE svt'[s] \notin {Blank, Leaked}
  BY <1>2, <1>3, ConstantsAssumption DEF Sessions, UsedRecords, Blank, Leaked
<1>4. PoolAccounted'
  BY <1>1, <1>2, <1>3 DEF Sessions, PoolAccounted, Used, Elems, Distinct
<1>5. UsedRecords'
  BY <1>1, <1>2 DEF Sessions, UsedRecords, Used
<1>6. OneServantPerAccount'
  BY <1>1, <1>2 DEF Sessions, OneServantPerAccount, Used
<1>7. OnlineKeyed'
  <2>1. \A k \in Guids : online[k] # None => online[k] \in Servants
    BY UsedType
  <2> QED BY <2>1 DEF Sessions, OnlineKeyed
<1>8. AddIsFree'
  <2> SUFFICES ASSUME pc = "add", NEW s \in OnlineServants
               PROVE  svt'[s].acct # svt'[QueueHead'].acct
    BY <1>1 DEF AddIsFree
  <2>1. svt[s].acct # svt[QueueHead].acct /\ s \in Servants
    BY UsedType DEF Sessions, AddIsFree
  <2>2. QueueHead \in Servants
    BY ElemsTail DEF AddHasHead, TypeOK, QueueHead
  <2> QED BY <2>1, <2>2 DEF QueueHead
<1> QED BY <1>4, <1>5, <1>6, <1>7, <1>8 DEF Sessions

\* The head of the pending list and the rest of it.
LEMMA PopHead ==
  ASSUME TypeOK, PoolAccounted, queue # <<>>
  PROVE  /\ QueueHead \in Servants
         /\ QueueHead \in Pending /\ QueueHead \notin OnlineServants
         /\ Elems(queue) = {QueueHead} \cup Elems(Tail(queue))
         /\ QueueHead \notin Elems(Tail(queue)) /\ QueueHead \notin Elems(kept)
         /\ Distinct(Tail(queue)) /\ Distinct(kept)
         /\ Elems(Tail(queue)) \cap Elems(kept) = {}
<1>1. Elems(queue) = {QueueHead} \cup Elems(Tail(queue)) /\ QueueHead \in Servants
  BY ElemsTail DEF TypeOK, QueueHead
<1>2. Distinct(Tail(queue)) /\ QueueHead \notin Elems(Tail(queue))
  BY DistinctTail DEF TypeOK, PoolAccounted, QueueHead
<1> QED BY <1>1, <1>2 DEF PoolAccounted, Pending

\* A login: a new servant goes online or queues up.
LEMMA RequestKeepsSessions ==
  ASSUME SessionInv, NEW g \in Gates, NEW a \in Accounts, NEW i \in Indices,
         HandleRequestRoleList(g, a, i)
  PROVE  Sessions'
<1> USE DEF SessionInv, TypeInv
<1> DEFINE old == FindServant(a)
           new == NewServant(a, i, g)
<1>1. PICK s \in Servants :
        /\ svt[s] = Blank
        /\ IF old = None
             THEN /\ online' = [online EXCEPT ![a] = s]
                  /\ svt' = [svt EXCEPT ![s] = FillRoleListInfo(new)]
                  /\ UNCHANGED queue
             ELSE /\ queue' = Append(queue, s)
                  /\ svt' = [svt EXCEPT
                        ![old] = IF old # None /\ (svt[old].sock # g \/ ~IsWaitLastData(old))
                                   THEN DisConnect(@) ELSE @,
                        ![s] = [new EXCEPT !.fresh = TRUE]]
                  /\ UNCHANGED online
  BY DEF HandleRequestRoleList
<1>2. s \notin Used /\ s # None
  BY <1>1, UsedType DEF Sessions, PoolAccounted, Used
<1>3. /\ FillRoleListInfo(new).acct = a /\ FillRoleListInfo(new).guid = a
      /\ [new EXCEPT !.fresh = TRUE].acct = a /\ [new EXCEPT !.fresh = TRUE].guid = a
  BY DEF NewServant, FillRoleListInfo, Blank
<1>4. UNCHANGED <<kept, pc>> /\ pc = "recv"
  BY DEF HandleRequestRoleList
<1>5. AddIsFree'
  BY <1>4 DEF AddIsFree
<1>6. a \in Guids /\ a \notin Roles /\ a # None
  BY ConstantsAssumption DEF Guids
<1>7. CASE old = None
  <2>1. svt' = [svt EXCEPT ![s] = FillRoleListInfo(new)] /\ online' = [online EXCEPT ![a] = s]
        /\ queue' = queue
    BY <1>1, <1>7
  <2>2. \A t \in OnlineServants : svt[t].acct # a
    BY <1>7, FindServantType
  <2>3. online[a] = None
    <3> SUFFICES ASSUME online[a] # None PROVE FALSE
      OBVIOUS
    <3>1. online[a] \in OnlineServants /\ svt[online[a]].acct = a
      BY <1>6, UsedType DEF Sessions, OnlineKeyed
    <3> QED BY <2>2, <3>1
  <2>4. OnlineServants' = OnlineServants \cup {s}
    <3>1. ASSUME NEW k \in Guids PROVE online'[k] = IF k = a THEN s ELSE online[k]
      BY <2>1 DEF TypeOK
    <3> QED BY <1>2, <1>6, <2>3, <3>1 DEF OnlineServants
  <2>5. Pending' = Pending /\ Elems(queue)' = Elems(queue) /\ Elems(kept)' = Elems(kept)
    BY <1>4, <2>1 DEF Pending, Elems
  <2>6. /\ \A t \in Servants : t # s => svt'[t] = svt[t]
        /\ svt'[s].acct = a /\ svt'[s].guid = a /\ svt'[s] \notin {Blank, Leaked}
    BY <1>3, <1>6, <2>1 DEF TypeOK, Blank, Leaked
  <2>7. PoolAccounted'
    BY <1>2, <1>4, <2>1, <2>4, <2>5, <2>6 DEF Sessions, PoolAccounted, Used, Distinct
  <2>8. UsedRecords'
    BY <1>2, <2>4, <2>5, <2>6, UsedType DEF Sessions, UsedRecords, Used
  <2>9. OneServantPerAccount'
    BY <2>2, <2>4, <2>6, UsedType DEF Sessions, OneServantPerAccount
  <2>10. OnlineKeyed'
    <3> SUFFICES ASSUME NEW k \in Guids, online'[k] # None
                 PROVE  /\ svt'[online'[k]].guid = k
                        /\ IF k \in Roles THEN AccountOf[k] = svt'[online'[k]].acct
                                          ELSE k = svt'[online'[k]].acct
      BY DEF OnlineKeyed
    <3>1. CASE k = a
      BY <1>6, <2>1, <2>6, <3>1 DEF TypeOK
    <3>2. CASE k # a
      <4>1. online'[k] = online[k] /\ online[k] \in OnlineServants
        BY <2>1, <3>2, UsedType DEF TypeOK
      <4>2. svt'[online[k]] = svt[online[k]]
        BY <1>2, <2>6, <4>1, UsedType DEF Used
      <4> QED BY <4>1, <4>2 DEF Sessions, OnlineKeyed
    <3> QED BY <3>1, <3>2
  <2> QED BY <1>5, <2>7, <2>8, <2>9, <2>10 DEF Sessions
<1>8. CASE old # None
  <2>1. old \in OnlineServants /\ old \in Servants /\ old # s
    BY <1>2, <1>8, FindServantType, UsedType DEF Used
  <2>2. queue' = Append(queue, s) /\ online' = online
    BY <1>1, <1>8
  <2>3. OnlineServants' = OnlineServants
    BY <2>2 DEF OnlineServants
  <2>4. Elems(queue)' = Elems(queue) \cup {s} /\ Distinct(queue')
    BY <1>2, <2>2, ElemsAppend, DistinctAppend
    DEF Sessions, PoolAccounted, TypeOK, Used, Pending
  <2>5. Elems(kept)' = Elems(kept)
    BY <1>4 DEF Elems
  <2>6. svt'[s] = [new EXCEPT !.fresh = TRUE]
    BY <1>1, <1>8 DEF TypeOK
  <2>7. /\ svt'[s].acct = a /\ svt'[s].guid = a /\ svt'[s] \notin {Blank, Leaked}
    BY <1>3, <1>6, <2>6 DEF Blank, Leaked
  <2>8. \A t \in Servants \ {s, old} : svt'[t] = svt[t]
    BY <1>1, <1>8 DEF TypeOK
  <2>9. svt'[old].acct = svt[old].acct /\ svt'[old].guid = svt[old].guid
    <3>1. svt'[old] \in {svt[old], DisConnect(svt[old])}
      BY <1>1, <1>8, <2>1 DEF TypeOK
    <3>2. svt[old] \in ServantRecords
      BY <2>1 DEF TypeOK
    <3> QED BY <3>1, <3>2 DEF DisConnect, SetWaitLastData, ServantRecords
  <2>10. svt'[old] \notin {Blank, Leaked}
    BY <2>1, <2>9, ConstantsAssumption DEF Sessions, UsedRecords, Used, Blank, Leaked
  <2>11. PoolAccounted'
    <3>1. Distinct(kept')
      BY <1>4 DEF Sessions, PoolAccounted
    <3>2. \A t \in Servants : svt'[t] \in {Blank, Leaked} <=> t \notin (OnlineServants \cup Pending)'
      BY <2>1, <2>3, <2>4, <2>5, <2>7, <2>8, <2>10 DEF Sessions, PoolAccounted, Pending
    <3> QED BY <1>2, <2>3, <2>4, <2>5, <3>1, <3>2 DEF Sessions, PoolAccounted, Used, Pending
  <2>12. UsedRecords'
    BY <1>2, <2>1, <2>3, <2>4, <2>5, <2>7, <2>8, <2>9, UsedType
    DEF Sessions, PoolAccounted, UsedRecords, Used, Pending
  <2>13. OneServantPerAccount'
    BY <1>2, <2>3, <2>8, <2>9, UsedType DEF Sessions, OneServantPerAccount, Used
  <2>14. OnlineKeyed'
    <3>1. \A k \in Guids : online[k] # None =>
             /\ online[k] \in Servants /\ svt'[online[k]].acct = svt[online[k]].acct
             /\ svt'[online[k]].guid = svt[online[k]].guid
      BY <1>2, <2>8, <2>9, UsedType DEF Used
    <3> QED BY <2>2, <3>1 DEF Sessions, OnlineKeyed
  <2> QED BY <1>5, <2>11, <2>12, <2>13, <2>14 DEF Sessions
<1> QED BY <1>7, <1>8

\* InvalidServant changes no owner and touches only servants in use.
LEMMA InvalidKeepsOwners ==
  ASSUME TypeOK, NEW k \in Guids, NEW i \in Indices, NEW from, NEW direct \in BOOLEAN,
         InvalidServant(k, i, from, direct)
  PROVE  \A s \in Servants : /\ svt'[s].acct = svt[s].acct
                             /\ svt'[s].guid = svt[s].guid
                             /\ svt[s] \in {Blank, Leaked} => svt'[s] = svt[s]
<1> SUFFICES ASSUME NEW s \in Servants
             PROVE  /\ svt'[s].acct = svt[s].acct
                    /\ svt'[s].guid = svt[s].guid
                    /\ svt[s] \in {Blank, Leaked} => svt'[s] = svt[s]
  OBVIOUS
<1>1. svt[s] \in ServantRecords
  BY DEF TypeOK
<1>2. svt'[s] \in {svt[s], [svt[s] EXCEPT !.sock = None], SetWaitLastData(svt[s])}
  BY DEF InvalidServant
<1>3. svt'[s].acct = svt[s].acct /\ svt'[s].guid = svt[s].guid
  BY <1>1, <1>2 DEF ServantRecords, SetWaitLastData
<1>4. ASSUME svt[s] \in {Blank, Leaked} PROVE svt'[s] = svt[s]
  <2>1. svt[s].idx # i
    BY <1>4 DEF Blank, Leaked, Indices
  <2> QED BY <2>1 DEF InvalidServant
<1> QED BY <1>3, <1>4

\* Servants that leave are logged out, given back and taken off the list.
LEMMA UpdateKeepsSessions ==
  ASSUME SessionInv, UpdatePlayerServants
  PROVE  Sessions'
<1> USE DEF SessionInv, TypeInv
<1> DEFINE gone == {s \in OnlineServants : IsGone(s)}
<1>1. /\ online' = [k \in Guids |-> IF online[k] \in gone THEN None ELSE online[k]]
      /\ svt' = [s \in Servants |-> IF s \in gone THEN Blank ELSE svt[s]]
      /\ UNCHANGED <<queue, kept>> /\ pc' = "play"
  BY DEF UpdatePlayerServants, gcPlayerServant
<1>2. gone \subseteq OnlineServants
  OBVIOUS
<1> HIDE DEF gone
<1>3. OnlineServants' = OnlineServants \ gone
  BY <1>1, <1>2 DEF OnlineServants
<1>4. Pending' = Pending /\ Elems(queue)' = Elems(queue) /\ Elems(kept)' = Elems(kept)
  BY <1>1 DEF Pending, Elems
<1>5. Pending \cap gone = {}
  BY <1>2 DEF Sessions, PoolAccounted
<1>6. PoolAccounted'
  <2>1. \A s \in Servants : svt'[s] \in {Blank, Leaked} <=> s \notin (OnlineServants \cup Pending)'
    BY <1>1, <1>2, <1>3, <1>4, <1>5 DEF Sessions, PoolAccounted
  <2> QED BY <1>1, <1>3, <1>4, <2>1 DEF Sessions, PoolAccounted, Distinct
<1>7. UsedRecords'
  BY <1>1, <1>3, <1>4, <1>5, UsedType DEF Sessions, UsedRecords, Used
<1>8. OneServantPerAccount'
  BY <1>1, <1>3, UsedType DEF Sessions, OneServantPerAccount
<1>9. OnlineKeyed'
  <2> SUFFICES ASSUME NEW k \in Guids, online'[k] # None
               PROVE  /\ online'[k] = online[k] /\ online[k] # None
                      /\ svt'[online[k]] = svt[online[k]]
    BY DEF Sessions, OnlineKeyed
  <2> QED BY <1>1, UsedType
<1>10. AddIsFree'
  BY <1>1 DEF AddIsFree
<1> QED BY <1>6, <1>7, <1>8, <1>9, <1>10 DEF Sessions

\* A servant moves to the key of its role.
LEMMA EnterKeepsSessions ==
  ASSUME SessionInv, NEW k \in Guids, NEW r \in Roles, NEW loads \in BOOLEAN,
         EnterGame(k, r, loads)
  PROVE  Sessions'
<1> USE DEF SessionInv, TypeInv
<1> DEFINE s == online[k]
<1>1. /\ s # None /\ r \in RolesOf(svt[s].acct)
      /\ online' = [online EXCEPT ![k] = None, ![r] = s]
      /\ svt' = [svt EXCEPT ![s] = [@ EXCEPT !.guid = r]]
      /\ UNCHANGED <<queue, kept, pc>> /\ pc = "play"
  BY DEF EnterGame, ResetCurPlayerGUID
<1>2. s \in OnlineServants /\ s \in Servants /\ r \in Guids /\ AccountOf[r] = svt[s].acct /\ r \in roles
  BY <1>1, UsedType DEF RolesOf, Guids
<1>3. online[r] \in {None, s}
  BY <1>1, <1>2, ReAddFromSessions DEF Sessions, ReAddAssertion
<1> HIDE DEF s
<1>4. \A j \in Guids : online'[j] = IF j = r THEN s ELSE IF j = k THEN None ELSE online[j]
  BY <1>1, <1>2 DEF TypeOK
<1>5. \A j \in Guids : online[j] = s => j = k
  BY <1>1, OnlineInjective DEF Sessions, s
<1>6. OnlineServants' = OnlineServants
  <2>1. OnlineServants' \subseteq OnlineServants
    BY <1>1, <1>2, <1>4 DEF OnlineServants
  <2>2. ASSUME NEW t \in OnlineServants PROVE t \in OnlineServants'
    <3>1. PICK j \in Guids : online[j] = t /\ t # None
      BY DEF OnlineServants
    <3>2. CASE t = s
      BY <1>1, <1>2, <1>4, <3>2 DEF OnlineServants
    <3>3. CASE t # s
      <4>1. j # r /\ j # k
        BY <1>3, <3>1, <3>3 DEF s
      <4> QED BY <1>4, <3>1, <4>1 DEF OnlineServants
    <3> QED BY <3>2, <3>3
  <2> QED BY <2>1, <2>2
<1>7. Pending' = Pending /\ Elems(queue)' = Elems(queue) /\ Elems(kept)' = Elems(kept)
  BY <1>1 DEF Pending, Elems
<1>8. s \notin Pending
  BY <1>2 DEF Sessions, PoolAccounted
<1>9. /\ \A t \in Servants : t # s => svt'[t] = svt[t]
      /\ svt'[s].acct = svt[s].acct /\ svt'[s].guid = r
  <2>1. svt[s] \in ServantRecords
    BY <1>2 DEF TypeOK
  <2> QED BY <1>1, <1>2, <2>1 DEF TypeOK, ServantRecords
<1>10. svt[s].acct \in Accounts /\ svt'[s] \notin {Blank, Leaked} /\ svt[s] \notin {Blank, Leaked}
  BY <1>2, <1>9, ConstantsAssumption DEF Sessions, UsedRecords, Used, Blank, Leaked
<1>11. PoolAccounted'
  <2>1. \A t \in Servants : svt'[t] \in {Blank, Leaked} <=> t \notin (OnlineServants \cup Pending)'
    BY <1>2, <1>6, <1>7, <1>9, <1>10 DEF Sessions, PoolAccounted
  <2> QED BY <1>1, <1>6, <1>7, <2>1 DEF Sessions, PoolAccounted, Distinct
<1>12. UsedRecords'
  BY <1>6, <1>7, <1>8, <1>9, <1>10, UsedType DEF Sessions, UsedRecords, Used
<1>13. OneServantPerAccount'
  BY <1>6, <1>9, UsedType DEF Sessions, OneServantPerAccount
<1>14. OnlineKeyed'
  <2> SUFFICES ASSUME NEW j \in Guids, online'[j] # None
               PROVE  /\ svt'[online'[j]].guid = j
                      /\ IF j \in Roles THEN AccountOf[j] = svt'[online'[j]].acct
                                        ELSE j = svt'[online'[j]].acct
    BY DEF OnlineKeyed
  <2>1. CASE j = r
    BY <1>2, <1>4, <1>9, <2>1
  <2>2. CASE j # r
    <3>1. j # k /\ online'[j] = online[j] /\ online[j] # s
      BY <1>4, <1>5, <2>2
    <3>2. svt'[online[j]] = svt[online[j]]
      BY <1>9, <3>1, UsedType
    <3> QED BY <3>1, <3>2 DEF Sessions, OnlineKeyed
  <2> QED BY <2>1, <2>2
<1>15. AddIsFree'
  BY <1>1 DEF AddIsFree
<1> QED BY <1>11, <1>12, <1>13, <1>14, <1>15 DEF Sessions

\* The head of the pending list is dropped or refused.
LEMMA HeadLeavesKeepsSessions ==
  ASSUME SessionInv, QueueDrop \/ QueueRefuse
  PROVE  Sessions'
<1> USE DEF SessionInv, TypeInv
<1>1. /\ queue # <<>> /\ queue' = Tail(queue) /\ UNCHANGED <<online, kept, pc>> /\ pc = "queue"
      /\ \E x \in {Blank, Leaked} : svt' = [svt EXCEPT ![QueueHead] = x]
  BY DEF QueueDrop, QueueRefuse, gcPlayerServant
<1>2. /\ QueueHead \in Servants
      /\ QueueHead \in Pending /\ QueueHead \notin OnlineServants
      /\ Elems(queue) = {QueueHead} \cup Elems(Tail(queue))
      /\ QueueHead \notin Elems(Tail(queue)) /\ QueueHead \notin Elems(kept)
      /\ Distinct(Tail(queue)) /\ Distinct(kept)
      /\ Elems(Tail(queue)) \cap Elems(kept) = {}
  BY <1>1, PopHead DEF Sessions
<1>3. OnlineServants' = OnlineServants /\ Elems(kept)' = Elems(kept)
  BY <1>1 DEF OnlineServants, Elems
<1>4. Elems(queue)' = Elems(queue) \ {QueueHead} /\ Pending' = Pending \ {QueueHead}
  BY <1>1, <1>2, <1>3 DEF Pending
<1>5. /\ svt'[QueueHead] \in {Blank, Leaked}
      /\ \A t \in Servants : t # QueueHead => svt'[t] = svt[t]
  BY <1>1, <1>2 DEF TypeOK
<1>6. PoolAccounted'
  <2>1. \A t \in Servants : svt'[t] \in {Blank, Leaked} <=> t \notin (OnlineServants \cup Pending)'
    BY <1>2, <1>3, <1>4, <1>5 DEF Sessions, PoolAccounted
  <2>2. Distinct(queue') /\ Distinct(kept')
    BY <1>1, <1>2
  <2> QED BY <1>3, <1>4, <2>1, <2>2 DEF Sessions, PoolAccounted
<1>7. UsedRecords'
  BY <1>2, <1>3, <1>4, <1>5, UsedType DEF Sessions, UsedRecords, Used
<1>8. OneServantPerAccount'
  BY <1>2, <1>3, <1>5, UsedType DEF Sessions, OneServantPerAccount
<1>9. OnlineKeyed'
  BY <1>1, <1>2, <1>5, UsedType DEF Sessions, OnlineKeyed
<1>10. AddIsFree'
  BY <1>1 DEF AddIsFree
<1> QED BY <1>6, <1>7, <1>8, <1>9, <1>10 DEF Sessions

\* The head of the pending list stays for the next pass.
LEMMA KeepKeepsSessions ==
  ASSUME SessionInv, QueueKeep
  PROVE  Sessions'
<1> USE DEF SessionInv, TypeInv
<1>1. /\ queue # <<>> /\ queue' = Tail(queue) /\ kept' = Append(kept, QueueHead)
      /\ UNCHANGED <<online, svt, pc>> /\ pc = "queue"
  BY DEF QueueKeep
<1>2. /\ QueueHead \in Servants
      /\ QueueHead \in Pending /\ QueueHead \notin OnlineServants
      /\ Elems(queue) = {QueueHead} \cup Elems(Tail(queue))
      /\ QueueHead \notin Elems(Tail(queue)) /\ QueueHead \notin Elems(kept)
      /\ Distinct(Tail(queue)) /\ Distinct(kept)
      /\ Elems(Tail(queue)) \cap Elems(kept) = {}
  BY <1>1, PopHead DEF Sessions
<1>3. OnlineServants' = OnlineServants
  BY <1>1 DEF OnlineServants
<1>4. Elems(kept)' = Elems(kept) \cup {QueueHead} /\ Distinct(kept')
  BY <1>1, <1>2, ElemsAppend, DistinctAppend DEF TypeOK
<1>5. Elems(queue)' = Elems(Tail(queue)) /\ Distinct(queue') /\ Pending' = Pending
  BY <1>1, <1>2, <1>4 DEF Pending
<1>6. PoolAccounted'
  BY <1>1, <1>2, <1>3, <1>4, <1>5 DEF Sessions, PoolAccounted
<1>7. UsedRecords' /\ OneServantPerAccount' /\ OnlineKeyed'
  BY <1>1, <1>3, <1>5 DEF Sessions, UsedRecords, Used, OneServantPerAccount, OnlineKeyed
<1>8. AddIsFree'
  BY <1>1 DEF AddIsFree
<1> QED BY <1>6, <1>7, <1>8 DEF Sessions

\* The head of the pending list goes online.
LEMMA AddKeepsSessions ==
  ASSUME SessionInv, QueueAdd
  PROVE  Sessions'
<1> USE DEF SessionInv, TypeInv
<1> DEFINE h == QueueHead
           a == svt[QueueHead].acct
<1>1. /\ queue # <<>> /\ queue' = Tail(queue) /\ pc = "add" /\ pc' = "queue" /\ kept' = kept
      /\ online' = [online EXCEPT ![svt[h].guid] = h]
      /\ svt' = [svt EXCEPT ![h] = FillRoleListInfo(@)]
  BY DEF QueueAdd, AddHasHead
<1>2. /\ h \in Servants /\ h # None
      /\ h \in Pending /\ h \notin OnlineServants
      /\ Elems(queue) = {h} \cup Elems(Tail(queue))
      /\ h \notin Elems(Tail(queue)) /\ h \notin Elems(kept)
      /\ Distinct(Tail(queue)) /\ Distinct(kept)
      /\ Elems(Tail(queue)) \cap Elems(kept) = {}
  BY <1>1, PopHead, UsedType DEF Sessions
<1>3. a \in Accounts /\ svt[h].guid = a /\ a \in Guids /\ a \notin Roles /\ a # None
  BY <1>2, ConstantsAssumption DEF Sessions, UsedRecords, Used, Guids
<1>4. \A t \in OnlineServants : svt[t].acct # a
  BY <1>1 DEF Sessions, AddIsFree
<1>5. online[a] = None
  <2> SUFFICES ASSUME online[a] # None PROVE FALSE
    OBVIOUS
  <2>1. online[a] \in OnlineServants /\ svt[online[a]].acct = a
    BY <1>3, UsedType DEF Sessions, OnlineKeyed
  <2> QED BY <1>4, <2>1
<1>6. /\ \A t \in Servants : t # h => svt'[t] = svt[t]
      /\ svt'[h].acct = a /\ svt'[h].guid = a /\ svt'[h] \notin {Blank, Leaked}
  <2>1. svt[h] \in ServantRecords
    BY <1>2 DEF TypeOK
  <2>2. svt'[h].acct = a /\ svt'[h].guid = a
    BY <1>1, <1>2, <1>3, <2>1 DEF TypeOK, FillRoleListInfo, ServantRecords
  <2>3. \A t \in Servants : t # h => svt'[t] = svt[t]
    BY <1>1, <1>2 DEF TypeOK
  <2> QED BY <1>3, <2>2, <2>3 DEF Blank, Leaked
<1> HIDE DEF h, a
<1>7. \A k \in Guids : online'[k] = IF k = a THEN h ELSE online[k]
  BY <1>1, <1>3 DEF TypeOK
<1>8. OnlineServants' = OnlineServants \cup {h}
  BY <1>2, <1>3, <1>5, <1>7 DEF OnlineServants
<1>9. /\ Elems(kept)' = Elems(kept) /\ Elems(queue)' = Elems(queue) \ {h}
      /\ Pending' = Pending \ {h}
  BY <1>1, <1>2 DEF Pending
<1>10. PoolAccounted'
  <2>1. \A t \in Servants : svt'[t] \in {Blank, Leaked} <=> t \notin (OnlineServants \cup Pending)'
    BY <1>2, <1>6, <1>8, <1>9 DEF Sessions, PoolAccounted
  <2>2. Distinct(queue') /\ Distinct(kept')
    BY <1>1, <1>2
  <2> QED BY <1>2, <1>8, <1>9, <2>1, <2>2 DEF Sessions, PoolAccounted
<1>11. UsedRecords'
  BY <1>3, <1>6, <1>8, <1>9, UsedType DEF Sessions, UsedRecords, Used
<1>12. OneServantPerAccount'
  BY <1>2, <1>4, <1>6, <1>8, UsedType DEF Sessions, OneServantPerAccount
<1>13. OnlineKeyed'
  <2> SUFFICES ASSUME NEW k \in Guids, online'[k] # None
               PROVE  /\ svt'[online'[k]].guid = k
                      /\ IF k \in Roles THEN AccountOf[k] = svt'[online'[k]].acct
                                        ELSE k = svt'[online'[k]].acct
    BY DEF OnlineKeyed
  <2>1. CASE k = a
    BY <1>3, <1>6, <1>7, <2>1
  <2>2. CASE k # a
    <3>1. online'[k] = online[k] /\ online[k] \in OnlineServants
      BY <1>7, <2>2, UsedType
    <3>2. svt'[online[k]] = svt[online[k]]
      BY <1>2, <1>6, <3>1, UsedType
    <3> QED BY <3>1, <3>2 DEF Sessions, OnlineKeyed
  <2> QED BY <2>1, <2>2
<1>14. AddIsFree'
  BY <1>1 DEF AddIsFree
<1> QED BY <1>10, <1>11, <1>12, <1>13, <1>14 DEF Sessions

\* The servants kept by a pass are the pending list of the next one.
LEMMA EndQueueKeepsSessions ==
  ASSUME SessionInv, EndQueue
  PROVE  Sessions'
<1> USE DEF SessionInv, TypeInv
<1>1. /\ queue = <<>> /\ queue' = kept /\ kept' = <<>> /\ UNCHANGED <<online, svt>>
      /\ pc' = "recv"
  BY DEF EndQueue
<1>2. /\ Elems(queue) = {} /\ Elems(queue)' = Elems(kept) /\ Elems(kept)' = {}
      /\ Distinct(kept')
  BY <1>1, ElemsEmpty
<1>3. OnlineServants' = OnlineServants /\ Pending' = Pending
  BY <1>1, <1>2 DEF OnlineServants, Pending
<1>4. PoolAccounted'
  BY <1>1, <1>2, <1>3 DEF Sessions, PoolAccounted
<1>5. UsedRecords' /\ OneServantPerAccount' /\ OnlineKeyed'
  BY <1>1, <1>3 DEF Sessions, UsedRecords, Used, OneServantPerAccount, OnlineKeyed
<1>6. AddIsFree'
  BY <1>1 DEF AddIsFree
<1> QED BY <1>4, <1>5, <1>6 DEF Sessions

\* Every step keeps the sessions' invariant.
LEMMA InitSessionInv == Init => SessionInv
<1> SUFFICES ASSUME Init PROVE SessionInv
  OBVIOUS
<1>1. OnlineServants = {} /\ Pending = {}
  BY ElemsEmpty DEF Init, OnlineServants, Pending
<1>2. Sessions
  BY <1>1, ElemsEmpty
  DEF Init, Sessions, PoolAccounted, UsedRecords, Used, OneServantPerAccount, OnlineKeyed,
      AddIsFree
<1> QED BY <1>2, InitTypeInv DEF SessionInv

LEMMA NextSessionInv == SessionInv /\ [Next]_vars => SessionInv'
<1> SUFFICES ASSUME SessionInv, [Next]_vars PROVE Sessions'
  BY NextTypeInv DEF SessionInv
<1>0. TypeInv /\ TypeOK /\ Sessions /\ \A s \in Servants : svt[s] \in ServantRecords
  BY DEF SessionInv, TypeInv, TypeOK
<1>a. ASSUME NEW g \in Gates, NEW k \in Guids, NEW i \in Indices, NEW direct \in BOOLEAN,
             HandleCloseServantRequest(g, k, i, direct)
      PROVE  Sessions'
  <2>1. InvalidServant(k, i, g, direct) /\ UNCHANGED <<online, queue, kept, pc>>
    BY <1>a DEF HandleCloseServantRequest
  <2> QED BY <1>0, <2>1, InvalidKeepsOwners, SameSessions
<1>b. ASSUME NEW k \in Guids, NEW late \in BOOLEAN, HandleChangeSceneServerNotice(k, late)
      PROVE  Sessions'
  <2>1. online[k] \in OnlineServants /\ online[k] \in Servants
    BY <1>0, <1>b, UsedType DEF HandleChangeSceneServerNotice
  <2>2. svt[online[k]] \notin {Blank, Leaked}
    BY <1>0, <2>1 DEF Sessions, PoolAccounted
  <2>3. \A s \in Servants : /\ svt'[s].acct = svt[s].acct
                            /\ svt'[s].guid = svt[s].guid
                            /\ svt[s] \in {Blank, Leaked} => svt'[s] = svt[s]
    BY <1>0, <1>b, <2>1, <2>2 DEF HandleChangeSceneServerNotice, TypeOK, ServantRecords
  <2> QED BY <1>0, <1>b, <2>3, SameSessions DEF HandleChangeSceneServerNotice
<1>c. ASSUME NEW r \in Roles, NEW n \in Scenes, HandleEnterSceneNotice(r, n)
      PROVE  Sessions'
  <2>1. online[r] \in OnlineServants /\ online[r] \in Servants
    BY <1>0, <1>c, UsedType DEF HandleEnterSceneNotice, Guids
  <2>2. svt[online[r]] \notin {Blank, Leaked}
    BY <1>0, <2>1 DEF Sessions, PoolAccounted
  <2>3. \A s \in Servants : /\ svt'[s].acct = svt[s].acct
                            /\ svt'[s].guid = svt[s].guid
                            /\ svt[s] \in {Blank, Leaked} => svt'[s] = svt[s]
    BY <1>0, <1>c, <2>1, <2>2 DEF HandleEnterSceneNotice, TypeOK, ServantRecords
  <2> QED BY <1>0, <1>c, <2>3, SameSessions DEF HandleEnterSceneNotice
<1>d. ASSUME NEW r \in Roles, NEW i \in Indices, HandleSavePlayerDataReq(r, i)
      PROVE  Sessions'
  <2>1. InvalidServant(r, i, None, TRUE) /\ r \in Guids /\ UNCHANGED <<online, queue, kept, pc>>
    BY <1>d DEF HandleSavePlayerDataReq, Guids
  <2> QED BY <1>0, <2>1, InvalidKeepsOwners, SameSessions
<1>e. ASSUME NEW g \in Gates, GateOnDisconnect(g) PROVE Sessions'
  <2>1. ASSUME NEW s \in Servants
        PROVE  /\ svt'[s].acct = svt[s].acct
               /\ svt'[s].guid = svt[s].guid
               /\ svt[s] \in {Blank, Leaked} => svt'[s] = svt[s]
    <3>1. svt'[s] = IF s \in OnlineServants /\ svt[s].sock = g
                      THEN SetWaitLastData(svt[s]) ELSE svt[s]
      BY <1>e DEF GateOnDisconnect
    <3>2. s \in OnlineServants => svt[s] \notin {Blank, Leaked}
      BY <1>0 DEF Sessions, PoolAccounted
    <3> QED BY <1>0, <3>1, <3>2 DEF SetWaitLastData, ServantRecords
  <2> QED BY <1>0, <1>e, <2>1, SameSessions DEF GateOnDisconnect
<1>f. ASSUME Tick PROVE Sessions'
  <2>1. ASSUME NEW s \in Servants
        PROVE  /\ svt'[s].acct = svt[s].acct
               /\ svt'[s].guid = svt[s].guid
               /\ svt[s] \in {Blank, Leaked} => svt'[s] = svt[s]
    <3>1. svt'[s] = [svt[s] EXCEPT !.fresh = FALSE,
                                   !.wait = IF @ = NotWaiting \/ @ = WaitLimit + 2
                                              THEN @ ELSE @ + 1]
      BY <1>f DEF Tick
    <3>2. svt'[s].acct = svt[s].acct /\ svt'[s].guid = svt[s].guid
      BY <1>0, <3>1 DEF ServantRecords
    <3>3. ASSUME svt[s] \in {Blank, Leaked} PROVE svt'[s] = svt[s]
      <4>1. svt[s].fresh = FALSE /\ svt[s].wait = NotWaiting
        BY <3>3 DEF Blank, Leaked
      <4>2. svt'[s] = [svt[s] EXCEPT !.fresh = svt[s].fresh, !.wait = svt[s].wait]
        BY <3>1, <4>1
      <4>3. svt[s] \in ServantRecords
        BY <1>0
      <4> QED BY <4>2, <4>3 DEF ServantRecords
    <3> QED BY <3>2, <3>3
  <2> QED BY <1>0, <1>f, <2>1, SameSessions DEF Tick
<1>g. ASSUME NEW k \in Guids, NEW r \in Roles, RoleCreate(k, r) PROVE Sessions'
  BY <1>0, <1>g, SameSessions DEF RoleCreate
<1>h. ASSUME EndRecv \/ EndPlay \/ UNCHANGED vars PROVE Sessions'
  BY <1>0, <1>h, SameSessions DEF EndRecv, EndPlay, vars
<1>i. ASSUME NEW g \in Gates, GateClosing(g) \/ GateConnect(g) PROVE Sessions'
  BY <1>0, <1>i, SameSessions DEF GateClosing, GateConnect
<1>j. ASSUME QueueCheck PROVE Sessions'
  <2>1. /\ UNCHANGED <<online, queue, kept, svt>>
        /\ \A s \in OnlineServants : svt[s].acct # svt[QueueHead].acct
    BY <1>0, <1>j, FindServantType DEF QueueCheck
  <2>2. OnlineServants' = OnlineServants /\ Pending' = Pending /\ QueueHead' = QueueHead
    BY <2>1 DEF OnlineServants, Pending, Elems, QueueHead
  <2> QED
    BY <1>0, <2>1, <2>2
    DEF Sessions, PoolAccounted, UsedRecords, Used, OneServantPerAccount, OnlineKeyed,
        AddIsFree, Elems, Distinct
<1> QED
  BY <1>a, <1>b, <1>c, <1>d, <1>e, <1>f, <1>g, <1>h, <1>i, <1>j, RequestKeepsSessions,
     UpdateKeepsSessions, EnterKeepsSessions, HeadLeavesKeepsSessions, KeepKeepsSessions,
     AddKeepsSessions, EndQueueKeepsSessions
  DEF Next, Recv, Play, MainLoop, Network

LEMMA SpecSessionInv == Spec => []SessionInv
BY InitSessionInv, NextSessionInv, PTL DEF Spec

\* At most one servant of an account is online (FindServant before every
\* AddServant, in HandleRequestRoleList and in UpdateQueueServants).
THEOREM OneServantPerAccountHolds == Spec => []OneServantPerAccount
<1>1. SessionInv => OneServantPerAccount
  BY DEF SessionInv, Sessions
<1> QED BY <1>1, SpecSessionInv, PTL

\* The online list is keyed by the servants' own guids (AddServant,
\* updatePlayerServantRealGuid).
THEOREM OnlineKeyedHolds == Spec => []OnlineKeyed
<1>1. SessionInv => OnlineKeyed
  BY DEF SessionInv, Sessions
<1> QED BY <1>1, SpecSessionInv, PTL

\* The assertion of ReAddServantWithRealGuid never fails.
THEOREM ReAddAssertionHolds == Spec => []ReAddAssertion
<1>1. SessionInv => ReAddAssertion
  BY ReAddFromSessions DEF SessionInv, TypeInv, Sessions
<1> QED BY <1>1, SpecSessionInv, PTL

\* The online list is well formed, and its keys can be trusted.
THEOREM SessionsKeyedHolds == Spec => []SessionsKeyed
<1>1. TypeOK /\ OnlineKeyed /\ ReAddAssertion => SessionsKeyed
  BY DEF SessionsKeyed
<1> QED BY <1>1, TypeCorrect, OnlineKeyedHolds, ReAddAssertionHolds, PTL

\* Every slot of the pool is online, pending, free, or was dropped from the
\* pending list (newPlayerServant, gcPlayerServant, UpdateQueueServants).
THEOREM PoolAccountedHolds == Spec => []PoolAccounted
<1>1. SessionInv => PoolAccounted
  BY DEF SessionInv, Sessions
<1> QED BY <1>1, SpecSessionInv, PTL

-----------------------------------------------------------------------------
(* The LuaPlayers and the flags of the database *)

\* A step that leaves the online list and the LuaPlayers alone.
LEMMA SameLuaPlayers ==
  ASSUME LuaPlayerHasServant, UNCHANGED <<online, plr>>
  PROVE  LuaPlayerHasServant'
BY DEF LuaPlayerHasServant

LEMMA NextLuaPlayers ==
  ASSUME SessionInv, LuaPlayerHasServant, [Next]_vars
  PROVE  LuaPlayerHasServant'
<1> USE DEF SessionInv, TypeInv
<1>1. ASSUME NEW g \in Gates, NEW a \in Accounts, NEW i \in Indices,
             HandleRequestRoleList(g, a, i)
      PROVE  LuaPlayerHasServant'
  <2>1. a \notin Roles /\ \A r \in Roles : r \in Guids
    BY ConstantsAssumption DEF Guids
  <2>2. \A r \in Roles : online'[r] = online[r]
    BY <1>1, <2>1 DEF HandleRequestRoleList, TypeOK
  <2> QED BY <1>1, <2>2 DEF HandleRequestRoleList, LuaPlayerHasServant
<1>2. ASSUME UpdatePlayerServants PROVE LuaPlayerHasServant'
  <2> DEFINE gone == {s \in OnlineServants : IsGone(s)}
  <2>1. /\ \A k \in Guids : online'[k] = IF online[k] \in gone THEN None ELSE online[k]
        /\ \A r \in Roles : plr'[r] = IF LogsOut(r, gone) THEN None ELSE plr[r]
    BY <1>2 DEF UpdatePlayerServants
  <2> HIDE DEF gone
  <2> SUFFICES ASSUME OneRoleEach, NEW r \in Roles, plr'[r] # None
               PROVE  online'[r] = plr'[r]
    BY DEF LuaPlayerHasServant, OneRoleEach
  <2>2. r \in Guids /\ plr'[r] = plr[r] /\ ~LogsOut(r, gone) /\ online[r] = plr[r]
    BY <2>1 DEF LuaPlayerHasServant, Guids
  <2>3. svt[online[r]].guid = r
    BY <2>1, <2>2 DEF Sessions, OnlineKeyed
  <2>4. online[r] \notin gone
    BY <2>1, <2>2, <2>3 DEF LogsOut
  <2> QED BY <2>1, <2>2, <2>4
<1>3. ASSUME NEW k \in Guids, NEW e \in Roles, NEW loads \in BOOLEAN, EnterGame(k, e, loads)
      PROVE  LuaPlayerHasServant'
  <2> SUFFICES ASSUME OneRoleEach, NEW r \in Roles, plr'[r] # None
               PROVE  online'[r] = plr'[r]
    BY DEF LuaPlayerHasServant, OneRoleEach
  <2>1. /\ online[k] # None /\ e \in RolesOf(svt[online[k]].acct) /\ e \in Guids /\ r \in Guids
        /\ online' = [online EXCEPT ![k] = None, ![e] = online[k]]
        /\ plr' \in {plr, [plr EXCEPT ![e] = online[k]]}
    BY <1>3 DEF EnterGame, Guids
  <2>2. e \in roles /\ AccountOf[e] = svt[online[k]].acct
    BY <2>1 DEF RolesOf
  <2>3. online[e] \in {None, online[k]}
    BY <2>1, <2>2, ReAddFromSessions DEF Sessions, ReAddAssertion
  <2>4. online'[e] = online[k]
    BY <2>1 DEF TypeOK
  <2>5. CASE r = e
    <3>1. plr'[r] \in {plr[r], online[k]}
      BY <2>1, <2>5 DEF TypeOK
    <3>2. plr'[r] = plr[r] => online[e] = plr[r]
      BY <2>5 DEF LuaPlayerHasServant
    <3> QED BY <2>3, <2>4, <2>5, <3>1, <3>2
  <2>6. CASE r # e
    <3>1. plr'[r] = plr[r] /\ online[r] = plr[r]
      BY <2>1, <2>6 DEF LuaPlayerHasServant, TypeOK
    <3>2. k # r
      <4> SUFFICES ASSUME k = r PROVE FALSE
        OBVIOUS
      <4>1. AccountOf[r] = svt[online[k]].acct
        BY <2>1 DEF Sessions, OnlineKeyed
      <4> QED BY <2>2, <2>6, <4>1 DEF OneRoleEach
    <3> QED BY <2>1, <2>6, <3>1, <3>2 DEF TypeOK
  <2> QED BY <2>5, <2>6
<1>4. ASSUME QueueAdd PROVE LuaPlayerHasServant'
  <2>1. QueueHead \in Pending
    BY <1>4, PopHead DEF QueueAdd, AddHasHead, Sessions
  <2>2. svt[QueueHead].guid \in Accounts
    BY <2>1 DEF Sessions, UsedRecords, Used
  <2>3. \A r \in Roles : online'[r] = online[r]
    BY <1>4, <2>2, ConstantsAssumption DEF QueueAdd, TypeOK, Guids
  <2> QED BY <1>4, <2>3 DEF QueueAdd, LuaPlayerHasServant
<1>5. ASSUME ~ \E g \in Gates, a \in Accounts, i \in Indices : HandleRequestRoleList(g, a, i),
             ~UpdatePlayerServants, ~QueueAdd,
             ~ \E k \in Guids, r \in Roles, loads \in BOOLEAN : EnterGame(k, r, loads)
      PROVE  LuaPlayerHasServant'
  <2>1. UNCHANGED <<online, plr>>
    BY <1>5
    DEF Next, Recv, Play, MainLoop, Network, HandleCloseServantRequest,
        HandleChangeSceneServerNotice, HandleEnterSceneNotice, HandleSavePlayerDataReq, EndRecv,
        RoleCreate, EndPlay, QueueDrop, QueueKeep, QueueRefuse, QueueCheck, EndQueue,
        GateClosing, GateOnDisconnect, GateConnect, Tick, vars
  <2> QED BY <2>1, SameLuaPlayers
<1> QED BY <1>1, <1>2, <1>3, <1>4, <1>5

\* A loaded LuaPlayer's servant is online under the role, when no account has
\* two roles (EnterGame, LogoutPlayer).
THEOREM LuaPlayerHasServantHolds == Spec => []LuaPlayerHasServant
<1>1. Init => LuaPlayerHasServant
  BY DEF Init, LuaPlayerHasServant
<1>2. SessionInv /\ LuaPlayerHasServant /\ [Next]_vars => LuaPlayerHasServant'
  BY NextLuaPlayers
<1> QED BY <1>1, <1>2, SpecSessionInv, PTL DEF Spec

LEMMA NextOnlineFlags ==
  ASSUME SessionInv, OnlineFlagCleared, [Next]_vars
  PROVE  OnlineFlagCleared'
<1> USE DEF SessionInv, TypeInv
<1>1. ASSUME NEW g \in Gates, NEW k \in Guids, NEW i \in Indices, NEW direct \in BOOLEAN,
             HandleCloseServantRequest(g, k, i, direct)
      PROVE  OnlineFlagCleared'
  <2>1. (\A r \in Roles : flag'[r] \in {flag[r], 0}) /\ UNCHANGED <<plr, saved>>
    BY <1>1 DEF HandleCloseServantRequest, InvalidServant, TypeOK
  <2> QED BY <2>1 DEF OnlineFlagCleared
<1>2. ASSUME NEW e \in Roles, NEW i \in Indices, HandleSavePlayerDataReq(e, i)
      PROVE  OnlineFlagCleared'
  <2>1. /\ e \in Guids /\ online[e] # None /\ svt[online[e]].idx = i
        /\ saved' = [saved EXCEPT ![e] = TRUE] /\ plr' = plr
        /\ InvalidServant(e, i, None, TRUE)
    BY <1>2 DEF HandleSavePlayerDataReq, Guids
  <2>2. svt[online[e]].guid = e
    BY <2>1 DEF Sessions, OnlineKeyed
  <2>3. flag' = [flag EXCEPT ![e] = 0]
    BY <2>1, <2>2 DEF InvalidServant
  <2> QED BY <2>1, <2>3 DEF OnlineFlagCleared, TypeOK
<1>3. ASSUME UpdatePlayerServants PROVE OnlineFlagCleared'
  <2> DEFINE gone == {s \in OnlineServants : IsGone(s)}
  <2>1. ASSUME NEW r \in Roles, LogsOut(r, gone), flag'[r] = 1 PROVE FALSE
    <3>1. flag'[r] = IF saved[r] THEN flag[r] ELSE 0
      BY <1>3, <2>1 DEF UpdatePlayerServants, LogoutFlag
    <3>2. saved[r] /\ flag[r] = 1
      BY <2>1, <3>1
    <3> QED BY <3>2 DEF OnlineFlagCleared
  <2>2. ASSUME NEW r \in Roles, ~LogsOut(r, gone)
        PROVE  flag'[r] = flag[r] /\ plr'[r] = plr[r] /\ saved'[r] = saved[r]
    BY <1>3, <2>2 DEF UpdatePlayerServants
  <2> HIDE DEF gone
  <2> QED BY <2>1, <2>2 DEF OnlineFlagCleared
<1>4. ASSUME NEW k \in Guids, NEW e \in Roles, NEW loads \in BOOLEAN, EnterGame(k, e, loads)
      PROVE  OnlineFlagCleared'
  <2>1. \A r \in Roles \ {e} : flag'[r] = flag[r] /\ plr'[r] = plr[r] /\ saved'[r] = saved[r]
    BY <1>4 DEF EnterGame, TypeOK
  <2>2. online[k] # None
    BY <1>4 DEF EnterGame
  <2>3. \/ plr'[e] = online[k] /\ saved'[e] = FALSE
        \/ UNCHANGED <<plr, saved, flag>>
    BY <1>4 DEF EnterGame, TypeOK
  <2> QED BY <2>1, <2>2, <2>3 DEF OnlineFlagCleared
<1>5. ASSUME ~ \E g \in Gates, k \in Guids, i \in Indices, direct \in BOOLEAN :
                 HandleCloseServantRequest(g, k, i, direct),
             ~ \E r \in Roles, i \in Indices : HandleSavePlayerDataReq(r, i),
             ~UpdatePlayerServants,
             ~ \E k \in Guids, r \in Roles, loads \in BOOLEAN : EnterGame(k, r, loads)
      PROVE  OnlineFlagCleared'
  <2>1. UNCHANGED <<plr, saved, flag>>
    BY <1>5
    DEF Next, Recv, Play, MainLoop, Network, HandleRequestRoleList,
        HandleChangeSceneServerNotice, HandleEnterSceneNotice, EndRecv,
        RoleCreate, EndPlay, QueueDrop, QueueKeep, QueueRefuse, QueueCheck, QueueAdd, EndQueue,
        GateClosing, GateOnDisconnect, GateConnect, Tick, vars
  <2> QED BY <2>1 DEF OnlineFlagCleared
<1> QED BY <1>1, <1>2, <1>3, <1>4, <1>5

\* A role that is not loaded, or whose data the scene has saved for the last
\* time, is offline in the database (InvalidServant, Logout, EnterGame).
THEOREM OnlineFlagClearedHolds == Spec => []OnlineFlagCleared
<1>1. Init => OnlineFlagCleared
  BY DEF Init, OnlineFlagCleared
<1>2. SessionInv /\ OnlineFlagCleared /\ [Next]_vars => OnlineFlagCleared'
  BY NextOnlineFlags
<1> QED BY <1>1, <1>2, SpecSessionInv, PTL DEF Spec

-----------------------------------------------------------------------------
(* What each step does to the lists *)

\* A step that moves no servant.
LEMMA SameMoves ==
  ASSUME UNCHANGED <<online, queue, kept>>
  PROVE  /\ OnlineServants' = OnlineServants /\ Pending' = Pending
         /\ Elems(queue)' = Elems(queue) /\ Elems(kept)' = Elems(kept)
BY DEF OnlineServants, Pending, Elems

\* A login takes a free servant, which goes online if the account is free.
LEMMA RequestMoves ==
  ASSUME SessionInv, NEW g \in Gates, NEW a \in Accounts, NEW i \in Indices,
         HandleRequestRoleList(g, a, i)
  PROVE  \E s \in Servants :
           /\ s \notin Used
           /\ svt'[s].acct = a /\ svt'[s].sock = g /\ svt'[s].wait = NotWaiting
           /\ Elems(kept)' = Elems(kept)
           /\ \/ /\ \A t \in OnlineServants : svt[t].acct # a
                 /\ OnlineServants' = OnlineServants \cup {s}
                 /\ Elems(queue)' = Elems(queue)
                 /\ \A t \in Servants \ {s} : svt'[t] = svt[t]
              \/ /\ \E t \in OnlineServants : svt[t].acct = a
                 /\ OnlineServants' = OnlineServants
                 /\ Elems(queue)' = Elems(queue) \cup {s}
                 /\ \A t \in Servants \ {s} :
                      \/ svt'[t] = svt[t]
                      \/ t \in OnlineServants /\ svt'[t] = DisConnect(svt[t])
<1> USE DEF SessionInv, TypeInv
<1> DEFINE old == FindServant(a)
           new == NewServant(a, i, g)
<1>1. PICK s \in Servants :
        /\ svt[s] = Blank
        /\ IF old = None
             THEN /\ online' = [online EXCEPT ![a] = s]
                  /\ svt' = [svt EXCEPT ![s] = FillRoleListInfo(new)]
                  /\ UNCHANGED queue
             ELSE /\ queue' = Append(queue, s)
                  /\ svt' = [svt EXCEPT
                        ![old] = IF old # None /\ (svt[old].sock # g \/ ~IsWaitLastData(old))
                                   THEN DisConnect(@) ELSE @,
                        ![s] = [new EXCEPT !.fresh = TRUE]]
                  /\ UNCHANGED online
  BY DEF HandleRequestRoleList
<1>2. s \notin Used /\ s # None
  BY <1>1, UsedType DEF Sessions, PoolAccounted, Used
<1>3. ASSUME NEW x \in {FillRoleListInfo(new), [new EXCEPT !.fresh = TRUE]}
      PROVE  x.acct = a /\ x.sock = g /\ x.wait = NotWaiting
  BY DEF NewServant, FillRoleListInfo, Blank
<1>4. Elems(kept)' = Elems(kept)
  BY DEF HandleRequestRoleList, Elems
<1>5. CASE old = None
  <2>1. svt' = [svt EXCEPT ![s] = FillRoleListInfo(new)] /\ online' = [online EXCEPT ![a] = s]
        /\ queue' = queue
    BY <1>1, <1>5
  <2>2. \A t \in OnlineServants : svt[t].acct # a
    BY <1>5, FindServantType
  <2>3. a \in Guids /\ a \notin Roles
    BY ConstantsAssumption DEF Guids
  <2>4. online[a] = None
    <3> SUFFICES ASSUME online[a] # None PROVE FALSE
      OBVIOUS
    <3>1. online[a] \in OnlineServants /\ svt[online[a]].acct = a
      BY <2>3, UsedType DEF Sessions, OnlineKeyed
    <3> QED BY <2>2, <3>1
  <2>5. \A k \in Guids : online'[k] = IF k = a THEN s ELSE online[k]
    BY <2>1 DEF TypeOK
  <2>6. OnlineServants' = OnlineServants \cup {s}
    BY <1>2, <2>3, <2>4, <2>5 DEF OnlineServants
  <2>7. Elems(queue)' = Elems(queue) /\ \A t \in Servants \ {s} : svt'[t] = svt[t]
    BY <2>1 DEF Elems, TypeOK
  <2>8. svt'[s] = FillRoleListInfo(new)
    BY <2>1 DEF TypeOK
  <2> HIDE DEF new, old
  <2>9. svt'[s].acct = a /\ svt'[s].sock = g /\ svt'[s].wait = NotWaiting
    BY <1>3, <2>8
  <2> QED BY <1>2, <1>4, <2>2, <2>6, <2>7, <2>9
<1>6. CASE old # None
  <2>1. old \in OnlineServants /\ old \in Servants /\ svt[old].acct = a
    BY <1>6, FindServantType, UsedType
  <2>2. OnlineServants' = OnlineServants
    BY <1>1, <1>6 DEF OnlineServants
  <2>3. Elems(queue)' = Elems(queue) \cup {s}
    <3>1. queue' = Append(queue, s)
      BY <1>1, <1>6
    <3> QED BY <3>1, ElemsAppend DEF TypeOK
  <2>4. svt'[s] = [new EXCEPT !.fresh = TRUE]
    BY <1>1, <1>6 DEF TypeOK
  <2>5. \A t \in Servants \ {s} :
          \/ svt'[t] = svt[t]
          \/ t \in OnlineServants /\ svt'[t] = DisConnect(svt[t])
    BY <1>1, <1>6, <2>1 DEF TypeOK
  <2> HIDE DEF new, old
  <2> QED BY <1>2, <1>3, <1>4, <2>1, <2>2, <2>3, <2>4, <2>5
<1> QED BY <1>5, <1>6

\* The servants that have lost their socket or waited too long go offline.
LEMMA UpdateMoves ==
  ASSUME SessionInv, UpdatePlayerServants
  PROVE  /\ OnlineServants' = {s \in OnlineServants : ~IsGone(s)}
         /\ Pending' = Pending
         /\ Elems(queue)' = Elems(queue) /\ Elems(kept)' = Elems(kept)
         /\ \A t \in Servants : t \notin OnlineServants \/ ~IsGone(t) => svt'[t] = svt[t]
<1> DEFINE gone == {s \in OnlineServants : IsGone(s)}
<1>1. /\ online' = [k \in Guids |-> IF online[k] \in gone THEN None ELSE online[k]]
      /\ svt' = [s \in Servants |-> IF s \in gone THEN gcPlayerServant(svt[s]) ELSE svt[s]]
      /\ UNCHANGED <<queue, kept>>
  BY DEF UpdatePlayerServants
<1>2. OnlineServants' = OnlineServants \ gone
  <2>1. \A s : s \in gone => s \in OnlineServants
    OBVIOUS
  <2> HIDE DEF gone
  <2> QED BY <1>1, <2>1 DEF OnlineServants
<1>3. Pending' = Pending /\ Elems(queue)' = Elems(queue) /\ Elems(kept)' = Elems(kept)
  BY <1>1 DEF Pending, Elems
<1> QED BY <1>1, <1>2, <1>3

\* A servant that enters the game stays online.
LEMMA EnterMoves ==
  ASSUME SessionInv, NEW k \in Guids, NEW r \in Roles, NEW loads \in BOOLEAN,
         EnterGame(k, r, loads)
  PROVE  /\ OnlineServants' = OnlineServants /\ Pending' = Pending
         /\ Elems(queue)' = Elems(queue) /\ Elems(kept)' = Elems(kept)
         /\ \A t \in Servants : /\ svt'[t].acct = svt[t].acct
                                /\ svt'[t].sock = svt[t].sock
                                /\ svt'[t].wait = svt[t].wait
<1> USE DEF SessionInv, TypeInv
<1> DEFINE s == online[k]
<1>1. /\ s # None /\ r \in RolesOf(svt[s].acct)
      /\ online' = [online EXCEPT ![k] = None, ![r] = s]
      /\ svt' = [svt EXCEPT ![s] = [@ EXCEPT !.guid = r]]
      /\ UNCHANGED <<queue, kept>>
  BY DEF EnterGame, ResetCurPlayerGUID
<1>2. s \in Servants /\ r \in Guids /\ AccountOf[r] = svt[s].acct /\ r \in roles
  BY <1>1, UsedType DEF RolesOf, Guids
<1>3. online[r] \in {None, s}
  BY <1>1, <1>2, ReAddFromSessions DEF Sessions, ReAddAssertion
<1> HIDE DEF s
<1>4. \A j \in Guids : online'[j] = IF j = r THEN s ELSE IF j = k THEN None ELSE online[j]
  BY <1>1, <1>2 DEF TypeOK
<1>5. OnlineServants' = OnlineServants
  <2>1. OnlineServants' \subseteq OnlineServants
    BY <1>1, <1>2, <1>4 DEF OnlineServants, s
  <2>2. ASSUME NEW t \in OnlineServants PROVE t \in OnlineServants'
    <3>1. PICK j \in Guids : online[j] = t /\ t # None
      BY DEF OnlineServants
    <3>2. CASE t = s
      BY <1>1, <1>2, <1>4, <3>2 DEF OnlineServants
    <3>3. CASE t # s
      <4>1. j # r /\ j # k
        BY <1>3, <3>1, <3>3 DEF s
      <4> QED BY <1>4, <3>1, <4>1 DEF OnlineServants
    <3> QED BY <3>2, <3>3
  <2> QED BY <2>1, <2>2
<1>6. Pending' = Pending /\ Elems(queue)' = Elems(queue) /\ Elems(kept)' = Elems(kept)
  BY <1>1 DEF Pending, Elems
<1>7. \A t \in Servants : svt[t] \in ServantRecords
  BY DEF TypeOK
<1>8. \A t \in Servants : svt'[t] = IF t = s THEN [svt[t] EXCEPT !.guid = r] ELSE svt[t]
  BY <1>1, <1>2 DEF TypeOK
<1> QED BY <1>5, <1>6, <1>7, <1>8 DEF ServantRecords

\* The head of the pending list leaves it.
LEMMA HeadMoves ==
  ASSUME SessionInv, QueueDrop \/ QueueRefuse
  PROVE  /\ QueueHead \in Elems(queue) /\ QueueHead \in Servants /\ queue # <<>>
         /\ QueueHead \notin Elems(kept)
         /\ OnlineServants' = OnlineServants
         /\ Elems(queue)' = Elems(queue) \ {QueueHead} /\ Elems(kept)' = Elems(kept)
         /\ \A t \in Servants \ {QueueHead} : svt'[t] = svt[t]
<1> USE DEF SessionInv, TypeInv
<1>1. /\ queue # <<>> /\ queue' = Tail(queue) /\ UNCHANGED <<online, kept>>
      /\ \E x \in {Blank, Leaked} : svt' = [svt EXCEPT ![QueueHead] = x]
  BY DEF QueueDrop, QueueRefuse, gcPlayerServant
<1>2. /\ QueueHead \in Servants /\ Elems(queue) = {QueueHead} \cup Elems(Tail(queue))
      /\ QueueHead \notin Elems(Tail(queue)) /\ QueueHead \notin Elems(kept)
  BY <1>1, PopHead DEF Sessions
<1>3. OnlineServants' = OnlineServants /\ Elems(kept)' = Elems(kept)
  BY <1>1 DEF OnlineServants, Elems
<1>4. Elems(queue)' = Elems(queue) \ {QueueHead}
  BY <1>1, <1>2
<1>5. \A t \in Servants \ {QueueHead} : svt'[t] = svt[t]
  BY <1>1, <1>2 DEF TypeOK
<1> QED BY <1>1, <1>2, <1>3, <1>4, <1>5

\* The head of the pending list stays for the next pass.
LEMMA KeepMoves ==
  ASSUME SessionInv, QueueKeep
  PROVE  /\ QueueHead \in Elems(queue) /\ QueueHead \in Servants
         /\ OnlineServants' = OnlineServants /\ Pending' = Pending
         /\ Elems(queue)' = Elems(queue) \ {QueueHead}
         /\ Elems(kept)' = Elems(kept) \cup {QueueHead}
<1> USE DEF SessionInv, TypeInv
<1>1. /\ queue # <<>> /\ queue' = Tail(queue) /\ kept' = Append(kept, QueueHead)
      /\ UNCHANGED online
  BY DEF QueueKeep
<1>2. /\ QueueHead \in Servants /\ Elems(queue) = {QueueHead} \cup Elems(Tail(queue))
      /\ QueueHead \notin Elems(Tail(queue))
  BY <1>1, PopHead DEF Sessions
<1>3. OnlineServants' = OnlineServants
  BY <1>1 DEF OnlineServants
<1>4. Elems(kept)' = Elems(kept) \cup {QueueHead} /\ Elems(queue)' = Elems(Tail(queue))
  BY <1>1, <1>2, ElemsAppend DEF TypeOK
<1> QED BY <1>2, <1>3, <1>4 DEF Pending

\* The head of the pending list goes online.
LEMMA AddMoves ==
  ASSUME SessionInv, QueueAdd
  PROVE  /\ QueueHead \in Elems(queue) /\ QueueHead \in Servants
         /\ QueueHead \notin OnlineServants /\ QueueHead \notin Elems(kept)
         /\ \A t \in OnlineServants : svt[t].acct # svt[QueueHead].acct
         /\ OnlineServants' = OnlineServants \cup {QueueHead}
         /\ Elems(queue)' = Elems(queue) \ {QueueHead} /\ Elems(kept)' = Elems(kept)
         /\ \A t \in Servants : /\ svt'[t].acct = svt[t].acct
                                /\ svt'[t].sock = svt[t].sock
                                /\ svt'[t].wait = svt[t].wait
<1> USE DEF SessionInv, TypeInv
<1> DEFINE h == QueueHead
           a == svt[QueueHead].acct
<1>1. /\ queue # <<>> /\ queue' = Tail(queue) /\ pc = "add" /\ kept' = kept
      /\ online' = [online EXCEPT ![svt[h].guid] = h]
      /\ svt' = [svt EXCEPT ![h] = FillRoleListInfo(@)]
  BY DEF QueueAdd, AddHasHead
<1>2. /\ h \in Servants /\ h # None /\ h \in Pending /\ h \notin OnlineServants
      /\ Elems(queue) = {h} \cup Elems(Tail(queue))
      /\ h \notin Elems(Tail(queue)) /\ h \notin Elems(kept)
  BY <1>1, PopHead, UsedType DEF Sessions
<1>3. svt[h].guid = a /\ a \in Guids /\ a \notin Roles /\ a \in Accounts
  BY <1>2, ConstantsAssumption DEF Sessions, UsedRecords, Used, Guids
<1>4. \A t \in OnlineServants : svt[t].acct # a
  BY <1>1 DEF Sessions, AddIsFree
<1>5. online[a] = None
  <2> SUFFICES ASSUME online[a] # None PROVE FALSE
    OBVIOUS
  <2>1. online[a] \in OnlineServants /\ svt[online[a]].acct = a
    BY <1>3, UsedType DEF Sessions, OnlineKeyed
  <2> QED BY <1>4, <2>1
<1>6. \A t \in Servants : svt[t] \in ServantRecords
  BY DEF TypeOK
<1>7. \A t \in Servants : svt'[t] = IF t = h THEN FillRoleListInfo(svt[t]) ELSE svt[t]
  BY <1>1, <1>2 DEF TypeOK
<1>8. \A t \in Servants : /\ svt'[t].acct = svt[t].acct
                          /\ svt'[t].sock = svt[t].sock
                          /\ svt'[t].wait = svt[t].wait
  BY <1>6, <1>7 DEF FillRoleListInfo, ServantRecords
<1> HIDE DEF h, a
<1>9. \A k \in Guids : online'[k] = IF k = a THEN h ELSE online[k]
  BY <1>1, <1>3 DEF TypeOK
<1>10. OnlineServants' = OnlineServants \cup {h}
  BY <1>2, <1>3, <1>5, <1>9 DEF OnlineServants
<1>11. Elems(kept)' = Elems(kept) /\ Elems(queue)' = Elems(queue) \ {h}
  BY <1>1, <1>2
<1> QED BY <1>2, <1>4, <1>8, <1>10, <1>11 DEF h, a

\* The servants kept by a pass are the pending list of the next one.
LEMMA EndQueueMoves ==
  ASSUME EndQueue
  PROVE  /\ OnlineServants' = OnlineServants /\ Pending' = Pending
         /\ Elems(queue)' = Elems(kept) /\ Elems(kept)' = {}
<1>1. queue = <<>> /\ queue' = kept /\ kept' = <<>> /\ UNCHANGED online
  BY DEF EndQueue
<1>2. Elems(queue) = {} /\ Elems(queue)' = Elems(kept) /\ Elems(kept)' = {}
  BY <1>1, ElemsEmpty
<1> QED BY <1>1, <1>2 DEF OnlineServants, Pending

\* InvalidServant takes sockets away and starts waits.
LEMMA InvalidMoves ==
  ASSUME SessionInv, NEW k \in Guids, NEW i \in Indices, NEW from, NEW direct \in BOOLEAN,
         InvalidServant(k, i, from, direct), UNCHANGED <<online, queue, kept>>
  PROVE  \A t \in Servants :
           \/ svt'[t] = svt[t]
           \/ svt'[t] = [svt[t] EXCEPT !.sock = None]
           \/ t \in OnlineServants /\ svt'[t] = SetWaitLastData(svt[t])
<1>1. online[k] # None => online[k] \in OnlineServants
  BY UsedType DEF SessionInv, TypeInv
<1> QED BY <1>1 DEF InvalidServant

-----------------------------------------------------------------------------
(* The refinement of AccountLogin *)

HolderMap == [a \in Accounts |-> Holder(a)]
WaitingMap == [a \in Accounts |-> {s \in Pending : svt[s].acct = a}]

\* An account's holder is the one servant of it that is online.
HolderIsOnline ==
  /\ \A a \in Accounts : Holder(a) \in OnlineServants \cup {None}
  /\ \A a \in Accounts, s \in Servants :
       Holder(a) = s <=> s \in OnlineServants /\ svt[s].acct = a

LEMMA HolderUnique == SessionInv => HolderIsOnline
<1> SUFFICES ASSUME SessionInv PROVE HolderIsOnline
  OBVIOUS
<1> USE DEF SessionInv, TypeInv
<1>1. OnlineServants \subseteq Servants /\ None \notin Servants
  BY UsedType
<1>2. ASSUME NEW a \in Accounts
      PROVE  /\ Holder(a) \in OnlineServants \cup {None}
             /\ \A s \in Servants : Holder(a) = s <=> s \in OnlineServants /\ svt[s].acct = a
  <2>1. CASE \E t \in OnlineServants : svt[t].acct = a
    <3>1. Holder(a) \in OnlineServants /\ svt[Holder(a)].acct = a
      BY <2>1 DEF Holder
    <3> QED BY <1>1, <3>1 DEF Sessions, OneServantPerAccount
  <2>2. CASE ~ \E t \in OnlineServants : svt[t].acct = a
    BY <1>1, <2>2 DEF Holder
  <2> QED BY <2>1, <2>2
<1> QED BY <1>2 DEF HolderIsOnline

\* The servants that hold an account or wait for one are those in use.
LEMMA InUseIsUsed ==
  ASSUME SessionInv
  PROVE  /\ {HolderMap[a] : a \in Accounts} \subseteq OnlineServants \cup {None}
         /\ UNION {WaitingMap[a] : a \in Accounts} \subseteq Pending
BY HolderUnique DEF HolderMap, WaitingMap, HolderIsOnline

\* When nobody goes online or leaves, and nobody changes its account, every
\* account keeps its holder.
LEMMA SameHolders ==
  ASSUME SessionInv, SessionInv', OnlineServants' = OnlineServants,
         \A s \in OnlineServants : svt'[s].acct = svt[s].acct
  PROVE  HolderMap' = HolderMap
<1>1. HolderIsOnline /\ HolderIsOnline'
  BY HolderUnique, PTL
<1>2. OnlineServants \subseteq Servants /\ None \notin Servants
  BY UsedType DEF SessionInv, TypeInv
<1>3. ASSUME NEW a \in Accounts PROVE Holder(a)' = Holder(a)
  <2>1. Holder(a)' \in OnlineServants \cup {None} /\ Holder(a) \in OnlineServants \cup {None}
    BY <1>1 DEF HolderIsOnline
  <2>2. \A s \in OnlineServants : Holder(a)' = s <=> Holder(a) = s
    BY <1>1, <1>2 DEF HolderIsOnline
  <2> QED BY <1>2, <2>1, <2>2
<1> QED BY <1>3 DEF HolderMap

\* When nobody joins or leaves the pending list, and nobody on it changes its
\* account, the same servants wait for each account.
LEMMA SameWaiting ==
  ASSUME Pending' = Pending, \A s \in Pending : svt'[s].acct = svt[s].acct
  PROVE  WaitingMap' = WaitingMap
BY DEF WaitingMap

\* A login holds the account or waits for it.
LEMMA RequestEntersOrWaits ==
  ASSUME SessionInv, SessionInv', NEW g \in Gates, NEW a \in Accounts, NEW i \in Indices,
         HandleRequestRoleList(g, a, i)
  PROVE  Login!LoginNext
<1> USE DEF SessionInv, TypeInv
<1>0. /\ HolderIsOnline /\ HolderIsOnline'
      /\ OnlineServants \subseteq Servants /\ Pending \subseteq Servants /\ None \notin Servants
  BY HolderUnique, UsedType, PTL
<1>1. PICK s \in Servants :
           /\ s \notin Used
           /\ svt'[s].acct = a /\ svt'[s].sock = g /\ svt'[s].wait = NotWaiting
           /\ Elems(kept)' = Elems(kept)
           /\ \/ /\ \A t \in OnlineServants : svt[t].acct # a
                 /\ OnlineServants' = OnlineServants \cup {s}
                 /\ Elems(queue)' = Elems(queue)
                 /\ \A t \in Servants \ {s} : svt'[t] = svt[t]
              \/ /\ \E t \in OnlineServants : svt[t].acct = a
                 /\ OnlineServants' = OnlineServants
                 /\ Elems(queue)' = Elems(queue) \cup {s}
                 /\ \A t \in Servants \ {s} :
                      \/ svt'[t] = svt[t]
                      \/ t \in OnlineServants /\ svt'[t] = DisConnect(svt[t])
  BY RequestMoves
<1>2. s \notin {HolderMap[b] : b \in Accounts} \cup UNION {WaitingMap[b] : b \in Accounts}
  BY <1>0, <1>1, InUseIsUsed DEF Used
<1>3. ASSUME NEW t \in Servants \ {s} PROVE svt'[t].acct = svt[t].acct
  <2>1. svt'[t] = svt[t] \/ svt'[t] = DisConnect(svt[t])
    BY <1>1
  <2>2. svt[t] \in ServantRecords
    BY DEF TypeOK
  <2> QED BY <2>1, <2>2 DEF DisConnect, SetWaitLastData, ServantRecords
<1>4. CASE \A t \in OnlineServants : svt[t].acct # a
  <2>1. /\ OnlineServants' = OnlineServants \cup {s} /\ Pending' = Pending
        /\ \A t \in Servants \ {s} : svt'[t] = svt[t]
    BY <1>1, <1>4 DEF Pending
  <2>2. HolderMap[a] = None
    BY <1>0, <1>4 DEF HolderMap, HolderIsOnline
  <2>3. HolderMap' = [HolderMap EXCEPT ![a] = s]
    <3>1. ASSUME NEW b \in Accounts PROVE Holder(b)' = IF b = a THEN s ELSE Holder(b)
      <4>1. Holder(a)' = s
        BY <1>0, <1>1, <2>1 DEF HolderIsOnline
      <4>2. CASE b # a
        <5>1. /\ Holder(b)' \in OnlineServants \cup {s, None}
              /\ Holder(b) \in OnlineServants \cup {None} /\ Holder(b)' # s
          BY <1>0, <1>1, <2>1, <4>2 DEF HolderIsOnline
        <5>2. \A t \in OnlineServants : Holder(b)' = t <=> Holder(b) = t
          BY <1>0, <1>1, <1>3, <2>1, <5>1 DEF HolderIsOnline, Used
        <5> QED BY <1>0, <4>2, <5>1, <5>2
      <4> QED BY <4>1, <4>2
    <3> QED BY <3>1 DEF HolderMap
  <2>4. WaitingMap' = WaitingMap
    BY <1>0, <1>1, <2>1, SameWaiting DEF Used
  <2>5. Login!Enter(a, s)
    BY <1>2, <2>2, <2>3, <2>4 DEF Login!Enter, Login!InUse, HolderMap, WaitingMap
  <2> QED BY <2>5 DEF Login!LoginNext
<1>5. CASE \E t \in OnlineServants : svt[t].acct = a
  <2>1. OnlineServants' = OnlineServants /\ Pending' = Pending \cup {s}
    BY <1>1, <1>5 DEF Pending
  <2>2. HolderMap[a] # None
    BY <1>0, <1>5 DEF HolderMap, HolderIsOnline
  <2>3. HolderMap' = HolderMap
    BY <1>0, <1>1, <1>3, <2>1, SameHolders DEF Used
  <2>4. WaitingMap' = [WaitingMap EXCEPT ![a] = @ \cup {s}]
    <3>1. \A t \in Pending : svt'[t].acct = svt[t].acct
      BY <1>0, <1>1, <1>3 DEF Used
    <3>2. ASSUME NEW b \in Accounts
          PROVE  {t \in Pending : svt[t].acct = b}' =
                   IF b = a THEN {t \in Pending : svt[t].acct = b} \cup {s}
                            ELSE {t \in Pending : svt[t].acct = b}
      BY <1>1, <2>1, <3>1
    <3> QED BY <3>2 DEF WaitingMap
  <2>5. Login!Wait(a, s)
    BY <1>2, <2>2, <2>3, <2>4 DEF Login!Wait, Login!InUse, HolderMap, WaitingMap
  <2> QED BY <2>5 DEF Login!LoginNext
<1> QED BY <1>4, <1>5

\* The servants that go offline give their accounts up together.
LEMMA UpdateLeaves ==
  ASSUME SessionInv, SessionInv', UpdatePlayerServants
  PROVE  Login!LoginNext
<1> USE DEF SessionInv, TypeInv
<1> DEFINE A == {a \in Accounts : Holder(a) # None /\ IsGone(Holder(a))}
<1>0. /\ HolderIsOnline /\ HolderIsOnline'
      /\ OnlineServants \subseteq Servants /\ Pending \subseteq Servants /\ None \notin Servants
      /\ OnlineServants \cap Pending = {}
  BY HolderUnique, UsedType, PTL DEF Sessions, PoolAccounted
<1>1. /\ OnlineServants' = {s \in OnlineServants : ~IsGone(s)} /\ Pending' = Pending
      /\ \A t \in Servants : t \notin OnlineServants \/ ~IsGone(t) => svt'[t] = svt[t]
  BY UpdateMoves
<1>2. HolderMap' = [a \in Accounts |-> IF a \in A THEN None ELSE HolderMap[a]]
  <2>1. ASSUME NEW a \in Accounts PROVE Holder(a)' = IF a \in A THEN None ELSE Holder(a)
    <3>1. /\ Holder(a)' \in OnlineServants' \cup {None}
          /\ Holder(a) \in OnlineServants \cup {None}
      BY <1>0 DEF HolderIsOnline
    <3>2. ASSUME NEW t \in OnlineServants
          PROVE  Holder(a)' = t <=> Holder(a) = t /\ ~IsGone(t)
      <4>1. Holder(a)' = t <=> t \in OnlineServants' /\ svt'[t].acct = a
        BY <1>0 DEF HolderIsOnline
      <4>2. Holder(a) = t <=> svt[t].acct = a
        BY <1>0 DEF HolderIsOnline
      <4>3. CASE IsGone(t)
        BY <1>1, <4>1, <4>3
      <4>4. CASE ~IsGone(t)
        BY <1>0, <1>1, <4>1, <4>2, <4>4
      <4> QED BY <4>3, <4>4
    <3>3. CASE a \in A
      BY <1>0, <1>1, <3>1, <3>2, <3>3
    <3>4. CASE a \notin A
      BY <1>0, <1>1, <3>1, <3>2, <3>4
    <3> QED BY <3>3, <3>4
  <2> HIDE DEF A
  <2> QED BY <2>1 DEF HolderMap
<1>3. WaitingMap' = WaitingMap
  BY <1>0, <1>1, SameWaiting
<1>4. A \in SUBSET Accounts /\ \A a \in A : HolderMap[a] # None
  BY DEF HolderMap
<1> HIDE DEF A
<1>5. Login!Leave(A)
  BY <1>2, <1>3, <1>4 DEF Login!Leave, HolderMap, WaitingMap
<1> QED BY <1>4, <1>5 DEF Login!LoginNext

\* A pending servant that is dropped or refused no longer waits.
LEMMA HeadLeavesDrops ==
  ASSUME SessionInv, SessionInv', QueueDrop \/ QueueRefuse
  PROVE  Login!LoginNext
<1> USE DEF SessionInv, TypeInv
<1>0. /\ OnlineServants \subseteq Servants /\ Pending \subseteq Servants
      /\ OnlineServants \cap Pending = {}
  BY UsedType DEF Sessions, PoolAccounted
<1>1. PICK h \in Servants :
        /\ h \in Pending /\ OnlineServants' = OnlineServants
        /\ Pending' = Pending \ {h} /\ \A t \in Servants \ {h} : svt'[t] = svt[t]
  BY HeadMoves DEF Pending
<1>2. PICK a \in Accounts : a = svt[h].acct
  BY <1>1 DEF Sessions, UsedRecords, Used
<1>3. HolderMap' = HolderMap
  BY <1>0, <1>1, SameHolders
<1>4. h \in WaitingMap[a] /\ WaitingMap' = [WaitingMap EXCEPT ![a] = @ \ {h}]
  <2>1. ASSUME NEW b \in Accounts
        PROVE  {t \in Pending : svt[t].acct = b}' =
                 IF b = a THEN {t \in Pending : svt[t].acct = b} \ {h}
                          ELSE {t \in Pending : svt[t].acct = b}
    <3>1. \A t \in Pending \ {h} : svt'[t].acct = svt[t].acct
      BY <1>0, <1>1
    <3> QED BY <1>1, <1>2, <3>1
  <2>2. h \in WaitingMap[a]
    BY <1>1, <1>2 DEF WaitingMap
  <2>3. WaitingMap' = [WaitingMap EXCEPT ![a] = @ \ {h}]
    BY <2>1 DEF WaitingMap
  <2> QED BY <2>2, <2>3
<1>5. Login!Drop(a, h)
  BY <1>3, <1>4 DEF Login!Drop, HolderMap, WaitingMap
<1> QED BY <1>5 DEF Login!LoginNext

\* A pending servant goes online when nobody holds its account.
LEMMA AddAdmits ==
  ASSUME SessionInv, SessionInv', QueueAdd
  PROVE  Login!LoginNext
<1> USE DEF SessionInv, TypeInv
<1>0. /\ HolderIsOnline /\ HolderIsOnline'
      /\ OnlineServants \subseteq Servants /\ Pending \subseteq Servants /\ None \notin Servants
  BY HolderUnique, UsedType, PTL
<1>1. PICK h \in Servants :
        /\ h \in Pending /\ h \notin OnlineServants
        /\ OnlineServants' = OnlineServants \cup {h} /\ Pending' = Pending \ {h}
        /\ \A t \in OnlineServants : svt[t].acct # svt[h].acct
        /\ \A t \in Servants : svt'[t].acct = svt[t].acct
  BY AddMoves DEF Pending
<1>2. PICK a \in Accounts : a = svt[h].acct
  BY <1>1 DEF Sessions, UsedRecords, Used
<1>3. HolderMap[a] = None
  BY <1>0, <1>1, <1>2 DEF HolderMap, HolderIsOnline
<1>4. HolderMap' = [HolderMap EXCEPT ![a] = h]
  <2>1. ASSUME NEW b \in Accounts PROVE Holder(b)' = IF b = a THEN h ELSE Holder(b)
    <3>1. Holder(a)' = h
      BY <1>0, <1>1, <1>2 DEF HolderIsOnline
    <3>2. CASE b # a
      <4>1. /\ Holder(b)' \in OnlineServants \cup {h, None}
            /\ Holder(b) \in OnlineServants \cup {None} /\ Holder(b)' # h
        BY <1>0, <1>1, <1>2, <3>2 DEF HolderIsOnline
      <4>2. \A t \in OnlineServants : Holder(b)' = t <=> Holder(b) = t
        BY <1>0, <1>1 DEF HolderIsOnline
      <4> QED BY <1>0, <3>2, <4>1, <4>2
    <3> QED BY <3>1, <3>2
  <2> QED BY <2>1 DEF HolderMap
<1>5. h \in WaitingMap[a] /\ WaitingMap' = [WaitingMap EXCEPT ![a] = @ \ {h}]
  <2>1. ASSUME NEW b \in Accounts
        PROVE  {t \in Pending : svt[t].acct = b}' =
                 IF b = a THEN {t \in Pending : svt[t].acct = b} \ {h}
                          ELSE {t \in Pending : svt[t].acct = b}
    BY <1>0, <1>1, <1>2
  <2>2. h \in WaitingMap[a]
    BY <1>1, <1>2 DEF WaitingMap
  <2>3. WaitingMap' = [WaitingMap EXCEPT ![a] = @ \ {h}]
    BY <2>1 DEF WaitingMap
  <2> QED BY <2>2, <2>3
<1>6. Login!Admit(a, h)
  BY <1>3, <1>4, <1>5 DEF Login!Admit, HolderMap, WaitingMap
<1> QED BY <1>6 DEF Login!LoginNext

\* Every other step leaves the holders and the waiting alone.
LEMMA OthersStutter ==
  ASSUME SessionInv, SessionInv', [Next]_vars,
         ~ \E g \in Gates, a \in Accounts, i \in Indices : HandleRequestRoleList(g, a, i),
         ~UpdatePlayerServants, ~QueueDrop, ~QueueRefuse, ~QueueAdd
  PROVE  HolderMap' = HolderMap /\ WaitingMap' = WaitingMap
<1> USE DEF SessionInv, TypeInv
<1>0. /\ OnlineServants \subseteq Servants /\ Pending \subseteq Servants
      /\ \A t \in Servants : svt[t] \in ServantRecords
  BY UsedType DEF TypeOK
<1> SUFFICES /\ OnlineServants' = OnlineServants /\ Pending' = Pending
             /\ \A t \in Servants : svt'[t].acct = svt[t].acct
  BY <1>0, SameHolders, SameWaiting
<1>1. ASSUME NEW k \in Guids, NEW r \in Roles, NEW loads \in BOOLEAN, EnterGame(k, r, loads)
      PROVE  /\ OnlineServants' = OnlineServants /\ Pending' = Pending
             /\ \A t \in Servants : svt'[t].acct = svt[t].acct
  BY <1>1, EnterMoves
<1>2. ASSUME QueueKeep
      PROVE  /\ OnlineServants' = OnlineServants /\ Pending' = Pending
             /\ \A t \in Servants : svt'[t].acct = svt[t].acct
  BY <1>2, KeepMoves DEF QueueKeep
<1>3. ASSUME EndQueue
      PROVE  /\ OnlineServants' = OnlineServants /\ Pending' = Pending
             /\ \A t \in Servants : svt'[t].acct = svt[t].acct
  BY <1>3, EndQueueMoves DEF EndQueue
<1>4. ASSUME UNCHANGED <<online, queue, kept>>,
             \A t \in Servants : svt'[t].acct = svt[t].acct
      PROVE  /\ OnlineServants' = OnlineServants /\ Pending' = Pending
             /\ \A t \in Servants : svt'[t].acct = svt[t].acct
  BY <1>4, SameMoves
<1>5. ASSUME NEW k \in Guids, NEW i \in Indices, NEW from, NEW direct \in BOOLEAN,
             InvalidServant(k, i, from, direct)
      PROVE  \A t \in Servants : svt'[t].acct = svt[t].acct
  BY <1>5, InvalidKeepsOwners
<1>6. ASSUME \/ \E g \in Gates, k \in Guids, i \in Indices, direct \in BOOLEAN :
                  HandleCloseServantRequest(g, k, i, direct)
             \/ \E r \in Roles, i \in Indices : HandleSavePlayerDataReq(r, i)
      PROVE  UNCHANGED <<online, queue, kept>> /\ \A t \in Servants : svt'[t].acct = svt[t].acct
  BY <1>5, <1>6 DEF HandleCloseServantRequest, HandleSavePlayerDataReq, Guids
<1>7. ASSUME \/ \E k \in Guids, late \in BOOLEAN : HandleChangeSceneServerNotice(k, late)
             \/ \E r \in Roles, n \in Scenes : HandleEnterSceneNotice(r, n)
      PROVE  UNCHANGED <<online, queue, kept>> /\ \A t \in Servants : svt'[t].acct = svt[t].acct
  <2>1. PICK s, n :
          svt' = [svt EXCEPT ![s].scene = n] /\ UNCHANGED <<online, queue, kept>>
    BY <1>7 DEF HandleChangeSceneServerNotice, HandleEnterSceneNotice, Guids
  <2>2. \A t \in Servants : svt'[t] \in {svt[t], [svt[t] EXCEPT !.scene = n]}
    BY <2>1 DEF TypeOK
  <2> QED BY <1>0, <2>1, <2>2 DEF ServantRecords
<1>8. ASSUME NEW g \in Gates, GateOnDisconnect(g)
      PROVE  UNCHANGED <<online, queue, kept>> /\ \A t \in Servants : svt'[t].acct = svt[t].acct
  <2>1. \A t \in Servants : svt'[t] \in {svt[t], SetWaitLastData(svt[t])}
    BY <1>8 DEF GateOnDisconnect
  <2> QED BY <1>0, <1>8, <2>1 DEF GateOnDisconnect, SetWaitLastData, ServantRecords
<1>9. ASSUME Tick
      PROVE  UNCHANGED <<online, queue, kept>> /\ \A t \in Servants : svt'[t].acct = svt[t].acct
  BY <1>0, <1>9 DEF Tick, ServantRecords
<1>10. ASSUME \/ EndRecv \/ EndPlay \/ QueueCheck \/ UNCHANGED vars
              \/ \E k \in Guids, r \in Roles : RoleCreate(k, r)
              \/ \E g \in Gates : GateClosing(g) \/ GateConnect(g)
       PROVE  UNCHANGED <<online, queue, kept, svt>>
  BY <1>10 DEF EndRecv, EndPlay, QueueCheck, RoleCreate, GateClosing, GateConnect, vars
<1> QED
  BY <1>1, <1>2, <1>3, <1>4, <1>6, <1>7, <1>8, <1>9, <1>10
  DEF Next, Recv, Play, MainLoop, Network

LEMMA NextLogin == SessionInv /\ SessionInv' /\ [Next]_vars => [Login!LoginNext]_Login!loginVars
<1> SUFFICES ASSUME SessionInv, SessionInv', [Next]_vars
             PROVE  Login!LoginNext \/ UNCHANGED <<HolderMap, WaitingMap>>
  BY DEF Login!loginVars, HolderMap, WaitingMap
<1> QED
  BY RequestEntersOrWaits, UpdateLeaves, HeadLeavesDrops, AddAdmits, OthersStutter

LEMMA InitLogin == Init => Login!LoginInit
<1> SUFFICES ASSUME Init PROVE Login!LoginInit
  OBVIOUS
<1>1. OnlineServants = {} /\ Pending = {}
  BY ElemsEmpty DEF Init, OnlineServants, Pending
<1> QED BY <1>1 DEF Login!LoginInit, Holder

\* The servants implement AccountLogin, for any number of gateways, accounts,
\* roles and servants: one holder per account, and a login that waits takes over
\* only after the holder has left.
THEOREM OneLoginAtATimeHolds == Spec => OneLoginAtATime
<1>1. SessionInv /\ [Next]_vars /\ SessionInv' => [Login!LoginNext]_Login!loginVars
  BY NextLogin
<1> QED BY <1>1, InitLogin, SpecSessionInv, PTL DEF Spec, OneLoginAtATime, Login!LoginSpec

-----------------------------------------------------------------------------
(* The sockets of the servants *)

\* One when a second has passed during this turn of the main loop.
Late == IF ticked THEN 1 ELSE 0

\* If the gateway of servant s is down, it has been for at most n seconds.
DownBy(s, n) ==
  svt[s].sock # None /\ gate[svt[s].sock].conn = "down" => gate[svt[s].sock].age <= n

\* A pending servant whose gateway is down does not survive the pass after next.
PendingAges ==
  /\ \A s \in Pending : svt[s].wait = NotWaiting
  /\ \A s \in Elems(queue) : DownBy(s, 1 + Late)
  /\ \A s \in Elems(kept) : DownBy(s, Late)

\* An online servant whose gateway is down has waited as long as that, and has
\* not waited longer than the limit at its last turn.
OnlineAges ==
  \A s \in OnlineServants :
    /\ DownBy(s, svt[s].wait)
    /\ svt[s].wait <= WaitLimit + Late + IF pc \in {"recv", "update"} THEN 1 ELSE 0

\* No gateway goes down between the check of a pending servant and its admission.
AddIsConnected ==
  pc = "add" => svt[QueueHead].sock # None /\ gate[svt[QueueHead].sock].conn # "down"

SocketAges == PendingAges /\ OnlineAges /\ AddIsConnected

\* The types the ages need.
LEMMA AgeTypes ==
  ASSUME TypeOK
  PROVE  /\ \A s \in Servants : /\ svt[s].wait \in Int /\ svt[s].wait >= -1
                                /\ svt[s].sock \in Gates \cup {None}
         /\ \A g \in Gates : gate[g].age \in Nat
         /\ Late \in {0, 1}
         /\ WaitLimit \in Nat /\ None \notin Gates
         /\ OnlineServants \subseteq Servants /\ Pending \subseteq Servants
         /\ Elems(queue) \subseteq Servants /\ Elems(kept) \subseteq Servants
<1>1. \A s \in Servants : svt[s] \in ServantRecords
  BY DEF TypeOK
<1>2. \A s \in Servants : svt[s].wait \in WaitAges /\ svt[s].sock \in Gates \cup {None}
  BY <1>1 DEF ServantRecords
<1>3. WaitAges \subseteq Int /\ \A w \in WaitAges : w >= -1
  BY ConstantsAssumption DEF WaitAges, NotWaiting
<1>4. \A g \in Gates : gate[g].age \in Nat
  BY DEF TypeOK
<1> QED
  BY <1>2, <1>3, <1>4, ConstantsAssumption, UsedType, ElemsType DEF Late, TypeOK

\* What the waiting of a servant's record does.
LEMMA WaitRecords ==
  ASSUME NEW rec \in ServantRecords
  PROVE  /\ SetWaitLastData(rec).sock = rec.sock
         /\ SetWaitLastData(rec).wait = IF rec.wait = NotWaiting THEN 0 ELSE rec.wait
         /\ DisConnect(rec).sock \in {rec.sock, None}
         /\ DisConnect(rec).wait \in {rec.wait, SetWaitLastData(rec).wait}
BY DEF SetWaitLastData, DisConnect, ServantRecords

\* A step of the main loop that takes servants off the lists, takes sockets
\* away and starts waits keeps the ages.
LEMMA SameAges ==
  ASSUME TypeInv, TypeInv', SocketAges, UNCHANGED <<gate, ticked>>,
         pc \in {"recv", "update"} => pc' \in {"recv", "update"},
         pc' = "add" => pc = "add" /\ UNCHANGED <<queue, svt>>,
         OnlineServants' \subseteq OnlineServants,
         Elems(queue)' \subseteq Elems(queue), Elems(kept)' \subseteq Elems(kept),
         \A t \in OnlineServants' : /\ svt'[t].sock \in {svt[t].sock, None}
                                    /\ \/ svt'[t].wait = svt[t].wait
                                       \/ svt[t].wait = NotWaiting /\ svt'[t].wait = 0,
         \A t \in Pending' : /\ svt'[t].sock \in {svt[t].sock, None}
                             /\ svt'[t].wait = svt[t].wait
  PROVE  SocketAges'
<1> USE DEF TypeInv
<1>0. /\ \A s \in Servants : /\ svt[s].wait \in Int /\ svt[s].wait >= -1
                             /\ svt[s].sock \in Gates \cup {None}
      /\ \A g \in Gates : gate[g].age \in Nat
      /\ Late \in {0, 1} /\ WaitLimit \in Nat /\ None \notin Gates
      /\ OnlineServants \subseteq Servants /\ Pending \subseteq Servants
      /\ Late' = Late /\ Pending' \subseteq Pending
  BY AgeTypes DEF Late, Pending
<1>1. PendingAges'
  BY <1>0 DEF SocketAges, PendingAges, DownBy, Pending
<1>2. ASSUME NEW t \in OnlineServants'
      PROVE  /\ DownBy(t, svt[t].wait)'
             /\ svt'[t].wait <= WaitLimit + Late' + IF pc' \in {"recv", "update"} THEN 1 ELSE 0
  <2>1. /\ t \in OnlineServants /\ t \in Servants /\ DownBy(t, svt[t].wait)
        /\ svt[t].wait <= WaitLimit + Late + IF pc \in {"recv", "update"} THEN 1 ELSE 0
    BY <1>0 DEF SocketAges, OnlineAges
  <2>2. svt'[t].wait >= svt[t].wait /\ svt'[t].wait \in Int
    BY <1>0, <2>1 DEF NotWaiting
  <2>3. DownBy(t, svt[t].wait)'
    BY <1>0, <2>1, <2>2 DEF DownBy
  <2>4. svt'[t].wait <= WaitLimit + Late' + IF pc' \in {"recv", "update"} THEN 1 ELSE 0
    BY <1>0, <2>1
  <2> QED BY <2>3, <2>4
<1>3. AddIsConnected'
  BY DEF SocketAges, AddIsConnected, QueueHead
<1> QED BY <1>1, <1>2, <1>3 DEF SocketAges, OnlineAges

\* A second passes: the ages of the gateways and the waits grow together.
LEMMA TickAges ==
  ASSUME TypeInv, SocketAges, Tick
  PROVE  SocketAges'
<1> USE DEF TypeInv
<1>0. /\ \A s \in Servants : /\ svt[s].wait \in Int /\ svt[s].wait >= -1
                             /\ svt[s].sock \in Gates \cup {None}
      /\ \A g \in Gates : gate[g].age \in Nat
      /\ WaitLimit \in Nat /\ None \notin Gates
      /\ OnlineServants \subseteq Servants /\ Pending \subseteq Servants
      /\ \A s \in Servants : svt[s] \in ServantRecords
      /\ Late = 0 /\ Late' = 1
  BY AgeTypes DEF Tick, Late, TypeOK
<1>1. /\ OnlineServants' = OnlineServants /\ Pending' = Pending
      /\ Elems(queue)' = Elems(queue) /\ Elems(kept)' = Elems(kept) /\ pc' = pc
      /\ queue' = queue
  BY SameMoves DEF Tick
<1>2. \A s \in Servants :
        /\ svt'[s].sock = svt[s].sock
        /\ svt'[s].wait = IF svt[s].wait = NotWaiting \/ svt[s].wait = WaitLimit + 2
                            THEN svt[s].wait ELSE svt[s].wait + 1
  BY <1>0 DEF Tick, ServantRecords
<1>3. \A g \in Gates : gate'[g].conn = gate[g].conn /\ gate'[g].age \in {gate[g].age, gate[g].age + 1}
  <2>1. \A g \in Gates : gate[g] \in [conn : {"up", "closing", "down"}, age : 0..ReclaimAfter]
    BY DEF TypeOK
  <2>2. \A g \in Gates : gate'[g] \in {gate[g], [gate[g] EXCEPT !.age = @ + 1]}
    BY DEF Tick
  <2> QED BY <2>1, <2>2
<1>4. ASSUME NEW s \in Servants, NEW n \in Int, DownBy(s, n)
      PROVE  svt'[s].sock # None /\ gate'[svt'[s].sock].conn = "down"
               => gate'[svt'[s].sock].age <= n + 1
  BY <1>0, <1>2, <1>3, <1>4 DEF DownBy
<1>5. PendingAges'
  <2>1. \A s \in Pending : svt'[s].wait = NotWaiting
    BY <1>0, <1>2 DEF SocketAges, PendingAges
  <2>2. ASSUME NEW s \in Elems(queue) PROVE DownBy(s, 1 + Late)'
    <3>1. s \in Servants /\ DownBy(s, 1)
      BY <1>0 DEF Pending, SocketAges, PendingAges
    <3> QED BY <1>0, <1>4, <3>1 DEF DownBy
  <2>3. ASSUME NEW s \in Elems(kept) PROVE DownBy(s, Late)'
    <3>1. s \in Servants /\ DownBy(s, 0)
      BY <1>0 DEF Pending, SocketAges, PendingAges
    <3> QED BY <1>0, <1>4, <3>1 DEF DownBy
  <2> QED BY <1>1, <2>1, <2>2, <2>3 DEF PendingAges
<1>6. ASSUME NEW s \in OnlineServants
      PROVE  /\ DownBy(s, svt[s].wait)'
             /\ svt'[s].wait <= WaitLimit + Late' + IF pc' \in {"recv", "update"} THEN 1 ELSE 0
  <2>1. /\ s \in Servants /\ DownBy(s, svt[s].wait)
        /\ svt[s].wait <= WaitLimit + IF pc \in {"recv", "update"} THEN 1 ELSE 0
    BY <1>0 DEF SocketAges, OnlineAges
  <2>2. svt[s].wait # WaitLimit + 2
    BY <1>0, <2>1
  <2>3. DownBy(s, svt[s].wait)'
    <3>1. CASE svt[s].wait = NotWaiting
      <4>1. \A g \in Gates : gate[g].age >= 0
        BY <1>0
      <4>2. ~(svt[s].sock # None /\ gate[svt[s].sock].conn = "down")
        BY <1>0, <2>1, <3>1, <4>1 DEF DownBy, NotWaiting
      <4> QED BY <1>0, <1>2, <1>3, <2>1, <4>2 DEF DownBy
    <3>2. CASE svt[s].wait # NotWaiting
      <4>1. svt'[s].wait = svt[s].wait + 1
        BY <1>2, <2>1, <2>2, <3>2
      <4> QED BY <1>0, <1>4, <2>1, <4>1 DEF DownBy
    <3> QED BY <3>1, <3>2
  <2>4. svt'[s].wait <= svt[s].wait + 1
    BY <1>0, <1>2, <2>1
  <2>5. svt'[s].wait <= WaitLimit + Late' + IF pc' \in {"recv", "update"} THEN 1 ELSE 0
    <3>1. svt'[s].wait \in Int
      BY <1>0, <1>2, <2>1
    <3> QED BY <1>0, <1>1, <2>1, <2>4, <3>1
  <2> QED BY <2>3, <2>5
<1>7. AddIsConnected'
  <2> SUFFICES ASSUME pc = "add"
               PROVE  svt'[QueueHead].sock # None /\ gate'[svt'[QueueHead].sock].conn # "down"
    BY <1>1 DEF AddIsConnected, QueueHead
  <2>1. QueueHead \in Servants
    BY ElemsTail DEF AddHasHead, TypeOK, QueueHead
  <2> QED BY <1>0, <1>2, <1>3, <2>1 DEF SocketAges, AddIsConnected
<1> QED BY <1>1, <1>5, <1>6, <1>7 DEF SocketAges, OnlineAges

\* A gateway changes state: it closes, a new one connects, or it has closed and
\* its online servants start to wait.
LEMMA GateAges ==
  ASSUME SessionInv, SocketAges, ~Preempted, NEW g \in Gates,
         GateClosing(g) \/ GateOnDisconnect(g) \/ GateConnect(g)
  PROVE  SocketAges'
<1> USE DEF SessionInv, TypeInv
<1>0. /\ \A s \in Servants : /\ svt[s].wait \in Int /\ svt[s].wait >= -1
                             /\ svt[s].sock \in Gates \cup {None}
                             /\ svt[s] \in ServantRecords
      /\ \A h \in Gates : gate[h].age \in Nat
      /\ Late \in {0, 1} /\ WaitLimit \in Nat /\ None \notin Gates
      /\ OnlineServants \subseteq Servants /\ Pending \subseteq Servants
      /\ Late' = Late
  BY AgeTypes DEF GateClosing, GateOnDisconnect, GateConnect, Late, TypeOK
<1>1. /\ OnlineServants' = OnlineServants /\ Pending' = Pending
      /\ Elems(queue)' = Elems(queue) /\ Elems(kept)' = Elems(kept) /\ pc' = pc
      /\ queue' = queue
  BY SameMoves DEF GateClosing, GateOnDisconnect, GateConnect
<1>2. \A h \in Gates : \/ gate'[h] = gate[h]
                       \/ gate'[h].conn # "down"
                       \/ h = g /\ gate'[h].age = 0 /\ GateOnDisconnect(g)
  <2>1. gate[g] \in [conn : {"up", "closing", "down"}, age : 0..ReclaimAfter]
    BY DEF TypeOK
  <2> QED BY <2>1 DEF GateClosing, GateOnDisconnect, GateConnect, TypeOK
<1>3. ASSUME NEW s \in Servants
      PROVE  /\ svt'[s].sock = svt[s].sock
             /\ \/ svt'[s].wait = svt[s].wait
                \/ s \in OnlineServants /\ svt[s].wait = NotWaiting /\ svt'[s].wait = 0
             /\ GateOnDisconnect(g) /\ s \in OnlineServants /\ svt[s].sock = g
                  => svt'[s].wait >= 0
  <2>1. CASE GateOnDisconnect(g)
    <3>1. svt'[s] = IF s \in OnlineServants /\ svt[s].sock = g
                      THEN SetWaitLastData(svt[s]) ELSE svt[s]
      BY <2>1 DEF GateOnDisconnect
    <3> QED BY <1>0, <3>1, WaitRecords DEF NotWaiting
  <2>2. CASE ~GateOnDisconnect(g)
    BY <2>2 DEF GateClosing, GateConnect
  <2> QED BY <2>1, <2>2
<1>4. PendingAges'
  <2>1. \A s \in Pending : svt'[s].wait = NotWaiting
    BY <1>0, <1>3 DEF SocketAges, PendingAges, NotWaiting, Sessions, PoolAccounted
  <2>2. ASSUME NEW s \in Servants, NEW n \in Nat, DownBy(s, n)
        PROVE  svt'[s].sock # None /\ gate'[svt'[s].sock].conn = "down"
                 => gate'[svt'[s].sock].age <= n
    BY <1>0, <1>2, <1>3, <2>2 DEF DownBy
  <2>3. \A s \in Elems(queue) : DownBy(s, 1 + Late)'
    BY <1>0, <2>2 DEF Pending, SocketAges, PendingAges, DownBy
  <2>4. \A s \in Elems(kept) : DownBy(s, Late)'
    BY <1>0, <2>2 DEF Pending, SocketAges, PendingAges, DownBy
  <2> QED BY <1>1, <2>1, <2>3, <2>4 DEF PendingAges
<1>5. ASSUME NEW s \in OnlineServants
      PROVE  /\ DownBy(s, svt[s].wait)'
             /\ svt'[s].wait <= WaitLimit + Late' + IF pc' \in {"recv", "update"} THEN 1 ELSE 0
  <2>1. /\ s \in Servants /\ DownBy(s, svt[s].wait)
        /\ svt[s].wait <= WaitLimit + Late + IF pc \in {"recv", "update"} THEN 1 ELSE 0
    BY <1>0 DEF SocketAges, OnlineAges
  <2>2. svt'[s].wait >= svt[s].wait /\ svt'[s].wait \in Int
    BY <1>0, <1>3, <2>1 DEF NotWaiting
  <2>3. DownBy(s, svt[s].wait)'
    BY <1>0, <1>2, <1>3, <2>1, <2>2 DEF DownBy
  <2>4. svt'[s].wait <= WaitLimit + Late' + IF pc' \in {"recv", "update"} THEN 1 ELSE 0
    BY <1>0, <1>1, <1>3, <2>1
  <2> QED BY <2>3, <2>4
<1>6. AddIsConnected'
  <2> SUFFICES ASSUME pc = "add"
               PROVE  svt'[QueueHead].sock # None /\ gate'[svt'[QueueHead].sock].conn # "down"
    BY <1>1 DEF AddIsConnected, QueueHead
  <2>1. QueueHead \in Servants
    BY ElemsTail DEF AddHasHead, TypeOK, QueueHead
  <2>2. ~GateOnDisconnect(g)
    BY DEF GateOnDisconnect
  <2> QED BY <1>0, <1>2, <1>3, <2>1, <2>2 DEF SocketAges, AddIsConnected
<1> QED BY <1>1, <1>4, <1>5, <1>6 DEF SocketAges, OnlineAges

\* A login comes through a gateway that is not down, and the servant it
\* replaces starts to wait or lets go of its socket.
LEMMA RequestAges ==
  ASSUME SessionInv, SessionInv', SocketAges, NEW g \in Gates, NEW a \in Accounts,
         NEW i \in Indices, HandleRequestRoleList(g, a, i)
  PROVE  SocketAges'
<1> USE DEF SessionInv, TypeInv
<1>0. /\ \A s \in Servants : /\ svt[s].wait \in Int /\ svt[s].wait >= -1
                             /\ svt[s].sock \in Gates \cup {None}
                             /\ svt[s] \in ServantRecords
      /\ \A h \in Gates : gate[h].age \in Nat
      /\ Late \in {0, 1} /\ WaitLimit \in Nat /\ None \notin Gates
      /\ OnlineServants \subseteq Servants /\ Pending \subseteq Servants
      /\ OnlineServants \cap Pending = {}
      /\ Late' = Late /\ gate' = gate /\ pc' = pc /\ pc = "recv" /\ gate[g].conn # "down"
  BY AgeTypes DEF HandleRequestRoleList, Late, TypeOK, Sessions, PoolAccounted
<1>1. PICK s \in Servants :
           /\ s \notin Used
           /\ svt'[s].acct = a /\ svt'[s].sock = g /\ svt'[s].wait = NotWaiting
           /\ Elems(kept)' = Elems(kept)
           /\ \/ /\ \A t \in OnlineServants : svt[t].acct # a
                 /\ OnlineServants' = OnlineServants \cup {s}
                 /\ Elems(queue)' = Elems(queue)
                 /\ \A t \in Servants \ {s} : svt'[t] = svt[t]
              \/ /\ \E t \in OnlineServants : svt[t].acct = a
                 /\ OnlineServants' = OnlineServants
                 /\ Elems(queue)' = Elems(queue) \cup {s}
                 /\ \A t \in Servants \ {s} :
                      \/ svt'[t] = svt[t]
                      \/ t \in OnlineServants /\ svt'[t] = DisConnect(svt[t])
  BY RequestMoves
<1>2. /\ OnlineServants' \subseteq OnlineServants \cup {s}
      /\ Elems(queue)' \subseteq Elems(queue) \cup {s} /\ Elems(kept)' = Elems(kept)
      /\ Pending' \subseteq Pending \cup {s}
  BY <1>1 DEF Pending
<1>3. \A t \in Pending \ {s} : svt'[t] = svt[t]
  BY <1>0, <1>1
<1>4. ASSUME NEW t \in OnlineServants \ {s}
      PROVE  /\ svt'[t].sock \in {svt[t].sock, None}
             /\ \/ svt'[t].wait = svt[t].wait
                \/ svt[t].wait = NotWaiting /\ svt'[t].wait = 0
  <2>1. t \in Servants /\ svt'[t] \in {svt[t], DisConnect(svt[t])}
    BY <1>0, <1>1
  <2> QED BY <1>0, <2>1, WaitRecords
<1>5. \A n \in Int : DownBy(s, n)'
  BY <1>0, <1>1 DEF DownBy
<1>6. PendingAges'
  <2>1. \A t \in Pending' : svt'[t].wait = NotWaiting
    BY <1>1, <1>2, <1>3 DEF SocketAges, PendingAges
  <2>2. ASSUME NEW t \in Elems(queue)' PROVE DownBy(t, 1 + Late)'
    BY <1>0, <1>2, <1>3, <1>5 DEF SocketAges, PendingAges, DownBy, Pending
  <2>3. ASSUME NEW t \in Elems(kept)' PROVE DownBy(t, Late)'
    BY <1>0, <1>2, <1>3, <1>5 DEF SocketAges, PendingAges, DownBy, Pending
  <2> QED BY <2>1, <2>2, <2>3 DEF PendingAges
<1>7. ASSUME NEW t \in OnlineServants'
      PROVE  /\ DownBy(t, svt[t].wait)'
             /\ svt'[t].wait <= WaitLimit + Late' + IF pc' \in {"recv", "update"} THEN 1 ELSE 0
  <2>1. CASE t = s
    BY <1>0, <1>1, <1>5, <2>1 DEF NotWaiting
  <2>2. CASE t # s
    <3>1. /\ t \in OnlineServants /\ t \in Servants /\ DownBy(t, svt[t].wait)
          /\ svt[t].wait <= WaitLimit + Late + 1
      BY <1>0, <1>2, <2>2 DEF SocketAges, OnlineAges
    <3>2. svt'[t].wait >= svt[t].wait /\ svt'[t].wait \in Int
      BY <1>0, <1>4, <2>2, <3>1 DEF NotWaiting
    <3>3. DownBy(t, svt[t].wait)'
      BY <1>0, <1>4, <2>2, <3>1, <3>2 DEF DownBy
    <3>4. svt'[t].wait <= WaitLimit + Late' + 1
      BY <1>0, <1>4, <2>2, <3>1
    <3> QED BY <1>0, <3>3, <3>4
  <2> QED BY <2>1, <2>2
<1>8. AddIsConnected'
  BY <1>0 DEF AddIsConnected
<1> QED BY <1>6, <1>7, <1>8 DEF SocketAges, OnlineAges

\* The servants that stay online have not waited longer than the limit.
LEMMA UpdateAges ==
  ASSUME SessionInv, SocketAges, UpdatePlayerServants
  PROVE  SocketAges'
<1> USE DEF SessionInv, TypeInv
<1>0. /\ \A s \in Servants : svt[s].wait \in Int
      /\ Late \in {0, 1} /\ WaitLimit \in Nat
      /\ OnlineServants \subseteq Servants /\ Pending \subseteq Servants
      /\ OnlineServants \cap Pending = {}
      /\ Late' = Late /\ gate' = gate /\ pc' = "play"
  BY AgeTypes DEF UpdatePlayerServants, Late, Sessions, PoolAccounted
<1>1. /\ OnlineServants' = {s \in OnlineServants : ~IsGone(s)} /\ Pending' = Pending
      /\ Elems(queue)' = Elems(queue) /\ Elems(kept)' = Elems(kept)
      /\ \A t \in Servants : t \notin OnlineServants \/ ~IsGone(t) => svt'[t] = svt[t]
  BY UpdateMoves
<1>2. PendingAges'
  <2>1. \A t \in Pending : svt'[t] = svt[t]
    BY <1>0, <1>1
  <2> QED BY <1>0, <1>1, <2>1 DEF SocketAges, PendingAges, DownBy, Pending
<1>3. ASSUME NEW t \in OnlineServants'
      PROVE  /\ DownBy(t, svt[t].wait)'
             /\ svt'[t].wait <= WaitLimit + Late' + IF pc' \in {"recv", "update"} THEN 1 ELSE 0
  <2>1. /\ t \in OnlineServants /\ t \in Servants /\ svt'[t] = svt[t] /\ ~(svt[t].wait > WaitLimit)
    BY <1>0, <1>1 DEF IsGone
  <2>2. svt'[t].wait <= WaitLimit + Late' + 0
    BY <1>0, <2>1
  <2> QED BY <1>0, <2>1, <2>2 DEF SocketAges, OnlineAges, DownBy
<1>4. AddIsConnected'
  BY <1>0 DEF AddIsConnected
<1> QED BY <1>2, <1>3, <1>4 DEF SocketAges, OnlineAges

\* The queue pass: a pending servant stays only if its gateway is connected.
LEMMA QueueAges ==
  ASSUME SessionInv, SocketAges, QueueKeep \/ QueueCheck \/ QueueAdd \/ EndQueue
  PROVE  SocketAges'
<1> USE DEF SessionInv, TypeInv
<1>0. /\ \A s \in Servants : /\ svt[s].wait \in Int /\ svt[s].wait >= -1
                             /\ svt[s].sock \in Gates \cup {None}
      /\ \A h \in Gates : gate[h].age \in Nat
      /\ Late \in {0, 1} /\ WaitLimit \in Nat /\ None \notin Gates
      /\ OnlineServants \subseteq Servants /\ Pending \subseteq Servants
      /\ gate' = gate /\ pc \notin {"recv", "update"}
  BY AgeTypes DEF QueueKeep, QueueCheck, QueueAdd, EndQueue
<1>1. CASE QueueKeep
  <2>1. /\ QueueHead \in Elems(queue) /\ QueueHead \in Servants
        /\ OnlineServants' = OnlineServants /\ Pending' = Pending
        /\ Elems(queue)' = Elems(queue) \ {QueueHead}
        /\ Elems(kept)' = Elems(kept) \cup {QueueHead}
    BY <1>1, KeepMoves
  <2>2. /\ svt' = svt /\ Late' = Late /\ pc' = pc /\ pc # "add"
        /\ gate[svt[QueueHead].sock].conn = "up"
    BY <1>1 DEF QueueKeep, Connected, Late
  <2>3. DownBy(QueueHead, Late)
    BY <2>2 DEF DownBy
  <2>4. \A s \in Elems(kept)' : DownBy(s, Late)'
    BY <1>0, <2>1, <2>2, <2>3 DEF SocketAges, PendingAges, DownBy
  <2>5. \A s \in Elems(queue)' : DownBy(s, 1 + Late)'
    BY <1>0, <2>1, <2>2 DEF SocketAges, PendingAges, DownBy
  <2> QED
    BY <1>0, <2>1, <2>2, <2>4, <2>5
    DEF SocketAges, PendingAges, OnlineAges, DownBy, AddIsConnected
<1>2. CASE QueueCheck
  <2>1. /\ OnlineServants' = OnlineServants /\ Pending' = Pending
        /\ Elems(queue)' = Elems(queue) /\ Elems(kept)' = Elems(kept)
    BY <1>2, SameMoves DEF QueueCheck
  <2>2. /\ svt' = svt /\ Late' = Late /\ pc' = "add" /\ QueueHead' = QueueHead
        /\ svt[QueueHead].sock # None /\ gate[svt[QueueHead].sock].conn = "up"
    BY <1>2 DEF QueueCheck, Connected, Late, QueueHead
  <2> QED
    BY <1>0, <2>1, <2>2 DEF SocketAges, PendingAges, OnlineAges, DownBy, AddIsConnected
<1>3. CASE QueueAdd
  <2>1. /\ QueueHead \in Elems(queue) /\ QueueHead \in Servants
        /\ OnlineServants' = OnlineServants \cup {QueueHead}
        /\ Elems(queue)' = Elems(queue) \ {QueueHead} /\ Elems(kept)' = Elems(kept)
        /\ \A t \in Servants : svt'[t].sock = svt[t].sock /\ svt'[t].wait = svt[t].wait
    BY <1>3, AddMoves
  <2>2. /\ Late' = Late /\ pc = "add" /\ pc' = "queue"
        /\ svt[QueueHead].sock # None /\ gate[svt[QueueHead].sock].conn # "down"
    BY <1>3 DEF QueueAdd, Late, SocketAges, AddIsConnected
  <2>3. svt[QueueHead].wait = NotWaiting
    BY <2>1 DEF SocketAges, PendingAges, Pending
  <2>4. PendingAges'
    BY <1>0, <2>1, <2>2 DEF SocketAges, PendingAges, DownBy, Pending
  <2>5. ASSUME NEW t \in OnlineServants'
        PROVE  /\ DownBy(t, svt[t].wait)'
               /\ svt'[t].wait <= WaitLimit + Late' + IF pc' \in {"recv", "update"} THEN 1 ELSE 0
    <3>1. CASE t = QueueHead
      BY <1>0, <2>1, <2>2, <2>3, <3>1 DEF DownBy, NotWaiting
    <3>2. CASE t # QueueHead
      BY <1>0, <2>1, <2>2, <3>2 DEF SocketAges, OnlineAges, DownBy
    <3> QED BY <3>1, <3>2
  <2>6. AddIsConnected'
    BY <2>2 DEF AddIsConnected
  <2> QED BY <2>4, <2>5, <2>6 DEF SocketAges, OnlineAges
<1>4. CASE EndQueue
  <2>1. /\ OnlineServants' = OnlineServants /\ Pending' = Pending
        /\ Elems(queue)' = Elems(kept) /\ Elems(kept)' = {}
    BY <1>4, EndQueueMoves
  <2>2. svt' = svt /\ Late' = 0 /\ pc' = "recv"
    BY <1>4 DEF EndQueue, Late
  <2>3. \A s \in Elems(queue)' : DownBy(s, 1 + Late)'
    BY <1>0, <2>1, <2>2 DEF SocketAges, PendingAges, DownBy, Pending
  <2>4. PendingAges'
    BY <2>1, <2>2, <2>3 DEF SocketAges, PendingAges
  <2>5. ASSUME NEW t \in OnlineServants
        PROVE  /\ DownBy(t, svt[t].wait)'
               /\ svt'[t].wait <= WaitLimit + Late' + IF pc' \in {"recv", "update"} THEN 1 ELSE 0
    <3>1. svt[t].wait \in Int /\ svt[t].wait <= WaitLimit + Late /\ DownBy(t, svt[t].wait)
      BY <1>0 DEF SocketAges, OnlineAges
    <3> QED BY <1>0, <2>2, <3>1 DEF DownBy
  <2> QED BY <2>1, <2>2, <2>4, <2>5 DEF SocketAges, OnlineAges, AddIsConnected
<1> QED BY <1>1, <1>2, <1>3, <1>4

\* The steps that only take sockets away or start waits.
LEMMA OtherAges ==
  ASSUME SessionInv, SessionInv', SocketAges, [Next]_vars,
         ~ \E g \in Gates, a \in Accounts, i \in Indices : HandleRequestRoleList(g, a, i),
         ~UpdatePlayerServants, ~(QueueKeep \/ QueueCheck \/ QueueAdd \/ EndQueue),
         ~ \E g \in Gates : GateClosing(g) \/ GateOnDisconnect(g) \/ GateConnect(g), ~Tick
  PROVE  SocketAges'
<1> USE DEF SessionInv, TypeInv
<1>0. /\ OnlineServants \subseteq Servants /\ Pending \subseteq Servants
      /\ OnlineServants \cap Pending = {}
      /\ \A t \in Servants : svt[t] \in ServantRecords
  BY UsedType DEF TypeOK, Sessions, PoolAccounted
<1>1. ASSUME NEW k \in Guids, NEW r \in Roles, NEW loads \in BOOLEAN, EnterGame(k, r, loads)
      PROVE  SocketAges'
  <2>1. UNCHANGED <<gate, ticked>> /\ pc = "play" /\ pc' = "play"
    BY <1>1 DEF EnterGame
  <2> QED BY <1>0, <1>1, <2>1, EnterMoves, SameAges
<1>2. ASSUME QueueDrop \/ QueueRefuse PROVE SocketAges'
  <2>1. UNCHANGED <<gate, ticked>> /\ pc = "queue" /\ pc' = "queue"
    BY <1>2 DEF QueueDrop, QueueRefuse
  <2>2. Pending' = Pending \ {QueueHead} /\ QueueHead \in Pending
    BY <1>2, HeadMoves DEF Pending
  <2>3. \A t \in OnlineServants' \cup Pending' : svt'[t] = svt[t]
    BY <1>0, <1>2, <2>2, HeadMoves
  <2> QED BY <1>2, <2>1, <2>3, HeadMoves, SameAges
<1>3. ASSUME \/ EndRecv \/ EndPlay \/ UNCHANGED vars
             \/ \E k \in Guids, r \in Roles : RoleCreate(k, r)
      PROVE  SocketAges'
  <2>1. /\ UNCHANGED <<gate, ticked, online, queue, kept, svt>>
        /\ pc \in {"recv", "update"} => pc' \in {"recv", "update"}
        /\ pc' = "add" => pc = "add"
    BY <1>3 DEF EndRecv, EndPlay, RoleCreate, vars
  <2> QED BY <2>1, SameMoves, SameAges
<1>4. ASSUME UNCHANGED <<gate, ticked, online, queue, kept, pc>>, pc = "recv",
             \A t \in Servants :
               \/ svt'[t].sock = svt[t].sock /\ svt'[t].wait = svt[t].wait
               \/ svt'[t] = [svt[t] EXCEPT !.sock = None]
               \/ t \in OnlineServants /\ svt'[t] = SetWaitLastData(svt[t])
      PROVE  SocketAges'
  <2>1. ASSUME NEW t \in OnlineServants
        PROVE  /\ svt'[t].sock \in {svt[t].sock, None}
               /\ \/ svt'[t].wait = svt[t].wait
                  \/ svt[t].wait = NotWaiting /\ svt'[t].wait = 0
    <3>1. svt[t] \in ServantRecords
      BY <1>0
    <3>2. /\ [svt[t] EXCEPT !.sock = None].sock = None
          /\ [svt[t] EXCEPT !.sock = None].wait = svt[t].wait
      BY <3>1 DEF ServantRecords
    <3> QED BY <1>0, <1>4, <3>1, <3>2, WaitRecords
  <2>2. ASSUME NEW t \in Pending
        PROVE  svt'[t].sock \in {svt[t].sock, None} /\ svt'[t].wait = svt[t].wait
    <3>1. svt[t] \in ServantRecords
      BY <1>0
    <3>2. /\ [svt[t] EXCEPT !.sock = None].sock = None
          /\ [svt[t] EXCEPT !.sock = None].wait = svt[t].wait
      BY <3>1 DEF ServantRecords
    <3> QED BY <1>0, <1>4, <3>2
  <2> QED BY <1>4, <2>1, <2>2, SameMoves, SameAges
<1>5. ASSUME \/ \E g \in Gates, k \in Guids, i \in Indices, direct \in BOOLEAN :
                  HandleCloseServantRequest(g, k, i, direct)
             \/ \E r \in Roles, i \in Indices : HandleSavePlayerDataReq(r, i)
      PROVE  SocketAges'
  <2>1. PICK k \in Guids, i \in Indices, from \in Gates \cup {None}, direct \in BOOLEAN :
          InvalidServant(k, i, from, direct)
    <3>1. CASE \E g \in Gates, k \in Guids, i \in Indices, direct \in BOOLEAN :
                 HandleCloseServantRequest(g, k, i, direct)
      BY <3>1, Zenon DEF HandleCloseServantRequest
    <3>2. CASE \E r \in Roles, i \in Indices : HandleSavePlayerDataReq(r, i)
      BY <3>2, Zenon DEF HandleSavePlayerDataReq, Guids
    <3> QED BY <1>5, <3>1, <3>2
  <2>2. UNCHANGED <<gate, ticked, online, queue, kept, pc>> /\ pc = "recv"
    BY <1>5 DEF HandleCloseServantRequest, HandleSavePlayerDataReq
  <2>3. \A t \in Servants :
           \/ svt'[t] = svt[t]
           \/ svt'[t] = [svt[t] EXCEPT !.sock = None]
           \/ t \in OnlineServants /\ svt'[t] = SetWaitLastData(svt[t])
    BY <2>1, <2>2, InvalidMoves
  <2> QED BY <1>4, <2>2, <2>3
<1>6. ASSUME \/ \E k \in Guids, late \in BOOLEAN : HandleChangeSceneServerNotice(k, late)
             \/ \E r \in Roles, n \in Scenes : HandleEnterSceneNotice(r, n)
      PROVE  SocketAges'
  <2>1. /\ UNCHANGED <<gate, ticked, online, queue, kept, pc>> /\ pc = "recv"
        /\ \E s, n : svt' = [svt EXCEPT ![s].scene = n]
    BY <1>6 DEF HandleChangeSceneServerNotice, HandleEnterSceneNotice, Guids
  <2>2. PICK s, n : svt' = [svt EXCEPT ![s].scene = n]
    BY <2>1
  <2>3. \A t \in Servants : svt'[t] \in {svt[t], [svt[t] EXCEPT !.scene = n]}
    BY <2>2 DEF TypeOK
  <2>4. \A t \in Servants : svt'[t].sock = svt[t].sock /\ svt'[t].wait = svt[t].wait
    BY <1>0, <2>3 DEF ServantRecords
  <2> QED BY <1>4, <2>1, <2>4
<1> QED
  BY <1>1, <1>2, <1>3, <1>5, <1>6 DEF Next, Recv, Play, MainLoop, Network

LEMMA InitAges == Init => SocketAges
<1> SUFFICES ASSUME Init PROVE SocketAges
  OBVIOUS
<1>1. OnlineServants = {} /\ Pending = {} /\ Elems(queue) = {} /\ Elems(kept) = {}
  BY ElemsEmpty DEF Init, OnlineServants, Pending
<1> QED BY <1>1 DEF Init, SocketAges, PendingAges, OnlineAges, AddIsConnected

LEMMA NextAges ==
  ~Preempted /\ SessionInv /\ SessionInv' /\ SocketAges /\ [Next]_vars => SocketAges'
<1> SUFFICES ASSUME ~Preempted, SessionInv, SessionInv', SocketAges, [Next]_vars
             PROVE  SocketAges'
  OBVIOUS
<1> QED BY RequestAges, UpdateAges, QueueAges, GateAges, TickAges, OtherAges DEF SessionInv

\* As long as no network thread runs between the check of a pending servant and
\* its admission, every servant lets go of its gateway's socket before the
\* socket's memory is reclaimed (UpdatePlayerServants, UpdateQueueServants and
\* OnGateCommServerDisconnect against SocketMgr's 15 seconds).  The run
\* MasterServantRace shows that the assumption is needed.
THEOREM NoFreedSocketHolds ==
  ASSUME ~Preempted
  PROVE  Spec => []NoFreedSocket
<1>1. ASSUME SessionInv, SocketAges PROVE NoFreedSocket
  <2> USE DEF SessionInv, TypeInv
  <2> SUFFICES ASSUME NEW s \in OnlineServants \cup Pending, svt[s].sock # None,
                      gate[svt[s].sock].conn = "down"
               PROVE  gate[svt[s].sock].age # ReclaimAfter
    BY DEF NoFreedSocket, Freed
  <2>0. /\ s \in Servants /\ svt[s].sock \in Gates /\ svt[s].wait \in Int
        /\ gate[svt[s].sock].age \in Nat
        /\ Late \in {0, 1} /\ WaitLimit \in Nat
        /\ ReclaimAfter \in Nat /\ ReclaimAfter > WaitLimit + 2
    BY <1>1, AgeTypes, ConstantsAssumption
  <2>1. CASE s \in OnlineServants
    <3>1. gate[svt[s].sock].age <= svt[s].wait /\ svt[s].wait <= WaitLimit + Late + 1
      BY <1>1, <2>0, <2>1 DEF SocketAges, OnlineAges, DownBy
    <3> QED BY <2>0, <3>1
  <2>2. CASE s \in Pending
    <3>1. gate[svt[s].sock].age <= 1 + Late
      BY <1>1, <2>0, <2>2 DEF SocketAges, PendingAges, DownBy, Pending
    <3> QED BY <2>0, <3>1
  <2> QED BY <2>1, <2>2
<1>2. SessionInv /\ SessionInv' /\ SocketAges /\ [Next]_vars => SocketAges'
  BY NextAges
<1>3. SessionInv /\ SocketAges => NoFreedSocket
  BY <1>1
<1> QED BY <1>2, <1>3, InitAges, SpecSessionInv, PTL DEF Spec
=============================================================================
