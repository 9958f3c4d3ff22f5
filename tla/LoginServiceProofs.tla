------------------------- MODULE LoginServiceProofs -------------------------
(* Proofs about LoginService, for any number of accounts, clients, gateway *)
(* connections, logins and reloads.                                        *)
EXTENDS LoginService, TLAPS, FiniteSetTheorems

-----------------------------------------------------------------------------
(* Types *)

\* A step of a login or of a request has the name of an account.
NamesKnown ==
  /\ \A c \in Clients : login[c].do # "idle" => login[c].name \in Names
  /\ \A a \in Asks : ask[a].do # "idle" => ask[a].name \in Names

Typed == TypeOK /\ NamesKnown

LEMMA TypedInit == Init => Typed
<1> SUFFICES ASSUME Init PROVE Typed
  OBVIOUS
<1>1. docs \in [Names -> Nat] /\ granted \in [Names -> Nat]
  BY DEF Init
<1>2. logins \in [Names -> 0..MaxLogins] /\ reloads \in 0..MaxReloads
  BY ConstantsAssumption DEF Init
<1>3. login \in [Clients -> LoginStates] /\ ask \in [Asks -> AskStates]
  BY DEF Init, Idle, LoginStates, AskStates
<1>4. NamesKnown
  BY DEF Init, Idle, NamesKnown
<1> QED
  BY <1>1, <1>2, <1>3, <1>4 DEF Init, Typed, TypeOK

LEMMA TypedStep == Typed /\ [Next]_vars => Typed'
<1> SUFFICES ASSUME Typed, [Next]_vars PROVE Typed'
  OBVIOUS
<1> USE ConstantsAssumption DEF Typed, TypeOK, NamesKnown, Idle, LoginStates, AskStates
<1>1. ASSUME NEW c \in Clients, NEW n \in Names, LoginBegin(c, n) PROVE Typed'
  BY <1>1 DEF LoginBegin
<1>2. ASSUME NEW c \in Clients, CacheNewAccount(c) PROVE Typed'
  BY <1>2 DEF CacheNewAccount, CacheAccount
<1>3. ASSUME NEW c \in Clients, InsertNewAccount(c) PROVE Typed'
  BY <1>3 DEF InsertNewAccount, InsertDocument
<1>4. ASSUME NEW c \in Clients, NEW banned \in BOOLEAN, LoginEnd(c, banned) PROVE Typed'
  <2>1. CASE login[c].name \in accounts
    <3>1. keys' \subseteq Names
      BY <1>4, <2>1 DEF LoginEnd
    <3>2. login' = [login EXCEPT ![c] = Idle] /\ failed' = failed
      BY <1>4, <2>1 DEF LoginEnd
    <3>3. UNCHANGED <<accounts, docs, ask, reload, reloads, logins, granted>>
      BY <1>4 DEF LoginEnd
    <3> QED
      BY <3>1, <3>2, <3>3
  <2>2. CASE login[c].name \notin accounts
    BY <1>4, <2>2 DEF LoginEnd
  <2> QED
    BY <2>1, <2>2
<1>5. ASSUME NEW a \in Asks, NEW n \in Names, AskBegin(a, n) PROVE Typed'
  BY <1>5 DEF AskBegin
<1>6. ASSUME NEW a \in Asks, NEW right \in BOOLEAN, NEW banned \in BOOLEAN,
             AskKey(a, right, banned)
      PROVE  Typed'
  BY <1>6 DEF AskKey
<1>7. ASSUME NEW a \in Asks, AskEnd(a) PROVE Typed'
  BY <1>7 DEF AskEnd, DeleteSessionKey
<1>8. CASE ReloadBegin
  BY <1>8 DEF ReloadBegin
<1>9. CASE ReloadEnd
  BY <1>9 DEF ReloadEnd
<1>10. CASE UNCHANGED vars
  BY <1>10 DEF vars
<1> QED
  BY <1>1, <1>2, <1>3, <1>4, <1>5, <1>6, <1>7, <1>8, <1>9, <1>10
  DEF Next, HandleLogin, HandleUserAccountAuthRequest

-----------------------------------------------------------------------------
(* The cache and the data base *)

\* A known account has a document, or the client that created it writes one.
Recorded ==
  \A n \in accounts :
    docs[n] > 0 \/ \E c \in Clients : login[c] = [do |-> "insert", name |-> n]

\* Before the first reload nothing is taken out of the cache, so whoever has
\* looked an account up or put it there still finds it.
NoneRemoved ==
  reloads = 0 =>
    /\ reload = None /\ ~failed
    /\ \A c \in Clients : login[c].do \in {"insert", "check"} => login[c].name \in accounts
    /\ \A a \in Asks : ask[a].do # "idle" => ask[a].name \in accounts

\* The names a reload has read have documents, which are never deleted.
ReadHaveDocs == reload # None => \A n \in reload : docs[n] > 0

Kept == Recorded /\ NoneRemoved /\ ReadHaveDocs

RecordInv == Typed /\ Kept

LEMMA RecordInit == Init => RecordInv
<1> SUFFICES ASSUME Init PROVE RecordInv
  OBVIOUS
<1>1. Typed
  BY TypedInit
<1> QED
  BY <1>1, ConstantsAssumption
  DEF Init, RecordInv, Kept, Typed, TypeOK, Recorded, NoneRemoved, ReadHaveDocs, Idle

LEMMA RecordStep == RecordInv /\ [Next]_vars => RecordInv'
<1> SUFFICES ASSUME RecordInv, [Next]_vars PROVE RecordInv'
  OBVIOUS
<1>t. Typed /\ Typed'
  BY TypedStep DEF RecordInv
<1> USE <1>t, ConstantsAssumption
    DEF RecordInv, Kept, Typed, TypeOK, NamesKnown, Recorded, NoneRemoved,
        ReadHaveDocs, Idle, LoginStates, AskStates
<1> SUFFICES Kept'
  OBVIOUS
<1>1. ASSUME NEW c \in Clients, NEW n \in Names, LoginBegin(c, n) PROVE Kept'
  BY <1>1 DEF LoginBegin
<1>2. ASSUME NEW c \in Clients, CacheNewAccount(c) PROVE Kept'
  BY <1>2 DEF CacheNewAccount, CacheAccount
<1>3. ASSUME NEW c \in Clients, InsertNewAccount(c) PROVE Kept'
  BY <1>3 DEF InsertNewAccount, InsertDocument
<1>4. ASSUME NEW c \in Clients, NEW banned \in BOOLEAN, LoginEnd(c, banned) PROVE Kept'
  BY <1>4 DEF LoginEnd
<1>5. ASSUME NEW a \in Asks, NEW n \in Names, AskBegin(a, n) PROVE Kept'
  BY <1>5 DEF AskBegin
<1>6. ASSUME NEW a \in Asks, NEW right \in BOOLEAN, NEW banned \in BOOLEAN,
             AskKey(a, right, banned)
      PROVE  Kept'
  BY <1>6 DEF AskKey
<1>7. ASSUME NEW a \in Asks, AskEnd(a) PROVE Kept'
  BY <1>7 DEF AskEnd, DeleteSessionKey
<1>8. CASE ReloadBegin
  BY <1>8 DEF ReloadBegin
<1>9. CASE ReloadEnd
  BY <1>9 DEF ReloadEnd
<1>10. CASE UNCHANGED vars
  BY <1>10 DEF vars
<1> QED
  BY <1>1, <1>2, <1>3, <1>4, <1>5, <1>6, <1>7, <1>8, <1>9, <1>10
  DEF Next, HandleLogin, HandleUserAccountAuthRequest

LEMMA RecordImplies == RecordInv => AccountsRecorded
BY ConstantsAssumption
   DEF RecordInv, Kept, Typed, TypeOK, Recorded, NoneRemoved,
       AccountsRecorded, OnlyReloadRemoves

\* However logins, requests of gateways and reloads are interleaved, an account
\* the server knows is in the data base or about to be written by the client that
\* created it, and only a reload takes an account out under a login or a request
\* (HandleLogin, HandleUserAccountAuthRequest, ReloadAccounts).
THEOREM AccountsRecordedHolds == Spec => []AccountsRecorded
<1>1. RecordInv /\ [Next]_vars => RecordInv'
  BY RecordStep
<1> QED
  BY RecordInit, <1>1, RecordImplies, PTL DEF Spec
-----------------------------------------------------------------------------
(* How often a key is accepted *)

\* The clients whose login under the name goes on, and the logins that have ended
Under(n) == {c \in Clients : login[c].do # "idle" /\ login[c].name = n}
Ended(n) == logins[n] - Cardinality(Under(n))

\* The gateway connections that may still accept the account's key as it is: all but
\* those that are about to delete it.
Open(n) == {a \in Asks : ask[a] # [do |-> "delete", name |-> n]}
Still(n) == IF n \in keys THEN Cardinality(Open(n)) ELSE 0

\* Each login that has ended has let in at most one by each connection, counting
\* those that may still come in with the key that is there.
Share(n) ==
  /\ IsFiniteSet(Under(n)) /\ Cardinality(Under(n)) <= logins[n]
  /\ granted[n] + Still(n) <= Ended(n) * Cardinality(Asks)

GrantInv == Typed /\ \A n \in Names : Share(n)

LEMMA StillFacts ==
  ASSUME NEW n
  PROVE  /\ Cardinality(Asks) \in Nat
         /\ IsFiniteSet(Open(n)) /\ Cardinality(Open(n)) \in Nat
         /\ Cardinality(Open(n)) <= Cardinality(Asks)
         /\ Still(n) \in Nat /\ Still(n) <= Cardinality(Asks)
<1>1. Open(n) \in SUBSET Asks
  BY DEF Open
<1>2. IsFiniteSet(Open(n)) /\ Cardinality(Open(n)) <= Cardinality(Asks)
  BY <1>1, ConstantsAssumption, FS_Subset
<1>3. Cardinality(Asks) \in Nat /\ Cardinality(Open(n)) \in Nat
  BY <1>2, ConstantsAssumption, FS_CardinalityType
<1> QED BY <1>2, <1>3 DEF Still

LEMMA Product ==
  ASSUME NEW d \in Nat, NEW e \in Nat, NEW m \in Nat
  PROVE  d * m \in Nat /\ d * m <= (d + e) * m /\ (d + 1) * m = d * m + m
<1>1. d * m \in Nat /\ e * m \in Nat
  OBVIOUS
<1>2. (d + e) * m = d * m + e * m /\ (d + 1) * m = d * m + m
  OBVIOUS
<1> QED BY <1>1, <1>2

LEMMA ShareFacts ==
  ASSUME Typed, NEW n \in Names, Share(n)
  PROVE  /\ Cardinality(Under(n)) \in Nat /\ logins[n] \in Nat /\ Ended(n) \in Nat
         /\ granted[n] \in Nat /\ Ended(n) * Cardinality(Asks) \in Nat
<1>1. Cardinality(Under(n)) \in Nat
  BY FS_CardinalityType DEF Share
<1>2. logins[n] \in Nat /\ granted[n] \in Nat
  BY ConstantsAssumption DEF Typed, TypeOK
<1>3. Ended(n) \in Nat
  BY <1>1, <1>2 DEF Ended, Share
<1> QED BY <1>1, <1>2, <1>3, StillFacts, Product

\* A step that leaves the logins alone keeps the share if what has been granted and
\* what may still be granted do not grow together.
LEMMA ShareKept ==
  ASSUME Typed, NEW n \in Names, Share(n), Under(n)' = Under(n), logins'[n] = logins[n],
         granted'[n] + Still(n)' <= granted[n] + Still(n),
         granted'[n] \in Nat, Still(n)' \in Nat
  PROVE  Share(n)'
<1>1. Ended(n)' = Ended(n)
  BY DEF Ended
<1>2. granted'[n] + Still(n)' <= Ended(n) * Cardinality(Asks)
  BY ShareFacts, StillFacts DEF Share
<1> QED BY <1>1, <1>2 DEF Share

\* The steps of a login
LEMMA GrantLogin ==
  ASSUME GrantInv, NEW c \in Clients, HandleLogin(c), NEW n \in Names
  PROVE  Share(n)'
<1> USE DEF GrantInv
<1>1. Still(n)' \in Nat /\ Still(n)' <= Cardinality(Asks)
  <2>1. Open(n)' = Open(n)
    BY DEF HandleLogin, LoginBegin, CacheNewAccount, InsertNewAccount, LoginEnd, Open
  <2>2. Still(n)' \in {0, Cardinality(Open(n))}
    BY <2>1 DEF Still
  <2> QED BY <2>2, StillFacts
<1>2. granted' = granted /\ granted[n] \in Nat
  BY ShareFacts
  DEF HandleLogin, LoginBegin, CacheNewAccount, InsertNewAccount, LoginEnd
<1>3. ASSUME NEW m \in Names, LoginBegin(c, m) PROVE Share(n)'
  <2>1. /\ login[c].do = "idle" /\ login'[c].do # "idle" /\ login'[c].name = m
        /\ \A d \in Clients : d # c => login'[d] = login[d]
        /\ logins' = [logins EXCEPT ![m] = @ + 1]
    BY <1>3 DEF LoginBegin, Idle, Typed, TypeOK
  <2>2. Still(n)' = Still(n)
    BY <1>3 DEF LoginBegin, Still, Open
  <2>3. CASE n # m
    <3>1. Under(n)' = Under(n)
      BY <2>1, <2>3 DEF Under
    <3>2. logins'[n] = logins[n]
      BY <2>1, <2>3 DEF Typed, TypeOK
    <3> QED BY <1>1, <1>2, <2>2, <3>1, <3>2, ShareKept
  <2>4. CASE n = m
    <3>1. c \notin Under(n) /\ Under(n)' = Under(n) \cup {c}
      BY <2>1, <2>4 DEF Under
    <3>2. logins'[n] = logins[n] + 1
      BY <2>1, <2>4 DEF Typed, TypeOK
    <3>3. /\ IsFiniteSet(Under(n)')
          /\ Cardinality(Under(n)') = Cardinality(Under(n)) + 1
      BY <3>1, FS_AddElement DEF Share
    <3>4. Ended(n)' = Ended(n)
      BY <3>2, <3>3, ShareFacts DEF Ended
    <3>5. Cardinality(Under(n)') <= logins'[n]
      BY <3>2, <3>3, ShareFacts DEF Share
    <3> QED BY <1>2, <2>2, <3>3, <3>4, <3>5 DEF Share
  <2> QED BY <2>3, <2>4
<1>4. ASSUME CacheNewAccount(c) \/ InsertNewAccount(c) PROVE Share(n)'
  <2>1. /\ login[c].do # "idle" /\ login'[c].do # "idle" /\ login'[c].name = login[c].name
        /\ \A d \in Clients : d # c => login'[d] = login[d]
    BY <1>4 DEF CacheNewAccount, InsertNewAccount, Typed, TypeOK, LoginStates
  <2>2. Under(n)' = Under(n)
    BY <2>1 DEF Under
  <2>3. Still(n)' = Still(n) /\ logins' = logins
    BY <1>4 DEF CacheNewAccount, InsertNewAccount, Still, Open
  <2> QED BY <1>1, <1>2, <2>2, <2>3, ShareKept
<1>5. ASSUME NEW banned \in BOOLEAN, LoginEnd(c, banned) PROVE Share(n)'
  <2>1. logins' = logins
    BY <1>5 DEF LoginEnd
  <2>2. CASE login[c].name \notin accounts
    <3>1. Under(n)' = Under(n) /\ Still(n)' = Still(n)
      BY <1>5, <2>2 DEF LoginEnd, Under, Still, Open
    <3> QED BY <1>1, <1>2, <2>1, <3>1, ShareKept
  <2>3. CASE login[c].name \in accounts
    <3>1. /\ login[c].do # "idle" /\ login'[c].do = "idle"
          /\ \A d \in Clients : d # c => login'[d] = login[d]
      BY <1>5, <2>3 DEF LoginEnd, Idle, Typed, TypeOK
    <3>2. CASE login[c].name # n
      <4>1. Under(n)' = Under(n)
        BY <3>1, <3>2 DEF Under
      <4>2. Still(n)' = Still(n)
        BY <1>5, <2>3, <3>2 DEF LoginEnd, Still, Open
      <4> QED BY <1>1, <1>2, <2>1, <4>1, <4>2, ShareKept
    <3>3. CASE login[c].name = n
      <4>1. c \in Under(n) /\ Under(n)' = Under(n) \ {c}
        BY <3>1, <3>3 DEF Under
      <4>2. /\ IsFiniteSet(Under(n)')
            /\ Cardinality(Under(n)') = Cardinality(Under(n)) - 1
        BY <4>1, FS_RemoveElement DEF Share
      <4>3. Ended(n)' = Ended(n) + 1
        BY <2>1, <4>2, ShareFacts DEF Ended
      <4>4. Ended(n)' * Cardinality(Asks) = Ended(n) * Cardinality(Asks) + Cardinality(Asks)
        BY <4>3, ShareFacts, StillFacts, Product
      <4>5. granted'[n] + Still(n)' <= Ended(n)' * Cardinality(Asks)
        BY <1>1, <1>2, <4>4, ShareFacts, StillFacts DEF Share
      <4>6. Cardinality(Under(n)') <= logins'[n]
        BY <2>1, <4>2, ShareFacts DEF Share
      <4> QED BY <4>2, <4>5, <4>6 DEF Share
    <3> QED BY <3>2, <3>3
  <2> QED BY <2>2, <2>3
<1> QED BY <1>3, <1>4, <1>5 DEF HandleLogin

\* The steps of a request: who accepts the key does not do so again before it has
\* deleted it.
LEMMA GrantAsk ==
  ASSUME GrantInv, NEW a \in Asks, HandleUserAccountAuthRequest(a), NEW n \in Names
  PROVE  Share(n)'
<1> USE DEF GrantInv
<1>1. Under(n)' = Under(n) /\ logins' = logins
  BY DEF HandleUserAccountAuthRequest, AskBegin, AskKey, AskEnd, Under
<1>2. granted[n] \in Nat /\ Still(n) \in Nat /\ Cardinality(Open(n)) \in Nat
  BY ShareFacts, StillFacts
<1>3. ASSUME NEW m \in Names, AskBegin(a, m) PROVE Share(n)'
  <2>1. ask[a].do # "delete" /\ ask'[a].do # "delete"
    BY <1>3 DEF AskBegin, Idle, Typed, TypeOK
  <2>2. Open(n)' = Open(n)
    BY <1>3, <2>1 DEF AskBegin, Open, Typed, TypeOK
  <2>3. Still(n)' = Still(n) /\ granted' = granted
    BY <1>3, <2>2 DEF AskBegin, Still
  <2> QED BY <1>1, <1>2, <2>3, ShareKept
<1>4. ASSUME NEW right \in BOOLEAN, NEW banned \in BOOLEAN, AskKey(a, right, banned)
      PROVE  Share(n)'
  <2>1. /\ ask[a].do = "key" /\ keys' = keys
        /\ ask[a] \in AskStates /\ ask'[a] = [ask[a] EXCEPT !.do = "delete"]
        /\ \A b \in Asks : b # a => ask'[b] = ask[b]
    BY <1>4 DEF AskKey, Typed, TypeOK
  <2>2. CASE ask[a].name # n
    <3>1. ask[a] # [do |-> "delete", name |-> n] /\ ask'[a] # [do |-> "delete", name |-> n]
      BY <2>1, <2>2 DEF AskStates
    <3>2. Open(n)' = Open(n)
      BY <2>1, <3>1 DEF Open
    <3>3. granted'[n] = granted[n]
      BY <1>4, <2>2 DEF AskKey, Typed, TypeOK
    <3> QED BY <1>1, <1>2, <2>1, <3>2, <3>3, ShareKept DEF Still
  <2>3. CASE ask[a].name = n
    <3>1. ask[a] # [do |-> "delete", name |-> n] /\ ask'[a] = [do |-> "delete", name |-> n]
      BY <2>1, <2>3 DEF AskStates
    <3>2. a \in Open(n) /\ Open(n)' = Open(n) \ {a}
      BY <2>1, <3>1 DEF Open
    <3>3. Cardinality(Open(n)') = Cardinality(Open(n)) - 1 /\ Cardinality(Open(n)') \in Nat
      BY <3>2, StillFacts, FS_RemoveElement, FS_CardinalityType
    <3>4. /\ n \in keys => granted'[n] \in {granted[n], granted[n] + 1}
          /\ n \notin keys => granted'[n] = granted[n]
      BY <1>4, <2>3 DEF AskKey, Typed, TypeOK
    <3>5. /\ n \in keys => /\ Still(n) = Cardinality(Open(n))
                           /\ Still(n)' = Cardinality(Open(n)) - 1
          /\ n \notin keys => Still(n) = 0 /\ Still(n)' = 0
      BY <2>1, <3>3 DEF Still
    <3>6. /\ granted'[n] + Still(n)' <= granted[n] + Still(n)
          /\ granted'[n] \in Nat /\ Still(n)' \in Nat
      BY <1>2, <3>3, <3>4, <3>5
    <3> QED BY <1>1, <3>6, ShareKept
  <2> QED BY <2>2, <2>3
<1>5. ASSUME AskEnd(a) PROVE Share(n)'
  <2>1. /\ ask[a].do = "delete" /\ keys' = keys \ {ask[a].name} /\ granted' = granted
        /\ ask'[a].do = "idle" /\ ask[a] \in AskStates
        /\ \A b \in Asks : b # a => ask'[b] = ask[b]
    BY <1>5 DEF AskEnd, DeleteSessionKey, Idle, Typed, TypeOK
  <2>2. CASE ask[a].name = n
    <3>1. Still(n)' = 0
      BY <2>1, <2>2 DEF Still
    <3> QED BY <1>1, <1>2, <2>1, <3>1, ShareKept
  <2>3. CASE ask[a].name # n
    <3>1. ask[a] # [do |-> "delete", name |-> n] /\ ask'[a] # [do |-> "delete", name |-> n]
      BY <2>1, <2>3
    <3>2. Open(n)' = Open(n)
      BY <2>1, <3>1 DEF Open
    <3>3. Still(n)' = Still(n)
      BY <2>1, <2>3, <3>2 DEF Still
    <3> QED BY <1>1, <1>2, <2>1, <3>3, ShareKept
  <2> QED BY <2>2, <2>3
<1> QED BY <1>3, <1>4, <1>5 DEF HandleUserAccountAuthRequest

LEMMA GrantInit == Init => GrantInv
<1> SUFFICES ASSUME Init, NEW n \in Names PROVE Share(n)
  BY TypedInit DEF GrantInv
<1>1. Under(n) = {}
  BY DEF Init, Under, Idle
<1>2. IsFiniteSet(Under(n)) /\ Cardinality(Under(n)) = 0
  BY <1>1, FS_EmptySet
<1>3. logins[n] = 0 /\ granted[n] = 0 /\ Still(n) = 0
  BY DEF Init, Still
<1>4. Ended(n) = 0
  BY <1>2, <1>3 DEF Ended
<1> QED BY <1>2, <1>3, <1>4, StillFacts DEF Share

LEMMA GrantStep == GrantInv /\ [Next]_vars => GrantInv'
<1> SUFFICES ASSUME GrantInv, [Next]_vars, NEW n \in Names PROVE Share(n)'
  BY TypedStep DEF GrantInv
<1>1. CASE ReloadBegin \/ ReloadEnd \/ UNCHANGED vars
  <2>1. UNCHANGED <<login, logins, keys, ask, granted>>
    BY <1>1 DEF ReloadBegin, ReloadEnd, vars
  <2> QED BY <2>1 DEF GrantInv, Share, Under, Ended, Still, Open
<1> QED BY <1>1, GrantLogin, GrantAsk DEF Next

\* However the requests of the gateways cross, a login lets its account in at most
\* once by each gateway connection (GetSessionKey, DeleteSessionKey).
THEOREM GrantsBoundedHolds == Spec => []GrantsBounded
<1>1. GrantInv => GrantsBounded
  <2> SUFFICES ASSUME GrantInv, NEW n \in Names
               PROVE  granted[n] <= logins[n] * Cardinality(Asks)
    BY DEF GrantsBounded
  <2> DEFINE u == Cardinality(Under(n))
  <2>1. u \in Nat /\ Ended(n) \in Nat /\ logins[n] = Ended(n) + u
    BY ShareFacts DEF GrantInv, Ended
  <2>2. Ended(n) * Cardinality(Asks) <= logins[n] * Cardinality(Asks)
    BY <2>1, StillFacts, Product
  <2> QED BY <2>2, <2>1, ShareFacts, StillFacts DEF GrantInv, Share
<1> QED BY <1>1, GrantInit, GrantStep, PTL DEF Spec
=============================================================================
