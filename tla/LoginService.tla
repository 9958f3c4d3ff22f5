---------------------------- MODULE LoginService ----------------------------
(***************************************************************************)
(* The accounts and the session keys of the login server.  A client logs   *)
(* in on a socket of its own (DirectSocket), is given a session key and is *)
(* sent to a gateway; the gateway then asks whether the key is good        *)
(* (LogonCommServerSocket).  Both run on network threads; the console of   *)
(* the Windows build may reload the accounts meanwhile.                    *)
(*                                                                         *)
(* The key of an account is the digest of its name, the same at every      *)
(* login, so only whether it is set is kept.  Its expiry time is written   *)
(* and never compared, and is left out.  Banned addresses are an input.    *)
(***************************************************************************)
EXTENDS Integers, FiniteSets

CONSTANTS
  Names,       \* account names
  Clients,     \* sockets of clients that log in
  Asks,        \* gateway connections whose requests are handled
  MaxLogins,   \* bound on the logins of an account
  MaxReloads,  \* bound on the reloads from the console
  None

ASSUME ConstantsAssumption ==
  /\ None \notin Names
  /\ MaxLogins \in Nat /\ MaxReloads \in Nat
  /\ IsFiniteSet(Asks)

VARIABLES
  accounts,  \* AccountDatabase, the cache
  docs,      \* number of documents of each account in the data base
  keys,      \* the names in m_sessionkeys
  login,     \* what each client's HandleLogin does next
  ask,       \* what each gateway's HandleUserAccountAuthRequest does next
  reload,    \* the names ReloadAccounts has read, while it holds setBusy
  reloads,   \* how often it has run
  logins,    \* how often each account has logged in
  granted,   \* how often the key of each account has been accepted
  failed     \* the assertion of HandleLogin has failed

vars == <<accounts, docs, keys, login, ask, reload, reloads, logins, granted, failed>>

Idle == [do |-> "idle", name |-> None]

\* Every access to the cache takes setBusy, which a reload holds all along.
CacheFree == reload = None /\ ~failed

Init ==
  /\ accounts \in SUBSET Names
  /\ docs = [n \in Names |-> IF n \in accounts THEN 1 ELSE 0]
  /\ keys = {}
  /\ login = [c \in Clients |-> Idle]
  /\ ask = [a \in Asks |-> Idle]
  /\ reload = None /\ reloads = 0
  /\ logins = [n \in Names |-> 0] /\ granted = [n \in Names |-> 0]
  /\ failed = FALSE

-----------------------------------------------------------------------------
(* HandleLogin *)

\* Is the account known?
LoginBegin(c, n) ==
  /\ CacheFree /\ login[c] = Idle /\ logins[n] < MaxLogins
  /\ login' = [login EXCEPT ![c] = [do |-> IF n \in accounts THEN "check" ELSE "cache",
                                    name |-> n]]
  /\ logins' = [logins EXCEPT ![n] = @ + 1]
  /\ UNCHANGED <<accounts, docs, keys, ask, reload, reloads, granted, failed>>

\* AddNewAccount puts it into the cache ...
CacheAccount(n) == accounts \cup {n}

CacheNewAccount(c) ==
  /\ CacheFree /\ login[c].do = "cache"
  /\ accounts' = CacheAccount(login[c].name)
  /\ login' = [login EXCEPT ![c].do = "insert"]
  /\ UNCHANGED <<docs, keys, ask, reload, reloads, logins, granted, failed>>

\* Mutant: the document is not written.
InsertNothing(n) == docs

\* ... and, without the lock and without looking, into the data base.
InsertDocument(n) == [docs EXCEPT ![n] = @ + 1]

InsertNewAccount(c) ==
  /\ ~failed /\ login[c].do = "insert"
  /\ docs' = InsertDocument(login[c].name)
  /\ login' = [login EXCEPT ![c].do = "check"]
  /\ UNCHANGED <<accounts, keys, ask, reload, reloads, logins, granted, failed>>

\* The account is looked up again: ASSERT(pAccount != NULL).  Unless the address
\* is banned the key is set; insert keeps a key that is there.
LoginEnd(c, banned) ==
  LET n == login[c].name
  IN /\ CacheFree /\ login[c].do = "check"
     /\ IF n \in accounts
          THEN /\ keys' = IF banned THEN keys ELSE keys \cup {n}
               /\ login' = [login EXCEPT ![c] = Idle]
               /\ UNCHANGED failed
          ELSE /\ failed' = TRUE
               /\ UNCHANGED <<keys, login>>
     /\ UNCHANGED <<accounts, docs, ask, reload, reloads, logins, granted>>

-----------------------------------------------------------------------------
(* HandleUserAccountAuthRequest *)

\* GetAccountInfo, and LoadAccount when the account is not in the cache.  A
\* request for an account that does not exist is refused at once.
AskBegin(a, n) ==
  /\ CacheFree /\ ask[a] = Idle /\ (n \in accounts \/ docs[n] > 0)
  /\ accounts' = accounts \cup {n}
  /\ ask' = [ask EXCEPT ![a] = [do |-> "key", name |-> n]]
  /\ UNCHANGED <<docs, keys, login, reload, reloads, logins, granted, failed>>

\* GetSessionKey; the answer follows from it, and from the key presented (right)
\* and the address.
AskKey(a, right, banned) ==
  LET n == ask[a].name
      good == n \in keys /\ right /\ ~banned
  IN /\ ~failed /\ ask[a].do = "key"
     /\ granted' = [granted EXCEPT ![n] = IF good THEN @ + 1 ELSE @]
     /\ ask' = [ask EXCEPT ![a].do = "delete"]
     /\ UNCHANGED <<accounts, docs, keys, login, reload, reloads, logins, failed>>

\* Mutant: a key that has been used stays.
KeepSessionKey(n) == keys

DeleteSessionKey(n) == keys \ {n}

\* Whatever the answer was.
AskEnd(a) ==
  /\ ~failed /\ ask[a].do = "delete"
  /\ keys' = DeleteSessionKey(ask[a].name)
  /\ ask' = [ask EXCEPT ![a] = Idle]
  /\ UNCHANGED <<accounts, docs, login, reload, reloads, logins, granted, failed>>

-----------------------------------------------------------------------------
(* ReloadAccounts *)

\* The accounts are read and those that are new are added ...
ReloadBegin ==
  LET found == {n \in Names : docs[n] > 0}
  IN /\ CacheFree /\ reloads < MaxReloads
     /\ reload' = found
     /\ accounts' = accounts \cup found
     /\ reloads' = reloads + 1
     /\ UNCHANGED <<docs, keys, login, ask, logins, granted, failed>>

\* ... and those that were not found are taken out.
ReloadEnd ==
  /\ reload # None /\ ~failed
  /\ accounts' = accounts \cap reload
  /\ reload' = None
  /\ UNCHANGED <<docs, keys, login, ask, reloads, logins, granted, failed>>

-----------------------------------------------------------------------------
HandleLogin(c) ==
  \/ \E n \in Names : LoginBegin(c, n)
  \/ CacheNewAccount(c)
  \/ InsertNewAccount(c)
  \/ \E banned \in BOOLEAN : LoginEnd(c, banned)

HandleUserAccountAuthRequest(a) ==
  \/ \E n \in Names : AskBegin(a, n)
  \/ \E right, banned \in BOOLEAN : AskKey(a, right, banned)
  \/ AskEnd(a)

Next ==
  \/ \E c \in Clients : HandleLogin(c)
  \/ \E a \in Asks : HandleUserAccountAuthRequest(a)
  \/ ReloadBegin \/ ReloadEnd

Spec == Init /\ [][Next]_vars

-----------------------------------------------------------------------------
(* Properties *)

LoginStates == [do : {"idle", "cache", "insert", "check"}, name : Names \cup {None}]
AskStates == [do : {"idle", "key", "delete"}, name : Names \cup {None}]

TypeOK ==
  /\ accounts \subseteq Names /\ keys \subseteq Names
  /\ docs \in [Names -> Nat]
  /\ login \in [Clients -> LoginStates]
  /\ ask \in [Asks -> AskStates]
  /\ reload \in (SUBSET Names) \cup {None}
  /\ reloads \in 0..MaxReloads
  /\ logins \in [Names -> 0..MaxLogins]
  /\ granted \in [Names -> Nat]
  /\ failed \in BOOLEAN

\* HandleLogin's account exists and the account of a request does not vanish under
\* it: only a reload can take an account out between two of their steps.
OnlyReloadRemoves ==
  (failed \/ \E a \in Asks : ask[a].do # "idle" /\ ask[a].name \notin accounts)
    => reloads > 0

\* An account that the server knows is in the data base, or the client that
\* created it is about to write it there: no login is answered for an account
\* that would be gone after a restart.  And no account vanishes between two steps
\* of a login or of a request, except by a reload.
AccountsRecorded ==
  /\ TypeOK /\ OnlyReloadRemoves
  /\ \A n \in accounts :
       docs[n] > 0 \/ \E c \in Clients : login[c] = [do |-> "insert", name |-> n]

\* A login lets nobody in twice one after the other: its key is accepted at most
\* once by each gateway connection, where requests for it may cross.
GrantsBounded ==
  \A n \in Names : granted[n] <= logins[n] * Cardinality(Asks)

\* ASSERT(pAccount != NULL) after AddNewAccount (DirectSocketMsgHandler.cpp)
AccountAssertion == ~failed
=============================================================================
