-------------------------- MODULE AccountLogin --------------------------
(***************************************************************************)
(* What the central server promises an account: at most one session holds  *)
(* it, a login that finds it taken waits, and a waiting login takes over   *)
(* only after the holder has left.  A newcomer may overtake the waiting.   *)
(***************************************************************************)
CONSTANTS Accounts, Sessions, None

VARIABLES holder, waiting

loginVars == <<holder, waiting>>

InUse == {holder[a] : a \in Accounts} \cup UNION {waiting[a] : a \in Accounts}

LoginInit ==
  /\ holder = [a \in Accounts |-> None]
  /\ waiting = [a \in Accounts |-> {}]

\* A new session s takes the free account a.
Enter(a, s) ==
  /\ holder[a] = None /\ s \notin InUse
  /\ holder' = [holder EXCEPT ![a] = s]
  /\ UNCHANGED waiting

\* A new session s finds the account taken.
Wait(a, s) ==
  /\ holder[a] # None /\ s \notin InUse
  /\ waiting' = [waiting EXCEPT ![a] = @ \cup {s}]
  /\ UNCHANGED holder

\* A waiting session takes the free account.
Admit(a, s) ==
  /\ holder[a] = None /\ s \in waiting[a]
  /\ holder' = [holder EXCEPT ![a] = s]
  /\ waiting' = [waiting EXCEPT ![a] = @ \ {s}]

\* A waiting session gives up or is refused.
Drop(a, s) ==
  /\ s \in waiting[a]
  /\ waiting' = [waiting EXCEPT ![a] = @ \ {s}]
  /\ UNCHANGED holder

\* The holders of the accounts A leave.
Leave(A) ==
  /\ \A a \in A : holder[a] # None
  /\ holder' = [a \in Accounts |-> IF a \in A THEN None ELSE holder[a]]
  /\ UNCHANGED waiting

LoginNext ==
  \/ \E a \in Accounts, s \in Sessions : Enter(a, s) \/ Wait(a, s) \/ Admit(a, s) \/ Drop(a, s)
  \/ \E A \in SUBSET Accounts : Leave(A)

LoginSpec == LoginInit /\ [][LoginNext]_loginVars
=============================================================================
