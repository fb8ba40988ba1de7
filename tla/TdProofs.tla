------------------------------ MODULE TdProofs ------------------------------
(***************************************************************************)
(* Proofs about BinanceTd, its session (TdSession) and its orders          *)
(* (TdOrders).  For any accounts, any of them enabled and any number of    *)
(* logins: what a successful login and what stop() leave behind, with      *)
(* refresh tasks of several logins running beside them.  For any orders,   *)
(* accounts and operations, as many as may be in progress at once: what an *)
(* Ok of a futures order is worth, that cancel_all_orders misses none, and *)
(* what a query may return.                                                *)
(***************************************************************************)
EXTENDS TdSession, TdOrders, SequenceTheorems, TLAPS

-----------------------------------------------------------------------------
(* The session.                                                            *)

\* Login n has account a in hand: its client, and a task that refreshes its key.
Served(a, n) == /\ client[a] = n
                /\ refresh[<<a, n>>] \in Running /\ <<a, n>> \notin aborted

EnabledAt == 1 .. Len(EnabledAccounts)

Places ==
  /\ owner \in {"creating", "stopping", "deleting"} => step \in EnabledAt
  /\ owner \in {"creating", "info"} => logins \in 1 .. MaxLogins /\ result = "none"
  /\ stopped => owner = "idle"
\* No task and no abort is older than its client.
Fresh ==
  /\ \A c \in Clients : refresh[c] # "none" =>
       /\ c[2] <= logins
       /\ owner = "creating" /\ c[2] = logins => \E i \in 1 .. step - 1 : c[1] = EnabledAccounts[i]
  /\ \A c \in aborted : refresh[c] # "none"
LoggingIn ==
  /\ owner = "creating" => \A i \in 1 .. step - 1 : Served(EnabledAccounts[i], logins)
  /\ owner = "info" => \A i \in EnabledAt : Served(EnabledAccounts[i], logins)
LoggedIn ==
  result = "true" /\ owner = "idle" /\ ~stopped => \A i \in EnabledAt : Served(EnabledAccounts[i], logins)
Aborting ==
  stopped \/ owner \in {"stopping", "deleting"} => \A c \in Clients : refresh[c] \in Running => c \in aborted
Deleted(a) == client[a] # 0 /\ key[a] => a \in undeleted \cup revived
Deleting ==
  /\ owner \in {"stopping", "deleting"} => \A i \in 1 .. step - 1 : Deleted(EnabledAccounts[i])
  /\ stopped => \A i \in EnabledAt : Deleted(EnabledAccounts[i])
  /\ \A a \in AccountTypes : client[a] # 0 => \E i \in EnabledAt : a = EnabledAccounts[i]

TdInv ==
  /\ TdTypeOK /\ Places /\ Fresh
  /\ LoggingIn /\ LoggedIn
  /\ Aborting /\ Deleting

LEMMA EnabledTypes ==
  /\ Len(EnabledAccounts) \in Nat /\ MaxLogins \in Nat /\ Spot \in AccountTypes
  /\ \A i \in EnabledAt : EnabledAccounts[i] \in AccountTypes
  /\ \A i, j \in EnabledAt : EnabledAccounts[i] = EnabledAccounts[j] => i = j
<1>1. \A i \in 1 .. Len(EnabledAccounts) : EnabledAccounts[i] \in AccountTypes
  BY AccountsAssumption, ElementOfSeq
<1> QED
  BY <1>1, AccountsAssumption, EnabledAssumption, LoginsAssumption DEF EnabledAt

LEMMA InitTdInv == TdInit => TdInv
<1> SUFFICES ASSUME TdInit PROVE TdInv
  OBVIOUS
<1>1. TdTypeOK
  <2>1. 0 \in 0 .. Len(EnabledAccounts) + 1 /\ 0 \in 0 .. MaxLogins
    BY EnabledTypes
  <2>2. client \in [AccountTypes -> 0 .. MaxLogins] /\ key \in [AccountTypes -> BOOLEAN]
    BY <2>1 DEF TdInit
  <2>3. /\ refresh \in [Clients -> {"none", "ended"} \cup Running]
        /\ ws \in [1 .. MaxLogins -> {"none", "open", "ended"}]
    BY DEF TdInit
  <2> QED
    BY <2>1, <2>2, <2>3 DEF TdInit, TdTypeOK
<1> QED
  BY <1>1 DEF TdInit, TdInv, Places, Fresh, LoggingIn, LoggedIn, Aborting, Deleting, Running

-----------------------------------------------------------------------------
(* Steps beside the owner's.                                               *)

\* A step that leaves all but the connections of spot clients alone.
LEMMA WsKeeps ==
  ASSUME TdInv, UNCHANGED <<ownervars, client, refresh, aborted, keyvars>>,
         ws' \in [1 .. MaxLogins -> {"none", "open", "ended"}]
  PROVE  TdInv'
<1> USE DEF ownervars, keyvars, TdInv
<1>1. TdTypeOK' /\ Places' /\ Fresh'
  BY DEF TdTypeOK, Places, Fresh
<1>2. LoggingIn' /\ LoggedIn' /\ Aborting' /\ Deleting'
  BY DEF LoggingIn, LoggedIn, Aborting, Deleting, Served, Deleted
<1> QED
  BY <1>1, <1>2

\* A refresh task moves on, and ends only if it was aborted.
LEMMA RefreshKeeps ==
  ASSUME TdInv, NEW c \in Clients, refresh[c] \in Running,
         NEW r \in Running \cup {"ended"}, refresh' = [refresh EXCEPT ![c] = r],
         r \in Running \/ c \in aborted,
         UNCHANGED <<ownervars, client, aborted, ws, keyvars>>
  PROVE  TdInv'
<1> USE DEF ownervars, keyvars, TdInv
<1>1. \A d \in Clients : refresh'[d] = IF d = c THEN r ELSE refresh[d]
  BY DEF TdTypeOK
<1>2. TdTypeOK' /\ Places'
  BY DEF TdTypeOK, Places
<1>3. Fresh'
  BY <1>1 DEF Fresh, Running, TdTypeOK
<1>4. LoggingIn' /\ LoggedIn'
  <2>1. ASSUME NEW a \in AccountTypes, Served(a, logins) PROVE Served(a, logins)'
    <3>1. CASE <<a, logins>> = c
      BY <1>1, <2>1, <3>1 DEF Served
    <3>2. CASE <<a, logins>> # c
      BY <1>1, <2>1, <3>2 DEF Served, TdTypeOK
    <3> QED
      BY <3>1, <3>2
  <2>2. \A i \in EnabledAt : EnabledAccounts[i] \in AccountTypes /\ (Served(EnabledAccounts[i], logins) => Served(EnabledAccounts[i], logins)')
    BY <2>1, EnabledTypes
  <2>3. owner = "creating" => \A i \in 1 .. step - 1 : i \in EnabledAt
    BY EnabledTypes DEF Places, EnabledAt
  <2> QED
    BY <2>2, <2>3 DEF LoggingIn, LoggedIn, Served
<1>5. Aborting'
  BY <1>1 DEF Aborting, Running
<1>6. Deleting'
  BY DEF Deleting, Deleted
<1> QED
  BY <1>2, <1>3, <1>4, <1>5, <1>6

LEMMA RefresherKeeps == ASSUME TdInv, NEW c \in Clients, Refresher(c) PROVE TdInv'
<1>1. CASE Tick(c)
  BY <1>1, RefreshKeeps DEF Tick, Running
<1>2. CASE KeepaliveAnswered(c)
  BY <1>2, RefreshKeeps DEF KeepaliveAnswered, Running
<1>3. CASE Report(c)
  BY <1>3, RefreshKeeps DEF Report, Running
<1>4. CASE Cancelled(c)
  BY <1>4, RefreshKeeps DEF Cancelled, Running
<1> QED
  BY <1>1, <1>2, <1>3, <1>4 DEF Refresher

-----------------------------------------------------------------------------
(* login().                                                                *)

\* The owner leaves login with an answer, or waits for the exchange info.
LEMMA LoginKeeps == ASSUME TdInv, Login PROVE TdInv'
<1> USE DEF TdInv, Login
<1>1. /\ owner = "idle" /\ logins' = logins + 1 /\ logins < MaxLogins /\ logins \in Nat
      /\ step' = 1 /\ ~stopped' /\ deadline' = "pending"
      /\ UNCHANGED <<client, refresh, aborted, key, ws, late, undeleted, revived>>
  BY EnabledTypes DEF LoginGoesOn, TdTypeOK, keyvars
<1>2. \/ 1 <= Len(EnabledAccounts) /\ owner' = "creating" /\ result' = "none"
      \/ owner' = "info" /\ result' = "none" /\ client[Spot] # 0 /\ ~(1 <= Len(EnabledAccounts))
      \/ owner' = "idle" /\ result' = "true" /\ ~(1 <= Len(EnabledAccounts))
  BY <1>1 DEF LoginGoesOn, Answer
<1>3. TdTypeOK'
  <2>1. /\ logins' \in 0 .. MaxLogins /\ step' \in 0 .. Len(EnabledAccounts) + 1
        /\ owner' \in {"idle", "creating", "info", "stopping", "deleting"} /\ result' \in {"none", "true", "false"}
    BY <1>1, <1>2, EnabledTypes
  <2> QED
    BY <1>1, <2>1 DEF TdTypeOK
<1>4. Places'
  BY <1>1, <1>2, EnabledTypes DEF Places, EnabledAt
<1>5. Fresh'
  BY <1>1, <1>2 DEF Fresh, Clients
<1>6. LoggingIn' /\ LoggedIn'
  BY <1>1, <1>2, EnabledTypes DEF LoggingIn, LoggedIn, EnabledAt
<1>7. Aborting' /\ Deleting'
  BY <1>1, <1>2 DEF Aborting, Deleting, Deleted
<1> QED
  BY <1>3, <1>4, <1>5, <1>6, <1>7

LEMMA KeyCreatedKeeps == ASSUME TdInv, KeyCreated PROVE TdInv'
<1> USE DEF TdInv, KeyCreated
<1> DEFINE new == <<Now, logins>>
<1>1. /\ owner = "creating" /\ step \in EnabledAt /\ logins \in 1 .. MaxLogins /\ result = "none"
      /\ ~stopped /\ Now \in AccountTypes /\ new \in Clients
      /\ UNCHANGED <<logins, deadline, stopped, aborted, ws, late, undeleted, revived>>
  BY EnabledTypes DEF Places, EnabledAt, Now, Clients
<1>2. /\ step' = step + 1
      /\ \/ step + 1 <= Len(EnabledAccounts) /\ owner' = "creating" /\ result' = "none"
         \/ ~(step + 1 <= Len(EnabledAccounts)) /\ owner' = "info" /\ result' = "none"
         \/ ~(step + 1 <= Len(EnabledAccounts)) /\ owner' = "idle" /\ result' = "true"
  BY DEF LoginGoesOn, Answer
<1>3. /\ \A a \in AccountTypes : client'[a] = IF a = Now THEN logins ELSE client[a]
      /\ \A a \in AccountTypes : key'[a] = IF a = Now THEN TRUE ELSE key[a]
      /\ \A c \in Clients : refresh'[c] = IF c = new THEN "sleeping" ELSE refresh[c]
  BY DEF TdTypeOK
<1>4. TdTypeOK'
  <2>1. /\ step' \in 0 .. Len(EnabledAccounts) + 1 /\ logins \in 0 .. MaxLogins
        /\ owner' \in {"idle", "creating", "info", "stopping", "deleting"} /\ result' \in {"none", "true", "false"}
    BY <1>1, <1>2, EnabledTypes DEF EnabledAt
  <2>2. client' \in [AccountTypes -> 0 .. MaxLogins] /\ key' \in [AccountTypes -> BOOLEAN]
    BY <2>1 DEF TdTypeOK
  <2>3. refresh' \in [Clients -> {"none", "ended"} \cup Running]
    BY DEF TdTypeOK, Running
  <2> QED
    BY <1>1, <2>1, <2>2, <2>3 DEF TdTypeOK
<1>5. Places'
  BY <1>1, <1>2, EnabledTypes DEF Places, EnabledAt
<1>6. Fresh'
  <2>1. ASSUME NEW c \in Clients, refresh'[c] # "none"
        PROVE  /\ c[2] <= logins
               /\ owner' = "creating" /\ c[2] = logins => \E i \in 1 .. step' - 1 : c[1] = EnabledAccounts[i]
    <3>1. CASE c = new
      BY <1>1, <1>2, <3>1, EnabledTypes DEF EnabledAt, Now
    <3>2. CASE c # new
      <4>1. refresh[c] # "none"
        BY <1>3, <2>1, <3>2
      <4>2. \A i \in 1 .. step - 1 : i \in 1 .. step' - 1
        BY <1>1, <1>2, EnabledTypes DEF EnabledAt
      <4> QED
        BY <1>1, <4>1, <4>2 DEF Fresh
    <3> QED
      BY <3>1, <3>2
  <2>2. \A c \in aborted : refresh'[c] # "none"
    BY <1>3 DEF Fresh, TdTypeOK
  <2> QED
    BY <1>1, <2>1, <2>2 DEF Fresh
<1>7. new \notin aborted
  <2>1. refresh[new] = "none"
    <3>1. SUFFICES ASSUME refresh[new] # "none" PROVE FALSE
      OBVIOUS
    <3>2. PICK i \in 1 .. step - 1 : new[1] = EnabledAccounts[i]
      BY <1>1, <3>1 DEF Fresh
    <3>3. i \in EnabledAt /\ i # step /\ EnabledAccounts[i] = EnabledAccounts[step]
      BY <1>1, <3>2, EnabledTypes DEF EnabledAt, Now
    <3> QED
      BY <1>1, <3>3, EnabledTypes
  <2> QED
    BY <2>1 DEF Fresh
<1>8. \A i \in 1 .. step : Served(EnabledAccounts[i], logins)'
  <2> SUFFICES ASSUME NEW i \in 1 .. step PROVE Served(EnabledAccounts[i], logins)'
    OBVIOUS
  <2>1. i \in EnabledAt /\ <<EnabledAccounts[i], logins>> \in Clients /\ EnabledAccounts[i] \in AccountTypes
    BY <1>1, EnabledTypes DEF EnabledAt, Clients
  <2>2. CASE i = step
    BY <1>1, <1>3, <1>7, <2>1, <2>2 DEF Served, Now, Running
  <2>3. CASE i # step
    <3>1. Served(EnabledAccounts[i], logins) /\ EnabledAccounts[i] # Now
      BY <1>1, <2>1, <2>3, EnabledTypes DEF LoggingIn, EnabledAt, Now
    <3> QED
      BY <1>1, <1>3, <2>1, <3>1 DEF Served
  <2> QED
    BY <2>2, <2>3
<1>9. LoggingIn' /\ LoggedIn'
  <2>1. step' - 1 = step /\ (~(step + 1 <= Len(EnabledAccounts)) => EnabledAt = 1 .. step)
    BY <1>1, <1>2, EnabledTypes DEF EnabledAt
  <2> QED
    BY <1>1, <1>2, <1>8, <2>1 DEF LoggingIn, LoggedIn, Served
<1>10. Aborting' /\ Deleting'
  <2>1. \A a \in AccountTypes : client'[a] # 0 => \E i \in EnabledAt : a = EnabledAccounts[i]
    BY <1>1, <1>3 DEF Deleting, Now
  <2> QED
    BY <1>1, <1>2, <2>1 DEF Aborting, Deleting, Places
<1> QED
  BY <1>4, <1>5, <1>6, <1>9, <1>10

LEMMA LoginEndsKeeps == ASSUME TdInv, CreateFails \/ TimerFires \/ InfoAnswered PROVE TdInv'
<1> USE DEF TdInv
<1>1. /\ owner \in {"creating", "info"} /\ owner' \in {owner, "idle"}
      /\ UNCHANGED <<step, logins, stopped, client, refresh, aborted, ws, undeleted, revived>>
      /\ owner' = owner => result' = result
      /\ owner' = "idle" => result' = "false" \/ (result' = "true" /\ owner = "info")
  BY DEF CreateFails, TimerFires, InfoAnswered, Answer, keyvars
<1>2. key' \in [AccountTypes -> BOOLEAN] /\ deadline' \in {"pending", "fired"} /\ late' \subseteq Clients
  <2>1. CASE CreateFails
    <3>1. <<Now, logins>> \in Clients
      BY <2>1, EnabledTypes DEF CreateFails, Places, EnabledAt, Now, Clients
    <3> QED
      BY <2>1, <3>1 DEF CreateFails, TdTypeOK
  <2>2. CASE TimerFires \/ InfoAnswered
    BY <2>2 DEF TimerFires, InfoAnswered, TdTypeOK, keyvars
  <2> QED
    BY <2>1, <2>2
<1>3. TdTypeOK' /\ Places'
  BY <1>1, <1>2 DEF TdTypeOK, Places
<1>4. Fresh' /\ Aborting' /\ Deleting'
  BY <1>1 DEF Fresh, Aborting, Deleting, Places
<1>5. LoggingIn' /\ LoggedIn'
  BY <1>1 DEF LoggingIn, LoggedIn, Served, Places
<1> QED
  BY <1>3, <1>4, <1>5

-----------------------------------------------------------------------------
(* stop().                                                                 *)

LEMMA StopKeeps == ASSUME TdInv, Stop PROVE TdInv'
<1> USE DEF TdInv, Stop
<1>1. /\ owner = "idle" /\ step' = 1 /\ undeleted' = {}
      /\ UNCHANGED <<logins, deadline, result, client, refresh, key, ws, late, revived>>
      /\ \/ 1 <= Len(EnabledAccounts) /\ owner' = "stopping" /\ ~stopped'
         \/ ~(1 <= Len(EnabledAccounts)) /\ owner' = "idle" /\ stopped'
  BY DEF StopGoesOn
<1>2. TdTypeOK'
  <2>1. step' \in 0 .. Len(EnabledAccounts) + 1 /\ aborted' \subseteq Clients
    BY <1>1, EnabledTypes DEF TdTypeOK
  <2>2. owner' \in {"idle", "creating", "info", "stopping", "deleting"} /\ stopped' \in BOOLEAN
    BY <1>1 DEF StopGoesOn
  <2> QED
    BY <1>1, <2>1, <2>2 DEF TdTypeOK
<1>3. Places'
  BY <1>1, EnabledTypes DEF Places, EnabledAt
<1>4. Fresh'
  BY <1>1 DEF Fresh, Running
<1>5. LoggingIn' /\ LoggedIn'
  BY <1>1 DEF LoggingIn, LoggedIn
<1>6. Aborting'
  BY <1>1 DEF Aborting
<1>7. Deleting'
  BY <1>1, EnabledTypes DEF Deleting, EnabledAt
<1> QED
  BY <1>2, <1>3, <1>4, <1>5, <1>6, <1>7

\* The next account, or the end: nobody refreshes, and the account just seen
\* to has no key that is not accounted for.
LEMMA StopGoesOnKeeps == ASSUME TdInv, NoClient \/ DeleteAnswered PROVE TdInv'
<1> USE DEF TdInv
<1>1. /\ owner \in {"stopping", "deleting"} /\ step \in EnabledAt /\ ~stopped /\ step' = step + 1
      /\ UNCHANGED <<logins, deadline, result, client, refresh, aborted, ws, late>>
      /\ \/ step + 1 <= Len(EnabledAccounts) /\ owner' = "stopping" /\ ~stopped'
         \/ ~(step + 1 <= Len(EnabledAccounts)) /\ owner' = "idle" /\ stopped'
  BY DEF NoClient, DeleteAnswered, StopGoesOn, Places, keyvars
<1>2. ASSUME NEW a \in AccountTypes
      PROVE  /\ a = EnabledAccounts[step] => Deleted(a)'
             /\ a # EnabledAccounts[step] =>
                  /\ key'[a] = key[a]
                  /\ a \in undeleted \cup revived => a \in undeleted' \cup revived'
  <2>1. CASE NoClient
    BY <1>1, <2>1 DEF NoClient, Deleted, Now, keyvars
  <2>2. CASE DeleteAnswered
    BY <1>1, <2>2 DEF DeleteAnswered, Deletion, Deleted, TdTypeOK, Now
  <2> QED
    BY <2>1, <2>2
<1>3. TdTypeOK'
  <2>1. step' \in 0 .. Len(EnabledAccounts) + 1
    BY <1>1, EnabledTypes DEF EnabledAt
  <2>2. owner' \in {"idle", "creating", "info", "stopping", "deleting"} /\ stopped' \in BOOLEAN
    BY <1>1 DEF NoClient, DeleteAnswered, StopGoesOn
  <2>3. /\ key' \in [AccountTypes -> BOOLEAN]
        /\ undeleted' \subseteq AccountTypes /\ revived' \subseteq AccountTypes
    BY <1>1, EnabledTypes DEF NoClient, DeleteAnswered, Deletion, TdTypeOK, Now, keyvars
  <2> QED
    BY <1>1, <2>1, <2>2, <2>3 DEF TdTypeOK
<1>4. Places'
  BY <1>1, EnabledTypes DEF Places, EnabledAt
<1>5. Fresh' /\ LoggingIn' /\ LoggedIn' /\ Aborting'
  BY <1>1 DEF Fresh, LoggingIn, LoggedIn, Aborting
<1>6. \A i \in 1 .. step : Deleted(EnabledAccounts[i])'
  <2> SUFFICES ASSUME NEW i \in 1 .. step PROVE Deleted(EnabledAccounts[i])'
    OBVIOUS
  <2>1. EnabledAccounts[i] \in AccountTypes /\ i \in EnabledAt
    BY <1>1, EnabledTypes DEF EnabledAt
  <2>2. CASE i = step
    BY <1>2, <2>1, <2>2
  <2>3. CASE i # step
    <3>1. Deleted(EnabledAccounts[i]) /\ EnabledAccounts[i] # EnabledAccounts[step]
      BY <1>1, <2>1, <2>3, EnabledTypes DEF Deleting, EnabledAt
    <3> QED
      BY <1>1, <1>2, <2>1, <3>1 DEF Deleted
  <2> QED
    BY <2>2, <2>3
<1>7. Deleting'
  <2>1. step' - 1 = step /\ (~(step + 1 <= Len(EnabledAccounts)) => EnabledAt = 1 .. step)
    BY <1>1, EnabledTypes DEF EnabledAt
  <2> QED
    BY <1>1, <1>6, <2>1 DEF Deleting, Deleted
<1> QED
  BY <1>3, <1>4, <1>5, <1>7

\* The client's lock is taken and its DELETE sent.
LEMMA ClientShutDownKeeps == ASSUME TdInv, ClientShutDown PROVE TdInv'
<1> USE DEF TdInv, ClientShutDown, keyvars
<1>1. TdTypeOK' /\ Places' /\ Fresh'
  BY DEF TdTypeOK, Places, Fresh
<1>2. LoggingIn' /\ LoggedIn' /\ Aborting' /\ Deleting'
  BY DEF LoggingIn, LoggedIn, Aborting, Deleting, Deleted
<1> QED
  BY <1>1, <1>2

\* A key made after its deletion is revived.
LEMMA LateCreateKeeps == ASSUME TdInv, NEW c \in Clients, LateCreate(c) PROVE TdInv'
<1> USE DEF TdInv, LateCreate, ownervars
<1>1. c[1] \in AccountTypes /\ \A a \in AccountTypes : key'[a] = IF a = c[1] THEN TRUE ELSE key[a]
  BY DEF TdTypeOK, Clients
<1>2. TdTypeOK' /\ Places' /\ Fresh'
  BY <1>1 DEF TdTypeOK, Places, Fresh
<1>3. LoggingIn' /\ LoggedIn' /\ Aborting'
  BY DEF LoggingIn, LoggedIn, Aborting, Served
<1>4. ASSUME NEW a \in AccountTypes, Deleted(a) PROVE Deleted(a)'
  BY <1>1, <1>4 DEF Deleted
<1>5. Deleting'
  <2>1. \A i \in EnabledAt : Deleted(EnabledAccounts[i]) => Deleted(EnabledAccounts[i])'
    BY <1>4, EnabledTypes
  <2>2. owner \in {"stopping", "deleting"} => \A i \in 1 .. step - 1 : i \in EnabledAt
    BY EnabledTypes DEF Places, EnabledAt
  <2> QED
    BY <2>1, <2>2 DEF Deleting, Deleted
<1> QED
  BY <1>2, <1>3, <1>5

LEMMA NextTdInv == TdInv /\ [TdNext]_tdvars => TdInv'
<1> SUFFICES ASSUME TdInv, [TdNext]_tdvars PROVE TdInv'
  OBVIOUS
<1>1. CASE UNCHANGED tdvars
  BY <1>1, WsKeeps DEF tdvars, ownervars, TdInv, TdTypeOK
<1>2. CASE SpotOrder \/ \E n \in 1 .. MaxLogins : WsEnds(n)
  BY <1>2, WsKeeps DEF SpotOrder, WsEnds, TdInv, TdTypeOK
<1>3. CASE \E c \in Clients : Refresher(c) \/ LateCreate(c)
  BY <1>3, RefresherKeeps, LateCreateKeeps
<1>4. CASE Login \/ KeyCreated \/ CreateFails \/ TimerFires \/ InfoAnswered
  BY <1>4, LoginKeeps, KeyCreatedKeeps, LoginEndsKeeps
<1>5. CASE Stop \/ NoClient \/ ClientShutDown \/ DeleteAnswered
  BY <1>5, StopKeeps, StopGoesOnKeeps, ClientShutDownKeeps
<1> QED
  BY <1>1, <1>2, <1>3, <1>4, <1>5 DEF TdNext, Owner

-----------------------------------------------------------------------------
\* The invariant of TdSession, which the theorems below rest on.
THEOREM TdInvariance == TdSpec => []TdInv
BY InitTdInv, NextTdInv, PTL DEF TdSpec

(* Every variable keeps its type.                                          *)
THEOREM TdTypeCorrect == TdSpec => []TdTypeOK
<1>1. TdInv => TdTypeOK
  BY DEF TdInv
<1> QED
  BY <1>1, TdInvariance, PTL

(* mod.rs:138-258: after login() has returned true, and until stop() is    *)
(* called, each enabled account has this login's client and a task that    *)
(* refreshes its key.                                                      *)
THEOREM LoginServesAll == TdSpec => []LoggedInIsRefreshed
<1>1. TdInv => LoggedInIsRefreshed
  BY DEF TdInv, LoggedIn, LoggedInIsRefreshed, Served, EnabledAt
<1> QED
  BY <1>1, TdInvariance, PTL

(* mod.rs:408-413: after stop() no task of any login sends a keepalive.    *)
THEOREM StopSilencesAll == TdSpec => NoKeepaliveAfterStop
<1>1. ASSUME TdInv, stopped, NEW c \in Clients, refresh[c] # "sending", refresh'[c] = "sending",
             [TdNext]_tdvars
      PROVE  FALSE
  <2>1. owner = "idle" /\ (refresh[c] \in Running => c \in aborted)
    BY <1>1 DEF TdInv, Places, Aborting
  <2>2. refresh' # refresh
    BY <1>1
  <2>3. \E d \in Clients : Refresher(d)
    BY <1>1, <2>1, <2>2 DEF TdNext, Owner, tdvars, ownervars, Login, KeyCreated, CreateFails,
       TimerFires, InfoAnswered, SpotOrder, Stop, NoClient, ClientShutDown, DeleteAnswered, WsEnds,
       LateCreate
  <2>4. PICK d \in Clients : Refresher(d)
    BY <2>3
  <2>5. d = c
    BY <1>1, <2>4 DEF Refresher, Tick, KeepaliveAnswered, Report, Cancelled, TdInv, TdTypeOK
  <2> QED
    BY <1>1, <2>1, <2>4, <2>5 DEF Refresher, Tick, KeepaliveAnswered, Report, Cancelled,
                                  TdInv, TdTypeOK, Running
<1>2. TdInv /\ [TdNext]_tdvars =>
        [\A c \in Clients : stopped => ~(refresh[c] # "sending" /\ refresh'[c] = "sending")]_tdvars
  BY <1>1
<1> QED
  BY <1>2, TdInvariance, PTL DEF TdSpec, NoKeepaliveAfterStop

(* mod.rs:414-423: stop() deletes every listen key it can: one that is     *)
(* left is one whose DELETE failed, or one that a creation login had given *)
(* up on made after the DELETE.                                            *)
THEOREM StopDeletesKeys == TdSpec => []KeysDeleted
<1>1. TdInv => KeysDeleted
  BY DEF TdInv, KeysDeleted, Deleting, Deleted
<1> QED
  BY <1>1, TdInvariance, PTL

-----------------------------------------------------------------------------
(* The orders.                                                             *)

BookStates == {"none", "open", "filled", "cancelled", "rejected"}
Placed == {"open", "filled", "cancelled"}
AllPositions == Accounts \X {SymbolOf[o] : o \in Orders}
Things == Orders \cup AllPositions

\* How an order's state may change: what is closed stays as it is.
Later(s, t) == s = t \/ s = "none" \/ (s = "open" /\ t \in {"filled", "cancelled"})

Types ==
  /\ TypeOK
  /\ request \in [Requests -> {"idle", "open", "ok", "refused", "given up"}]
  /\ book \in [Orders -> BookStates]
  /\ todo \in [Ops -> SUBSET Requests]
  /\ got \in [Ops -> SUBSET Things]
  /\ listed \in [Requests -> SUBSET Things]
  /\ before \in [Ops -> [Orders -> BookStates]]
  /\ held \in [Ops -> SUBSET AllPositions] /\ seen \in [Ops -> SUBSET AllPositions]

\* The requests that an operation makes.
Legit(c) ==
  \/ c.op.kind \in {"insert", "cancel"} /\ c.on = c.op.order
  \/ c.op.kind = "cancel_all" /\ c.op.account # "spot" /\ c.on = "all"
  \/ c.op.kind = "cancel_all" /\ c.op.account = "spot" /\ c.on = "list"
  \/ /\ c.op.kind = "cancel_all" /\ c.op.account = "spot"
     /\ c.on \in Orders /\ AccountOf[c.on] = "spot" /\ SymbolOf[c.on] = c.op.symbol
  \/ c.op.kind = "query" /\ c.on \in Asked(c.op)

(* An operation asks for what it was called for, one thing at a time, and  *)
(* is not through before all is answered.                                  *)
Listed == \A p \in Ops : \A c \in todo[p] : c.op = p /\ Legit(c) /\ at[p] = "running"
Made == \A c \in Requests : request[c] # "idle" => Legit(c) /\ at[c.op] # "not made"
Awaiting == \A c \in Requests : request[c] = "open" => c \in todo[c.op]
OneAtATime ==
  \A c, d \in Requests : request[c] = "open" /\ request[d] = "open" /\ c.op = d.op => c = d
Issued == \A c \in carried : request[c] # "idle"
Asking == Listed /\ Made /\ Awaiting /\ OneAtATime /\ Issued

(* What a request carried out has made of the orders.                      *)
Placing ==
  \A c \in Requests : c.op.kind = "insert" /\ c.on = c.op.order =>
    /\ c \notin carried => book[c.on] = "none"
    /\ c \in accepted => book[c.on] \in Placed
Closing ==
  \A c \in accepted : c.op.kind \in {"cancel", "cancel_all"} /\ c.on \in Orders =>
    book[c.on] \in {"filled", "cancelled"}
Aging == \A p \in Ops : at[p] # "not made" => \A o \in Orders : Later(before[p][o], book[o])
Standing == \A p \in Ops : at[p] # "not made" => held[p] \subseteq Positions(book) /\ Positions(book) \subseteq seen[p]
AskedToCancel(o) ==
  \E p \in Ops : /\ at[p] # "not made"
                 /\ \/ p.kind = "cancel" /\ p.order = o
                    \/ p.kind = "cancel_all" /\ p.account = AccountOf[o] /\ p.symbol = SymbolOf[o]
Cancelling == \A o \in Orders : book[o] = "cancelled" => AskedToCancel(o)

Matches(p, o) == AccountOf[o] = p.account /\ SymbolOf[o] = p.symbol

(* What a listing says, and what cancelling all at once has left.          *)
Swept(c) == \A o \in Orders : Matches(c.op, o) /\ before[c.op][o] = "open" => book[o] # "open"
SpotList(c) ==
  /\ \A o \in listed[c] : o \in Orders /\ Matches(c.op, o)
  /\ \A o \in Orders : Matches(c.op, o) /\ before[c.op][o] = "open" => o \in listed[c] \/ book[o] # "open"
OrderList(c) ==
  /\ \A o \in listed[c] : o \in Orders /\ before[c.op][o] \in {"none", "open"} /\ book[o] \in Placed
  /\ \A o \in Orders : AccountOf[o] = c.on /\ before[c.op][o] = "open" /\ book[o] = "open" => o \in listed[c]
PositionList(c) ==
  /\ \A x \in held[c.op] : x[1] = c.on => x \in listed[c]
  /\ listed[c] \subseteq seen[c.op]

Lists ==
  \A c \in accepted :
    /\ c.op.kind = "cancel_all" /\ c.on = "all" => Swept(c)
    /\ c.op.kind = "cancel_all" /\ c.on = "list" => SpotList(c)
    /\ c.op.kind = "query" /\ c.op.what = "orders" => OrderList(c)
    /\ c.op.kind = "query" /\ c.op.what = "positions" => PositionList(c)

(* What an operation has got so far, and what an Ok of it rests on.        *)
FuturesOk ==
  \A p \in Ops : Futures(p) /\ at[p] = "Ok" =>
    /\ p.kind \in {"insert", "cancel"} => Request(p, p.order) \in accepted
    /\ p.kind = "insert" => got[p] = {p.order}
    /\ p.kind = "cancel_all" => Request(p, "all") \in accepted
Sweeping(p) ==
  \/ Request(p, "list") \in todo[p]
  \/ /\ Request(p, "list") \in accepted
     /\ \A o \in listed[Request(p, "list")] : Request(p, o) \in todo[p] \/ Tried(p, o)
SpotSweeps ==
  \A p \in Ops : p.kind = "cancel_all" /\ p.account = "spot" /\ at[p] \in {"running", "Ok"} => Sweeping(p)
GotHeard(p) ==
  /\ \A a \in Asked(p) : Heard(p, a) => listed[Request(p, a)] \subseteq got[p]
  /\ \A x \in got[p] : \E a \in Asked(p) : Heard(p, a) /\ x \in listed[Request(p, a)]
Queries == \A p \in Ops : p.kind = "query" => GotHeard(p)

IInv ==
  /\ Types /\ Asking
  /\ Placing /\ Closing /\ Aging /\ Standing /\ Cancelling
  /\ Lists
  /\ FuturesOk /\ SpotSweeps /\ Queries

-----------------------------------------------------------------------------
(* Operations and requests.                                                *)

LEMMA OpShape ==
  ASSUME NEW p \in Ops
  PROVE  /\ p.kind \in {"insert", "cancel", "cancel_all", "query"}
         /\ p.kind \in {"insert", "cancel"} => p.order \in Orders
         /\ p.kind = "cancel_all" => p.account \in Accounts
         /\ p.kind = "query" => p.what \in {"orders", "positions"}
BY OpsAssumption

LEMMA OneInsert ==
  ASSUME NEW p \in Ops, NEW q \in Ops, p.kind = "insert", q.kind = "insert", p.order = q.order
  PROVE  p = q
<1>1. /\ p \in [kind : {"insert", "cancel"}, order : Orders]
      /\ q \in [kind : {"insert", "cancel"}, order : Orders]
  BY OpsAssumption
<1> QED
  BY <1>1

LEMMA RequestOf ==
  ASSUME NEW p, NEW x
  PROVE  Request(p, x).op = p /\ Request(p, x).on = x
BY DEF Request

LEMMA RequestShape ==
  ASSUME NEW c \in Requests
  PROVE  /\ c.op \in Ops /\ c = Request(c.op, c.on)
         /\ c.op.kind \in {"insert", "cancel"} => c.on \in Orders
         /\ c.op.kind = "cancel_all" => c.on \in Orders \cup {"list", "all"}
         /\ c.op.kind = "query" => c.on \in Accounts
BY DEF Requests, Request

LEMMA SameRequest ==
  ASSUME NEW c \in Requests, NEW d \in Requests, c.op = d.op, c.on = d.on
  PROVE  c = d
BY RequestShape

LEMMA Members ==
  ASSUME NEW p \in Ops
  PROVE  /\ p.kind \in {"insert", "cancel"} => \A o \in Orders : Request(p, o) \in Requests
         /\ p.kind = "cancel_all" => \A x \in Orders \cup {"list", "all"} : Request(p, x) \in Requests
         /\ p.kind = "query" => \A a \in Accounts : Request(p, a) \in Requests
BY DEF Requests

LEMMA Distinguished ==
  /\ "list" \notin Orders /\ "all" \notin Orders
  /\ \A a \in Accounts : a \notin Orders
BY OrdersAssumption

LEMMA LaterTransitive ==
  ASSUME NEW s, NEW t, NEW u, Later(s, t), Later(t, u)
  PROVE  Later(s, u)
BY DEF Later

\* The positions follow from what was filled, and are in futures accounts.
LEMMA SamePositions ==
  ASSUME NEW b, NEW d, \A o \in Orders : b[o] = "filled" <=> d[o] = "filled"
  PROVE  Positions(b) = Positions(d)
<1>1. \A a, s, side : Filled(b, a, s, side) = Filled(d, a, s, side)
  BY DEF Filled
<1>2. \A a : PositionsIn(b, a) = PositionsIn(d, a)
  BY <1>1 DEF PositionsIn
<1> QED
  BY <1>2 DEF Positions

LEMMA PositionShape ==
  ASSUME NEW b
  PROVE  /\ \A a : \A x \in PositionsIn(b, a) : x[1] = a
         /\ \A x \in Positions(b) : x[1] \in FuturesAccounts /\ x \in PositionsIn(b, x[1])
         /\ \A a \in FuturesAccounts : PositionsIn(b, a) \subseteq Positions(b)
         /\ Positions(b) \subseteq AllPositions
         /\ \A a \in Accounts : PositionsIn(b, a) \subseteq AllPositions
<1>1. \A a : \A x \in PositionsIn(b, a) : x[1] = a
  BY DEF PositionsIn
<1>2. \A x \in Positions(b) : \E a \in FuturesAccounts : x \in PositionsIn(b, a)
  BY DEF Positions
<1>3. \A a \in Accounts : PositionsIn(b, a) \subseteq AllPositions
  BY DEF PositionsIn, AllPositions
<1>4. FuturesAccounts \subseteq Accounts
  BY DEF FuturesAccounts
<1>5. \A a \in FuturesAccounts : PositionsIn(b, a) \subseteq Positions(b)
  BY DEF Positions
<1> QED
  BY <1>1, <1>2, <1>3, <1>4, <1>5

\* The first requests are what the operation asks for.
LEMMA FirstAreLegit ==
  ASSUME NEW p \in Ops
  PROVE  /\ FirstRequests(p) \subseteq Requests
         /\ \A c \in FirstRequests(p) : c.op = p /\ Legit(c)
         /\ p.kind # "query" => FirstRequests(p) # {}
         /\ p.kind = "cancel_all" /\ p.account = "spot" => Request(p, "list") \in FirstRequests(p)
<1>1. CASE p.kind \in {"insert", "cancel"}
  <2>1. FirstRequests(p) = {Request(p, p.order)}
    BY <1>1 DEF FirstRequests
  <2> QED
    BY <1>1, <2>1, OpShape, Members, RequestOf DEF Legit
<1>2. CASE p.kind = "cancel_all"
  <2>1. FirstRequests(p) = {Request(p, IF p.account = "spot" THEN "list" ELSE "all")}
    BY <1>2 DEF FirstRequests
  <2> QED
    BY <1>2, <2>1, OpShape, Members, RequestOf DEF Legit
<1>3. CASE p.kind = "query"
  <2>1. FirstRequests(p) = {Request(p, a) : a \in Asked(p) \cap Enabled}
    BY <1>3 DEF FirstRequests
  <2>2. Asked(p) \subseteq Accounts
    BY DEF Asked, FuturesAccounts
  <2> QED
    BY <1>3, <2>1, <2>2, Members, RequestOf DEF Legit
<1> QED
  BY <1>1, <1>2, <1>3, OpShape

-----------------------------------------------------------------------------
LEMMA InitIInv == Init => IInv
<1> SUFFICES ASSUME Init PROVE IInv
  OBVIOUS
<1> USE DEF Init, Net!CallsInit
<1>1. Types
  BY OrdersAssumption DEF Types, TypeOK, BookStates, Net!Settled
<1>2. Asking
  BY RequestShape DEF Asking, Listed, Made, Awaiting, OneAtATime, Issued
<1>3. Placing /\ Closing /\ Aging /\ Cancelling
  BY RequestShape DEF Placing, Closing, Aging, Cancelling
<1>6. Standing
  BY DEF Standing
<1>4. Lists
  BY DEF Lists
<1>5. FuturesOk /\ SpotSweeps /\ Queries
  BY DEF FuturesOk, SpotSweeps, Queries, GotHeard, Heard
<1> QED
  BY <1>1, <1>2, <1>3, <1>4, <1>5, <1>6 DEF IInv

(* What a request has done stays done while the orders move on.            *)
LEMMA ListStays ==
  ASSUME NEW c \in Requests, Types, Types',
         listed'[c] = listed[c], before'[c.op] = before[c.op],
         held'[c.op] \subseteq held[c.op], seen[c.op] \subseteq seen'[c.op],
         \A o \in Orders : Later(before[c.op][o], book[o]) /\ Later(book[o], book'[o])
  PROVE  /\ Swept(c) => Swept(c)'
         /\ SpotList(c) => SpotList(c)'
         /\ OrderList(c) => OrderList(c)'
         /\ PositionList(c) => PositionList(c)'
<1>1. \A o \in Orders : before[c.op][o] = "open" /\ book'[o] = "open" => book[o] = "open"
  BY DEF Later
<1>2. \A o \in Orders : book[o] \in Placed => book'[o] \in Placed
  BY DEF Later, Placed
<1>4. Swept(c) => Swept(c)'
  BY <1>1 DEF Swept
<1>5. SpotList(c) => SpotList(c)'
  BY <1>1 DEF SpotList
<1>6. OrderList(c) => OrderList(c)'
  BY <1>1, <1>2 DEF OrderList
<1>7. PositionList(c) => PositionList(c)'
  BY DEF PositionList
<1> QED
  BY <1>4, <1>5, <1>6, <1>7

\* The lists of all requests carried out before a step.
LEMMA ListsStay ==
  ASSUME IInv, Types', listed' = listed, before' = before,
         \A q \in Ops : at[q] # "not made" => held'[q] \subseteq held[q] /\ seen[q] \subseteq seen'[q],
         \A o \in Orders : Later(book[o], book'[o]),
         NEW c \in accepted
  PROVE  /\ c.op.kind = "cancel_all" /\ c.on = "all" => Swept(c)'
         /\ c.op.kind = "cancel_all" /\ c.on = "list" => SpotList(c)'
         /\ c.op.kind = "query" /\ c.op.what = "orders" => OrderList(c)'
         /\ c.op.kind = "query" /\ c.op.what = "positions" => PositionList(c)'
<1>1. c \in Requests /\ c.op \in Ops /\ at[c.op] # "not made"
  BY RequestShape DEF IInv, Types, TypeOK, Asking, Made, Issued
<1>2. \A x \in Orders : Later(before[c.op][x], book[x])
  BY <1>1 DEF IInv, Aging
<1> QED
  BY <1>1, <1>2, ListStays DEF IInv, Lists

LEMMA FillIInv ==
  ASSUME NEW o \in Orders, IInv, Fill(o)
  PROVE  IInv'
<1> USE DEF IInv
<1>1. /\ book[o] = "open" /\ book' = [book EXCEPT ![o] = "filled"]
      /\ UNCHANGED <<request, carried, accepted, listed, at, todo, got, before>>
  BY DEF Fill
<1> DEFINE now == Positions(book')
<1>12. /\ held' = [p \in Ops |-> IF at[p] = "not made" THEN {} ELSE held[p] \cap now]
       /\ seen' = [p \in Ops |-> IF at[p] = "not made" THEN {} ELSE seen[p] \cup now]
       /\ now \subseteq AllPositions
  BY PositionShape DEF Fill
<1> HIDE DEF now
<1>13. /\ held' \in [Ops -> SUBSET AllPositions] /\ seen' \in [Ops -> SUBSET AllPositions]
       /\ \A p \in Ops : at[p] # "not made" => held'[p] = held[p] \cap now /\ seen'[p] = seen[p] \cup now
  BY <1>12 DEF Types
<1>2. Types'
  BY <1>1, <1>13 DEF Types, TypeOK, BookStates, Net!Settled
<1>14. Standing'
  BY <1>1, <1>13 DEF Standing, now
<1>3. \A x \in Orders : book'[x] = IF x = o THEN "filled" ELSE book[x]
  BY <1>1 DEF Types
<1>4. \A x \in Orders : Later(book[x], book'[x])
  BY <1>1, <1>3 DEF Later
<1>5. Asking'
  BY ZenonT(40), <1>1 DEF Asking, Listed, Made, Awaiting, OneAtATime, Issued, Legit, Asked
<1>6. Placing'
  <2> SUFFICES ASSUME NEW c \in Requests, c.op.kind = "insert", c.on = c.op.order
               PROVE  /\ c \notin carried => book'[c.on] = "none"
                      /\ c \in accepted => book'[c.on] \in Placed
    BY <1>1 DEF Placing
  <2>1. c.on \in Orders
    BY RequestShape
  <2> QED
    BY <1>1, <1>3, <2>1 DEF Placing, Placed
<1>7. Closing'
  BY <1>1, <1>3 DEF Closing
<1>8. Aging'
  BY <1>1, <1>4, LaterTransitive DEF Aging
<1>9. Cancelling'
  <2>1. \A x \in Orders : AskedToCancel(x)' = AskedToCancel(x)
    BY <1>1 DEF AskedToCancel
  <2> QED
    BY <1>3, <2>1 DEF Cancelling
<1>10. Lists'
  BY <1>1, <1>2, <1>4, <1>13, ListsStay DEF Lists
<1>11. FuturesOk' /\ SpotSweeps' /\ Queries'
  BY <1>1 DEF FuturesOk, SpotSweeps, Sweeping, Queries, GotHeard, Heard, Tried, Futures, AccountFor, Asked
<1> QED
  BY <1>2, <1>5, <1>6, <1>7, <1>8, <1>9, <1>10, <1>11, <1>14

LEMMA AskIInv ==
  ASSUME NEW c \in Requests, IInv, Ask(c.op, c)
  PROVE  IInv'
<1> USE DEF IInv
<1>1. /\ at[c.op] = "running" /\ c \in todo[c.op]
      /\ \A d \in Requests : d.op = c.op => request[d] # "open"
      /\ request[c] = "idle" /\ request' = [request EXCEPT ![c] = "open"]
      /\ UNCHANGED <<book, carried, accepted, listed, at, todo, got, before, held, seen>>
  BY DEF Ask, Awaited, Net!Issue, venuevars, history
<1>2. Types'
  BY <1>1 DEF Types, TypeOK, Net!Settled
<1>3. \A d \in Requests : request'[d] = IF d = c THEN "open" ELSE request[d]
  BY <1>1 DEF Types
<1>4. Asking'
  <2>1. c.op \in Ops /\ Legit(c) /\ at[c.op] # "not made"
    BY <1>1, RequestShape DEF Asking, Listed
  <2>2. carried \subseteq Requests
    BY DEF Types, TypeOK
  <2>3. Listed'
    BY <1>1 DEF Asking, Listed, Legit, Asked
  <2>4. Made'
    BY <1>1, <1>3, <2>1 DEF Asking, Made, Legit, Asked
  <2>5. Awaiting'
    BY <1>1, <1>3 DEF Asking, Awaiting
  <2>6. OneAtATime'
    BY <1>1, <1>3 DEF Asking, OneAtATime
  <2>7. Issued'
    BY <1>1, <1>3, <2>2 DEF Asking, Issued
  <2> QED
    BY <2>3, <2>4, <2>5, <2>6, <2>7 DEF Asking
<1>5. Placing' /\ Closing' /\ Aging' /\ Standing' /\ Cancelling'
  BY <1>1 DEF Placing, Closing, Aging, Standing, Cancelling, AskedToCancel
<1>6. Lists'
  BY <1>1, <1>2, ListsStay DEF Lists, Later
<1>7. FuturesOk'
  BY <1>1 DEF FuturesOk, Futures, AccountFor
<1>8. SpotSweeps'
  <2>1. \A p \in Ops, o \in Orders : Tried(p, o) => Tried(p, o)'
    BY <1>1, <1>3 DEF Tried, Net!Settled
  <2>2. SUFFICES ASSUME NEW p \in Ops, p.kind = "cancel_all", Sweeping(p)
                 PROVE  Sweeping(p)'
    BY <1>1 DEF SpotSweeps
  <2>3. \A o \in listed[Request(p, "list")] : Request(p, "list") \in accepted => o \in Orders
    BY <2>2, RequestOf DEF Lists, SpotList
  <2> QED
    BY <1>1, <2>1, <2>2, <2>3 DEF Sweeping
<1>9. Queries'
  <2>1. \A p \in Ops : p.kind = "query" => \A a \in Asked(p) : Heard(p, a)' = Heard(p, a)
    BY <1>1, <1>3, Members DEF Heard, Asked
  <2> QED
    BY <1>1, <2>1 DEF Queries, GotHeard, Asked
<1> QED
  BY <1>2, <1>4, <1>5, <1>6, <1>7, <1>8, <1>9

LEMMA BeginIInv ==
  ASSUME NEW p \in Ops, IInv, Begin(p)
  PROVE  IInv'
<1> USE DEF IInv
<1> DEFINE first == IF HasClient(p) THEN FirstRequests(p) ELSE {}
           return == IF ~HasClient(p) THEN "Err" ELSE IF first = {} THEN "Ok" ELSE "running"
<1>1. /\ at[p] = "not made"
      /\ UNCHANGED <<book, request, carried, accepted, listed, got>>
  BY DEF Begin, venuevars
<1>2. /\ before' = [before EXCEPT ![p] = book]
      /\ held' = [held EXCEPT ![p] = Positions(book)]
      /\ seen' = [seen EXCEPT ![p] = Positions(book)]
      /\ todo' = [todo EXCEPT ![p] = first]
  BY DEF Begin
<1>3. at' = [at EXCEPT ![p] = return]
  BY <1>2 DEF Begin, Return, ReturnIfDone, Types
<1>4. /\ \A q \in Ops : before'[q] = IF q = p THEN book ELSE before[q]
      /\ \A q \in Ops : held'[q] = IF q = p THEN Positions(book) ELSE held[q]
      /\ \A q \in Ops : seen'[q] = IF q = p THEN Positions(book) ELSE seen[q]
      /\ \A q \in Ops : todo'[q] = IF q = p THEN first ELSE todo[q]
      /\ \A q \in Ops : at'[q] = IF q = p THEN return ELSE at[q]
  BY <1>2, <1>3 DEF Types, TypeOK
<1>5. first \subseteq Requests /\ (\A c \in first : c.op = p /\ Legit(c))
  BY FirstAreLegit
<1>6. Types'
  <2>1. return \in {"not made", "running", "Ok", "Err"}
    OBVIOUS
  <2>2. at' \in [Ops -> {"not made", "running", "Ok", "Err"}]
    BY <1>3, <2>1 DEF Types, TypeOK
  <2>3. todo' \in [Ops -> SUBSET Requests]
    BY <1>2, <1>5 DEF Types
  <2>4. before' \in [Ops -> [Orders -> BookStates]]
    BY <1>2 DEF Types
  <2>5. held' \in [Ops -> SUBSET AllPositions] /\ seen' \in [Ops -> SUBSET AllPositions]
    BY <1>2, PositionShape DEF Types
  <2> QED
    BY <1>1, <2>2, <2>3, <2>4, <2>5 DEF Types, TypeOK, Net!Settled
<1>7. \A c \in Requests : request[c] # "idle" => c.op # p
  BY <1>1 DEF Asking, Made
<1>8. \A c \in accepted : c \in Requests /\ c.op \in Ops /\ c.op # p
  BY <1>7, RequestShape DEF Types, TypeOK, Asking, Issued
<1>9. Asking'
  <2>1. Listed'
    BY <1>4, <1>5 DEF Asking, Listed, Legit, Asked
  <2>2. Made'
    BY <1>1, <1>4, <1>7, RequestShape DEF Asking, Made, Legit, Asked
  <2>3. Awaiting'
    BY <1>1, <1>4, <1>7, RequestShape DEF Asking, Awaiting
  <2> QED
    BY <1>1, <2>1, <2>2, <2>3 DEF Asking, OneAtATime, Issued
<1>10. Placing' /\ Closing'
  BY <1>1 DEF Placing, Closing
<1>11. Aging'
  <2>1. \A o \in Orders : Later(book[o], book[o])
    BY DEF Later
  <2> QED
    BY <1>1, <1>4, <2>1 DEF Aging
<1>17. Standing'
  BY <1>1, <1>4 DEF Standing
<1>12. Cancelling'
  <2>1. \A o \in Orders : AskedToCancel(o) => AskedToCancel(o)'
    BY <1>1, <1>4 DEF AskedToCancel
  <2> QED
    BY <1>1, <2>1 DEF Cancelling
<1>13. Lists'
  <2>1. \A o \in Orders : Later(book[o], book'[o])
    BY <1>1 DEF Later
  <2>2. \A c \in accepted : /\ before'[c.op] = before[c.op] /\ at[c.op] # "not made"
                            /\ held'[c.op] = held[c.op] /\ seen'[c.op] = seen[c.op]
    BY <1>4, <1>8 DEF Types, TypeOK, Asking, Made, Issued
  <2>3. \A c \in accepted : \A o \in Orders : Later(before[c.op][o], book[o])
    BY <1>8, <2>2 DEF Aging
  <2> QED
    BY <1>1, <1>6, <1>8, <2>1, <2>2, <2>3, ListStays DEF Lists
<1>14. FuturesOk'
  <2>1. ASSUME Futures(p), at'[p] = "Ok" PROVE FALSE
    BY <1>4, <2>1, OpShape, FirstAreLegit DEF Futures
  <2> QED
    BY <1>1, <1>4, <2>1 DEF FuturesOk, Futures, AccountFor
<1>15. SpotSweeps'
  <2> SUFFICES ASSUME NEW q \in Ops, q.kind = "cancel_all", q.account = "spot",
                      at'[q] \in {"running", "Ok"}
               PROVE  Sweeping(q)'
    BY DEF SpotSweeps
  <2>1. CASE q = p
    BY <1>4, <2>1, FirstAreLegit DEF Sweeping
  <2>2. CASE q # p
    BY <1>1, <1>4, <2>2 DEF SpotSweeps, Sweeping, Tried
  <2> QED
    BY <2>1, <2>2
<1>16. Queries'
  BY <1>1 DEF Queries, GotHeard, Heard, Asked
<1> QED
  BY <1>6, <1>9, <1>10, <1>11, <1>12, <1>13, <1>14, <1>15, <1>16, <1>17

\* Only one operation inserts an order, with one request.
LEMMA OnePlace ==
  ASSUME NEW c \in Requests, NEW d \in Requests, Legit(c), Legit(d),
         c.op.kind = "insert", d.op.kind = "insert", c.on = d.on
  PROVE  c = d
<1>1. c.on = c.op.order /\ d.on = d.op.order
  BY DEF Legit
<1> QED
  BY <1>1, RequestShape, OneInsert, SameRequest

\* What a request carried out may do to the book, and to no more.
LEMMA CarriedIInv ==
  ASSUME NEW c \in Requests, IInv, Types',
         request[c] \in {"open", "given up"}, c \notin carried, carried' = carried \cup {c},
         accepted' \in {accepted, accepted \cup {c}},
         \A d \in Requests : d # c => listed'[d] = listed[d],
         \A o \in Orders : Later(book[o], book'[o]),
         \A o \in Orders : book[o] = "none" => book'[o] = "none" \/ (c.op.kind = "insert" /\ c.on = o),
         c.op.kind = "insert" /\ c \in accepted' => book'[c.on] \in Placed,
         \A o \in Orders : book'[o] = "cancelled" /\ book[o] # "cancelled" => AskedToCancel(o),
         c.op.kind \in {"cancel", "cancel_all"} /\ c.on \in Orders /\ c \in accepted' =>
           book'[c.on] \in {"filled", "cancelled"},
         c \in accepted' =>
           /\ c.op.kind = "cancel_all" /\ c.on = "all" => Swept(c)'
           /\ c.op.kind = "cancel_all" /\ c.on = "list" => SpotList(c)'
           /\ c.op.kind = "query" /\ c.op.what = "orders" => OrderList(c)'
           /\ c.op.kind = "query" /\ c.op.what = "positions" => PositionList(c)',
         \A o \in Orders : book'[o] = "filled" <=> book[o] = "filled",
         UNCHANGED <<request, at, todo, got, before, held, seen>>
  PROVE  IInv'
<1> USE DEF IInv
<1>1. Legit(c) /\ c.op \in Ops /\ c \notin accepted /\ request[c] # "idle"
  BY RequestShape DEF Asking, Made, Types, TypeOK
<1>2. Asking'
  <2>1. Listed' /\ Made'
    BY DEF Asking, Listed, Made, Legit, Asked
  <2>2. Awaiting' /\ OneAtATime'
    BY DEF Asking, Awaiting, OneAtATime
  <2>3. Issued'
    BY <1>1 DEF Asking, Issued
  <2> QED
    BY <2>1, <2>2, <2>3 DEF Asking
<1>3. Placing'
  <2> SUFFICES ASSUME NEW d \in Requests, d.op.kind = "insert", d.on = d.op.order
               PROVE  /\ d \notin carried' => book'[d.on] = "none"
                      /\ d \in accepted' => book'[d.on] \in Placed
    BY DEF Placing
  <2>1. d.on \in Orders /\ Legit(d)
    BY RequestShape DEF Legit
  <2>2. d \notin carried' => book'[d.on] = "none"
    BY <1>1, <2>1, OnePlace DEF Placing
  <2>3. d # c /\ d \in accepted' => book'[d.on] \in Placed
    <3>1. d # c /\ d \in accepted' => book[d.on] \in Placed
      BY DEF Placing
    <3> QED
      BY <2>1, <3>1 DEF Later, Placed
  <2> QED
    BY <2>2, <2>3
<1>4. Closing'
  <2> SUFFICES ASSUME NEW d \in accepted', d # c,
                      d.op.kind \in {"cancel", "cancel_all"}, d.on \in Orders
               PROVE  book'[d.on] \in {"filled", "cancelled"}
    BY DEF Closing
  <2>1. book[d.on] \in {"filled", "cancelled"}
    BY DEF Closing
  <2> QED
    BY <2>1 DEF Later
<1>5. Aging'
  BY LaterTransitive DEF Aging
<1>11. Standing'
  <2>1. Positions(book') = Positions(book)
    BY ONLY \A o \in Orders : book'[o] = "filled" <=> book[o] = "filled", SamePositions
  <2> QED
    BY <2>1 DEF Standing
<1>6. Cancelling'
  <2>1. \A o \in Orders : AskedToCancel(o)' = AskedToCancel(o)
    BY DEF AskedToCancel
  <2> QED
    BY <2>1 DEF Cancelling
<1>7. Lists'
  <2> SUFFICES ASSUME NEW d \in accepted', d # c
               PROVE  /\ d.op.kind = "cancel_all" /\ d.on = "all" => Swept(d)'
                      /\ d.op.kind = "cancel_all" /\ d.on = "list" => SpotList(d)'
                      /\ d.op.kind = "query" /\ d.op.what = "orders" => OrderList(d)'
                      /\ d.op.kind = "query" /\ d.op.what = "positions" => PositionList(d)'
    BY DEF Lists
  <2>1. d \in accepted
    OBVIOUS
  <2>2. d \in carried /\ d \in Requests
    BY <2>1 DEF Types, TypeOK
  <2>3. d.op \in Ops /\ at[d.op] # "not made"
    BY <2>2, RequestShape DEF Asking, Made, Issued
  <2>4. \A x \in Orders : Later(before[d.op][x], book[x])
    BY <2>3 DEF Aging
  <2> QED
    BY <2>1, <2>2, <2>4, ListStays DEF Lists
<1>8. FuturesOk'
  BY DEF FuturesOk, Futures, AccountFor
<1>9. SpotSweeps'
  <2> SUFFICES ASSUME NEW q \in Ops, q.kind = "cancel_all", Sweeping(q)
               PROVE  Sweeping(q)'
    BY DEF SpotSweeps
  <2>1. Request(q, "list") \in Requests
    BY Members
  <2> QED
    BY <1>1, <2>1 DEF Sweeping, Tried
<1>10. Queries'
  <2> SUFFICES ASSUME NEW q \in Ops, q.kind = "query", GotHeard(q)
               PROVE  GotHeard(q)'
    BY DEF Queries
  <2>1. \A a \in Asked(q) : Request(q, a) \in Requests
    BY Members DEF Asked, FuturesAccounts
  <2>2. \A a \in Asked(q) : Heard(q, a) => Request(q, a) # c
    BY DEF Heard
  <2>3. \A a \in Asked(q) : Heard(q, a)' = Heard(q, a)
    BY DEF Heard
  <2> QED
    BY <2>1, <2>2, <2>3 DEF GotHeard, Asked
<1> QED
  BY <1>2, <1>3, <1>4, <1>5, <1>6, <1>7, <1>8, <1>9, <1>10, <1>11

LEMMA RejectIInv ==
  ASSUME NEW c \in Requests, IInv, Reject(c)
  PROVE  IInv'
<1> USE DEF IInv
<1>1. /\ request[c] \in {"open", "given up"} /\ c \notin carried /\ carried' = carried \cup {c}
      /\ book' = IF IsPlace(c) THEN [book EXCEPT ![c.on] = "rejected"] ELSE book
      /\ UNCHANGED <<request, accepted, listed, at, todo, got, before, held, seen>>
  BY DEF Reject, Net!CarryOut, history
<1>2. Types'
  BY <1>1 DEF Types, TypeOK, BookStates, Net!Settled
<1>3. Legit(c) /\ c \notin accepted
  BY <1>1 DEF Asking, Made, Types, TypeOK
<1>4. c.op.kind = "insert" => c.on \in Orders /\ c.on = c.op.order
  BY <1>3, RequestShape DEF Legit
<1>5. c.op.kind = "insert" => book[c.on] = "none"
  BY <1>1, <1>4 DEF Placing
<1>6. \A o \in Orders : book'[o] = IF IsPlace(c) /\ o = c.on THEN "rejected" ELSE book[o]
  BY <1>1 DEF Types
<1>7. \A o \in Orders : Later(book[o], book'[o])
  BY <1>5, <1>6 DEF Later, IsPlace
<1>8. /\ \A o \in Orders : book[o] = "none" => book'[o] = "none" \/ (c.op.kind = "insert" /\ c.on = o)
      /\ \A o \in Orders : book'[o] = "cancelled" => book[o] = "cancelled"
      /\ \A o \in Orders : book'[o] = "filled" <=> book[o] = "filled"
  BY <1>5, <1>6 DEF IsPlace
<1> QED
  BY <1>1, <1>2, <1>3, <1>7, <1>8, CarriedIInv

LEMMA AcceptIInv ==
  ASSUME NEW c \in Requests, IInv, Accept(c)
  PROVE  IInv'
<1> USE DEF IInv
<1>1. /\ request[c] \in {"open", "given up"} /\ c \notin carried /\ carried' = carried \cup {c}
      /\ accepted' = accepted \cup {c}
      /\ UNCHANGED <<request, at, todo, got, before, held, seen>>
  BY DEF Accept, Net!CarryOut, history
<1>2. Legit(c) /\ c.op \in Ops /\ at[c.op] # "not made"
  BY <1>1, RequestShape DEF Asking, Made
<1>3. \A o \in Orders : Later(before[c.op][o], book[o])
  BY <1>2 DEF Aging
<1>4. CASE IsPlace(c) /\ book[c.on] = "none" /\ book' = [book EXCEPT ![c.on] = "open"] /\ UNCHANGED listed
  <2>1. c.op.kind = "insert" /\ c.on \in Orders
    BY <1>4, RequestShape DEF IsPlace
  <2>2. Types'
    BY <1>1, <1>4 DEF Types, TypeOK, BookStates, Net!Settled
  <2>3. \A o \in Orders : book'[o] = IF o = c.on THEN "open" ELSE book[o]
    BY <1>4 DEF Types
  <2>4. \A o \in Orders : Later(book[o], book'[o])
    BY <1>4, <2>3 DEF Later
  <2>5. book'[c.on] \in Placed
    BY <2>1, <2>3 DEF Placed
  <2>6. /\ \A o \in Orders : book[o] = "none" => book'[o] = "none" \/ c.on = o
        /\ \A o \in Orders : book'[o] = "cancelled" => book[o] = "cancelled"
        /\ \A o \in Orders : book'[o] = "filled" <=> book[o] = "filled"
    BY <1>4, <2>3
  <2> QED
    BY <1>1, <1>4, <2>1, <2>2, <2>4, <2>5, <2>6, CarriedIInv
<1>5. ASSUME NEW S \in SUBSET Orders, \A o \in S : book[o] = "open" /\ AskedToCancel(o),
             Close(S), UNCHANGED listed, c.op.kind \in {"cancel", "cancel_all"},
             c.on \in Orders => c.on \in S, c.on # "list",
             c.on = "all" => \A o \in Orders : Matches(c.op, o) /\ book[o] = "open" => o \in S
      PROVE  IInv'
  <2>1. \A o \in Orders : book'[o] = IF o \in S THEN "cancelled" ELSE book[o]
    BY <1>5 DEF Close
  <2>2. book' \in [Orders -> BookStates]
    BY <1>5 DEF Close, Types, BookStates
  <2>3. Types'
    BY <1>1, <1>5, <2>2 DEF Types, TypeOK, BookStates, Net!Settled
  <2>4. \A o \in Orders : Later(book[o], book'[o])
    BY <1>5, <2>1 DEF Later
  <2>5. /\ \A o \in Orders : book[o] = "none" => book'[o] = "none"
        /\ \A o \in Orders : book'[o] = "cancelled" /\ book[o] # "cancelled" => AskedToCancel(o)
        /\ c.on \in Orders => book'[c.on] \in {"filled", "cancelled"}
        /\ \A o \in Orders : book'[o] = "filled" <=> book[o] = "filled"
    BY <1>5, <2>1
  <2>6. c.on = "all" => Swept(c)'
    BY <1>1, <1>5, <2>1 DEF Swept, Matches
  <2> QED
    BY <1>1, <1>5, <2>3, <2>4, <2>5, <2>6, CarriedIInv
<1>6. CASE /\ ~IsPlace(c) /\ ~IsListing(c) /\ c.on # "all" /\ book[c.on] = "open"
           /\ Close({c.on}) /\ UNCHANGED listed
  <2>1. c.op.kind \in {"cancel", "cancel_all"} /\ c.on \in Orders /\ c.on # "list"
    BY <1>6, <1>2, OpShape, RequestShape DEF IsPlace, IsListing
  <2>2. AskedToCancel(c.on)
    BY <1>2, <2>1, Distinguished DEF Legit, AskedToCancel
  <2> QED
    BY <1>5, <1>6, <2>1, <2>2
<1>7. CASE c.on = "all" /\ Close(OpenAt(c.op.account, c.op.symbol)) /\ UNCHANGED listed
  <2>1. c.op.kind = "cancel_all"
    BY <1>7, <1>2, OpShape, RequestShape, Distinguished DEF Accounts
  <2> DEFINE S == OpenAt(c.op.account, c.op.symbol)
  <2>2. \A o \in Orders : o \in S <=> Matches(c.op, o) /\ book[o] = "open"
    BY DEF OpenAt, Open, Matches
  <2>3. S \in SUBSET Orders /\ (\A o \in S : book[o] = "open" /\ AskedToCancel(o))
    BY <1>2, <2>1 DEF OpenAt, Open, AskedToCancel
  <2> HIDE DEF S
  <2>4. Close(S)
    BY <1>7 DEF S
  <2> QED
    BY <1>5, <1>7, <2>1, <2>2, <2>3, <2>4, Distinguished
<1>8. CASE IsListing(c) /\ listed' = [listed EXCEPT ![c] = Listing(c)] /\ UNCHANGED book
  <2>1. \/ c.op.kind = "query"
        \/ c.op.kind = "cancel_all" /\ c.on = "list"
    BY <1>8, <1>2, OpShape, RequestShape, Distinguished DEF IsListing
  <2>2. /\ c.op.kind = "query" /\ c.op.what = "orders" => Listing(c) = Open(c.on)
        /\ c.op.kind = "query" /\ c.op.what = "positions" => Listing(c) = PositionsIn(book, c.on)
        /\ c.op.kind = "cancel_all" => Listing(c) = OpenAt(c.op.account, c.op.symbol)
    BY DEF Listing
  <2>3. Listing(c) \in SUBSET Things
    <3>1. Open(c.on) \in SUBSET Things
      BY DEF Open, Things
    <3>2. c.on \in Accounts => PositionsIn(book, c.on) \in SUBSET Things
      BY PositionShape DEF Things
    <3>3. OpenAt(c.op.account, c.op.symbol) \in SUBSET Things
      BY DEF OpenAt, Open, Things
    <3> QED
      BY <1>2, <2>1, <2>2, <3>1, <3>2, <3>3, OpShape, RequestShape
  <2>4. Types'
    BY <1>1, <1>8, <2>3 DEF Types, TypeOK, BookStates, Net!Settled
  <2>5. listed'[c] = Listing(c) /\ \A d \in Requests : d # c => listed'[d] = listed[d]
    BY <1>8 DEF Types
  <2>6. \A o \in Orders : Later(book[o], book'[o])
    BY <1>8 DEF Later
  <2>7. c.op.kind = "query" /\ c.op.what = "orders" => OrderList(c)'
    BY ZenonT(40), <1>1, <1>3, <1>8, <2>2, <2>5 DEF OrderList, Open, Placed, Later
  <2>8. c.op.kind = "query" /\ c.op.what = "positions" => PositionList(c)'
    <3>1. SUFFICES ASSUME c.op.kind = "query", c.op.what = "positions" PROVE PositionList(c)'
      OBVIOUS
    <3>2. c.on \in FuturesAccounts
      BY <1>2, <3>1 DEF Legit, Asked
    <3>3. held[c.op] \subseteq Positions(book) /\ Positions(book) \subseteq seen[c.op]
      BY <1>2 DEF Standing
    <3>4. listed'[c] = PositionsIn(book, c.on)
      BY <2>2, <2>5, <3>1
    <3>5. /\ \A x \in held[c.op] : x[1] = c.on => x \in PositionsIn(book, c.on)
          /\ PositionsIn(book, c.on) \subseteq seen[c.op]
      BY <3>2, <3>3, PositionShape
    <3> QED
      BY <1>1, <3>4, <3>5 DEF PositionList
  <2>9. c.op.kind = "cancel_all" => SpotList(c)'
    BY ZenonT(40), <1>1, <1>8, <2>2, <2>5 DEF SpotList, OpenAt, Open, Matches
  <2>10. c.op.kind # "insert" /\ c.op.kind # "cancel" /\ (c.op.kind = "cancel_all" => c.on = "list" /\ c.on \notin Orders)
    BY <2>1, Distinguished
  <2> QED
    BY <1>1, <1>8, <2>4, <2>5, <2>6, <2>7, <2>8, <2>9, <2>10, CarriedIInv
<1> QED
  BY <1>4, <1>6, <1>7, <1>8 DEF Accept

-----------------------------------------------------------------------------
\* An operation p that was answered: its request c ends as st, it has T to ask
\* and g collected, and returns r or goes on.
LEMMA ResumePoint ==
  ASSUME NEW p \in Ops, NEW c \in Requests, IInv, Types', c.op = p, request[c] = "open",
         request'[c] \in {"ok", "refused", "given up"},
         \A d \in Requests : d # c => request'[d] = request[d],
         \A q \in Ops : q # p => todo'[q] = todo[q] /\ got'[q] = got[q] /\ at'[q] = at[q],
         at'[p] \in {"running", "Ok", "Err"},
         \A d \in todo'[p] : d.op = p /\ Legit(d) /\ at'[p] = "running",
         book' = book, carried' = carried, accepted' = accepted, listed' = listed, before' = before,
         held' = held, seen' = seen,
         Futures(p) /\ at'[p] = "Ok" =>
           /\ p.kind \in {"insert", "cancel"} => Request(p, p.order) \in accepted
           /\ p.kind = "insert" => got'[p] = {p.order}
           /\ p.kind = "cancel_all" => Request(p, "all") \in accepted,
         p.kind = "cancel_all" /\ p.account = "spot" /\ at'[p] \in {"running", "Ok"} => Sweeping(p)',
         p.kind = "query" => GotHeard(p)'
  PROVE  IInv'
<1> USE DEF IInv
<1>1. c \in todo[p] /\ Legit(c) /\ at[p] = "running"
  BY DEF Asking, Awaiting, Listed
<1>2. \A d \in Requests : request[d] = "open" /\ d.op = p => d = c
  BY DEF Asking, OneAtATime
<1>3. \A q \in Ops : at'[q] # "not made" <=> at[q] # "not made"
  BY <1>1
<1>4. \A d \in Requests : Legit(d)' = Legit(d)
  BY DEF Legit, Asked
<1>5. Asking'
  <2>1. ASSUME NEW q \in Ops, NEW d \in todo'[q]
        PROVE  d.op = q /\ Legit(d)' /\ at'[q] = "running"
    <3>1. CASE q = p
      BY <1>4, <2>1, <3>1
    <3>2. CASE q # p
      <4>1. d \in todo[q] /\ d \in Requests
        BY <2>1, <3>2 DEF Types
      <4> QED
        BY <1>4, <2>1, <3>2, <4>1 DEF Asking, Listed
    <3> QED
      BY <3>1, <3>2
  <2>2. ASSUME NEW d \in Requests, request'[d] # "idle"
        PROVE  Legit(d)' /\ at'[d.op] # "not made"
    <3>1. Legit(d) /\ at[d.op] # "not made" /\ d.op \in Ops
      BY <2>2, RequestShape DEF Asking, Made
    <3> QED
      BY <1>3, <1>4, <3>1
  <2>3. ASSUME NEW d \in Requests, request'[d] = "open"
        PROVE  d \in todo'[d.op]
    <3>1. request[d] = "open" /\ d # c /\ d.op \in Ops
      BY <2>3, RequestShape
    <3>2. d.op # p
      BY <1>2, <3>1
    <3> QED
      BY <3>1, <3>2 DEF Asking, Awaiting
  <2>4. \A d \in Requests : request'[d] = "open" => request[d] = "open"
    OBVIOUS
  <2>5. OneAtATime'
    BY <2>4 DEF Asking, OneAtATime
  <2>6. ASSUME NEW d \in carried
        PROVE  request'[d] # "idle"
    <3>1. d \in Requests /\ request[d] # "idle"
      BY <2>6 DEF Types, TypeOK, Asking, Issued
    <3> QED
      BY <3>1
  <2> QED
    BY <2>1, <2>2, <2>3, <2>5, <2>6 DEF Asking, Listed, Made, Awaiting, Issued
<1>6. Placing' /\ Closing'
  BY DEF Placing, Closing
<1>7. Aging' /\ Standing' /\ Cancelling'
  <2>1. \A o \in Orders : AskedToCancel(o) => AskedToCancel(o)'
    BY <1>3 DEF AskedToCancel
  <2> QED
    BY <1>3, <2>1 DEF Aging, Standing, Cancelling
<1>8. Lists'
  <2>1. \A o \in Orders : Later(book[o], book'[o])
    BY DEF Later
  <2> QED
    BY <2>1, ListsStay DEF Lists
<1>9. FuturesOk'
  BY DEF FuturesOk, Futures, AccountFor
<1>10. SpotSweeps'
  <2> SUFFICES ASSUME NEW q \in Ops, q # p, q.kind = "cancel_all", Sweeping(q)
               PROVE  Sweeping(q)'
    BY DEF SpotSweeps
  <2>1. \A o \in Orders : Request(q, o) \in Requests /\ Request(q, o) # c
    <3> SUFFICES ASSUME NEW o \in Orders
                 PROVE  Request(q, o) \in Requests /\ Request(q, o) # c
      OBVIOUS
    <3>1. Request(q, o).op = q
      BY ZenonT(40), RequestOf
    <3>2. Request(q, o) \in Requests
      BY Members
    <3> QED
      BY <3>1, <3>2
  <2>2. \A o \in Orders : Tried(q, o) => Tried(q, o)'
    BY <2>1 DEF Tried
  <2>3. Request(q, "list").op = q /\ Request(q, "list").on = "list"
    BY DEF Request
  <2>4. Request(q, "list") \in accepted => SpotList(Request(q, "list"))
    BY <2>3 DEF Lists
  <2>5. Request(q, "list") \in accepted => \A o \in listed[Request(q, "list")] : o \in Orders
    BY <2>4 DEF SpotList
  <2> QED
    BY <2>2, <2>5 DEF Sweeping
<1>11. Queries'
  <2> SUFFICES ASSUME NEW q \in Ops, q # p, q.kind = "query", GotHeard(q)
               PROVE  GotHeard(q)'
    BY DEF Queries
  <2>1. \A a \in Asked(q) : a \in Accounts
    BY DEF Asked, FuturesAccounts
  <2>2. \A a \in Asked(q) : Request(q, a) \in Requests
    BY <2>1, Members
  <2>3. \A a \in Asked(q) : Request(q, a) # c
    <3> SUFFICES ASSUME NEW a \in Asked(q) PROVE Request(q, a) # c
      OBVIOUS
    <3>1. Request(q, a).op = q
      BY ZenonT(40), RequestOf
    <3> QED
      BY <3>1
  <2>4. \A a \in Asked(q) : Heard(q, a)' = Heard(q, a)
    BY <2>2, <2>3 DEF Heard
  <2> QED
    BY <2>4 DEF GotHeard, Asked
<1> QED
  BY <1>5, <1>6, <1>7, <1>8, <1>9, <1>10, <1>11

LEMMA ResumeParts ==
  ASSUME NEW p \in Ops, NEW c \in Requests, IInv, c.op = p, request[c] = "open",
         NEW st \in {"ok", "refused", "given up"}, request' = [request EXCEPT ![c] = st],
         NEW T \in SUBSET Requests, todo' = [todo EXCEPT ![p] = T],
         NEW g \in SUBSET Things, got' = [got EXCEPT ![p] = g],
         NEW r \in {"running", "Ok", "Err"}, at' = [at EXCEPT ![p] = r],
         \A d \in T : d.op = p /\ Legit(d) /\ r = "running",
         book' = book, carried' = carried, accepted' = accepted, listed' = listed, before' = before,
         held' = held, seen' = seen,
         Futures(p) /\ r = "Ok" =>
           /\ p.kind \in {"insert", "cancel"} => Request(p, p.order) \in accepted
           /\ p.kind = "insert" => g = {p.order}
           /\ p.kind = "cancel_all" => Request(p, "all") \in accepted,
         p.kind = "cancel_all" /\ p.account = "spot" /\ r \in {"running", "Ok"} => Sweeping(p)',
         p.kind = "query" => GotHeard(p)'
  PROVE  IInv'
<1>1. Types'
  <2>1. request' \in [Requests -> {"idle", "open", "ok", "refused", "given up"}]
    BY DEF IInv, Types
  <2>2. todo' \in [Ops -> SUBSET Requests] /\ got' \in [Ops -> SUBSET Things]
    BY DEF IInv, Types
  <2>3. at' \in [Ops -> {"not made", "running", "Ok", "Err"}]
    BY DEF IInv, Types, TypeOK
  <2> QED
    BY <2>1, <2>2, <2>3 DEF IInv, Types, TypeOK, BookStates, Net!Settled
<1>2. /\ request'[c] = st
      /\ \A d \in Requests : d # c => request'[d] = request[d]
  BY DEF IInv, Types
<1>3. todo'[p] = T /\ got'[p] = g /\ at'[p] = r
  BY DEF IInv, Types, TypeOK
<1>4. \A q \in Ops : q # p => todo'[q] = todo[q] /\ got'[q] = got[q] /\ at'[q] = at[q]
  BY DEF IInv, Types, TypeOK
<1>5. request'[c] \in {"ok", "refused", "given up"} /\ at'[p] \in {"running", "Ok", "Err"}
  BY <1>2, <1>3
<1>6. \A d \in todo'[p] : d.op = p /\ Legit(d) /\ at'[p] = "running"
  BY <1>3
<1>7. Futures(p) /\ at'[p] = "Ok" =>
        /\ p.kind \in {"insert", "cancel"} => Request(p, p.order) \in accepted
        /\ p.kind = "insert" => got'[p] = {p.order}
        /\ p.kind = "cancel_all" => Request(p, "all") \in accepted
  BY <1>3
<1>8. p.kind = "cancel_all" /\ p.account = "spot" /\ at'[p] \in {"running", "Ok"} => Sweeping(p)'
  BY <1>3
<1> QED
  BY ZenonT(40), <1>1, <1>2, <1>4, <1>5, <1>6, <1>7, <1>8, ResumePoint

LEMMA ResumeIInv ==
  ASSUME NEW c \in Requests, IInv, Resume(c.op, c)
  PROVE  IInv'
<1> USE DEF IInv
<1> DEFINE p == c.op
<1>1. /\ p \in Ops /\ request[c] = "open" /\ Settle(c)
      /\ UNCHANGED <<book, accepted, listed, before, held, seen>>
  BY RequestShape DEF Resume, Awaited, venuevars, history
<1>2. PICK s \in {"ok", "refused", "given up"} : request' = [request EXCEPT ![c] = s]
  BY <1>1 DEF Settle, Net!Answered, Net!Refused, Net!GivenUp
<1>3. UNCHANGED carried
  BY <1>1 DEF Settle, Net!Answered, Net!Refused, Net!GivenUp
<1>4. request'[c] = s
  BY <1>2 DEF Types
<1>5. c \in todo[p] /\ Legit(c) /\ at[p] = "running"
  BY <1>1 DEF Asking, Awaiting, Listed
<1>6. /\ todo \in [Ops -> SUBSET Requests] /\ got \in [Ops -> SUBSET Things]
      /\ at \in [Ops -> {"not made", "running", "Ok", "Err"}]
  BY DEF Types, TypeOK
<1>7. c = Request(p, c.on)
  BY RequestShape
<1>8. CASE Single(p, c)
  <2>1. /\ p.kind \in {"insert", "cancel"} \/ c.on = "all"
        /\ todo' = [todo EXCEPT ![p] = {}]
    BY <1>8 DEF Single
  <2> DEFINE r == IF Successful(c) THEN "Ok" ELSE "Err"
             g == IF p.kind = "insert" /\ Successful(c) THEN OrderId(c) ELSE got[p]
  <2>2. got' = [got EXCEPT ![p] = g] /\ at' = [at EXCEPT ![p] = r]
    BY <1>6, <1>8 DEF Single, Return
  <2>3. /\ p.kind \in {"insert", "cancel"} => c.on \in Orders /\ c.on = p.order
        /\ p.kind \notin {"insert", "cancel"} => p.kind = "cancel_all" /\ c.on = "all" /\ p.account # "spot"
    BY <1>1, <1>5, <2>1, OpShape, RequestShape, Distinguished DEF Legit, Accounts
  <2>4. g \in SUBSET Things
    BY <1>1, <1>6, <2>3 DEF OrderId, Things
  <2>5. ASSUME Futures(p), Successful(c)
        PROVE  c \in accepted /\ (p.kind = "insert" => g = {p.order})
    BY <2>3, <2>5, Distinguished DEF Successful, OverWs, OrderId, Futures, AccountFor
  <2>6. Futures(p) /\ r = "Ok" =>
          /\ p.kind \in {"insert", "cancel"} => Request(p, p.order) \in accepted
          /\ p.kind = "insert" => g = {p.order}
          /\ p.kind = "cancel_all" => Request(p, "all") \in accepted
    BY <1>7, <2>3, <2>5
  <2>7. r \in {"running", "Ok", "Err"}
    OBVIOUS
  <2>8. {} \in SUBSET Requests
    OBVIOUS
  <2>9. p.kind # "query" /\ ~(p.kind = "cancel_all" /\ p.account = "spot")
    BY <2>3
  <2> HIDE DEF g, r
  <2> QED
    BY <1>1, <1>2, <1>3, <2>1, <2>2, <2>4, <2>6, <2>7, <2>8, <2>9, ResumeParts
<1>9. CASE SpotListed(p, c)
  <2>1. p.kind = "cancel_all" /\ p.account = "spot" /\ c.on = "list"
    BY <1>1, <1>5, <1>9, OpShape, RequestShape, Distinguished DEF SpotListed, Legit, Accounts, Asked
  <2> DEFINE T == IF Successful(c) THEN {Request(p, o) : o \in listed[c]} ELSE {}
             r == IF ~Successful(c) THEN "Err" ELSE IF T = {} THEN "Ok" ELSE "running"
  <2>2. todo' = [todo EXCEPT ![p] = T] /\ UNCHANGED got
    BY <1>9 DEF SpotListed
  <2>3. at' = [at EXCEPT ![p] = r]
    BY <1>1, <1>6, <1>9, <2>2 DEF SpotListed, Return, ReturnIfDone
  <2>4. got' = [got EXCEPT ![p] = got[p]] /\ got[p] \in SUBSET Things
    BY <1>1, <1>6, <2>2
  <2>5. Successful(c) => c \in accepted
    BY <2>1, Distinguished DEF Successful, OverWs
  <2>6. Successful(c) => \A o \in listed[c] : o \in Orders /\ Matches(p, o)
    BY <2>1, <2>5 DEF Lists, SpotList
  <2>7. T \in SUBSET Requests
    BY <1>1, <2>1, <2>6, Members
  <2>8. \A d \in T : d.op = p /\ Legit(d) /\ r = "running"
    <3> SUFFICES ASSUME NEW d \in T PROVE d.op = p /\ Legit(d) /\ r = "running"
      OBVIOUS
    <3>1. PICK o \in listed[c] : d = Request(p, o) /\ Successful(c)
      OBVIOUS
    <3>2. d.op = p /\ d.on = o
      BY <3>1, RequestOf
    <3>3. Legit(d)
      BY <2>1, <2>6, <3>1, <3>2 DEF Legit, Matches
    <3> QED
      BY <3>1, <3>2, <3>3
  <2>9. r \in {"running", "Ok"} => Sweeping(p)'
    <3>1. todo'[p] = T
      BY <1>1, <1>6, <2>2
    <3>2. SUFFICES ASSUME Successful(c) PROVE Sweeping(p)'
      OBVIOUS
    <3>3. Request(p, "list") \in accepted' /\ listed'[Request(p, "list")] = listed[c]
      BY <1>1, <1>7, <2>1, <2>5, <3>2
    <3>4. \A o \in listed[c] : Request(p, o) \in todo'[p]
      BY <3>1, <3>2
    <3> QED
      BY <3>3, <3>4 DEF Sweeping
  <2>10. r \in {"running", "Ok", "Err"} /\ ~Futures(p)
    BY <2>1 DEF Futures, AccountFor
  <2> HIDE DEF T, r
  <2> QED
    BY ZenonT(40), <1>1, <1>2, <1>3, <2>1, <2>2, <2>3, <2>4, <2>7, <2>8, <2>9, <2>10, ResumeParts
<1>10. CASE SpotCancelled(p, c)
  <2>1. p.kind = "cancel_all" /\ p.account = "spot" /\ c.on \in Orders
    BY <1>5, <1>10, Distinguished DEF SpotCancelled, Legit
  <2> DEFINE T == todo[p] \ {c}
             r == IF T = {} THEN "Ok" ELSE "running"
  <2>2. todo' = [todo EXCEPT ![p] = T] /\ UNCHANGED got
    BY <1>10 DEF SpotCancelled
  <2>3. at' = [at EXCEPT ![p] = r]
    BY <1>1, <1>6, <1>10, <2>2 DEF SpotCancelled, Return, ReturnIfDone
  <2>4. got' = [got EXCEPT ![p] = got[p]] /\ got[p] \in SUBSET Things
    BY <1>1, <1>6, <2>2
  <2>5. T \in SUBSET Requests /\ (\A d \in T : d.op = p /\ Legit(d) /\ r = "running")
    BY <1>1, <1>6 DEF Asking, Listed
  <2>6. Sweeping(p)'
    <3>1. Sweeping(p)
      BY <1>1, <1>5, <2>1 DEF SpotSweeps
    <3>2. Request(p, "list") # c
      <4>1. Request(p, "list").on = "list"
        BY ZenonT(40), RequestOf
      <4> QED
        BY <2>1, <4>1, Distinguished
    <3>3. todo'[p] = T
      BY <1>1, <1>6, <2>2
    <3>4. Request(p, "list") \in accepted => \A o \in listed[Request(p, "list")] : o \in Orders
      <4>1. Request(p, "list").op = p /\ Request(p, "list").on = "list"
        BY ZenonT(40), RequestOf
      <4>2. Request(p, "list") \in accepted => SpotList(Request(p, "list"))
        BY <2>1, <4>1 DEF Lists
      <4> QED
        BY <4>2 DEF SpotList
    <3>5. \A o \in Orders : Tried(p, o) \/ Request(p, o) = c => Tried(p, o)'
      BY <1>2, <1>4 DEF Tried, Types, Net!Settled
    <3> QED
      BY <1>1, <3>1, <3>2, <3>3, <3>4, <3>5 DEF Sweeping
  <2>7. r \in {"running", "Ok", "Err"} /\ ~Futures(p) /\ p.kind # "query"
    BY <2>1 DEF Futures, AccountFor
  <2>8. todo' = [todo EXCEPT ![p] = T]
    BY <2>2
  <2> HIDE DEF T, r
  <2> QED
    BY <1>1, <1>2, <1>3, <2>3, <2>4, <2>5, <2>6, <2>7, <2>8, ResumeParts
<1>11. CASE Collected(p, c)
  <2>1. p.kind = "query" /\ c.on \in Asked(p) /\ c.on \notin Orders
    BY <1>5, <1>11, Distinguished DEF Collected, Legit, Asked, FuturesAccounts
  <2> DEFINE T == todo[p] \ {c}
             r == IF T = {} THEN "Ok" ELSE "running"
             g == IF Successful(c) THEN got[p] \cup listed[c] ELSE got[p]
  <2>2. todo' = [todo EXCEPT ![p] = T] /\ got' = [got EXCEPT ![p] = g]
    BY <1>1, <1>6, <1>11 DEF Collected
  <2>3. at' = [at EXCEPT ![p] = r]
    BY <1>1, <1>6, <1>11, <2>2 DEF Collected, Return, ReturnIfDone
  <2>4. g \in SUBSET Things
    BY <1>1, <1>6 DEF Types
  <2>5. T \in SUBSET Requests /\ (\A d \in T : d.op = p /\ Legit(d) /\ r = "running")
    BY <1>1, <1>6 DEF Asking, Listed
  <2>6. GotHeard(p)'
    <3>1. GotHeard(p)
      BY <1>1, <2>1 DEF Queries
    <3>2. got'[p] = g
      BY <1>1, <1>6, <2>2
    <3>3. Successful(c) <=> s = "ok" /\ c \in accepted
      BY <1>4, <2>1 DEF Successful, OverWs
    <3>4. \A a \in Asked(p) : Request(p, a) \in Requests
      BY <1>1, <2>1, Members DEF Asked, FuturesAccounts
    <3>5. \A a \in Asked(p) : a # c.on => Heard(p, a)' = Heard(p, a)
      <4>1. \A a \in Asked(p) : a # c.on => Request(p, a) # c
        <5> SUFFICES ASSUME NEW a \in Asked(p), a # c.on PROVE Request(p, a) # c
          OBVIOUS
        <5>1. Request(p, a).on = a
          BY ZenonT(40), RequestOf
        <5> QED
          BY <5>1
      <4>2. \A d \in Requests : d # c => request'[d] = request[d]
        BY <1>2 DEF Types
      <4> QED
        BY <1>1, <3>4, <4>1, <4>2 DEF Heard
    <3>6. Heard(p, c.on)' <=> Successful(c)
      BY <1>1, <1>4, <1>7, <3>3 DEF Heard
    <3>7. ~Heard(p, c.on)
      BY <1>1, <1>7 DEF Heard
    <3> QED
      BY <1>1, <1>7, <2>1, <3>1, <3>2, <3>5, <3>6, <3>7 DEF GotHeard, Asked
  <2>7. r \in {"running", "Ok", "Err"} /\ ~Futures(p)
    BY <2>1 DEF Futures
  <2> HIDE DEF T, r, g
  <2> QED
    BY <1>1, <1>2, <1>3, <2>1, <2>2, <2>3, <2>4, <2>5, <2>6, <2>7, ResumeParts
<1> QED
  BY <1>8, <1>9, <1>10, <1>11 DEF Resume

LEMMA NextIInv == IInv /\ [Next]_vars => IInv'
<1> SUFFICES ASSUME IInv, [Next]_vars PROVE IInv'
  OBVIOUS
<1>1. CASE UNCHANGED vars
  <2>1. Types' /\ Asking'
    BY <1>1 DEF vars, venuevars, history, IInv, Types, TypeOK, Asking, Listed, Made, Awaiting, OneAtATime, Issued, Legit, Asked
  <2>2. Placing' /\ Closing' /\ Aging' /\ Standing' /\ Cancelling'
    BY <1>1 DEF vars, venuevars, history, IInv, Placing, Closing, Aging, Standing, Cancelling, AskedToCancel
  <2>3. Lists'
    BY <1>1 DEF vars, venuevars, history, IInv, Lists, Swept, SpotList, OrderList, PositionList, Matches
  <2>4. FuturesOk' /\ SpotSweeps'
    BY <1>1 DEF vars, venuevars, history, IInv, FuturesOk, Futures, AccountFor, SpotSweeps, Sweeping, Tried
  <2>5. Queries'
    BY <1>1 DEF vars, venuevars, history, IInv, Queries, GotHeard, Heard, Asked
  <2> QED
    BY <2>1, <2>2, <2>3, <2>4, <2>5 DEF IInv
<1> QED
  BY <1>1, BeginIInv, AcceptIInv, RejectIInv, AskIInv, ResumeIInv, FillIInv DEF Next

-----------------------------------------------------------------------------
\* The invariant of TdOrders, which the theorems below rest on.
THEOREM Invariance == Spec => []IInv
BY InitIInv, NextIInv, PTL DEF Spec

(* Every variable keeps its type.                                          *)
THEOREM TypeCorrect == Spec => []TypeOK
<1>1. IInv => TypeOK
  BY DEF IInv, Types
<1> QED
  BY <1>1, Invariance, PTL

(* mod.rs:261-333: what an Ok of a futures order, or of its cancel, says.  *)
THEOREM FuturesOkIsTrue == Spec => []FuturesOkIsDone
<1>1. ASSUME IInv, NEW p \in Ops, Futures(p), at[p] = "Ok"
      PROVE  /\ p.kind = "insert" => got[p] = {p.order} /\ book[p.order] \notin {"none", "rejected"}
             /\ p.kind = "cancel" => book[p.order] \in {"filled", "cancelled"}
  <2>1. /\ p.kind = "insert" => got[p] = {p.order}
        /\ p.kind \in {"insert", "cancel"} => Request(p, p.order) \in accepted
    BY <1>1 DEF IInv, FuturesOk
  <2>2. p.kind \in {"insert", "cancel"} => p.order \in Orders /\ Request(p, p.order) \in Requests
    BY OpShape, Members
  <2>3. Request(p, p.order).op = p /\ Request(p, p.order).on = p.order
    BY ZenonT(40), RequestOf
  <2>4. p.kind = "insert" => book[p.order] \in Placed
    BY <1>1, <2>1, <2>2, <2>3 DEF IInv, Placing
  <2>5. p.kind = "cancel" => book[p.order] \in {"filled", "cancelled"}
    BY <1>1, <2>1, <2>2, <2>3 DEF IInv, Closing
  <2> QED
    BY <2>1, <2>4, <2>5 DEF Placed
<1>2. IInv => FuturesOkIsDone
  BY <1>1 DEF FuturesOkIsDone
<1> QED
  BY <1>2, Invariance, PTL

(* mod.rs:335-361: cancel_all_orders leaves no order of its symbol untried *)
(* and nothing is cancelled that nobody asked to cancel.                   *)
THEOREM CancelAllIsComplete == Spec => []CancelAllMissesNone
<1>1. ASSUME IInv, NEW p \in Ops, p.kind = "cancel_all", at[p] = "Ok",
             NEW o \in Orders, Matches(p, o), before[p][o] = "open", book[o] = "open"
      PROVE  p.account = "spot" /\ Tried(p, o)
  <2>1. CASE p.account = "spot"
    <3>1. Sweeping(p) /\ todo[p] = {}
      BY <1>1, <2>1 DEF IInv, SpotSweeps, Asking, Listed
    <3>2. Request(p, "list") \in accepted
      BY <3>1 DEF Sweeping
    <3>3. Request(p, "list").op = p /\ Request(p, "list").on = "list"
      BY ZenonT(40), RequestOf
    <3>4. SpotList(Request(p, "list"))
      BY <1>1, <3>2, <3>3 DEF IInv, Lists
    <3>5. o \in listed[Request(p, "list")]
      BY <1>1, <3>3, <3>4 DEF SpotList
    <3> QED
      BY <2>1, <3>1, <3>5 DEF Sweeping
  <2>2. CASE p.account # "spot"
    <3>1. Request(p, "all") \in accepted
      BY <1>1, <2>2 DEF IInv, FuturesOk, Futures, AccountFor
    <3>2. Request(p, "all").op = p /\ Request(p, "all").on = "all"
      BY ZenonT(40), RequestOf
    <3>3. Swept(Request(p, "all"))
      BY <1>1, <3>1, <3>2 DEF IInv, Lists
    <3> QED
      BY <1>1, <3>2, <3>3 DEF Swept
  <2> QED
    BY <2>1, <2>2
<1>2. IInv => CancelAllMissesNone
  BY <1>1 DEF CancelAllMissesNone, Matches, IInv, Cancelling, AskedToCancel
<1> QED
  BY <1>2, Invariance, PTL

(* mod.rs:363-406: a query returns what stood from its call to its return  *)
(* on every account that answered, and no order or position that did not   *)
(* stand at any time in between.                                           *)
THEOREM QueriesSeeStanding == Spec => []QuerySeesStanding
<1>1. ASSUME IInv, NEW p \in Ops, p.kind = "query", at[p] = "Ok"
      PROVE  /\ Aging /\ GotHeard(p)
             /\ \A a \in Asked(p) : Heard(p, a) =>
                  /\ p.what = "orders" => OrderList(Request(p, a))
                  /\ p.what = "positions" => PositionList(Request(p, a))
             /\ \A a \in Asked(p) : Request(p, a).op = p /\ Request(p, a).on = a
  BY <1>1, RequestOf DEF IInv, Queries, Lists, Heard
<1>2. ASSUME IInv, NEW p \in Ops, p.kind = "query", at[p] = "Ok", p.what = "orders"
      PROVE  /\ \A o \in Orders :
                  Heard(p, AccountOf[o]) /\ before[p][o] = "open" /\ book[o] = "open" => o \in got[p]
             /\ \A o \in got[p] : before[p][o] \in {"none", "open"} /\ book[o] \notin {"none", "rejected"}
  <2>1. Asked(p) = Accounts /\ (\A o \in Orders : AccountOf[o] \in Accounts)
    BY <1>2, OrdersAssumption DEF Asked
  <2> QED
    BY <1>1, <1>2, <2>1 DEF GotHeard, OrderList, Placed
<1>3. ASSUME IInv, NEW p \in Ops, p.kind = "query", at[p] = "Ok", p.what = "positions"
      PROVE  /\ \A x \in held[p] : Heard(p, x[1]) => x \in got[p]
             /\ got[p] \subseteq seen[p]
  <2>1. Asked(p) = FuturesAccounts
    BY <1>3 DEF Asked
  <2>2. \A x \in held[p] : x[1] \in FuturesAccounts
    BY <1>3, PositionShape DEF IInv, Standing
  <2> QED
    BY <1>1, <1>3, <2>1, <2>2 DEF GotHeard, PositionList
<1>4. IInv => QuerySeesStanding
  BY <1>2, <1>3, OpShape DEF QuerySeesStanding
<1> QED
  BY <1>4, Invariance, PTL

=============================================================================
