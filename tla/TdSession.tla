------------------------------ MODULE TdSession ------------------------------
(***************************************************************************)
(* The session of BinanceTd (k4-td/src/binance/mod.rs): login creates a    *)
(* client, a listen key and a refresh task for every enabled account,      *)
(* within a deadline; stop aborts the tasks and shuts the clients down.    *)
(* Both have the module to themselves (&mut self), so the owner is at one  *)
(* place at a time; the refresh tasks run beside it.  A login that fails   *)
(* keeps what it has made, and may be tried again.  What an order needs of *)
(* the spot client is its WebSocket connection (module WsApi).  The        *)
(* exchange, which has one listen key per account, is external.            *)
(***************************************************************************)
EXTENDS Naturals, Sequences

CONSTANTS AccountTypes,    \* AccountType
          Spot,            \* the account that has a WebSocket API
          EnabledAccounts, \* the accounts the config enables, in the order login takes them
          MaxLogins        \* bound: calls of login

ASSUME AccountsAssumption == Spot \in AccountTypes /\ EnabledAccounts \in Seq(AccountTypes)
ASSUME EnabledAssumption ==
  \A i, j \in 1 .. Len(EnabledAccounts) : EnabledAccounts[i] = EnabledAccounts[j] => i = j
ASSUME LoginsAssumption == MaxLogins \in Nat

\* A client is made by one login for one account.
Clients == AccountTypes \X (1 .. MaxLogins)

VARIABLES owner,    \* "idle", or where login or stop awaits
          step,     \* the account in EnabledAccounts it is at
          logins,   \* calls of login so far
          deadline, \* login's timer: "pending" or "fired"
          client,   \* self.spot, self.ubase, self.cbase: the login that made it, 0 is None
          refresh,  \* per client, its refresh task
          aborted,  \* the clients whose refresh task was aborted
          key,      \* per account, whether its listen key lives at the exchange
          ws,       \* per login, its spot client's connection: "none", "open", "ended"
          result,   \* of the last login: "none", "true" or "false"
          stopped,  \* stop() has returned and login() was not called since
          late,     \* creations login gave up on that the exchange may still carry out
          undeleted, \* history: accounts whose key the last stop() failed to delete
          revived   \* history: accounts whose key such a creation made since its deletion

ownervars == <<owner, step, logins, deadline, result, stopped>>
keyvars == <<key, late, undeleted, revived>>
tdvars == <<ownervars, client, refresh, aborted, ws, keyvars>>

Running == {"sleeping", "sending", "reporting"}

TdTypeOK ==
  /\ owner \in {"idle", "creating", "info", "stopping", "deleting"}
  /\ step \in 0 .. Len(EnabledAccounts) + 1
  /\ logins \in 0 .. MaxLogins
  /\ deadline \in {"pending", "fired"}
  /\ client \in [AccountTypes -> 0 .. MaxLogins]
  /\ refresh \in [Clients -> {"none", "ended"} \cup Running]
  /\ aborted \subseteq Clients
  /\ key \in [AccountTypes -> BOOLEAN]
  /\ ws \in [1 .. MaxLogins -> {"none", "open", "ended"}]
  /\ result \in {"none", "true", "false"}
  /\ stopped \in BOOLEAN
  /\ late \subseteq Clients
  /\ undeleted \subseteq AccountTypes /\ revived \subseteq AccountTypes

TdInit ==
  /\ owner = "idle" /\ step = 0 /\ logins = 0 /\ deadline = "pending"
  /\ client = [a \in AccountTypes |-> 0]
  /\ refresh = [c \in Clients |-> "none"] /\ aborted = {}
  /\ key = [a \in AccountTypes |-> FALSE]
  /\ ws = [n \in 1 .. MaxLogins |-> "none"]
  /\ result = "none" /\ stopped = FALSE /\ late = {}
  /\ undeleted = {} /\ revived = {}

-----------------------------------------------------------------------------
(* login().                                                                *)

Now == EnabledAccounts[step]

Answer(r) == owner' = "idle" /\ result' = r

\* The next account; after the last one the exchange info of the spot client,
\* if there is one, of this login or an earlier one.
LoginGoesOn(i) ==
  /\ step' = i
  /\ IF i <= Len(EnabledAccounts) THEN owner' = "creating" /\ result' = "none"
     ELSE IF client'[Spot] # 0 THEN owner' = "info" /\ result' = "none"
     ELSE Answer("true")

Login ==
  /\ owner = "idle" /\ logins < MaxLogins
  /\ logins' = logins + 1 /\ deadline' = "pending" /\ stopped' = FALSE
  /\ UNCHANGED <<client, refresh, aborted, ws, keyvars>>
  /\ LoginGoesOn(1)

\* The answer to the POST is there before the timer fires: the client is kept
\* and its refresh task spawned.  A client of an earlier login is replaced;
\* the refresh task that shares it goes on.
KeyCreated ==
  /\ owner = "creating" /\ deadline = "pending"
  /\ key' = [key EXCEPT ![Now] = TRUE]
  /\ client' = [client EXCEPT ![Now] = logins]
  /\ refresh' = [refresh EXCEPT ![<<Now, logins>>] = "sleeping"]
  /\ LoginGoesOn(step + 1)
  /\ UNCHANGED <<logins, deadline, stopped, aborted, ws, late, undeleted, revived>>

\* An error, or the timer, which drops the POST: login ends, and keeps the
\* accounts before this one.  The key may have been made all the same, or may
\* be made later, by a request that is on its way and nobody awaits.
CreateFails ==
  /\ owner = "creating"
  /\ Answer("false")
  /\ \/ UNCHANGED <<key, late>>
     \/ key' = [key EXCEPT ![Now] = TRUE] /\ UNCHANGED late
     \/ late' = late \cup {<<Now, logins>>} /\ UNCHANGED key
  /\ UNCHANGED <<step, logins, deadline, stopped, client, refresh, aborted, ws, undeleted, revived>>

\* The exchange carries out a creation that login has given up on.
LateCreate(c) ==
  /\ c \in late
  /\ late' = late \ {c}
  /\ key' = [key EXCEPT ![c[1]] = TRUE]
  /\ revived' = revived \cup {c[1]}
  /\ UNCHANGED <<ownervars, client, refresh, aborted, ws, undeleted>>

TimerFires ==
  /\ owner \in {"creating", "info"} /\ deadline = "pending"
  /\ deadline' = "fired"
  /\ UNCHANGED <<owner, step, logins, result, stopped, client, refresh, aborted, ws, keyvars>>

\* The symbols are loaded or not; the timer has no part in it.
InfoAnswered ==
  /\ owner = "info"
  /\ Answer("true")
  /\ UNCHANGED <<step, logins, deadline, stopped, client, refresh, aborted, ws, keyvars>>

-----------------------------------------------------------------------------
(* A refresh task.  It has its client's listen_key locked from the tick    *)
(* until the answer to its PUT.                                            *)

Locked(c) == refresh[c] = "sending"

Tick(c) ==
  /\ refresh[c] = "sleeping" /\ c \notin aborted
  /\ refresh' = [refresh EXCEPT ![c] = "sending"]
  /\ UNCHANGED <<ownervars, client, aborted, ws, keyvars>>

\* Accepted or not: the task takes the answer.
KeepaliveAnswered(c) ==
  /\ refresh[c] = "sending" /\ c \notin aborted
  /\ refresh' = [refresh EXCEPT ![c] = "reporting"]
  /\ UNCHANGED <<ownervars, client, aborted, ws, keyvars>>

\* Variant: a refused refresh ends the task.
Report_GivesUp(c) ==
  /\ refresh[c] = "reporting"
  /\ refresh' \in {[refresh EXCEPT ![c] = "sleeping"], [refresh EXCEPT ![c] = "ended"]}
  /\ UNCHANGED <<ownervars, client, aborted, ws, keyvars>>

\* It sends its event, ListenKeyRefreshed or Error, and goes back to sleep.
\* There is no await in between, so an abort does not keep it from that.
Report(c) ==
  /\ refresh[c] = "reporting"
  /\ refresh' = [refresh EXCEPT ![c] = "sleeping"]
  /\ UNCHANGED <<ownervars, client, aborted, ws, keyvars>>

\* Variant: only a task that sleeps is cancelled.
Cancelled_Asleep(c) ==
  /\ c \in aborted /\ refresh[c] = "sleeping"
  /\ refresh' = [refresh EXCEPT ![c] = "ended"]
  /\ UNCHANGED <<ownervars, client, aborted, ws, keyvars>>

\* The runtime drops an aborted task at its await, and with it the lock.
Cancelled(c) ==
  /\ c \in aborted /\ refresh[c] \in {"sleeping", "sending"}
  /\ refresh' = [refresh EXCEPT ![c] = "ended"]
  /\ UNCHANGED <<ownervars, client, aborted, ws, keyvars>>

-----------------------------------------------------------------------------
(* Orders use the spot client between login and stop.                      *)

SpotOrder ==
  /\ owner = "idle" /\ ~stopped
  /\ client[Spot] # 0 /\ ws[client[Spot]] = "none"
  /\ ws' = [ws EXCEPT ![client[Spot]] = "open"]
  /\ UNCHANGED <<ownervars, client, refresh, aborted, keyvars>>

WsEnds(n) ==
  /\ ws[n] = "open"
  /\ ws' = [ws EXCEPT ![n] = "ended"]
  /\ UNCHANGED <<ownervars, client, refresh, aborted, keyvars>>

-----------------------------------------------------------------------------
(* stop().                                                                 *)

StopGoesOn(i) ==
  /\ step' = i
  /\ IF i <= Len(EnabledAccounts) THEN owner' = "stopping" /\ stopped' = FALSE
                                  ELSE owner' = "idle" /\ stopped' = TRUE

\* Variant: only the tasks of the clients in use are aborted.
Stop_CurrentOnly ==
  /\ owner = "idle"
  /\ aborted' = aborted \cup {c \in Clients : refresh[c] \in Running /\ client[c[1]] = c[2]}
  /\ undeleted' = {}
  /\ StopGoesOn(1)
  /\ UNCHANGED <<logins, deadline, result, client, refresh, ws, key, late, revived>>

\* All refresh tasks ever spawned are in `tasks`.
Stop ==
  /\ owner = "idle"
  /\ aborted' = aborted \cup {c \in Clients : refresh[c] \in Running}
  /\ undeleted' = {}
  /\ StopGoesOn(1)
  /\ UNCHANGED <<logins, deadline, result, client, refresh, ws, key, late, revived>>

NoClient ==
  /\ owner = "stopping" /\ client[Now] = 0
  /\ StopGoesOn(step + 1)
  /\ UNCHANGED <<logins, deadline, result, client, refresh, aborted, ws, keyvars>>

\* The spot client aborts its WebSocket task; every client waits for the lock
\* of its listen key, and sends the DELETE.
ClientShutDown ==
  /\ owner = "stopping" /\ client[Now] # 0
  /\ ~Locked(<<Now, client[Now]>>)
  /\ owner' = "deleting"
  /\ ws' = [n \in 1 .. MaxLogins |-> IF Now = Spot /\ n = client[Spot] /\ ws[n] = "open"
                                     THEN "ended" ELSE ws[n]]
  /\ UNCHANGED <<step, logins, deadline, result, stopped, client, refresh, aborted, keyvars>>

\* The key is gone, whether the answer says so or not; or the DELETE failed.
Deletion(accounts) ==
  \/ /\ key' = [key EXCEPT ![Now] = FALSE] /\ revived' = revived \ {Now}
     /\ undeleted' \in {undeleted, accounts}
  \/ undeleted' = accounts /\ UNCHANGED <<key, revived>>

\* Variant: a DELETE that fails ends stop().
DeleteAnswered_Fails ==
  /\ owner = "deleting"
  /\ Deletion(undeleted \cup {Now})
  /\ StopGoesOn(IF undeleted' = undeleted THEN step + 1 ELSE Len(EnabledAccounts) + 1)
  /\ UNCHANGED <<logins, deadline, result, client, refresh, aborted, ws, late>>

\* What became of it is not looked at.  The client stays.
DeleteAnswered ==
  /\ owner = "deleting"
  /\ Deletion(undeleted \cup {Now})
  /\ StopGoesOn(step + 1)
  /\ UNCHANGED <<logins, deadline, result, client, refresh, aborted, ws, late>>

-----------------------------------------------------------------------------
Owner == Login \/ KeyCreated \/ CreateFails \/ TimerFires \/ InfoAnswered
           \/ SpotOrder \/ Stop \/ NoClient \/ ClientShutDown \/ DeleteAnswered

Refresher(c) == Tick(c) \/ KeepaliveAnswered(c) \/ Report(c) \/ Cancelled(c)

TdNext == \/ Owner
          \/ \E c \in Clients : Refresher(c) \/ LateCreate(c)
          \/ \E n \in 1 .. MaxLogins : WsEnds(n)

TdSpec == TdInit /\ [][TdNext]_tdvars

\* Only what the process does by itself is fair: the timer fires, and ends the
\* POST it is on; the owner takes a lock that is free; the runtime drops what
\* was aborted and polls what is ready.  Nothing is assumed of the exchange:
\* reqwest has no timeout, so a PUT, the exchange info and a DELETE may never
\* be answered.
Fairness ==
  /\ WF_tdvars(TimerFires) /\ WF_tdvars(deadline = "fired" /\ CreateFails)
  /\ WF_tdvars(NoClient \/ ClientShutDown)
  /\ \A c \in Clients : WF_tdvars(Report(c)) /\ WF_tdvars(Cancelled(c))

FairSpec == TdSpec /\ Fairness

-----------------------------------------------------------------------------
(* Between a successful login and stop() every enabled account has the     *)
(* client of that login and a task that refreshes its key, whatever failed *)
(* before and however many refreshes were refused.                         *)
LoggedInIsRefreshed ==
  result = "true" /\ ~stopped /\ owner = "idle" =>
    \A i \in 1 .. Len(EnabledAccounts) :
      /\ client[EnabledAccounts[i]] = logins
      /\ refresh[<<EnabledAccounts[i], logins>>] \in Running
      /\ <<EnabledAccounts[i], logins>> \notin aborted

(* After stop() nobody refreshes a key, not even a task of an earlier      *)
(* login whose client was replaced.                                        *)
NoKeepaliveAfterStop ==
  [][\A c \in Clients :
       stopped => ~(refresh[c] # "sending" /\ refresh'[c] = "sending")]_tdvars

(* stop() has the key of every account it has a client of deleted: another *)
(* account's failure does not keep it from that.  A key is left only where *)
(* the DELETE failed, or where a creation that login gave up on was        *)
(* carried out after it.                                                   *)
KeysDeleted ==
  stopped => \A a \in AccountTypes : client[a] # 0 /\ key[a] => a \in undeleted \cup revived

(* login() and stop() return unless the exchange info or a DELETE is never *)
(* answered: no creation outlasts the deadline, and stop() gets every lock *)
(* a refresh task holds, though its PUT may never be answered.             *)
OperationsReturn ==
  (owner # "idle") ~> (owner = "idle" \/ [](owner = "info") \/ [](owner = "deleting"))

=============================================================================
