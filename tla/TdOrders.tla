------------------------------ MODULE TdOrders ------------------------------
(***************************************************************************)
(* The order operations of BinanceTd (k4-td/src/binance/mod.rs): insert,   *)
(* cancel and cancel_all, and the two queries.  They take &self and run    *)
(* side by side.  Each makes one or more requests, one after the other:    *)
(* spot orders and cancels over the WebSocket API (module WsApi), all else *)
(* over REST; both carry requests the way RemoteCall says.  The exchange,  *)
(* which may reject anything and fills orders as it pleases, is external.  *)
(***************************************************************************)
EXTENDS Naturals, FiniteSets

CONSTANTS Orders,     \* orders, each with its own client_order_id
          AccountOf,  \* the account of an order
          SymbolOf,   \* the symbol of an order
          SideOf,     \* its direction; every order is for one lot
          Enabled,    \* the accounts that have a client
          Ops,        \* bound: the operations that may be called, each once
          MaxOps      \* bound: how many of them are

Accounts == {"spot", "ubase", "cbase"}

ASSUME OrdersAssumption ==
  /\ AccountOf \in [Orders -> Accounts] /\ Enabled \subseteq Accounts
  /\ SideOf \in [Orders -> {"BUY", "SELL"}]
  /\ Orders \cap ({"list", "all"} \cup Accounts) = {}

\* insert, cancel and cancel_all_orders, query_open_orders and query_positions.
ASSUME OpsAssumption == \A p \in Ops :
  \/ p \in [kind : {"insert", "cancel"}, order : Orders]
  \/ DOMAIN p = {"kind", "account", "symbol"} /\ p.kind = "cancel_all" /\ p.account \in Accounts
  \/ p \in [kind : {"query"}, what : {"orders", "positions"}]

\* A request says which operation makes it, and what it is about: an order to
\* place or to cancel, an account to list, or all orders at once.
Request(p, on) == [op |-> p, on |-> on]
Requests ==
  {Request(p, o) : p \in {q \in Ops : q.kind \in {"insert", "cancel"}}, o \in Orders}
    \cup {Request(p, x) : p \in {q \in Ops : q.kind = "cancel_all"}, x \in Orders \cup {"list", "all"}}
    \cup {Request(p, a) : p \in {q \in Ops : q.kind = "query"}, a \in Accounts}

VARIABLES book,     \* per order, what the exchange has made of it
          request, carried,  \* of RemoteCall
          accepted, \* requests the exchange carried out, not rejected
          listed,   \* what the answer to a listing says
          at,       \* per operation: "not made", "running", or how it returned
          todo,     \* per operation: the requests it has still to make
          got,      \* what it returns: the order id it read, or the listing
          before,   \* history: the book when it was called
          held,     \* history: the positions held ever since it was called
          seen      \* history: those held at any time since

venuevars == <<book, accepted, listed>>
history == <<before, held, seen>>
vars == <<venuevars, request, carried, at, todo, got, history>>

Net == INSTANCE RemoteCall WITH Calls <- Requests

TypeOK ==
  /\ book \in [Orders -> {"none", "open", "filled", "cancelled", "rejected"}]
  /\ request \in [Requests -> {"idle", "open"} \cup Net!Settled]
  /\ carried \subseteq Requests /\ accepted \subseteq carried
  /\ at \in [Ops -> {"not made", "running", "Ok", "Err"}]
  /\ \A p \in Ops : todo[p] \subseteq Requests

Init ==
  /\ book \in [Orders -> {"none", "open"}]   \* some are open from an earlier session
  /\ \A p \in Ops : p.kind = "insert" => book[p.order] = "none"
  /\ Net!CallsInit
  /\ accepted = {} /\ listed = [c \in Requests |-> {}]
  /\ at = [p \in Ops |-> "not made"]
  /\ todo = [p \in Ops |-> {}] /\ got = [p \in Ops |-> {}]
  /\ before = [p \in Ops |-> book]
  /\ held = [p \in Ops |-> {}] /\ seen = [p \in Ops |-> {}]

-----------------------------------------------------------------------------
(* The exchange.                                                           *)

Open(a) == {o \in Orders : AccountOf[o] = a /\ book[o] = "open"}
OpenAt(a, s) == {o \in Open(a) : SymbolOf[o] = s}

Filled(b, a, s, d) ==
  {o \in Orders : AccountOf[o] = a /\ SymbolOf[o] = s /\ SideOf[o] = d /\ b[o] = "filled"}

\* What was bought less what was sold; a position of zero is none, for the
\* exchange's listing or for the parser, which skips it.
PositionsIn(b, a) ==
  {<<a, s>> : s \in {t \in {SymbolOf[o] : o \in Orders} :
                      Cardinality(Filled(b, a, t, "BUY")) # Cardinality(Filled(b, a, t, "SELL"))}}

FuturesAccounts == Accounts \ {"spot"}
Positions(b) == UNION {PositionsIn(b, a) : a \in FuturesAccounts}

Close(S) == book' = [o \in Orders |-> IF o \in S THEN "cancelled" ELSE book[o]]

\* What a request means to the exchange.
Listing(c) ==
  LET p == c.op
  IN  IF p.kind = "query" THEN IF p.what = "orders" THEN Open(c.on) ELSE PositionsIn(book, c.on)
      ELSE OpenAt(p.account, p.symbol)

IsPlace(c) == c.op.kind = "insert"
IsListing(c) == c.op.kind = "query" \/ c.on = "list"

Accept(c) ==
  /\ Net!CarryOut(c)
  /\ accepted' = accepted \cup {c}
  /\ \/ /\ IsPlace(c) /\ book[c.on] = "none"
        /\ book' = [book EXCEPT ![c.on] = "open"] /\ UNCHANGED listed
     \/ /\ ~IsPlace(c) /\ ~IsListing(c) /\ c.on # "all" /\ book[c.on] = "open"
        /\ Close({c.on}) /\ UNCHANGED listed
     \/ /\ c.on = "all"
        /\ Close(OpenAt(c.op.account, c.op.symbol)) /\ UNCHANGED listed
     \/ /\ IsListing(c)
        /\ listed' = [listed EXCEPT ![c] = Listing(c)] /\ UNCHANGED book
  /\ UNCHANGED <<at, todo, got, history>>

Reject(c) ==
  /\ Net!CarryOut(c)
  /\ book' = IF IsPlace(c) THEN [book EXCEPT ![c.on] = "rejected"] ELSE book
  /\ UNCHANGED <<accepted, listed, at, todo, got, history>>

Fill(o) ==
  /\ book[o] = "open"
  /\ book' = [book EXCEPT ![o] = "filled"]
  /\ held' = [p \in Ops |-> IF at[p] = "not made" THEN {} ELSE held[p] \cap Positions(book')]
  /\ seen' = [p \in Ops |-> IF at[p] = "not made" THEN {} ELSE seen[p] \cup Positions(book')]
  /\ UNCHANGED <<request, carried, accepted, listed, at, todo, got, before>>

-----------------------------------------------------------------------------
(* The operations.                                                         *)

\* The accounts a query asks; it goes through them in this order.
Asked(p) == IF p.what = "orders" THEN Accounts ELSE FuturesAccounts
Place(a) == CASE a = "spot" -> 1 [] a = "ubase" -> 2 [] a = "cbase" -> 3

AccountFor(p) == IF p.kind = "cancel_all" THEN p.account ELSE AccountOf[p.order]

HasClient(p) == p.kind = "query" \/ AccountFor(p) \in Enabled

\* Spot has no batch cancel: its open orders are listed first.
FirstRequests(p) ==
  CASE p.kind \in {"insert", "cancel"} -> {Request(p, p.order)}
    [] p.kind = "cancel_all" -> {Request(p, IF p.account = "spot" THEN "list" ELSE "all")}
    [] p.kind = "query" -> {Request(p, a) : a \in Asked(p) \cap Enabled}

Return(p, r) == at' = [at EXCEPT ![p] = r]
ReturnIfDone(p) == IF todo'[p] = {} THEN Return(p, "Ok") ELSE Return(p, "running")

\* An account without a client is an error; a query passes it over.
Begin(p) ==
  /\ at[p] = "not made"
  /\ Cardinality({q \in Ops : at[q] # "not made"}) < MaxOps
  /\ before' = [before EXCEPT ![p] = book]
  /\ held' = [held EXCEPT ![p] = Positions(book)] /\ seen' = [seen EXCEPT ![p] = Positions(book)]
  /\ todo' = [todo EXCEPT ![p] = IF HasClient(p) THEN FirstRequests(p) ELSE {}]
  /\ IF HasClient(p) THEN ReturnIfDone(p) ELSE Return(p, "Err")
  /\ UNCHANGED <<venuevars, request, carried, got>>

Awaited(p) == {c \in Requests : c.op = p /\ request[c] = "open"}

Comes(c, d) == c.op.kind = "query" => Place(c.on) <= Place(d.on)

\* The next request; it leaves `todo` when its answer is dealt with.
Ask(p, c) ==
  /\ at[p] = "running" /\ Awaited(p) = {}
  /\ c \in todo[p] /\ \A d \in todo[p] : Comes(c, d)
  /\ Net!Issue(c)
  /\ UNCHANGED <<venuevars, at, todo, got, history>>

\* A spot order or cancel goes over the WebSocket API, where any answer is an
\* Ok; over REST a rejection is an error status.
OverWs(c) == c.on \in Orders /\ AccountOf[c.on] = "spot"

\* Variant: nobody looks at the status of the answer.
Successful_AnyStatus(c) == request'[c] = "ok"

Successful(c) ==
  /\ request'[c] = "ok"
  /\ OverWs(c) \/ c \in accepted

\* An answer over the WebSocket API has its orderId inside "result", where
\* insert_order does not look: it returns 0.
OrderId(c) == IF OverWs(c) \/ c \notin accepted THEN {} ELSE {c.on}

Settle(c) == Net!Answered(c) \/ Net!Refused(c) \/ Net!GivenUp(c)

\* insert_order and cancel_order; cancel_all_orders on futures.
Single(p, c) ==
  /\ p.kind \in {"insert", "cancel"} \/ c.on = "all"
  /\ todo' = [todo EXCEPT ![p] = {}]
  /\ got' = IF p.kind = "insert" /\ Successful(c) THEN [got EXCEPT ![p] = OrderId(c)] ELSE got
  /\ Return(p, IF Successful(c) THEN "Ok" ELSE "Err")

\* Variant: the first cancel is all that is made.
SpotListed_First(p, c) ==
  /\ c.on = "list"
  /\ UNCHANGED got
  /\ IF Successful(c)
     THEN /\ todo' = [todo EXCEPT ![p] = IF listed[c] = {} THEN {}
                                         ELSE {Request(p, CHOOSE o \in listed[c] : TRUE)}]
          /\ ReturnIfDone(p)
     ELSE todo' = [todo EXCEPT ![p] = {}] /\ Return(p, "Err")

\* cancel_all_orders on spot: the listing, or its error ...
SpotListed(p, c) ==
  /\ c.on = "list"
  /\ UNCHANGED got
  /\ IF Successful(c)
     THEN todo' = [todo EXCEPT ![p] = {Request(p, o) : o \in listed[c]}] /\ ReturnIfDone(p)
     ELSE todo' = [todo EXCEPT ![p] = {}] /\ Return(p, "Err")

\* ... and then a cancel for each order; what becomes of it is not looked at.
SpotCancelled(p, c) ==
  /\ p.kind = "cancel_all" /\ c.on \in Orders
  /\ todo' = [todo EXCEPT ![p] = @ \ {c}]
  /\ ReturnIfDone(p)
  /\ UNCHANGED got

\* Variant: an account's listing replaces what was collected before.
Collected_Replaces(p, c) ==
  /\ p.kind = "query"
  /\ todo' = [todo EXCEPT ![p] = @ \ {c}]
  /\ got' = IF Successful(c) THEN [got EXCEPT ![p] = listed[c]] ELSE got
  /\ ReturnIfDone(p)

\* query_open_orders and query_positions: an account that fails is left out.
Collected(p, c) ==
  /\ p.kind = "query"
  /\ todo' = [todo EXCEPT ![p] = @ \ {c}]
  /\ got' = IF Successful(c) THEN [got EXCEPT ![p] = @ \cup listed[c]] ELSE got
  /\ ReturnIfDone(p)

Resume(p, c) ==
  /\ c \in Awaited(p)
  /\ Settle(c)
  /\ Single(p, c) \/ SpotListed(p, c) \/ SpotCancelled(p, c) \/ Collected(p, c)
  /\ UNCHANGED <<venuevars, history>>

-----------------------------------------------------------------------------
Next ==
  \/ \E p \in Ops : Begin(p)
  \/ \E c \in Requests : Accept(c) \/ Reject(c) \/ Ask(c.op, c) \/ Resume(c.op, c)
  \/ \E o \in Orders : Fill(o)

Spec == Init /\ [][Next]_vars

-----------------------------------------------------------------------------
Futures(p) == p.kind # "query" /\ AccountFor(p) # "spot"

(* What an Ok of insert_order and cancel_order is worth on a futures       *)
(* account: the order was placed, under the id returned; the order is no   *)
(* longer open and never will be.  On spot it says neither: a rejection is *)
(* an Ok as well (mod.rs:294), and the id is never the order's.            *)
FuturesOkIsDone ==
  \A p \in Ops : Futures(p) /\ at[p] = "Ok" =>
    /\ p.kind = "insert" => got[p] = {p.order} /\ book[p.order] \notin {"none", "rejected"}
    /\ p.kind = "cancel" => book[p.order] \in {"filled", "cancelled"}

Tried(p, o) == Request(p, o) \in Requests /\ request[Request(p, o)] \in Net!Settled

(* cancel_all_orders returns Ok only when every order of the symbol that   *)
(* was open when it was called is closed, or, on spot, was tried; and no   *)
(* order is cancelled that nobody asked to cancel, by itself or by its     *)
(* account and symbol.                                                     *)
CancelAllMissesNone ==
  /\ \A p \in Ops : p.kind = "cancel_all" /\ at[p] = "Ok" =>
       \A o \in Orders :
         AccountOf[o] = p.account /\ SymbolOf[o] = p.symbol /\ before[p][o] = "open" =>
           book[o] # "open" \/ (p.account = "spot" /\ Tried(p, o))
  /\ \A o \in Orders : book[o] = "cancelled" =>
       \E p \in Ops : /\ at[p] # "not made"
                      /\ \/ p.kind = "cancel" /\ p.order = o
                         \/ p.kind = "cancel_all" /\ p.account = AccountOf[o] /\ p.symbol = SymbolOf[o]

Heard(p, a) == Request(p, a) \in accepted /\ request[Request(p, a)] = "ok"

(* The accounts are asked one after the other while orders come and go:    *)
(* query_open_orders still returns every order of an account that answered *)
(* which was open from the call to the return, and none that was closed    *)
(* when it was called or has not been placed yet; query_positions returns  *)
(* every futures position of such an account that was held from the call   *)
(* to the return, and none that was closed all that time.                  *)
QuerySeesStanding ==
  \A p \in Ops : p.kind = "query" /\ at[p] = "Ok" =>
    \/ /\ p.what = "orders"
       /\ \A o \in Orders :
            Heard(p, AccountOf[o]) /\ before[p][o] = "open" /\ book[o] = "open" => o \in got[p]
       /\ \A o \in got[p] : before[p][o] \in {"none", "open"} /\ book[o] \notin {"none", "rejected"}
    \/ /\ p.what = "positions"
       /\ \A x \in held[p] : Heard(p, x[1]) => x \in got[p]
       /\ got[p] \subseteq seen[p]

=============================================================================
