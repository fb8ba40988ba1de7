----------------------------- MODULE RemoteCall -----------------------------
(***************************************************************************)
(* What a request to the exchange promises the operation that awaits it,   *)
(* whatever carries it: it is carried out at most once, an answer means    *)
(* that it was, a refusal that it never will be, and a request given up on *)
(* may be carried out later, or not at all.  The spot order channel (WsApi)*)
(* implements it; the order operations (TdOrders) are built on it.         *)
(***************************************************************************)
CONSTANT Calls

VARIABLES request,  \* per call: "idle", "open", or how it ended
          carried   \* the calls the exchange has carried out

callsvars == <<request, carried>>

Settled == {"ok", "refused", "given up"}

CallsInit == request = [c \in Calls |-> "idle"] /\ carried = {}

\* The caller hands its request over.
Issue(c) ==
  /\ request[c] = "idle"
  /\ request' = [request EXCEPT ![c] = "open"]
  /\ UNCHANGED carried

\* The exchange carries it out, perhaps for a caller who has given up.
CarryOut(c) ==
  /\ request[c] \in {"open", "given up"} /\ c \notin carried
  /\ carried' = carried \cup {c}
  /\ UNCHANGED request

Answered(c) ==
  /\ request[c] = "open" /\ c \in carried
  /\ request' = [request EXCEPT ![c] = "ok"]
  /\ UNCHANGED carried

Refused(c) ==
  /\ request[c] = "open" /\ c \notin carried
  /\ request' = [request EXCEPT ![c] = "refused"]
  /\ UNCHANGED carried

GivenUp(c) ==
  /\ request[c] = "open"
  /\ request' = [request EXCEPT ![c] = "given up"]
  /\ UNCHANGED carried

CallsNext == \E c \in Calls : Issue(c) \/ CarryOut(c) \/ Answered(c) \/ Refused(c) \/ GivenUp(c)

CallsSpec == CallsInit /\ [][CallsNext]_callsvars

=============================================================================
