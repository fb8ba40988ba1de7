-------------------------------- MODULE WsApi -------------------------------
(***************************************************************************)
(* The spot order channel (SpotClient and WsApiInner,                      *)
(* k4-td/src/binance/spot.rs): calls of ws_place_order and ws_cancel_order *)
(* share one WebSocket API connection, made by the first of them.  A call  *)
(* registers its id in `pending`, hands its request to the connection's    *)
(* task through a bounded channel and waits five seconds for the answer;   *)
(* the task answers the call an incoming frame names.  The exchange, and   *)
(* the network between it and the socket, are external.  What all this     *)
(* amounts to for a caller is module RemoteCall.                           *)
(***************************************************************************)
EXTENDS Naturals, Sequences

CONSTANTS Calls,   \* calls, each made once; a call's id is a fresh UUID
          OutCap   \* capacity of the request channel (64 in the code)

ASSUME OutCapAssumption == OutCap \in Nat \ {0}

VARIABLES call,     \* per call: "idle", where it awaits, or how it ended
          ws_api,   \* "none", "connecting" (its mutex is held), "some"
          task,     \* the reader/writer task: "none", where it awaits, "ended"
          channel,  \* requests handed over, not taken yet
          writing,  \* the request being written: <<>>, or one call
          pending,  \* the ids registered for an answer
          answered, \* calls whose oneshot holds the answer
          sent,     \* requests that reached the exchange, in order
          decided,  \* calls the exchange has accepted or rejected
          frames,   \* answers on their way back
          stopped   \* shutdown() was called

callvars == <<call, ws_api>>
exchangevars == <<sent, decided, frames>>
vars == <<call, ws_api, task, channel, writing, pending, answered, sent, decided, frames, stopped>>

InProgress == {"queued", "connecting", "sending", "waiting"}
Ended == {"ok", "refused", "timed out"}
Reading == {"select", "ponging"}

ApiTypeOK ==
  /\ call \in [Calls -> {"idle"} \cup InProgress \cup Ended]
  /\ ws_api \in {"none", "connecting", "some"}
  /\ task \in {"none", "writing", "ended"} \cup Reading
  /\ channel \in Seq(Calls) /\ Len(channel) <= OutCap
  /\ writing \in Seq(Calls) /\ Len(writing) <= 1
  /\ pending \subseteq Calls /\ answered \subseteq Calls /\ frames \subseteq Calls
  /\ decided \subseteq Calls
  /\ sent \in Seq(Calls)
  /\ stopped \in BOOLEAN

Init ==
  /\ call = [c \in Calls |-> "idle"]
  /\ ws_api = "none" /\ task = "none" /\ stopped = FALSE
  /\ channel = <<>> /\ writing = <<>> /\ sent = <<>>
  /\ pending = {} /\ answered = {} /\ frames = {} /\ decided = {}

Goto(c, l) == call' = [call EXCEPT ![c] = l]

-----------------------------------------------------------------------------
(* A call: ensure_ws_api, then request().                                  *)

\* The caller queues for the mutex of ws_api.
Enter(c) ==
  /\ call[c] = "idle" /\ ~stopped
  /\ Goto(c, "queued")
  /\ UNCHANGED <<ws_api, task, channel, writing, pending, answered, exchangevars, stopped>>

\* The connection is there already, alive or not; the id is registered.
UseExisting(c) ==
  /\ call[c] = "queued"
  /\ ws_api = "some"
  /\ Goto(c, "sending")
  /\ pending' = pending \cup {c}
  /\ UNCHANGED <<ws_api, task, channel, writing, answered, exchangevars, stopped>>

\* The first call connects, and holds the mutex while it does.
BeginConnect(c) ==
  /\ call[c] = "queued"
  /\ ws_api = "none"
  /\ Goto(c, "connecting") /\ ws_api' = "connecting"
  /\ UNCHANGED <<task, channel, writing, pending, answered, exchangevars, stopped>>

Connected(c) ==
  /\ call[c] = "connecting"
  /\ Goto(c, "sending") /\ ws_api' = "some"
  /\ task' = "select"
  /\ pending' = pending \cup {c}
  /\ UNCHANGED <<channel, writing, answered, exchangevars, stopped>>

ConnectFails(c) ==
  /\ call[c] = "connecting"
  /\ Goto(c, "refused") /\ ws_api' = "none"
  /\ UNCHANGED <<task, channel, writing, pending, answered, exchangevars, stopped>>

\* tx.send().await waits, with no time limit, while the channel is full.
HandOver(c) ==
  /\ call[c] = "sending" /\ task # "ended"
  /\ Len(channel) < OutCap
  /\ channel' = Append(channel, c)
  /\ Goto(c, "waiting")
  /\ UNCHANGED <<ws_api, task, writing, pending, answered, exchangevars, stopped>>

\* Once the task is gone the channel is closed.  The id stays in the map.
ChannelClosed(c) ==
  /\ call[c] = "sending" /\ task = "ended"
  /\ Goto(c, "refused")
  /\ UNCHANGED <<ws_api, task, channel, writing, pending, answered, exchangevars, stopped>>

Return(c) ==
  /\ call[c] = "waiting" /\ c \in answered
  /\ Goto(c, "ok")
  /\ UNCHANGED <<ws_api, task, channel, writing, pending, answered, exchangevars, stopped>>

\* Variant: the timer is forgotten.
TimeOut_NoTimer(c) ==
  /\ call[c] = "waiting" /\ c \in answered
  /\ Goto(c, "timed out")
  /\ UNCHANGED <<ws_api, task, channel, writing, pending, answered, exchangevars, stopped>>

\* Variant: running out of time is reported like a closed channel.
TimeOut_AsRefused(c) ==
  /\ call[c] = "waiting" /\ c \notin answered
  /\ Goto(c, "refused")
  /\ UNCHANGED <<ws_api, task, channel, writing, pending, answered, exchangevars, stopped>>

\* timeout() looks at the answer before it looks at the clock.  The id stays
\* in the map and the request stays wherever it is.
TimeOut(c) ==
  /\ call[c] = "waiting" /\ c \notin answered
  /\ Goto(c, "timed out")
  /\ UNCHANGED <<ws_api, task, channel, writing, pending, answered, exchangevars, stopped>>

-----------------------------------------------------------------------------
(* The task.                                                               *)

\* Variant: the request is looked at, not taken.
Take_Peek ==
  /\ task = "select" /\ channel # <<>>
  /\ task' = "writing" /\ writing' = <<Head(channel)>>
  /\ UNCHANGED <<callvars, channel, pending, answered, exchangevars, stopped>>

Take ==
  /\ task = "select" /\ channel # <<>>
  /\ task' = "writing" /\ writing' = <<Head(channel)>>
  /\ channel' = Tail(channel)
  /\ UNCHANGED <<callvars, pending, answered, exchangevars, stopped>>

Written ==
  /\ task = "writing"
  /\ task' = "select" /\ writing' = <<>>
  /\ sent' = sent \o writing
  /\ UNCHANGED <<callvars, channel, pending, answered, decided, frames, stopped>>

\* A write that fails may have got through.  Nobody who waits is told.
WriteFails ==
  /\ task = "writing"
  /\ task' = "ended" /\ writing' = <<>>
  /\ sent' \in {sent, sent \o writing}
  /\ channel' = <<>>
  /\ UNCHANGED <<callvars, pending, answered, decided, frames, stopped>>

\* An answer: its id is looked up and taken out of the map.
ReadAnswer(c) ==
  /\ task = "select" /\ c \in frames
  /\ frames' = frames \ {c}
  /\ pending' = pending \ {c}
  /\ answered' = answered \cup (pending \cap {c})
  /\ UNCHANGED <<callvars, task, channel, writing, sent, decided, stopped>>

ReadPing ==
  /\ task = "select"
  /\ task' = "ponging"
  /\ UNCHANGED <<callvars, channel, writing, pending, answered, exchangevars, stopped>>

PongWritten ==
  /\ task = "ponging"
  /\ task' = "select"
  /\ UNCHANGED <<callvars, channel, writing, pending, answered, exchangevars, stopped>>

\* A read error or the end of the stream: what is in the channel is lost with
\* the task, and the calls that wait are left to their timers.
ReadEnds ==
  /\ task = "select"
  /\ task' = "ended" /\ channel' = <<>>
  /\ UNCHANGED <<callvars, writing, pending, answered, exchangevars, stopped>>

\* stop() has the module to itself (&mut self): no call is in progress.  The
\* abort takes the task wherever it awaits; ws_api stays.  A write that the
\* abort cuts short may have got through.
Shutdown ==
  /\ ~stopped
  /\ \A c \in Calls : call[c] \notin InProgress
  /\ stopped' = TRUE
  /\ task' = IF task = "none" THEN "none" ELSE "ended"
  /\ channel' = <<>> /\ writing' = <<>>
  /\ sent' \in {sent, sent \o writing}
  /\ UNCHANGED <<callvars, pending, answered, decided, frames>>

-----------------------------------------------------------------------------
(* The exchange accepts or rejects a request, and answers it either way.   *)
Decide(c) ==
  /\ c \notin decided
  /\ \E i \in 1 .. Len(sent) : sent[i] = c
  /\ decided' = decided \cup {c}
  /\ frames' = frames \cup {c}
  /\ UNCHANGED <<callvars, task, channel, writing, pending, answered, sent, stopped>>

Call(c) == \/ Enter(c) \/ UseExisting(c) \/ BeginConnect(c) \/ Connected(c)
           \/ ConnectFails(c) \/ HandOver(c) \/ ChannelClosed(c) \/ Return(c) \/ TimeOut(c)

Task == \/ Take \/ Written \/ WriteFails \/ ReadPing \/ PongWritten \/ ReadEnds
        \/ \E c \in Calls : ReadAnswer(c)

Next == (\E c \in Calls : Call(c) \/ Decide(c)) \/ Task \/ Shutdown

Spec == Init /\ [][Next]_vars

\* Only what the process does by itself is fair: a call is polled and its
\* timer runs, the mutex and the channel serve those who wait in turn, select!
\* takes a branch that is ready again and again.  Nothing is assumed of the
\* peer: the connect and the writes have no timeout and may never end.
Fairness ==
  /\ \A c \in Calls : /\ SF_vars(UseExisting(c) \/ BeginConnect(c))
                      /\ SF_vars(HandOver(c)) /\ WF_vars(ChannelClosed(c))
                      /\ WF_vars(Return(c) \/ TimeOut(c))
  /\ SF_vars(Take)

FairSpec == Spec /\ Fairness

-----------------------------------------------------------------------------
Entries(q) == {q[i] : i \in 1 .. Len(q)}
InFlight(c) == c \in Entries(channel) \cup Entries(writing)
Reached(c) == c \in Entries(sent)

(* A call returns Ok only if the exchange has decided on that very call:   *)
(* answers, which come in any order, are never crossed.                    *)
OkWasDecided == \A c \in Calls : call[c] = "ok" => c \in decided

(* Nothing the channel, the task or a caller does sends an order twice.    *)
SentOnce ==
  /\ \A i, j \in 1 .. Len(sent) : i # j => sent[i] # sent[j]
  /\ \A i \in 1 .. Len(sent) : ~InFlight(sent[i])

(* A call that ends with "connection failed" or "send channel closed" has  *)
(* placed no order and will place none: it is safe to retry.               *)
RefusedNeverSent == \A c \in Calls : call[c] = "refused" => ~Reached(c) /\ ~InFlight(c)

\* A call that has not handed its request over, behind a connect or a write
\* that is never answered.
Blocked(c) == /\ call[c] \in InProgress \ {"waiting"}
              /\ ws_api = "connecting" \/ task \in {"writing", "ponging"}

(* Every call ends, though the connection may die at any moment: one that  *)
(* waits for its answer always, one that still queues for the connection   *)
(* or for the channel unless the connection hangs.  The five seconds of    *)
(* request() do not cover that wait, whatever its comment ("with timeout").*)
CallsReturn ==
  \A c \in Calls : (call[c] \in InProgress) ~> (call[c] \in Ended \/ []Blocked(c))

\* What a caller sees of its call.
Outcome(l) ==
  IF l = "idle" THEN "idle"
  ELSE IF l \in InProgress THEN "open"
  ELSE IF l = "timed out" THEN "given up" ELSE l

Remote == INSTANCE RemoteCall WITH request <- [c \in Calls |-> Outcome(call[c])],
                                   carried <- decided

(* The channel is a RemoteCall: every request is carried out at most once, *)
(* an Ok means that it was, a refusal that it never will be; only one that *)
(* timed out is open, and may still be carried out after its caller left.  *)
ImplementsRemoteCall == Remote!CallsSpec

=============================================================================
