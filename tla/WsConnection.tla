---------------------------- MODULE WsConnection ----------------------------
(***************************************************************************)
(* WsConnection and its connection_loop (k4-core/src/ws/client.rs): one    *)
(* task that connects, subscribes, serves the socket and reconnects, and   *)
(* the owner, which sends messages through a bounded channel, stops the    *)
(* task with a watch channel, or just drops the connection.  The task is   *)
(* cut where it awaits: connect, every socket write, the selects.          *)
(***************************************************************************)
EXTENDS Naturals, Sequences

CONSTANTS PingOn,      \* config.ping_interval is Some
          OutCap,      \* capacity of the outbound channel (64 in the code)
          MaxSends,    \* bound: messages the owner sends
          MaxFrames,   \* bound: text and binary frames counted
          BaseWait,    \* first backoff (100 ms)
          MaxWait      \* longest backoff (30 s)

ASSUME WsBounds == /\ PingOn \in BOOLEAN
                   /\ OutCap \in Nat \ {0} /\ MaxSends \in Nat /\ MaxFrames \in Nat
                   /\ BaseWait \in Nat \ {0} /\ MaxWait \in Nat /\ BaseWait <= MaxWait

VARIABLES pc,        \* where the task awaits
          backoff,   \* the next wait
          shutdown,  \* watch channel: "no", "signalled" by stop(), "dropped" by the owner
          owner,     \* "running", "stopping" in stop(), "stopped", or "gone"
          sent,      \* messages send() has accepted; they are numbered 1, 2, ...
          outbound,  \* the outbound channel
          wire,      \* messages written to a socket, over all connections
          writing,   \* the outbound message being written
          ticked,    \* the ping interval has elapsed on this connection
          pinged,    \* a ping was written on this connection
          frames     \* frames handed to the callback

taskvars == <<pc, backoff, outbound, wire, writing, ticked, pinged, frames>>
ownervars == <<shutdown, owner, sent>>
vars == <<taskvars, ownervars>>

Awaits == {"top", "connecting", "failed", "subscribing", "serving", "ponging",
           "writing", "closing", "disconnected", "done"}

TypeOK ==
  /\ pc \in Awaits
  /\ backoff \in BaseWait .. MaxWait
  /\ shutdown \in {"no", "signalled", "dropped"}
  /\ owner \in {"running", "stopping", "stopped", "gone"}
  /\ sent \in 0 .. MaxSends
  /\ outbound \in Seq(1 .. MaxSends) /\ Len(outbound) <= OutCap
  /\ wire \in Seq(1 .. MaxSends)
  /\ writing \in 0 .. MaxSends
  /\ ticked \in BOOLEAN /\ pinged \in BOOLEAN
  /\ frames \in 0 .. MaxFrames

\* start() has spawned the task.
Init ==
  /\ pc = "top" /\ backoff = BaseWait /\ shutdown = "no" /\ owner = "running"
  /\ sent = 0 /\ outbound = <<>> /\ wire = <<>> /\ writing = 0
  /\ ticked = FALSE /\ pinged = FALSE /\ frames = 0

\* Variant: only the flag counts.
Changed_FlagOnly == shutdown = "signalled"

\* changed() is ready: the flag was set, or its sender is gone (an error).
Changed == shutdown # "no"

-----------------------------------------------------------------------------
(* The owner.                                                              *)

\* send() waits while the channel is full.
Send ==
  /\ owner = "running" /\ sent < MaxSends
  /\ pc # "done"
  /\ Len(outbound) < OutCap
  /\ sent' = sent + 1
  /\ outbound' = Append(outbound, sent + 1)
  /\ UNCHANGED <<pc, backoff, wire, writing, ticked, pinged, frames, shutdown, owner>>

CallStop ==
  /\ owner = "running"
  /\ owner' = "stopping" /\ shutdown' = "signalled"
  /\ UNCHANGED <<taskvars, sent>>

StopReturns ==
  /\ owner = "stopping" /\ pc = "done"
  /\ owner' = "stopped"
  /\ UNCHANGED <<taskvars, shutdown, sent>>

\* The task that owns the connection is aborted: the handle is dropped, the
\* flag is never set, and nobody waits (GenericMd::stop, through ws_helper).
DropConnection ==
  /\ owner = "running"
  /\ owner' = "gone" /\ shutdown' = "dropped"
  /\ UNCHANGED <<taskvars, sent>>

-----------------------------------------------------------------------------
(* The task.                                                               *)

Goto(l) == pc' = l /\ UNCHANGED ownervars

GotoOnly(l) ==
  Goto(l) /\ UNCHANGED <<backoff, outbound, wire, writing, ticked, pinged, frames>>

\* The flag is only looked at here; a dropped sender leaves it false.
Top ==
  /\ pc = "top"
  /\ GotoOnly(IF shutdown = "signalled" THEN "done" ELSE "connecting")

Connected ==
  /\ pc = "connecting"
  /\ Goto("subscribing")
  /\ backoff' = BaseWait
  /\ ticked' = FALSE /\ pinged' = FALSE
  /\ UNCHANGED <<outbound, wire, writing, frames>>

ConnectFails ==
  /\ pc = "connecting"
  /\ GotoOnly("failed")

\* After a failed connect or a lost connection: sleep(backoff), then double.
WaitOver ==
  /\ pc \in {"failed", "disconnected"}
  /\ Goto("top")
  /\ backoff' = IF backoff * 2 < MaxWait THEN backoff * 2 ELSE MaxWait
  /\ UNCHANGED <<outbound, wire, writing, ticked, pinged, frames>>

WaitCut ==
  /\ pc \in {"failed", "disconnected"} /\ Changed
  /\ GotoOnly("done")

SubscribeSent ==
  /\ pc = "subscribing"
  /\ GotoOnly("serving")

\* `continue`: back to the top with no wait.
SubscribeFails ==
  /\ pc = "subscribing"
  /\ GotoOnly("top")

-----------------------------------------------------------------------------
(* The select of a connection that is up.                                  *)

\* Variant: the branch does not leave the select loop.
ShutdownSeen_Keep ==
  /\ pc = "serving" /\ Changed
  /\ GotoOnly("serving")

ShutdownSeen ==
  /\ pc = "serving" /\ Changed
  /\ GotoOnly("closing")

\* The close handshake's write ends, with or without an error.
Closed ==
  /\ pc = "closing"
  /\ GotoOnly("done")

\* A text or binary frame: its callback runs to the end.
ReadFrame ==
  /\ pc = "serving" /\ frames < MaxFrames
  /\ frames' = frames + 1
  /\ UNCHANGED <<pc, backoff, outbound, wire, writing, ticked, pinged, ownervars>>

ReadPing ==
  /\ pc = "serving"
  /\ GotoOnly("ponging")

PongWritten ==
  /\ pc = "ponging"
  /\ GotoOnly("serving")

\* A close frame, a read error or the end of the stream.
ReadEnds ==
  /\ pc = "serving"
  /\ GotoOnly("disconnected")

\* Variant: the message is looked at, not taken.
TakeOutbound_Peek ==
  /\ pc = "serving" /\ outbound # <<>>
  /\ Goto("writing")
  /\ writing' = Head(outbound)
  /\ UNCHANGED <<backoff, outbound, wire, ticked, pinged, frames>>

TakeOutbound ==
  /\ pc = "serving" /\ outbound # <<>>
  /\ Goto("writing")
  /\ writing' = Head(outbound) /\ outbound' = Tail(outbound)
  /\ UNCHANGED <<backoff, wire, ticked, pinged, frames>>

MessageWritten ==
  /\ pc = "writing"
  /\ Goto("serving")
  /\ wire' = Append(wire, writing) /\ writing' = 0
  /\ UNCHANGED <<backoff, outbound, ticked, pinged, frames>>

\* Variant: the message goes back into the channel.
WriteFails_Requeue ==
  /\ pc = "writing"
  /\ Goto("disconnected")
  /\ outbound' = Append(outbound, writing) /\ writing' = 0
  /\ UNCHANGED <<backoff, wire, ticked, pinged, frames>>

WriteFails ==
  /\ pc = "writing"
  /\ Goto("disconnected")
  /\ writing' = 0
  /\ UNCHANGED <<backoff, outbound, wire, ticked, pinged, frames>>

\* The interval elapses.  ping_tick is a future that loops over tick() and
\* never completes, so the branch that would send the ping is never taken.
IntervalTick ==
  /\ pc = "serving" /\ PingOn /\ ~ticked
  /\ ticked' = TRUE
  /\ UNCHANGED <<pc, backoff, outbound, wire, writing, pinged, frames, ownervars>>

-----------------------------------------------------------------------------
Owner == Send \/ CallStop \/ StopReturns \/ DropConnection

Connecting == Connected \/ ConnectFails
Subscribing == SubscribeSent \/ SubscribeFails
Waiting == WaitOver \/ WaitCut
Serving == ShutdownSeen \/ ReadFrame \/ ReadPing \/ ReadEnds \/ TakeOutbound \/ IntervalTick
Writing == PongWritten \/ MessageWritten \/ WriteFails \/ Closed

Task == Top \/ Connecting \/ Subscribing \/ Waiting \/ Serving \/ Writing

Next == Owner \/ Task

Spec == Init /\ [][Next]_vars

\* Only what the process does by itself is fair: the runtime polls the task,
\* timers fire, and select! picks among the ready branches at random, so one
\* that is ready again and again is taken (a wait that starts with the watch
\* already changed is cut at once: its sleep cannot be over).  Nothing is
\* assumed of the peer: connect_async and the writes have no timeout and are
\* outside every select, so Connecting, Subscribing and Writing may never end.
Fairness ==
  /\ WF_vars(Top) /\ WF_vars(Waiting) /\ WF_vars(IntervalTick)
  /\ SF_vars(ShutdownSeen) /\ SF_vars(WaitCut)
  /\ WF_vars(StopReturns)

FairSpec == Spec /\ Fairness

-----------------------------------------------------------------------------
(* Messages reach the wire in the order they were sent, each at most once, *)
(* over any number of reconnects.                                          *)
WireInOrder == \A i, j \in 1 .. Len(wire) : i < j => wire[i] < wire[j]

(* A message that was accepted is lost only if its write failed: what is   *)
(* queued survives the connection it was meant for.                        *)
QueuedAfterWire ==
  \A i \in 1 .. Len(outbound) :
    /\ \A j \in 1 .. Len(wire) : wire[j] < outbound[i]
    /\ outbound[i] = sent - Len(outbound) + i

(* client.rs:7: it "sends periodic ping messages".  On a connection that   *)
(* stays up and has nothing else to do, an elapsed interval brings a ping. *)
PeriodicPing == (pc = "serving" /\ ticked) ~> (pinged \/ pc # "serving")

\* The awaits that only the peer can end.
OnSocket == {"connecting", "subscribing", "ponging", "writing", "closing"}

\* One connect or one write that is never answered.
Hangs == \E await \in OnSocket : [](pc = await)

(* stop() returns, however many connections fail and whatever arrives,     *)
(* unless one connect or one write never ends: nothing else of the task    *)
(* can keep it, and no later await ever starts over.                       *)
StopCompletes == (owner = "stopping") ~> (owner = "stopped" \/ Hangs)

\* Every connect succeeds and every subscribe message fails.
NeverSubscribes == [](pc \in {"top", "connecting", "subscribing"})

(* A dropped connection's task ends too, though its flag is never set,     *)
(* unless the socket hangs or the loop never gets past its subscribe: that *)
(* `continue` (client.rs:156) passes every place that looks at the sender. *)
DropEndsTask == (owner = "gone") ~> (pc = "done" \/ Hangs \/ NeverSubscribes)

=============================================================================
