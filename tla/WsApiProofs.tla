----------------------------- MODULE WsApiProofs -----------------------------
(***************************************************************************)
(* Proofs about WsApi for any number of calls and any capacity of the      *)
(* request channel: what an Ok and a refusal are worth, that no order is   *)
(* sent twice, and that the channel implements RemoteCall.                 *)
(***************************************************************************)
EXTENDS WsApi, TLAPS

Distinct(q) == \A i, j \in 1 .. Len(q) : i # j => q[i] # q[j]

(* A request is at one place at most: in the channel, being written, or    *)
(* sent.  It is nowhere before its call hands it over, nor if it never did.*)
PlaceInv ==
  /\ Distinct(channel) /\ Distinct(writing) /\ Distinct(sent)
  /\ Entries(channel) \cap Entries(writing) = {}
  /\ Entries(channel) \cap Entries(sent) = {}
  /\ Entries(writing) \cap Entries(sent) = {}
  /\ \A c \in Entries(channel) \cup Entries(writing) \cup Entries(sent) :
       call[c] \in {"waiting", "ok", "timed out"}

(* An answer is about a request that was decided, which was sent before.   *)
AnswerInv ==
  /\ decided \subseteq Entries(sent)
  /\ frames \subseteq decided /\ answered \subseteq decided
  /\ OkWasDecided

IInv == ApiTypeOK /\ PlaceInv /\ AnswerInv

-----------------------------------------------------------------------------
(* Sequences seen as the sets of their elements.                           *)

LEMMA EntriesType ==
  ASSUME NEW S, NEW q \in Seq(S)
  PROVE  Entries(q) \subseteq S
BY DEF Entries

LEMMA EmptyType ==
  ASSUME NEW S
  PROVE  <<>> \in Seq(S) /\ Len(<<>>) = 0
OBVIOUS

LEMMA EmptyEntries == Entries(<<>>) = {} /\ Distinct(<<>>)
BY DEF Entries, Distinct

LEMMA OneEntry ==
  ASSUME NEW c
  PROVE  Entries(<<c>>) = {c} /\ Distinct(<<c>>)
BY DEF Entries, Distinct

LEMMA AppendEntries ==
  ASSUME NEW S, NEW q \in Seq(S), NEW c \in S, c \notin Entries(q), Distinct(q)
  PROVE  Entries(Append(q, c)) = Entries(q) \cup {c} /\ Distinct(Append(q, c))
<1>1. /\ Len(Append(q, c)) = Len(q) + 1
      /\ \A i \in 1 .. Len(q) : Append(q, c)[i] = q[i]
      /\ Append(q, c)[Len(q) + 1] = c
  OBVIOUS
<1>2. Entries(Append(q, c)) = Entries(q) \cup {c}
  BY <1>1 DEF Entries
<1>3. Distinct(Append(q, c))
  BY <1>1 DEF Entries, Distinct
<1> QED BY <1>2, <1>3

LEMMA TailEntries ==
  ASSUME NEW S, NEW q \in Seq(S), q # <<>>, Distinct(q)
  PROVE  /\ Head(q) \in S /\ Tail(q) \in Seq(S) /\ Len(Tail(q)) <= Len(q)
         /\ Entries(q) = Entries(Tail(q)) \cup {Head(q)}
         /\ Head(q) \notin Entries(Tail(q))
         /\ Distinct(Tail(q))
<1>1. /\ Head(q) \in S /\ Tail(q) \in Seq(S) /\ Len(Tail(q)) = Len(q) - 1
      /\ \A i \in 1 .. Len(Tail(q)) : Tail(q)[i] = q[i + 1]
      /\ q[1] = Head(q) /\ Len(q) \in Nat /\ Len(q) >= 1
  OBVIOUS
<1>2. Entries(q) = Entries(Tail(q)) \cup {Head(q)}
  <2>1. ASSUME NEW i \in 1 .. Len(q) PROVE q[i] \in Entries(Tail(q)) \cup {Head(q)}
    <3>1. CASE i = 1
      BY <1>1, <3>1
    <3>2. CASE i # 1
      <4>1. i - 1 \in 1 .. Len(Tail(q)) /\ Tail(q)[i - 1] = q[i]
        BY <1>1, <3>2
      <4> QED BY <4>1 DEF Entries
    <3> QED BY <3>1, <3>2
  <2>2. ASSUME NEW i \in 1 .. Len(Tail(q)) PROVE Tail(q)[i] \in Entries(q)
    BY <1>1 DEF Entries
  <2> QED BY <1>1, <2>1, <2>2 DEF Entries
<1>3. Head(q) \notin Entries(Tail(q)) /\ Distinct(Tail(q))
  BY <1>1 DEF Entries, Distinct
<1> QED BY <1>1, <1>2, <1>3

LEMMA ConcatEntries ==
  ASSUME NEW S, NEW q \in Seq(S), NEW r \in Seq(S),
         Distinct(q), Distinct(r), Entries(q) \cap Entries(r) = {}
  PROVE  /\ q \o r \in Seq(S)
         /\ Entries(q \o r) = Entries(q) \cup Entries(r)
         /\ Distinct(q \o r)
<1>1. /\ q \o r \in Seq(S) /\ Len(q \o r) = Len(q) + Len(r)
      /\ \A i \in 1 .. Len(q) : (q \o r)[i] = q[i]
      /\ \A i \in 1 .. Len(r) : (q \o r)[Len(q) + i] = r[i]
      /\ \A i \in (Len(q) + 1) .. (Len(q) + Len(r)) : (q \o r)[i] = r[i - Len(q)]
      /\ Len(q) \in Nat /\ Len(r) \in Nat
  OBVIOUS
<1>2. \A i \in (Len(q) + 1) .. (Len(q) + Len(r)) : i - Len(q) \in 1 .. Len(r)
  BY <1>1
<1>3. Entries(q \o r) = Entries(q) \cup Entries(r)
  <2>1. ASSUME NEW i \in 1 .. Len(q \o r) PROVE (q \o r)[i] \in Entries(q) \cup Entries(r)
    <3>1. CASE i \in 1 .. Len(q)
      BY <1>1, <3>1 DEF Entries
    <3>2. CASE i \in (Len(q) + 1) .. (Len(q) + Len(r))
      BY <1>1, <1>2, <3>2 DEF Entries
    <3> QED BY <1>1, <3>1, <3>2
  <2>2. ASSUME NEW i \in 1 .. Len(q) PROVE q[i] \in Entries(q \o r)
    BY <1>1 DEF Entries
  <2>3. ASSUME NEW i \in 1 .. Len(r) PROVE r[i] \in Entries(q \o r)
    <3>1. Len(q) + i \in 1 .. Len(q \o r) /\ (q \o r)[Len(q) + i] = r[i]
      BY <1>1
    <3> QED BY <3>1 DEF Entries
  <2> QED BY <2>1, <2>2, <2>3 DEF Entries
<1>4. Distinct(q \o r)
  <2> SUFFICES ASSUME NEW i \in 1 .. Len(q \o r), NEW j \in 1 .. Len(q \o r), i < j
               PROVE  (q \o r)[i] # (q \o r)[j]
    BY <1>1 DEF Distinct
  <2>1. CASE j \in 1 .. Len(q)
    BY <1>1, <2>1 DEF Distinct
  <2>2. CASE i \in 1 .. Len(q) /\ j \in (Len(q) + 1) .. (Len(q) + Len(r))
    <3>1. (q \o r)[i] \in Entries(q)
      BY <1>1, <2>2 DEF Entries
    <3>2. (q \o r)[j] \in Entries(r)
      BY <1>1, <1>2, <2>2 DEF Entries
    <3> QED BY <3>1, <3>2
  <2>3. CASE i \in (Len(q) + 1) .. (Len(q) + Len(r)) /\ j \in (Len(q) + 1) .. (Len(q) + Len(r))
    <3>1. /\ i - Len(q) \in 1 .. Len(r) /\ j - Len(q) \in 1 .. Len(r)
          /\ i - Len(q) # j - Len(q)
      BY <1>1, <1>2, <2>3
    <3> QED BY <1>1, <2>3, <3>1 DEF Distinct
  <2> QED BY <1>1, <2>1, <2>2, <2>3
<1> QED BY <1>1, <1>3, <1>4

-----------------------------------------------------------------------------
(* The invariant.                                                          *)

LEMMA InitInv == Init => IInv
<1> SUFFICES ASSUME Init PROVE IInv
  OBVIOUS
<1>1. ApiTypeOK
  <2>1. <<>> \in Seq(Calls) /\ Len(<<>>) <= OutCap /\ Len(<<>>) <= 1
    BY EmptyType, OutCapAssumption
  <2> QED BY <2>1 DEF Init, ApiTypeOK, InProgress, Ended, Reading
<1>2. PlaceInv
  BY EmptyEntries DEF Init, PlaceInv
<1>3. AnswerInv
  BY DEF Init, AnswerInv, OkWasDecided
<1> QED BY <1>1, <1>2, <1>3 DEF IInv

\* A step of a call that leaves the requests and the answers alone.
LEMMA CallMoves ==
  ASSUME IInv, NEW c \in Calls, NEW l, Goto(c, l),
         l \in {"idle"} \cup InProgress \cup Ended,
         UNCHANGED <<channel, writing, sent, answered, decided, frames>>,
         c \in Entries(channel) \cup Entries(writing) \cup Entries(sent) =>
           l \in {"waiting", "ok", "timed out"},
         l = "ok" => c \in decided
  PROVE  call' \in [Calls -> {"idle"} \cup InProgress \cup Ended] /\ PlaceInv' /\ AnswerInv'
<1>1. /\ call' \in [Calls -> {"idle"} \cup InProgress \cup Ended]
      /\ call'[c] = l /\ \A d \in Calls \ {c} : call'[d] = call[d]
  BY DEF Goto, IInv, ApiTypeOK
<1>2. Entries(channel) \subseteq Calls /\ Entries(writing) \subseteq Calls /\ Entries(sent) \subseteq Calls
  BY EntriesType DEF IInv, ApiTypeOK
<1>3. PlaceInv'
  BY <1>1, <1>2 DEF PlaceInv, IInv
<1>4. AnswerInv'
  BY <1>1 DEF AnswerInv, OkWasDecided, IInv
<1> QED BY <1>1, <1>3, <1>4

\* A call that has handed nothing over is in none of the three places.
LEMMA NotHandedOver ==
  ASSUME IInv, NEW c \in Calls, call[c] \in {"idle", "queued", "connecting", "sending", "refused"}
  PROVE  c \notin Entries(channel) \cup Entries(writing) \cup Entries(sent)
BY DEF IInv, PlaceInv

LEMMA CallStep ==
  ASSUME IInv, NEW c \in Calls, Call(c)
  PROVE  IInv'
<1> USE DEF exchangevars
<1>e. CASE Enter(c)
  <2>1. PlaceInv' /\ AnswerInv' /\ call' \in [Calls -> {"idle"} \cup InProgress \cup Ended]
    BY <1>e, CallMoves, NotHandedOver DEF Enter, InProgress
  <2> QED BY <1>e, <2>1 DEF Enter, IInv, ApiTypeOK
<1>1. CASE UseExisting(c)
  <2>1. PlaceInv' /\ AnswerInv' /\ call' \in [Calls -> {"idle"} \cup InProgress \cup Ended]
    BY <1>1, CallMoves, NotHandedOver DEF UseExisting, InProgress
  <2> QED BY <1>1, <2>1 DEF UseExisting, IInv, ApiTypeOK
<1>2. CASE BeginConnect(c)
  <2>1. PlaceInv' /\ AnswerInv' /\ call' \in [Calls -> {"idle"} \cup InProgress \cup Ended]
    BY <1>2, CallMoves, NotHandedOver DEF BeginConnect, InProgress
  <2> QED BY <1>2, <2>1 DEF BeginConnect, IInv, ApiTypeOK
<1>3. CASE Connected(c)
  <2>1. PlaceInv' /\ AnswerInv' /\ call' \in [Calls -> {"idle"} \cup InProgress \cup Ended]
    BY <1>3, CallMoves, NotHandedOver DEF Connected, InProgress
  <2> QED BY <1>3, <2>1 DEF Connected, IInv, ApiTypeOK, Reading
<1>4. CASE ConnectFails(c)
  <2>1. PlaceInv' /\ AnswerInv' /\ call' \in [Calls -> {"idle"} \cup InProgress \cup Ended]
    BY <1>4, CallMoves, NotHandedOver DEF ConnectFails, Ended
  <2> QED BY <1>4, <2>1 DEF ConnectFails, IInv, ApiTypeOK
<1>5. CASE HandOver(c)
  <2>1. c \notin Entries(channel) \cup Entries(writing) \cup Entries(sent)
    BY <1>5, NotHandedOver DEF HandOver
  <2>2. channel \in Seq(Calls) /\ Distinct(channel) /\ Len(channel) < OutCap
    BY <1>5 DEF HandOver, IInv, ApiTypeOK, PlaceInv
  <2>3. /\ Entries(channel') = Entries(channel) \cup {c} /\ Distinct(channel')
        /\ channel' \in Seq(Calls) /\ Len(channel') <= OutCap
    <3>1. channel' = Append(channel, c)
      BY <1>5 DEF HandOver
    <3>2. Append(channel, c) \in Seq(Calls) /\ Len(Append(channel, c)) = Len(channel) + 1
      BY <2>2
    <3>3. Len(channel) \in Nat
      BY <2>2
    <3> QED BY <2>1, <2>2, <3>1, <3>2, <3>3, AppendEntries, OutCapAssumption
  <2>4. /\ call' \in [Calls -> {"idle"} \cup InProgress \cup Ended]
        /\ call'[c] = "waiting" /\ \A d \in Calls \ {c} : call'[d] = call[d]
    BY <1>5 DEF HandOver, Goto, IInv, ApiTypeOK, InProgress
  <2>5. Entries(channel) \subseteq Calls /\ Entries(writing) \subseteq Calls /\ Entries(sent) \subseteq Calls
    BY EntriesType DEF IInv, ApiTypeOK
  <2>6. PlaceInv'
    <3>1. writing' = writing /\ sent' = sent
      BY <1>5 DEF HandOver
    <3> QED BY ZenonT(40), <2>1, <2>3, <2>4, <2>5, <3>1 DEF IInv, PlaceInv
  <2>7. AnswerInv'
    BY <1>5, <2>4 DEF HandOver, IInv, AnswerInv, OkWasDecided
  <2> QED BY <1>5, <2>3, <2>4, <2>6, <2>7 DEF HandOver, IInv, ApiTypeOK
<1>6. CASE ChannelClosed(c)
  <2>1. PlaceInv' /\ AnswerInv' /\ call' \in [Calls -> {"idle"} \cup InProgress \cup Ended]
    BY <1>6, CallMoves, NotHandedOver DEF ChannelClosed, Ended
  <2> QED BY <1>6, <2>1 DEF ChannelClosed, IInv, ApiTypeOK
<1>7. CASE Return(c)
  <2>1. c \in decided
    BY <1>7 DEF Return, IInv, AnswerInv
  <2>2. PlaceInv' /\ AnswerInv' /\ call' \in [Calls -> {"idle"} \cup InProgress \cup Ended]
    BY <1>7, <2>1, CallMoves DEF Return, Ended
  <2> QED BY <1>7, <2>2 DEF Return, IInv, ApiTypeOK
<1>8. CASE TimeOut(c)
  <2>1. PlaceInv' /\ AnswerInv' /\ call' \in [Calls -> {"idle"} \cup InProgress \cup Ended]
    BY <1>8, CallMoves DEF TimeOut, Ended
  <2> QED BY <1>8, <2>1 DEF TimeOut, IInv, ApiTypeOK
<1> QED BY <1>e, <1>1, <1>2, <1>3, <1>4, <1>5, <1>6, <1>7, <1>8 DEF Call

\* The task's writes: the request goes from one place to the next, or is lost.
LEMMA PlacesMove ==
  ASSUME IInv, callvars' = callvars, decided' = decided, frames' = frames, answered' = answered,
         channel' \in Seq(Calls), writing' \in Seq(Calls),
         Distinct(channel'), Distinct(writing'),
         sent' \in {sent, sent \o writing},
         sent' # sent => writing' = <<>>,
         Entries(channel') \subseteq Entries(channel),
         Entries(writing') \subseteq Entries(writing) \cup (Entries(channel) \ Entries(channel'))
  PROVE  PlaceInv' /\ AnswerInv' /\ sent' \in Seq(Calls)
<1>1. /\ sent \in Seq(Calls) /\ writing \in Seq(Calls) /\ Distinct(sent) /\ Distinct(writing)
      /\ Entries(sent) \cap Entries(writing) = {}
  BY DEF IInv, ApiTypeOK, PlaceInv
<1>2. /\ sent' \in Seq(Calls) /\ Distinct(sent')
      /\ Entries(sent) \subseteq Entries(sent')
      /\ Entries(sent') \subseteq Entries(sent) \cup Entries(writing)
  <2>1. CASE sent' = sent
    BY <1>1, <2>1
  <2>2. CASE sent' = sent \o writing
    BY <1>1, <2>2, ConcatEntries
  <2> QED BY <2>1, <2>2
<1>3. sent' # sent => Entries(writing') = {}
  BY EmptyEntries
<1>4. /\ Entries(channel') \cap Entries(writing') = {}
      /\ Entries(channel') \cap Entries(sent') = {}
      /\ Entries(writing') \cap Entries(sent') = {}
  BY <1>2, <1>3 DEF IInv, PlaceInv
<1>5. PlaceInv'
  BY <1>2, <1>4 DEF IInv, PlaceInv, callvars
<1>6. AnswerInv'
  BY <1>2 DEF IInv, AnswerInv, OkWasDecided, callvars
<1> QED BY <1>2, <1>5, <1>6

LEMMA TaskStep ==
  ASSUME IInv, Task \/ Shutdown
  PROVE  IInv'
<1> USE DEF exchangevars
<1>0. /\ channel \in Seq(Calls) /\ writing \in Seq(Calls) /\ <<>> \in Seq(Calls)
      /\ Len(channel) <= OutCap /\ Len(<<>>) = 0 /\ Len(<<>>) <= OutCap
      /\ Distinct(channel) /\ Distinct(writing)
  <2>1. <<>> \in Seq(Calls) /\ Len(<<>>) = 0 /\ Len(<<>>) <= OutCap
    BY EmptyType, OutCapAssumption
  <2> QED BY <2>1 DEF IInv, ApiTypeOK, PlaceInv
<1>1. CASE Take
  <2>1. /\ channel # <<>> /\ channel' = Tail(channel) /\ writing' = <<Head(channel)>>
        /\ sent' = sent
    BY <1>1 DEF Take
  <2>2. /\ Head(channel) \in Calls /\ channel' \in Seq(Calls) /\ Len(Tail(channel)) <= Len(channel)
        /\ Entries(channel) = Entries(channel') \cup {Head(channel)}
        /\ Head(channel) \notin Entries(channel')
        /\ Distinct(channel')
    BY <1>0, <2>1, TailEntries
  <2>3. /\ Entries(writing') = {Head(channel)} /\ Distinct(writing')
        /\ writing' \in Seq(Calls) /\ Len(writing') = 1
    BY <2>1, <2>2, OneEntry
  <2>4. PlaceInv' /\ AnswerInv'
    BY <1>1, <2>1, <2>2, <2>3, PlacesMove DEF Take
  <2>5. Len(channel') <= OutCap
    BY <1>0, <2>1, <2>2, OutCapAssumption
  <2> QED BY <1>1, <2>1, <2>2, <2>3, <2>4, <2>5 DEF Take, IInv, ApiTypeOK, callvars
<1>2. CASE Written
  <2>1. PlaceInv' /\ AnswerInv' /\ sent' \in Seq(Calls)
    BY <1>0, <1>2, EmptyEntries, PlacesMove DEF Written
  <2> QED BY <1>0, <1>2, <2>1 DEF Written, IInv, ApiTypeOK, callvars, Reading
<1>3. CASE WriteFails
  <2>1. PlaceInv' /\ AnswerInv' /\ sent' \in Seq(Calls)
    BY <1>0, <1>3, EmptyEntries, PlacesMove DEF WriteFails
  <2> QED BY <1>0, <1>3, <2>1 DEF WriteFails, IInv, ApiTypeOK, callvars
<1>4. ASSUME NEW c \in Calls, ReadAnswer(c) PROVE IInv'
  <2>1. PlaceInv'
    BY <1>4 DEF ReadAnswer, IInv, PlaceInv, callvars
  <2>2. AnswerInv'
    BY <1>4 DEF ReadAnswer, IInv, AnswerInv, OkWasDecided, callvars
  <2> QED BY <1>4, <2>1, <2>2 DEF ReadAnswer, IInv, ApiTypeOK, callvars
<1>5. CASE ReadPing \/ PongWritten
  <2>1. PlaceInv' /\ AnswerInv'
    BY <1>5 DEF ReadPing, PongWritten, IInv, PlaceInv, AnswerInv, OkWasDecided, callvars
  <2> QED BY <1>5, <2>1 DEF ReadPing, PongWritten, IInv, ApiTypeOK, callvars, Reading
<1>6. CASE ReadEnds
  <2>1. PlaceInv' /\ AnswerInv' /\ sent' \in Seq(Calls)
    BY <1>0, <1>6, EmptyEntries, PlacesMove DEF ReadEnds
  <2> QED BY <1>0, <1>6, <2>1 DEF ReadEnds, IInv, ApiTypeOK, callvars
<1>7. CASE Shutdown
  <2>1. PlaceInv' /\ AnswerInv' /\ sent' \in Seq(Calls)
    BY <1>0, <1>7, EmptyEntries, PlacesMove DEF Shutdown
  <2> QED BY <1>0, <1>7, <2>1 DEF Shutdown, IInv, ApiTypeOK, callvars
<1> QED BY <1>1, <1>2, <1>3, <1>4, <1>5, <1>6, <1>7 DEF Task

LEMMA DecideStep ==
  ASSUME IInv, NEW c \in Calls, Decide(c)
  PROVE  IInv'
<1>1. c \in Entries(sent)
  BY DEF Decide, Entries
<1>2. AnswerInv'
  BY <1>1 DEF Decide, IInv, AnswerInv, OkWasDecided, callvars
<1>3. PlaceInv'
  BY DEF Decide, IInv, PlaceInv, callvars
<1> QED BY <1>2, <1>3 DEF Decide, IInv, ApiTypeOK, callvars

LEMMA StepInv == IInv /\ [Next]_vars => IInv'
<1> SUFFICES ASSUME IInv, [Next]_vars PROVE IInv'
  OBVIOUS
<1>1. CASE UNCHANGED vars
  BY <1>1 DEF vars, callvars, IInv, ApiTypeOK, PlaceInv, AnswerInv, OkWasDecided
<1> QED BY <1>1, CallStep, TaskStep, DecideStep DEF Next

LEMMA Invariance == Spec => []IInv
BY InitInv, StepInv, PTL DEF Spec

-----------------------------------------------------------------------------
(* Every variable of the channel keeps its type; the request channel keeps *)
(* its capacity, whatever that is.                                         *)
THEOREM TypeCorrect == Spec => []ApiTypeOK
<1>1. IInv => ApiTypeOK
  BY DEF IInv
<1> QED BY <1>1, Invariance, PTL

(* A call returns Ok only if the exchange has decided on that very call,   *)
(* for any number of concurrent calls.                                     *)
THEOREM OkIsDecided == Spec => []OkWasDecided
<1>1. IInv => OkWasDecided
  BY DEF IInv, AnswerInv
<1> QED BY <1>1, Invariance, PTL

(* No order is sent twice.                                                 *)
THEOREM OrdersSentOnce == Spec => []SentOnce
<1>1. ASSUME IInv PROVE SentOnce
  <2>1. Distinct(sent)
    BY <1>1 DEF IInv, PlaceInv
  <2>2. ASSUME NEW i \in 1 .. Len(sent) PROVE ~InFlight(sent[i])
    <3>1. sent[i] \in Entries(sent)
      BY DEF Entries
    <3> QED BY <1>1, <3>1 DEF IInv, PlaceInv, InFlight
  <2> QED BY <2>1, <2>2 DEF SentOnce, Distinct
<1> QED BY <1>1, Invariance, PTL

(* A refused call never reaches the exchange.                              *)
THEOREM RefusalsAreSafe == Spec => []RefusedNeverSent
<1>1. ASSUME IInv PROVE RefusedNeverSent
  BY <1>1, NotHandedOver DEF RefusedNeverSent, Reached, InFlight
<1> QED BY <1>1, Invariance, PTL

-----------------------------------------------------------------------------
(* The refinement.                                                         *)

absRequest == [c \in Calls |-> Outcome(call[c])]

LEMMA InitRefines == Init => Remote!CallsInit
BY DEF Init, Remote!CallsInit, Outcome

\* What a step of one call does to the mapped calls.
LEMMA MappedCall ==
  ASSUME IInv, NEW c \in Calls, NEW l, Goto(c, l)
  PROVE  absRequest' = [absRequest EXCEPT ![c] = Outcome(l)]
BY DEF IInv, ApiTypeOK, Goto, absRequest

\* A call whose request is nowhere yet has not been carried out.
LEMMA NotDecided ==
  ASSUME IInv, NEW c \in Calls, call[c] \in {"idle", "queued", "connecting", "sending", "refused"}
  PROVE  c \notin decided
BY NotHandedOver DEF IInv, AnswerInv

LEMMA StepRefines == IInv /\ [Next]_vars => [Remote!CallsNext]_(Remote!callsvars)
<1> SUFFICES ASSUME IInv, [Next]_vars
             PROVE  Remote!CallsNext \/ UNCHANGED <<absRequest, decided>>
  BY DEF Remote!callsvars, absRequest
<1> USE DEF exchangevars
<1>0. ASSUME NEW c \in Calls, NEW l, NEW m, call[c] = m, Goto(c, l), Outcome(m) = Outcome(l)
      PROVE  UNCHANGED absRequest
  <2>1. absRequest' = [absRequest EXCEPT ![c] = Outcome(l)] /\ absRequest[c] = Outcome(l)
    BY <1>0, MappedCall DEF absRequest
  <2> QED BY <2>1 DEF absRequest
<1>1. ASSUME NEW c \in Calls, Call(c)
      PROVE  Remote!CallsNext \/ UNCHANGED <<absRequest, decided>>
  <2>1. CASE Enter(c)
    <3>1. \E l \in InProgress : Goto(c, l) /\ call[c] = "idle" /\ decided' = decided
      BY <2>1 DEF Enter, InProgress
    <3>2. absRequest' = [absRequest EXCEPT ![c] = "open"] /\ absRequest[c] = "idle"
      BY <3>1, MappedCall DEF absRequest, Outcome, InProgress
    <3>3. Remote!Issue(c)
      BY <3>1, <3>2 DEF Remote!Issue, absRequest
    <3> QED BY <3>3 DEF Remote!CallsNext
  <2>2. CASE UseExisting(c) \/ BeginConnect(c) \/ Connected(c) \/ HandOver(c)
    <3>1. /\ decided' = decided
          /\ \E m \in InProgress, l \in InProgress : call[c] = m /\ Goto(c, l)
      BY <2>2 DEF UseExisting, BeginConnect, Connected, HandOver, InProgress
    <3>2. UNCHANGED absRequest
      BY <3>1, <1>0 DEF Outcome, InProgress
    <3> QED BY <3>1, <3>2
  <2>3. CASE ConnectFails(c) \/ ChannelClosed(c)
    <3>1. /\ Goto(c, "refused") /\ decided' = decided
          /\ call[c] \in {"connecting", "sending"}
      BY <2>3 DEF ConnectFails, ChannelClosed
    <3>2. absRequest' = [absRequest EXCEPT ![c] = "refused"] /\ absRequest[c] = "open"
      BY <3>1, MappedCall DEF absRequest, Outcome, InProgress
    <3>3. Remote!Refused(c)
      BY <3>1, <3>2, NotDecided DEF Remote!Refused, absRequest
    <3> QED BY <3>3 DEF Remote!CallsNext
  <2>4. CASE Return(c)
    <3>1. Goto(c, "ok") /\ decided' = decided /\ call[c] = "waiting" /\ c \in decided
      BY <2>4 DEF Return, IInv, AnswerInv
    <3>2. absRequest' = [absRequest EXCEPT ![c] = "ok"] /\ absRequest[c] = "open"
      BY <3>1, MappedCall DEF absRequest, Outcome, InProgress
    <3>3. Remote!Answered(c)
      BY <3>1, <3>2 DEF Remote!Answered, absRequest
    <3> QED BY <3>3 DEF Remote!CallsNext
  <2>5. CASE TimeOut(c)
    <3>1. Goto(c, "timed out") /\ decided' = decided /\ call[c] = "waiting"
      BY <2>5 DEF TimeOut
    <3>2. absRequest' = [absRequest EXCEPT ![c] = "given up"] /\ absRequest[c] = "open"
      BY <3>1, MappedCall DEF absRequest, Outcome, InProgress
    <3>3. Remote!GivenUp(c)
      BY <3>1, <3>2 DEF Remote!GivenUp, absRequest
    <3> QED BY <3>3 DEF Remote!CallsNext
  <2> QED BY <1>1, <2>1, <2>2, <2>3, <2>4, <2>5 DEF Call
<1>2. ASSUME NEW c \in Calls, Decide(c)
      PROVE  Remote!CallsNext
  <2>1. c \in Entries(sent) /\ c \notin decided
    BY <1>2 DEF Decide, Entries
  <2>2. call[c] \in {"waiting", "timed out"}
    BY <2>1 DEF IInv, PlaceInv, AnswerInv, OkWasDecided
  <2>3. absRequest[c] \in {"open", "given up"} /\ UNCHANGED absRequest
    BY <1>2, <2>2 DEF Decide, callvars, absRequest, Outcome, InProgress
  <2>4. Remote!CarryOut(c)
    BY <1>2, <2>1, <2>3 DEF Decide, Remote!CarryOut, absRequest
  <2> QED BY <2>4 DEF Remote!CallsNext
<1>3. ASSUME Task \/ Shutdown
      PROVE  UNCHANGED <<absRequest, decided>>
  <2>1. UNCHANGED <<call, decided>>
    BY <1>3 DEF Task, Shutdown, Take, Written, WriteFails, ReadAnswer, ReadPing, PongWritten,
                ReadEnds, callvars
  <2> QED BY <2>1 DEF absRequest
<1>4. CASE UNCHANGED vars
  BY <1>4 DEF vars, callvars, absRequest
<1> QED BY <1>1, <1>2, <1>3, <1>4 DEF Next

(* The channel implements RemoteCall: whatever becomes of the connection,  *)
(* a request is carried out at most once, and its caller is told Ok only   *)
(* after, and refused only if never.                                       *)
THEOREM ChannelImplementsRemoteCall == Spec => ImplementsRemoteCall
BY InitRefines, StepRefines, Invariance, PTL DEF Spec, ImplementsRemoteCall, Remote!CallsSpec

=============================================================================
