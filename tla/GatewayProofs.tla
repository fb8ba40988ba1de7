----------------------------- MODULE GatewayProofs -----------------------------
(***************************************************************************)
(* Proofs about Gateway for any number of processes one after the other,   *)
(* any configuration whose stores have names of their own, and any number  *)
(* of messages: readers keep what they have mapped, names lead to the last *)
(* region made for them, a process starts whole and leaves nothing queued. *)
(***************************************************************************)
EXTENDS Gateway, SequenceTheorems, TLAPS

Over == {"stop", "exit", "gone"}
Messages == P \X (1 .. MaxMsgs)

(* One process after the other: two may run, but only the last starts.     *)
Solo == \A p, q \in P : p < q /\ pc[q] # "off" => pc[p] \in Over
Phase(p) ==
  /\ pc[p] = "off" => done[p] = {} /\ p \notin crashed
  /\ pc[p] \in {"off", "init"} => at[p] = 0
  /\ create[p] # "none" => pc[p] = "init" /\ done[p] # Cells
  /\ pc[p] \in {"start", "run", "stop"} => done[p] = Cells
  /\ pc[p] = "run" => at[p] = Len(Md)
  /\ p \in crashed => pc[p] = "gone"
Life == Solo /\ \A p \in P : Phase(p)

(* A store and the region that was made for it.                            *)
Store(p, c) ==
  /\ map[p][c] \in {None, <<p, c>>}
  /\ c \in done[p] => map[p][c] = <<p, c>>
  /\ <<p, c>> \in ready <=> c \in done[p]
  /\ create[p] = "unlinked" /\ IsNext(p, c) => dir[NameOf(c)] = None
  /\ create[p] = "opened" /\ IsNext(p, c) => map[p][c] = <<p, c>> /\ dir[NameOf(c)] = <<p, c>>
Owned == \A r \in Regions : \A i \in 1 .. Len(log[r]) : log[r][i][1] = r[1]
Stores == (\A p \in P, c \in Cells : Store(p, c)) /\ Owned

(* A stream runs in a process that has all its stores; its worker is there *)
(* until the queue is empty.                                               *)
StreamOK(p, st) ==
  /\ source[p][st] \in {"on", "ending"} \/ worker[p][st] \in {"queued", "on"} \/ queue[p][st] # <<>> =>
       done[p] = Cells
  /\ p \notin crashed /\ source[p][st] # "none" => Live(st) /\ done[p] = Cells
  /\ pc[p] \in {"off", "init", "start"} /\ st[1] > at[p] => source[p][st] = "none" /\ worker[p][st] = "none"
  /\ pc[p] \in {"start", "run"} /\ st[1] <= at[p] /\ Live(st) => source[p][st] # "none"
  /\ <<p, st>> \in begun => worker[p][st] \in {"on", "off"}
  /\ <<p, st>> \in begun /\ worker[p][st] = "off" /\ p \notin crashed => queue[p][st] = <<>>
  /\ pc[p] = "gone" => worker[p][st] \in {"none", "off"} /\ source[p][st] \in {"none", "off"}
StreamsOK == \A p \in P, st \in Streams : StreamOK(p, st)

IInv == GwTypeOK /\ Life /\ Stores /\ StreamsOK /\ NamesServed

-----------------------------------------------------------------------------
(* Cells are created in one order.                                         *)

LEMMA StreamShape ==
  ASSUME NEW st \in Streams
  PROVE  st[1] \in 1 .. Len(Md) /\ Len(Md) \in Nat
BY ConfigAssumption DEF Streams, Md

LEMMA CellShape ==
  ASSUME NEW c \in Cells
  PROVE  /\ c[1] \in Int /\ c[2] \in Int /\ c[3] \in Int /\ c = <<c[1], c[2], c[3]>>
BY ConfigAssumption DEF Cells, Streams

LEMMA NextIsOne ==
  ASSUME NEW p \in P, NEW c \in Cells, NEW d \in Cells, IsNext(p, c), IsNext(p, d)
  PROVE  c = d
<1>1. c # d => Before(c, d) /\ Before(d, c)
  BY DEF IsNext
<1>2. ~(Before(c, d) /\ Before(d, c))
  BY CellShape DEF Before
<1> QED
  BY <1>1, <1>2

LEMMA InitIInv == Init => IInv
<1> SUFFICES ASSUME Init PROVE IInv
  OBVIOUS
<1>1. GwTypeOK
  <2>1. 0 \in 0 .. Len(Md) /\ 0 \in 0 .. MaxMsgs
    BY ConfigAssumption, ProcsAssumption DEF Md
  <2>2. pc \in [P -> Phases] /\ done \in [P -> SUBSET Cells] /\ create \in [P -> {"none", "unlinked", "opened"}]
    BY DEF Init, Phases
  <2>3. /\ map \in [P -> [Cells -> Regions \cup {None}]] /\ dir \in [Names -> Regions \cup {None}]
        /\ at \in [P -> 0 .. Len(Md)]
    BY <2>1 DEF Init
  <2>4. log \in [Regions -> Seq(P \X (1 .. MaxMsgs))] /\ ready \subseteq Regions
    BY DEF Init
  <2>5. /\ source \in [P -> [Streams -> {"none", "on", "ending", "off"}]]
        /\ worker \in [P -> [Streams -> {"none", "queued", "on", "off"}]]
        /\ queue \in [P -> [Streams -> Seq(Cells \X (1 .. MaxMsgs))]]
        /\ offered \in [P -> [Streams -> 0 .. MaxMsgs]]
        /\ begun \subseteq P \X Streams /\ crashed \subseteq P
    BY <2>1 DEF Init
  <2> QED
    BY <2>2, <2>3, <2>4, <2>5 DEF GwTypeOK
<1>2. Life
  BY DEF Init, Life, Solo, Phase
<1>3. Stores
  BY DEF Init, Stores, Store, Owned
<1>4. StreamsOK
  BY StreamShape DEF Init, StreamsOK, StreamOK
<1>5. NamesServed
  BY DEF Init, NamesServed, LastCreator
<1> QED
  BY <1>1, <1>2, <1>3, <1>4, <1>5 DEF IInv

-----------------------------------------------------------------------------
(* Steps that make no store: one process moves on.                         *)

\* What the other processes' streams look like does not change.
OthersStay(p) ==
  \A q \in P \ {p} :
    /\ pc'[q] = pc[q] /\ at'[q] = at[q] /\ create'[q] = create[q] /\ (q \in crashed' <=> q \in crashed)
    /\ \A st \in Streams :
         /\ source'[q][st] = source[q][st] /\ worker'[q][st] = worker[q][st]
         /\ queue'[q][st] = queue[q][st] /\ (<<q, st>> \in begun' <=> <<q, st>> \in begun)

LEMMA OneProcess ==
  ASSUME IInv, NEW p \in P, OthersStay(p), UNCHANGED <<done, map, dir, ready>>,
         pc'[p] # "off", create'[p] \in {create[p], "none"},
         GwTypeOK', Solo', Owned', Phase(p)', \A st \in Streams : StreamOK(p, st)'
  PROVE  IInv'
<1> USE DEF IInv, OthersStay
<1>1. Life'
  <2>1. \A q \in P \ {p} : Phase(q)'
    BY DEF Life, Phase
  <2> QED
    BY <2>1 DEF Life
<1>2. Stores'
  <2> SUFFICES ASSUME NEW q \in P, NEW c \in Cells PROVE Store(q, c)'
    BY DEF Stores
  <2>1. Store(q, c)
    BY DEF Stores
  <2>2. IsNext(q, c)' <=> IsNext(q, c)
    BY DEF IsNext
  <2>3. create'[q] = create[q] \/ create'[q] = "none"
    BY <2>2
  <2> QED
    BY <2>1, <2>2, <2>3 DEF Store
<1>3. StreamsOK'
  <2>1. ASSUME NEW q \in P \ {p}, NEW st \in Streams PROVE StreamOK(q, st)'
    <3>1. StreamOK(q, st)
      BY DEF StreamsOK
    <3>2. /\ pc'[q] = pc[q] /\ at'[q] = at[q] /\ done'[q] = done[q] /\ (q \in crashed' <=> q \in crashed)
          /\ source'[q][st] = source[q][st] /\ worker'[q][st] = worker[q][st]
          /\ queue'[q][st] = queue[q][st] /\ (<<q, st>> \in begun' <=> <<q, st>> \in begun)
      OBVIOUS
    <3> QED
      BY <3>1, <3>2 DEF StreamOK, Live
  <2> QED
    BY <2>1 DEF StreamsOK
<1>4. NamesServed'
  <2>1. \A q \in P, c \in Cells : Touched(c, q) => Touched(c, q)'
    BY DEF Touched, IsNext
  <2>2. \A q \in P, c \in Cells : LastCreator(c, q)' <=> LastCreator(c, q)
    BY DEF LastCreator
  <2> QED
    BY <2>1, <2>2 DEF NamesServed
<1> QED
  BY <1>1, <1>2, <1>3, <1>4

\* One process is started after the other.
LEMMA SoloKeeps ==
  ASSUME IInv, NEW p \in P, NEW l \in Phases, pc' = [pc EXCEPT ![p] = l],
         pc[p] # "off", pc[p] \in Over => l \in Over
  PROVE  Solo'
BY DEF IInv, Life, Solo, GwTypeOK

\* A process moves on to another phase and its streams stay as they are.
LEMMA PhaseKeeps ==
  ASSUME IInv, NEW p \in P, NEW l \in Phases, l # "off", pc' = [pc EXCEPT ![p] = l], Solo',
         UNCHANGED <<done, create, crashed, shmvars, streamvars>>,
         at' \in [P -> 0 .. Len(Md)], \A q \in P \ {p} : at'[q] = at[q],
         Phase(p)', \A st \in Streams : StreamOK(p, st)'
  PROVE  IInv'
<1> USE DEF shmvars, streamvars
<1>1. OthersStay(p)
  BY DEF OthersStay, IInv, GwTypeOK
<1>2. pc'[p] = l /\ GwTypeOK'
  BY DEF IInv, GwTypeOK
<1>3. Owned'
  BY DEF IInv, Stores, Owned
<1> QED
  BY <1>1, <1>2, <1>3, OneProcess

LEMMA LaunchKeeps == ASSUME IInv, NEW p \in P, Launch(p) PROVE IInv'
<1> USE DEF IInv, Launch, Goto, shmvars, streamvars, Phases
<1>1. pc' \in [P -> Phases] /\ \A q \in P : pc'[q] = IF q = p THEN "init" ELSE pc[q]
  BY DEF GwTypeOK
<1>2. Solo'
  <2> SUFFICES ASSUME NEW q \in P, NEW r \in P, q < r, pc'[r] # "off" PROVE pc'[q] \in Over
    BY DEF Solo
  <2>1. pc[p] = "off"
    OBVIOUS
  <2>2. CASE r # p
    <3>1. pc[q] \in Over
      BY <1>1, <2>2 DEF Life, Solo
    <3> QED
      BY <1>1, <2>1, <3>1 DEF Over
  <2>3. CASE r = p
    <3>1. p > 1 /\ p - 1 \in P /\ pc[p-1] \in Over /\ (q = p - 1 \/ q < p - 1)
      BY <2>3, ProcsAssumption DEF P, Over
    <3>2. pc[q] \in Over
      BY <3>1 DEF Life, Solo, Over
    <3> QED
      BY <1>1, <2>1, <3>2 DEF Over
  <2> QED
    BY <2>2, <2>3
<1>3. Phase(p)'
  BY <1>1 DEF Life, Phase
<1>4. ASSUME NEW st \in Streams PROVE StreamOK(p, st)'
  BY <1>1 DEF StreamsOK, StreamOK, Live
<1>5. at' \in [P -> 0 .. Len(Md)] /\ at' = at
  BY DEF GwTypeOK
<1> QED
  BY <1>2, <1>3, <1>4, <1>5, PhaseKeeps

LEMMA MainKeeps ==
  ASSUME IInv, NEW p \in P, AllCreated(p) \/ BindFails(p) \/ AllStarted(p) \/ Return(p) \/ Exited(p)
  PROVE  IInv'
<1> USE DEF IInv, Goto, shmvars, streamvars, Phases
<1>1. PICK l \in {"start", "exit", "run", "gone"} :
        /\ pc' = [pc EXCEPT ![p] = l] /\ UNCHANGED <<done, create, at, crashed, shmvars, streamvars>>
        /\ pc[p] \in {"init", "start", "stop", "exit"} /\ (pc[p] \in Over => l \in Over)
        /\ l = "start" => pc[p] = "init" /\ done[p] = Cells /\ at[p] = 0
        /\ l = "run" => pc[p] = "start" /\ at[p] = Len(Md)
        /\ l = "gone" => \A st \in Streams : source[p][st] \in {"none", "off"} /\ worker[p][st] \in {"none", "off"}
  BY DEF AllCreated, BindFails, AllStarted, Return, Exited, Over, Life, Phase
<1>2. pc'[p] = l /\ Solo'
  BY <1>1, SoloKeeps DEF GwTypeOK
<1>3. create[p] = "none"
  BY DEF AllCreated, BindFails, AllStarted, Return, Exited, Life, Phase
<1>4. Phase(p)'
  BY <1>1, <1>2, <1>3 DEF Life, Phase
<1>5. ASSUME NEW st \in Streams PROVE StreamOK(p, st)'
  <2>1. StreamOK(p, st) /\ st[1] \in 1 .. Len(Md) /\ at[p] \in 0 .. Len(Md)
    BY StreamShape DEF StreamsOK, GwTypeOK
  <2>2. UNCHANGED <<done, at, crashed, source, worker, queue, begun>>
    BY <1>1
  <2>3. CASE l = "start"
    BY <1>1, <1>2, <2>1, <2>2, <2>3 DEF StreamOK, Live
  <2>4. CASE l = "run"
    <3>1. st[1] <= at[p] /\ pc[p] = "start"
      BY <1>1, <2>1, <2>4
    <3> QED
      BY <1>2, <2>1, <2>2, <2>4, <3>1 DEF StreamOK, Live
  <2>5. CASE l \in {"exit", "gone"}
    BY <1>1, <1>2, <2>1, <2>2, <2>5 DEF StreamOK, Live
  <2> QED
    BY <2>3, <2>4, <2>5
<1>6. at' \in [P -> 0 .. Len(Md)] /\ at' = at
  BY <1>1 DEF GwTypeOK
<1> QED
  BY <1>1, <1>2, <1>4, <1>5, <1>6, PhaseKeeps

LEMMA CtrlCKeeps == ASSUME IInv, NEW p \in P, CtrlC(p) PROVE IInv'
<1> USE DEF IInv, CtrlC, Goto, shmvars, streamvars, Phases
<1>1. pc'[p] = "stop" /\ Solo'
  BY SoloKeeps DEF GwTypeOK, Over
<1>2. at' \in [P -> 0 .. Len(Md)] /\ \A q \in P \ {p} : at'[q] = at[q]
  <2>1. 0 \in 0 .. Len(Md)
    BY ConfigAssumption DEF Md
  <2> QED
    BY <2>1 DEF GwTypeOK
<1>3. Phase(p)'
  BY <1>1 DEF Life, Phase
<1>4. ASSUME NEW st \in Streams PROVE StreamOK(p, st)'
  BY <1>1 DEF StreamsOK, StreamOK, Live
<1> QED
  BY <1>1, <1>2, <1>3, <1>4, PhaseKeeps

LEMMA CrashKeeps == ASSUME IInv, NEW p \in P, Crash(p) PROVE IInv'
<1> USE DEF IInv, Crash, Goto, shmvars, Phases
<1>1. /\ pc'[p] = "gone" /\ create'[p] = "none" /\ p \in crashed'
      /\ \A st \in Streams : source'[p][st] = "off" /\ worker'[p][st] = "off" /\ queue'[p][st] = <<>>
  BY DEF GwTypeOK
<1>2. Solo'
  BY SoloKeeps DEF Over
<1>3. GwTypeOK'
  BY DEF GwTypeOK
<1>4. OthersStay(p)
  BY DEF OthersStay, GwTypeOK
<1>5. Phase(p)' /\ Owned'
  BY <1>1 DEF Phase, Stores, Owned
<1>6. ASSUME NEW st \in Streams PROVE StreamOK(p, st)'
  BY <1>1 DEF StreamOK
<1> QED
  BY <1>1, <1>2, <1>3, <1>4, <1>5, <1>6, OneProcess

-----------------------------------------------------------------------------
(* Modules start and stop.                                                 *)

\* A step of main that touches the sources and workers of one module.
LEMMA ModuleKeeps ==
  ASSUME IInv, NEW p \in P,
         UNCHANGED <<pc, done, create, crashed, shmvars, queue, offered, begun>>,
         pc[p] # "off", NEW m \in 0 .. Len(Md), at' = [at EXCEPT ![p] = m],
         NEW f \in [Streams -> {"none", "on", "ending", "off"}], source' = [source EXCEPT ![p] = f],
         NEW g \in [Streams -> {"none", "queued", "on", "off"}], worker' = [worker EXCEPT ![p] = g],
         Phase(p)', \A st \in Streams : StreamOK(p, st)'
  PROVE  IInv'
<1> USE DEF IInv, shmvars
<1>1. GwTypeOK'
  BY DEF GwTypeOK
<1>2. OthersStay(p)
  BY DEF OthersStay, GwTypeOK
<1>3. Solo' /\ Owned'
  BY DEF Life, Solo, Stores, Owned
<1> QED
  BY <1>1, <1>2, <1>3, OneProcess

LEMMA StartKeeps == ASSUME IInv, NEW p \in P, Start(p) PROVE IInv'
<1> USE DEF IInv
<1> DEFINE m == at[p] + 1
           f == [st \in Streams |-> IF st \in Started(p, m) THEN "on" ELSE source[p][st]]
           g == [st \in Streams |-> IF st \in Started(p, m) /\ ~IsUdp(st) THEN "queued" ELSE worker[p][st]]
<1>1. /\ pc[p] = "start" /\ m \in 0 .. Len(Md) /\ at[p] \in Nat
      /\ UNCHANGED <<pc, done, create, crashed, shmvars, queue, offered, begun>>
  BY ConfigAssumption DEF Start, GwTypeOK, Md
<1>2. at' = [at EXCEPT ![p] = m] /\ at'[p] = m
  BY DEF Start, GwTypeOK
<1>3. source' = [source EXCEPT ![p] = f] /\ worker' = [worker EXCEPT ![p] = g]
  BY DEF Start, GwTypeOK
<1>4. /\ f \in [Streams -> {"none", "on", "ending", "off"}]
      /\ g \in [Streams -> {"none", "queued", "on", "off"}]
  BY DEF GwTypeOK
<1>5. Phase(p)' /\ done[p] = Cells
  BY <1>1 DEF Life, Phase
<1>6. ASSUME NEW st \in Streams PROVE StreamOK(p, st)'
  <2>1. /\ StreamOK(p, st) /\ st[1] \in Int
        /\ source'[p][st] = (IF st \in Started(p, m) THEN "on" ELSE source[p][st])
        /\ worker'[p][st] = (IF st \in Started(p, m) /\ ~IsUdp(st) THEN "queued" ELSE worker[p][st])
    BY <1>3, StreamShape DEF StreamsOK, GwTypeOK
  <2>2. CASE st \in Started(p, m)
    <3>1. /\ source[p][st] = "none" /\ worker[p][st] = "none" /\ Live(st) /\ st[1] = m
          /\ <<p, st>> \notin begun
      BY <1>1, <2>1, <2>2 DEF Started, StreamOK
    <3> QED
      BY <1>1, <1>2, <1>5, <2>1, <2>2, <3>1 DEF StreamOK, Live
  <2>3. CASE st \notin Started(p, m)
    <3>1. st[1] = m => ~Live(st)
      BY <2>3 DEF Started
    <3>2. st[1] <= m /\ st[1] # m => st[1] <= at[p]
      BY <1>1, <2>1
    <3>3. st[1] > m => st[1] > at[p]
      BY <1>1, <2>1
    <3> HIDE DEF m
    <3> QED
      BY <1>1, <1>2, <2>1, <2>3, <3>1, <3>2, <3>3 DEF StreamOK, Live
  <2> QED
    BY <2>2, <2>3
<1> HIDE DEF m, f, g
<1> QED
  BY <1>1, <1>2, <1>3, <1>4, <1>5, <1>6, ModuleKeeps

LEMMA StopModuleKeeps == ASSUME IInv, NEW p \in P, StopModule(p) PROVE IInv'
<1> USE DEF IInv
<1> DEFINE m == at[p] + 1
           f == [st \in Streams |-> IF st[1] = m /\ source[p][st] = "on" THEN "ending" ELSE source[p][st]]
           g == [st \in Streams |-> IF st[1] = m THEN Aborted(p, st) ELSE worker[p][st]]
<1>1. /\ pc[p] = "stop" /\ m \in 0 .. Len(Md) /\ at[p] \in Nat
      /\ UNCHANGED <<pc, done, create, crashed, shmvars, queue, offered, begun>>
  BY ConfigAssumption DEF StopModule, GwTypeOK, Md
<1>2. at' = [at EXCEPT ![p] = m] /\ at'[p] = m
  BY DEF StopModule, GwTypeOK
<1>3. source' = [source EXCEPT ![p] = f] /\ worker' = [worker EXCEPT ![p] = g]
  BY DEF StopModule, GwTypeOK
<1>4. /\ f \in [Streams -> {"none", "on", "ending", "off"}]
      /\ g \in [Streams -> {"none", "queued", "on", "off"}]
  BY DEF GwTypeOK, Aborted
<1>5. Phase(p)' /\ done[p] = Cells
  BY <1>1 DEF Life, Phase
<1>6. ASSUME NEW st \in Streams PROVE StreamOK(p, st)'
  <2>1. /\ StreamOK(p, st)
        /\ source'[p][st] = source[p][st] \/ (source[p][st] = "on" /\ source'[p][st] = "ending")
        /\ worker'[p][st] = worker[p][st] \/ (worker[p][st] = "queued" /\ worker'[p][st] = "off")
    BY <1>3 DEF StreamsOK, GwTypeOK, Aborted
  <2> QED
    BY <1>1, <1>5, <2>1 DEF StreamOK, Live
<1> HIDE DEF m, f, g
<1> QED
  BY <1>1, <1>2, <1>3, <1>4, <1>5, <1>6, ModuleKeeps

-----------------------------------------------------------------------------
(* The streams' own steps.                                                 *)

\* Only one stream of one process moves, and what it writes is its own.
LEMMA StreamKeeps ==
  ASSUME IInv, NEW p \in P, NEW st \in Streams, pc[p] # "off",
         UNCHANGED <<procvars, map, dir, ready>>, GwTypeOK', Owned', StreamOK(p, st)',
         NEW v, source' = [source EXCEPT ![p][st] = v],
         NEW w, worker' = [worker EXCEPT ![p][st] = w],
         NEW b, queue' = [queue EXCEPT ![p][st] = b],
         begun \subseteq begun', begun' \subseteq begun \cup {<<p, st>>}
  PROVE  IInv'
<1> USE DEF IInv, procvars
<1>1. ASSUME NEW q \in P, NEW s \in Streams, q # p \/ s # st
      PROVE  /\ source'[q][s] = source[q][s] /\ worker'[q][s] = worker[q][s]
             /\ queue'[q][s] = queue[q][s] /\ (<<q, s>> \in begun' <=> <<q, s>> \in begun)
  BY SMTT(30), <1>1 DEF GwTypeOK
<1>2. OthersStay(p)
  BY <1>1 DEF OthersStay
<1>3. Solo' /\ Phase(p)'
  BY DEF Life, Solo, Phase
<1>4. \A s \in Streams : StreamOK(p, s)'
  <2> SUFFICES ASSUME NEW s \in Streams, s # st PROVE StreamOK(p, s)'
    OBVIOUS
  <2>1. StreamOK(p, s)
    BY DEF StreamsOK
  <2> QED
    BY <1>1, <2>1 DEF StreamOK, Live
<1> QED
  BY <1>2, <1>3, <1>4, OneProcess

\* A stream runs only in a process that has been launched.
LEMMA RunsIn ==
  ASSUME IInv, NEW p \in P, NEW st \in Streams, source[p][st] # "none" \/ worker[p][st] # "none"
  PROVE  pc[p] # "off"
<1>1. (StreamOK(p, st) /\ at[p] = 0) \/ pc[p] # "off"
  BY DEF IInv, StreamsOK, Life, Phase
<1>2. st[1] > 0
  BY StreamShape
<1> QED
  BY <1>1, <1>2 DEF StreamOK

LEMMA QuietKeeps ==
  ASSUME IInv, NEW p \in P, NEW st \in Streams,
         SourceEnds(p, st) \/ NeverRuns(p, st) \/ WorkerBegins(p, st) \/ WorkerEnds(p, st)
  PROVE  IInv'
<1> USE DEF IInv, shmvars
<1>1. StreamOK(p, st)
  BY DEF StreamsOK
<1>2. UNCHANGED <<procvars, shmvars, queue, offered>> /\ pc[p] # "off"
  BY RunsIn DEF SourceEnds, NeverRuns, WorkerBegins, WorkerEnds
<1>3. PICK v \in {"none", "on", "ending", "off"}, w \in {"none", "queued", "on", "off"} :
        /\ source' = [source EXCEPT ![p][st] = v] /\ worker' = [worker EXCEPT ![p][st] = w]
        /\ source'[p][st] = v /\ worker'[p][st] = w
        /\ begun \subseteq begun' /\ begun' \subseteq begun \cup {<<p, st>>}
  <2>1. CASE SourceEnds(p, st)
    BY <2>1 DEF SourceEnds, GwTypeOK
  <2>2. CASE NeverRuns(p, st)
    BY <2>2 DEF NeverRuns, GwTypeOK
  <2>3. CASE WorkerBegins(p, st)
    BY <2>3 DEF WorkerBegins, GwTypeOK
  <2>4. CASE WorkerEnds(p, st)
    BY <2>4 DEF WorkerEnds, GwTypeOK
  <2> QED
    BY <2>1, <2>2, <2>3, <2>4
<1>4. GwTypeOK'
  BY <1>2, <1>3 DEF GwTypeOK, procvars
<1>5. queue' = [queue EXCEPT ![p][st] = queue[p][st]] /\ queue'[p][st] = queue[p][st]
  BY <1>2 DEF GwTypeOK
<1>6. StreamOK(p, st)'
  <2>1. CASE SourceEnds(p, st)
    BY <1>1, <2>1 DEF SourceEnds, StreamOK, Live, GwTypeOK, procvars
  <2>2. CASE NeverRuns(p, st)
    BY <1>1, <2>2 DEF NeverRuns, StreamOK, Live, GwTypeOK, procvars
  <2>3. CASE WorkerBegins(p, st)
    BY <1>1, <2>3 DEF WorkerBegins, StreamOK, Live, GwTypeOK, procvars
  <2>4. CASE WorkerEnds(p, st)
    BY <1>1, <2>4 DEF WorkerEnds, StreamOK, Live, GwTypeOK, procvars
  <2> QED
    BY <2>1, <2>2, <2>3, <2>4
<1>7. Owned'
  BY <1>2 DEF Stores, Owned
<1> QED
  BY <1>2, <1>3, <1>4, <1>5, <1>6, <1>7, StreamKeeps

LEMMA OfferKeeps == ASSUME IInv, NEW p \in P, NEW st \in Streams, Offer(p, st) PROVE IInv'
<1> USE DEF IInv, shmvars
<1>1. /\ UNCHANGED <<procvars, shmvars, source, worker, begun>> /\ pc[p] # "off"
      /\ source[p][st] \in {"on", "ending"} /\ StreamOK(p, st)
      /\ offered' = [offered EXCEPT ![p][st] = @ + 1] /\ offered[p][st] < MaxMsgs
  BY RunsIn DEF Offer, StreamsOK
<1>2. PICK c \in Cells :
        queue' = IF worker[p][st] = "off" THEN queue
                 ELSE [queue EXCEPT ![p][st] = Append(@, <<c, offered'[p][st]>>)]
  BY DEF Offer
<1> DEFINE b == IF worker[p][st] = "off" THEN queue[p][st]
                ELSE Append(queue[p][st], <<c, offered'[p][st]>>)
<1>3. /\ offered'[p][st] \in 1 .. MaxMsgs
      /\ offered' \in [P -> [Streams -> 0 .. MaxMsgs]]
  BY <1>1, ProcsAssumption DEF GwTypeOK
<1>4. b \in Seq(Cells \X (1 .. MaxMsgs))
  BY <1>3 DEF GwTypeOK
<1>5. queue' = [queue EXCEPT ![p][st] = b] /\ queue'[p][st] = b
  BY <1>2 DEF GwTypeOK
<1>6. GwTypeOK'
  <2>1. queue' \in [P -> [Streams -> Seq(Cells \X (1 .. MaxMsgs))]]
    BY <1>4, <1>5 DEF GwTypeOK
  <2> QED
    BY <1>1, <1>3, <2>1 DEF GwTypeOK, procvars
<1>7. StreamOK(p, st)'
  <2>1. worker[p][st] = "off" => queue'[p][st] = queue[p][st]
    BY <1>5
  <2> HIDE DEF b
  <2> QED
    BY <1>1, <2>1 DEF StreamOK, Live, procvars
<1>8. /\ source' = [source EXCEPT ![p][st] = source[p][st]]
      /\ worker' = [worker EXCEPT ![p][st] = worker[p][st]]
  BY <1>1 DEF GwTypeOK
<1>9. Owned'
  BY <1>1 DEF Stores, Owned
<1> HIDE DEF b
<1> QED
  BY <1>1, <1>5, <1>6, <1>7, <1>8, <1>9, StreamKeeps

\* A process writes to the regions it made, and nothing is taken back.
LEMMA WriteOwned ==
  ASSUME IInv, NEW p \in P, NEW c \in Cells, NEW n \in 1 .. MaxMsgs, done[p] = Cells, Write(p, c, n)
  PROVE  /\ log' = [log EXCEPT ![<<p, c>>] = Append(@, <<p, n>>)]
         /\ log' \in [Regions -> Seq(P \X (1 .. MaxMsgs))] /\ Owned'
<1> USE DEF IInv
<1>1. <<p, c>> \in Regions /\ map[p][c] = <<p, c>>
  BY DEF Stores, Store, Regions, P
<1>2. log' = [log EXCEPT ![<<p, c>>] = Append(@, <<p, n>>)]
  BY <1>1 DEF Write
<1>3. log' \in [Regions -> Seq(P \X (1 .. MaxMsgs))]
  BY <1>1, <1>2 DEF GwTypeOK
<1>4. ASSUME NEW r \in Regions, NEW i \in 1 .. Len(log'[r])
      PROVE  log'[r][i][1] = r[1]
  <2>1. CASE r # <<p, c>>
    BY <1>2, <1>4, <2>1 DEF GwTypeOK, Stores, Owned
  <2>2. CASE r = <<p, c>>
    <3>1. log[r] \in Seq(P \X (1 .. MaxMsgs)) /\ log'[r] = Append(log[r], <<p, n>>)
      BY <1>2, <2>2 DEF GwTypeOK
    <3>2. CASE i \in 1 .. Len(log[r])
      BY <3>1, <3>2 DEF Stores, Owned
    <3>3. CASE i = Len(log[r]) + 1
      BY <2>2, <3>1, <3>3
    <3> QED
      BY <1>4, <3>1, <3>2, <3>3
  <2> QED
    BY <2>1, <2>2
<1> QED
  BY <1>2, <1>3, <1>4 DEF Owned

LEMMA DedupKeeps == ASSUME IInv, NEW p \in P, NEW st \in Streams, Dedup(p, st) PROVE IInv'
<1> USE DEF IInv
<1>1. /\ UNCHANGED <<procvars, map, dir, ready, source, worker, offered, begun>> /\ pc[p] # "off"
      /\ worker[p][st] = "on" /\ queue[p][st] # <<>> /\ StreamOK(p, st)
  BY RunsIn DEF Dedup, StreamsOK
<1>2. /\ Head(queue[p][st]) \in Cells \X (1 .. MaxMsgs)
      /\ Tail(queue[p][st]) \in Seq(Cells \X (1 .. MaxMsgs))
      /\ done[p] = Cells
  BY <1>1, HeadTailProperties DEF GwTypeOK, StreamOK
<1>3. Write(p, Head(queue[p][st])[1], Head(queue[p][st])[2])
  BY DEF Dedup
<1>4. log' \in [Regions -> Seq(P \X (1 .. MaxMsgs))] /\ Owned'
  BY <1>2, <1>3, WriteOwned
<1>5. queue' = [queue EXCEPT ![p][st] = Tail(queue[p][st])]
  BY DEF Dedup, GwTypeOK
<1>6. GwTypeOK'
  <2>1. queue' \in [P -> [Streams -> Seq(Cells \X (1 .. MaxMsgs))]]
    BY <1>2, <1>5 DEF GwTypeOK
  <2> QED
    BY <1>1, <1>4, <2>1 DEF GwTypeOK, procvars
<1>7. StreamOK(p, st)'
  BY <1>1, <1>2 DEF StreamOK, Live, procvars
<1>8. /\ source' = [source EXCEPT ![p][st] = source[p][st]]
      /\ worker' = [worker EXCEPT ![p][st] = worker[p][st]]
  BY <1>1 DEF GwTypeOK
<1> QED
  BY <1>1, <1>4, <1>5, <1>6, <1>7, <1>8, StreamKeeps

LEMMA ReceiveKeeps == ASSUME IInv, NEW p \in P, NEW st \in Streams, UdpReceive(p, st) PROVE IInv'
<1> USE DEF IInv
<1>1. /\ UNCHANGED <<procvars, map, dir, ready, source, worker, queue, begun>> /\ pc[p] # "off"
      /\ source[p][st] \in {"on", "ending"} /\ StreamOK(p, st) /\ done[p] = Cells
      /\ offered' = [offered EXCEPT ![p][st] = @ + 1] /\ offered[p][st] < MaxMsgs
  BY RunsIn DEF UdpReceive, StreamsOK, StreamOK
<1>2. /\ offered'[p][st] \in 1 .. MaxMsgs
      /\ offered' \in [P -> [Streams -> 0 .. MaxMsgs]]
  BY <1>1, ProcsAssumption DEF GwTypeOK
<1>3. PICK c \in Cells : Write(p, c, offered'[p][st])
  BY DEF UdpReceive
<1>4. log' \in [Regions -> Seq(P \X (1 .. MaxMsgs))] /\ Owned'
  BY <1>1, <1>2, <1>3, WriteOwned
<1>5. GwTypeOK'
  BY <1>1, <1>2, <1>4 DEF GwTypeOK, procvars
<1>6. StreamOK(p, st)'
  BY <1>1 DEF StreamOK, Live, procvars
<1>7. /\ source' = [source EXCEPT ![p][st] = source[p][st]]
      /\ worker' = [worker EXCEPT ![p][st] = worker[p][st]]
      /\ queue' = [queue EXCEPT ![p][st] = queue[p][st]]
  BY <1>1 DEF GwTypeOK
<1>8. UNCHANGED <<procvars, map, dir, ready>> /\ begun \subseteq begun' /\ begun' \subseteq begun \cup {<<p, st>>}
  BY <1>1
<1>9. pc[p] # "off"
  BY <1>1
<1> QED
  BY <1>4, <1>5, <1>6, <1>7, <1>8, <1>9, StreamKeeps

-----------------------------------------------------------------------------
(* Stores are made.                                                        *)

\* The process that makes its stores is alone in it, and its streams are idle.
LEMMA Alone ==
  ASSUME IInv, NEW p \in P, NEW c \in Cells, IsNext(p, c), pc[p] = "init"
  PROVE  /\ \A q \in P \ {p} : create[q] = "none" /\ pc[q] # "init"
         /\ \A q \in P : q > p => pc[q] = "off" /\ done[q] = {}
         /\ \A st \in Streams : /\ source[p][st] = "none" /\ worker[p][st] = "none"
                                /\ queue[p][st] = <<>> /\ <<p, st>> \notin begun
         /\ at[p] = 0 /\ p \notin crashed /\ c \notin done[p]
<1> USE DEF IInv
<1>1. \A q \in P \ {p} : q > p \/ q < p
  BY ProcsAssumption DEF P
<1>2. \A q \in P : q > p => pc[q] = "off" /\ done[q] = {}
  BY DEF Life, Solo, Phase, Over
<1>3. \A q \in P : q < p => pc[q] \in Over
  BY DEF Life, Solo
<1>4. \A q \in P \ {p} : create[q] = "none" /\ pc[q] # "init"
  BY <1>1, <1>2, <1>3 DEF Life, Phase, Over
<1>5. at[p] = 0 /\ p \notin crashed /\ c \notin done[p]
  BY DEF Life, Phase, IsNext
<1>6. ASSUME NEW st \in Streams
      PROVE  /\ source[p][st] = "none" /\ worker[p][st] = "none"
             /\ queue[p][st] = <<>> /\ <<p, st>> \notin begun
  <2>1. StreamOK(p, st) /\ st[1] > 0
    BY StreamShape DEF StreamsOK
  <2> QED
    BY <1>5, <2>1 DEF StreamOK
<1> QED
  BY <1>2, <1>4, <1>5, <1>6

\* A step of the process that makes store c touches no other name.
LEMMA StoreKeeps ==
  ASSUME IInv, NEW p \in P, NEW c \in Cells, IsNext(p, c), pc[p] = "init",
         UNCHANGED <<at, crashed, streamvars>>, GwTypeOK', Owned', Phase(p)',
         pc'[p] \in {"init", "exit"}, \A q \in P \ {p} : pc'[q] = pc[q] /\ create'[q] = create[q],
         \A q \in P \ {p} : done'[q] = done[q] /\ map'[q] = map[q],
         done'[p] \in {done[p], done[p] \cup {c}},
         \A d \in Cells : d # c => map'[p][d] = map[p][d] /\ dir'[NameOf(d)] = dir[NameOf(d)],
         \A r \in Regions : r # <<p, c>> => (r \in ready' <=> r \in ready),
         Store(p, c)', c \in done'[p] => dir'[NameOf(c)] = <<p, c>>,
         done'[p] = done[p] \/ create'[p] = "none"
  PROVE  IInv'
<1> USE DEF IInv, streamvars
<1>1. /\ \A q \in P \ {p} : create[q] = "none" /\ pc[q] # "init"
      /\ \A q \in P : q > p => pc[q] = "off" /\ done[q] = {}
      /\ \A st \in Streams : /\ source[p][st] = "none" /\ worker[p][st] = "none"
                             /\ queue[p][st] = <<>> /\ <<p, st>> \notin begun
      /\ at[p] = 0 /\ p \notin crashed /\ c \notin done[p]
  BY Alone
<1>2. Life'
  <2>1. Solo'
    BY <1>1 DEF Life, Solo, Over
  <2>2. \A q \in P \ {p} : Phase(q)'
    BY DEF Life, Phase
  <2> QED
    BY <2>1, <2>2 DEF Life
<1>3. StreamsOK'
  <2>1. ASSUME NEW st \in Streams PROVE StreamOK(p, st)'
    BY <1>1, StreamShape DEF StreamOK
  <2>2. ASSUME NEW q \in P \ {p}, NEW st \in Streams PROVE StreamOK(q, st)'
    <3>1. StreamOK(q, st)
      BY DEF StreamsOK
    <3> QED
      BY <3>1 DEF StreamOK, Live
  <2> QED
    BY <2>1, <2>2 DEF StreamsOK
<1>4. ASSUME NEW q \in P, NEW d \in Cells PROVE Store(q, d)'
  <2>1. Store(q, d)
    BY DEF Stores
  <2>2. CASE q # p
    <3>1. <<q, d>> \in Regions /\ <<q, d>> # <<p, c>> /\ create'[q] = "none"
      BY <1>1, <2>2 DEF Regions, P
    <3> QED
      BY <2>1, <2>2, <3>1 DEF Store
  <2>3. CASE q = p /\ d # c
    <3>1. <<p, d>> \in Regions /\ <<p, d>> # <<p, c>>
      BY <2>3 DEF Regions, P
    <3>2. ~IsNext(p, d)
      BY <2>3, NextIsOne
    <3>3. ~IsNext(p, d)' \/ create'[p] = "none"
      BY <3>2 DEF IsNext
    <3> QED
      BY <2>1, <2>3, <3>1, <3>3 DEF Store
  <2> QED
    BY <2>2, <2>3
<1>5. NamesServed'
  <2> SUFFICES ASSUME NEW q \in P, NEW d \in Cells, LastCreator(d, q)',
                      \A r \in P : r > q => ~Touched(d, r)'
               PROVE  dir'[NameOf(d)] = <<q, d>> /\ <<q, d>> \in ready'
    BY DEF NamesServed
  <2>1. <<q, d>> \in ready'
    BY <1>4 DEF Store, LastCreator
  <2>2. CASE d = c
    <3>1. c \in done'[p] \/ ~(p > q)
      <4>1. c \notin done'[p] => done'[p] = done[p]
        OBVIOUS
      <4>2. c \notin done'[p] => Touched(c, p)'
        BY <4>1 DEF Touched, IsNext
      <4> QED
        BY <2>2, <4>2
    <3>2. ~(p > q)
      BY <2>2, <3>1 DEF LastCreator
    <3>3. q = p
      <4>1. q > p => done'[q] = {}
        BY <1>1, ProcsAssumption DEF P
      <4> QED
        BY <3>2, <4>1, ProcsAssumption DEF LastCreator, P
    <3> QED
      BY <2>1, <2>2, <3>3 DEF LastCreator
  <2>3. CASE d # c
    <3>1. LastCreator(d, q)
      BY <2>3 DEF LastCreator
    <3>2. ASSUME NEW r \in P, r > q PROVE ~Touched(d, r)
      <4>1. CASE r = p
        BY <2>3, <4>1, NextIsOne DEF Touched
      <4>2. CASE r # p
        BY <3>2, <4>2 DEF Touched, IsNext
      <4> QED
        BY <4>1, <4>2
    <3> QED
      BY <2>1, <2>3, <3>1, <3>2 DEF NamesServed
  <2> QED
    BY <2>2, <2>3
<1> QED
  BY <1>2, <1>3, <1>4, <1>5 DEF Stores

LEMMA NamesApart ==
  ASSUME NEW c \in Cells, NEW d \in Cells
  PROVE  NameOf(c) \in Names /\ (NameOf(c) = NameOf(d) => c = d)
BY NamesAssumption

LEMMA UnlinkKeeps == ASSUME IInv, NEW p \in P, NEW c \in Cells, Unlink(p, c) PROVE IInv'
<1> USE DEF IInv, Unlink, streamvars
<1>1. c \notin done[p] /\ Store(p, c) /\ Phase(p)
  BY DEF IsNext, Stores, Life
<1>2. \A d \in Cells : dir'[NameOf(d)] = IF d = c THEN None ELSE dir[NameOf(d)]
  BY NamesApart DEF GwTypeOK
<1>3. create'[p] = "unlinked" /\ \A q \in P \ {p} : create'[q] = create[q]
  BY DEF GwTypeOK
<1>4. GwTypeOK'
  BY DEF GwTypeOK
<1>5. Owned' /\ Phase(p)'
  BY <1>1, <1>3 DEF Stores, Owned, Phase
<1>6. Store(p, c)'
  BY <1>1, <1>2, <1>3 DEF Store
<1> QED
  BY <1>1, <1>2, <1>3, <1>4, <1>5, <1>6, StoreKeeps

LEMMA OpenKeeps == ASSUME IInv, NEW p \in P, NEW c \in Cells, Open(p, c) PROVE IInv'
<1> USE DEF IInv, streamvars
<1>1. /\ c \notin done[p] /\ Store(p, c) /\ Phase(p) /\ pc[p] = "init"
      /\ create[p] = "unlinked" /\ IsNext(p, c) /\ NameOf(c) \in Names
      /\ UNCHANGED <<pc, done, at, crashed, ready, log, streamvars>>
  BY NamesApart DEF Open, IsNext, Stores, Life, Phase
<1>2. dir[NameOf(c)] = None
  BY <1>1 DEF Store
<1>3. <<p, c>> \in Regions
  BY DEF Regions, P
<1>4. /\ dir' = [dir EXCEPT ![NameOf(c)] = <<p, c>>]
      /\ map' = [map EXCEPT ![p][c] = <<p, c>>]
      /\ create' = [create EXCEPT ![p] = "opened"]
  BY <1>2 DEF Open
<1>5. \A d \in Cells : dir'[NameOf(d)] = IF d = c THEN <<p, c>> ELSE dir[NameOf(d)]
  BY <1>4, NamesApart DEF GwTypeOK
<1>6. /\ create'[p] = "opened" /\ \A q \in P \ {p} : create'[q] = create[q]
      /\ map'[p][c] = <<p, c>> /\ \A d \in Cells : d # c => map'[p][d] = map[p][d]
      /\ \A q \in P \ {p} : map'[q] = map[q]
  BY <1>4 DEF GwTypeOK
<1>7. GwTypeOK'
  BY <1>1, <1>3, <1>4 DEF GwTypeOK
<1>8. Owned' /\ Phase(p)'
  BY <1>1, <1>6 DEF Stores, Owned, Phase, IsNext
<1>9. Store(p, c)'
  BY <1>1, <1>5, <1>6 DEF Store
<1> QED
  BY <1>1, <1>5, <1>6, <1>7, <1>8, <1>9, StoreKeeps

LEMMA InitialiseKeeps == ASSUME IInv, NEW p \in P, NEW c \in Cells, Initialise(p, c) PROVE IInv'
<1> USE DEF IInv, streamvars
<1>1. /\ c \notin done[p] /\ Store(p, c) /\ Phase(p) /\ pc[p] = "init"
      /\ create[p] = "opened" /\ IsNext(p, c)
      /\ UNCHANGED <<pc, at, crashed, map, dir, streamvars>>
  BY DEF Initialise, IsNext, Stores, Life, Phase
<1>2. /\ map[p][c] = <<p, c>> /\ dir[NameOf(c)] = <<p, c>> /\ <<p, c>> \notin ready
      /\ <<p, c>> \in Regions
  BY <1>1 DEF Store, Regions, P
<1>3. /\ ready' = ready \cup {<<p, c>>} /\ log' = [log EXCEPT ![<<p, c>>] = <<>>]
      /\ create' = [create EXCEPT ![p] = "none"] /\ done' = [done EXCEPT ![p] = @ \cup {c}]
  BY <1>2 DEF Initialise
<1>4. /\ create'[p] = "none" /\ \A q \in P \ {p} : create'[q] = create[q] /\ done'[q] = done[q]
      /\ done'[p] = done[p] \cup {c}
  BY <1>3 DEF GwTypeOK
<1>5. GwTypeOK'
  <2>1. log' \in [Regions -> Seq(P \X (1 .. MaxMsgs))]
    BY <1>2, <1>3 DEF GwTypeOK
  <2> QED
    BY <1>1, <1>2, <1>3, <2>1 DEF GwTypeOK
<1>6. Owned'
  BY <1>2, <1>3 DEF GwTypeOK, Stores, Owned
<1>7. Phase(p)' /\ Store(p, c)'
  BY <1>1, <1>2, <1>3, <1>4 DEF Phase, Store
<1> QED
  BY <1>1, <1>2, <1>3, <1>4, <1>5, <1>6, <1>7, StoreKeeps

LEMMA CreateFailsKeeps == ASSUME IInv, NEW p \in P, NEW c \in Cells, CreateFails(p, c) PROVE IInv'
<1> USE DEF IInv, streamvars
<1>1. /\ c \notin done[p] /\ Store(p, c) /\ Phase(p) /\ pc[p] = "init" /\ IsNext(p, c)
      /\ UNCHANGED <<done, at, crashed, dir, ready, log, streamvars>>
      /\ create' = [create EXCEPT ![p] = "none"] /\ map' = [map EXCEPT ![p][c] = None]
      /\ pc' = [pc EXCEPT ![p] = "exit"]
  BY DEF CreateFails, Goto, IsNext, Stores, Life, Phase
<1>2. /\ create'[p] = "none" /\ pc'[p] = "exit"
      /\ \A q \in P \ {p} : create'[q] = create[q] /\ pc'[q] = pc[q] /\ map'[q] = map[q]
      /\ map'[p][c] = None /\ \A d \in Cells : d # c => map'[p][d] = map[p][d]
  BY <1>1 DEF GwTypeOK
<1>3. GwTypeOK'
  BY <1>1 DEF GwTypeOK, Phases
<1>4. Owned' /\ Phase(p)' /\ Store(p, c)'
  BY <1>1, <1>2 DEF Stores, Owned, Phase, Store
<1> QED
  BY <1>1, <1>2, <1>3, <1>4, StoreKeeps

-----------------------------------------------------------------------------
LEMMA UnchangedKeeps == IInv /\ UNCHANGED vars => IInv'
<1> SUFFICES ASSUME IInv, UNCHANGED vars PROVE IInv'
  OBVIOUS
<1> USE DEF vars, IInv
<1>1. GwTypeOK' /\ Life'
  BY DEF GwTypeOK, Life, Solo, Phase
<1>2. Stores'
  BY DEF Stores, Store, Owned, IsNext
<1>3. StreamsOK'
  BY ZenonT(40) DEF StreamsOK, StreamOK, Live
<1>4. NamesServed'
  BY DEF NamesServed, LastCreator, Touched, IsNext
<1> QED
  BY <1>1, <1>2, <1>3, <1>4

LEMMA NextIInv == IInv /\ [Next]_vars => IInv'
<1> SUFFICES ASSUME IInv, Next PROVE IInv'
  BY UnchangedKeeps
<1>1. PICK p \in P : Main(p) \/ Crash(p) \/ \E st \in Streams : Stream(p, st)
  BY DEF Next
<1>2. CASE Creating(p)
  BY <1>2, UnlinkKeeps, OpenKeeps, InitialiseKeeps, CreateFailsKeeps, MainKeeps DEF Creating
<1>3. CASE Main(p) /\ ~Creating(p)
  BY <1>3, LaunchKeeps, StartKeeps, MainKeeps, CtrlCKeeps, StopModuleKeeps DEF Main
<1>4. CASE Crash(p)
  BY <1>4, CrashKeeps
<1>5. CASE \E st \in Streams : Stream(p, st)
  BY <1>5, QuietKeeps, OfferKeeps, DedupKeeps, ReceiveKeeps DEF Stream
<1> QED
  BY <1>1, <1>2, <1>3, <1>4, <1>5

-----------------------------------------------------------------------------
\* The invariant of Gateway, which the theorems below rest on.
THEOREM Invariance == Spec => []IInv
BY InitIInv, NextIInv, PTL DEF Spec

(* Every variable keeps its type.                                          *)
THEOREM TypeCorrect == Spec => []GwTypeOK
<1>1. IInv => GwTypeOK
  BY DEF IInv
<1> QED
  BY <1>1, Invariance, PTL

(* shm.rs:110-187, main.rs: whatever stops, fails or crashes, a name leads *)
(* to the last region that was made for it.                                *)
THEOREM NamesLeadToLast == Spec => []NamesServed
<1>1. IInv => NamesServed
  BY DEF IInv
<1> QED
  BY <1>1, Invariance, PTL

(* main.rs, pipeline.rs: a process starts its streams when all its stores  *)
(* are made, and all of them before it says that it runs.                  *)
THEOREM StartsWhole == Spec => []AllOrNothing
<1>1. IInv => AllOrNothing
  <2> SUFFICES ASSUME IInv, NEW p \in P \ crashed, NEW st \in Streams
               PROVE  /\ source[p][st] # "none" =>
                           Live(st) /\ \A c \in Cells : <<p, c>> \in ready
                      /\ pc[p] = "run" /\ Live(st) => source[p][st] # "none"
    BY DEF AllOrNothing
  <2>1. StreamOK(p, st) /\ Phase(p) /\ st[1] \in 1 .. Len(Md)
    BY StreamShape DEF IInv, StreamsOK, Life
  <2>2. \A c \in Cells : Store(p, c)
    BY DEF IInv, Stores
  <2> QED
    BY <2>1, <2>2 DEF StreamOK, Phase, Store
<1> QED
  BY <1>1, Invariance, PTL

(* pipeline.rs: what a worker was given is written before the process      *)
(* ends, unless it crashes.                                                *)
THEOREM QueuesAreDrained == Spec => []NothingLeftBehind
<1>1. IInv => NothingLeftBehind
  BY DEF IInv, NothingLeftBehind, StreamsOK, StreamOK
<1> QED
  BY <1>1, Invariance, PTL

\* What was in a region stays there, in its place.
Extended(s, t) == Len(t) >= Len(s) /\ SubSeq(t, 1, Len(s)) = s

LEMMA StaysExtended ==
  ASSUME NEW s \in Seq(Messages)
  PROVE  Extended(s, s) /\ \A e \in Messages : Extended(s, Append(s, e))
<1>1. Len(s) \in Nat /\ Len(s) <= Len(s)
  OBVIOUS
<1>2. SubSeq(s, 1, Len(s)) = s
  BY SubSeqFull
<1>3. ASSUME NEW e \in Messages PROVE Extended(s, Append(s, e))
  <2> DEFINE t == Append(s, e)
             u == SubSeq(t, 1, Len(s))
  <2>1. /\ Len(t) = Len(s) + 1 /\ t \in Seq(Messages)
        /\ \A i \in 1 .. Len(s) : t[i] = s[i]
    BY <1>1
  <2>2. u \in Seq(Messages) /\ Len(u) = Len(s) /\ \A i \in 1 .. Len(s) : u[i] = t[i]
    BY <1>1, <2>1
  <2> HIDE DEF t, u
  <2>3. u = s
    BY <2>1, <2>2, SeqEqual
  <2> QED
    BY <1>1, <2>1, <2>3 DEF Extended, t, u
<1> QED
  BY <1>1, <1>2, <1>3 DEF Extended

\* What a write does to a region.
LEMMA WriteExtends ==
  ASSUME IInv, NEW p \in P, NEW c \in Cells, NEW n \in 1 .. MaxMsgs, done[p] = Cells, Write(p, c, n),
         NEW r \in Regions
  PROVE  Extended(log[r], log'[r])
<1>1. log' = [log EXCEPT ![<<p, c>>] = Append(@, <<p, n>>)]
  BY WriteOwned
<1>2. log[r] \in Seq(Messages) /\ <<p, n>> \in Messages
  BY DEF IInv, GwTypeOK, Messages
<1>3. log'[r] = log[r] \/ log'[r] = Append(log[r], <<p, n>>)
  BY <1>1 DEF IInv, GwTypeOK
<1> QED
  BY <1>2, <1>3, StaysExtended

(* shm.rs:110-112: no region that may be mapped is initialised again, and  *)
(* none is written to by a process that did not make it.                   *)
THEOREM MappedStays == Spec => MappedNeverReset
<1>1. ASSUME IInv, Next, NEW r \in ready
      PROVE  r \in ready' /\ Extended(log[r], log'[r])
  <2> USE DEF procvars, shmvars, streamvars
  <2>1. r \in Regions /\ (log'[r] = log[r] => Extended(log[r], log'[r]))
    BY <1>1, StaysExtended DEF IInv, GwTypeOK, Messages
  <2>2. PICK p \in P : Main(p) \/ Crash(p) \/ \E st \in Streams : Stream(p, st)
    BY <1>1 DEF Next
  <2>3. CASE Main(p) /\ ~Creating(p)
    BY <1>1, <2>1, <2>3 DEF Main, Launch, Start, BindFails, AllStarted, CtrlC, StopModule, Return, Exited
  <2>4. CASE Creating(p)
    <3>1. CASE \E c \in Cells : Initialise(p, c)
      <4>1. PICK c \in Cells : Initialise(p, c)
        BY <3>1
      <4>2. map[p][c] = <<p, c>> /\ <<p, c>> \notin ready
        BY <1>1, <4>1 DEF Initialise, IsNext, IInv, Stores, Store
      <4> QED
        BY <1>1, <2>1, <4>1, <4>2 DEF Initialise, IInv, GwTypeOK
    <3>2. CASE ~\E c \in Cells : Initialise(p, c)
      BY <1>1, <2>1, <2>4, <3>2 DEF Creating, Unlink, Open, CreateFails, AllCreated
    <3> QED
      BY <3>1, <3>2
  <2>5. CASE Crash(p)
    BY <1>1, <2>1, <2>5 DEF Crash
  <2>6. ASSUME NEW st \in Streams, Stream(p, st)
        PROVE  r \in ready' /\ Extended(log[r], log'[r])
    <3>1. StreamOK(p, st)
      BY <1>1 DEF IInv, StreamsOK
    <3>2. CASE Dedup(p, st)
      <4>1. /\ ready' = ready /\ done[p] = Cells /\ Head(queue[p][st]) \in Cells \X (1 .. MaxMsgs)
            /\ Write(p, Head(queue[p][st])[1], Head(queue[p][st])[2])
        BY <1>1, <3>1, <3>2, HeadTailProperties DEF Dedup, StreamOK, IInv, GwTypeOK
      <4> QED
        BY <1>1, <2>1, <4>1, WriteExtends
    <3>3. CASE UdpReceive(p, st)
      <4>1. ready' = ready /\ done[p] = Cells /\ offered'[p][st] \in 1 .. MaxMsgs
        BY <1>1, <3>1, <3>3, ProcsAssumption DEF UdpReceive, StreamOK, IInv, GwTypeOK
      <4>2. PICK c \in Cells : Write(p, c, offered'[p][st])
        BY <3>3 DEF UdpReceive
      <4> QED
        BY <1>1, <2>1, <4>1, <4>2, WriteExtends
    <3>4. CASE ~Dedup(p, st) /\ ~UdpReceive(p, st)
      BY <1>1, <2>1, <2>6, <3>4 DEF Stream, SourceEnds, NeverRuns, WorkerBegins, Offer, WorkerEnds
    <3> QED
      BY <3>2, <3>3, <3>4
  <2> QED
    BY <2>2, <2>3, <2>4, <2>5, <2>6
<1>2. ASSUME IInv, IInv', Next, NEW r \in ready
      PROVE  /\ r \in ready' /\ Len(log'[r]) >= Len(log[r])
             /\ SubSeq(log'[r], 1, Len(log[r])) = log[r]
             /\ \A i \in 1 .. Len(log'[r]) : log'[r][i][1] = r[1]
  <2>1. r \in Regions
    BY <1>2 DEF IInv, GwTypeOK
  <2> QED
    BY <1>1, <1>2, <2>1 DEF IInv, Stores, Owned, Extended
<1>3. IInv /\ IInv' /\ [Next]_vars =>
        [\A r \in ready : /\ r \in ready'
                          /\ Len(log'[r]) >= Len(log[r])
                          /\ SubSeq(log'[r], 1, Len(log[r])) = log[r]
                          /\ \A i \in 1 .. Len(log'[r]) : log'[r][i][1] = r[1]]_vars
  BY <1>2
<1> QED
  BY <1>3, Invariance, PTL DEF Spec, MappedNeverReset

===============================================================================
