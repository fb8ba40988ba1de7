-------------------------------- MODULE Gateway -------------------------------
(***************************************************************************)
(* The life of the runner (k4-runner/src/main.rs) and of its modules       *)
(* (GenericMd, k4-md/src/pipeline.rs; UdpMd, k4-md/src/udp/mod.rs) over    *)
(* the shared-memory directory, which outlives them: a process creates a   *)
(* region per configured store, starts its streams, is told to stop or     *)
(* crashes, and another process takes over its names, perhaps while the    *)
(* first is still draining.                                                *)
(*                                                                         *)
(* A region is an inode: unlinking its name leaves it to those who have it *)
(* mapped.  What happens inside a stream is module MdStream; here a stream *)
(* is a source (connection task and callback), a queue and a worker.       *)
(***************************************************************************)
EXTENDS Naturals, Sequences

CONSTANTS Procs,    \* the runner processes are 1 .. Procs, started in this order
          Names,    \* names in /dev/shm
          Config,   \* AppConfig.connections: [exchange, streams], a stream being
                    \* [names |-> its configured stores in order, symbols |-> has any]
          MaxMsgs   \* bound: messages one source gets in one process's life

ASSUME ProcsAssumption == Procs \in Nat /\ MaxMsgs \in Nat
ASSUME ConfigAssumption ==
  /\ Config \in Seq([exchange : {"ws", "udp", "unknown"},
                     streams : Seq([names : Seq(Names), symbols : BOOLEAN])])

\* registry::create_md_module: a connection it refuses is logged and skipped.
Md == SelectSeq(Config, LAMBDA conn : conn.exchange # "unknown")

Streams == UNION {{<<m, s>> : s \in 1 .. Len(Md[m].streams)} : m \in 1 .. Len(Md)}
StreamDef(st) == Md[st[1]].streams[st[2]]
IsUdp(st) == Md[st[1]].exchange = "udp"
Live(st) == StreamDef(st).symbols

\* The stores that init_shm creates, and the order it creates them in.
Cells == UNION {{<<st[1], st[2], k>> : k \in 1 .. Len(StreamDef(st).names)} :
                  st \in {s \in Streams : Live(s)}}
StreamOf(c) == <<c[1], c[2]>>
NameOf(c) == StreamDef(StreamOf(c)).names[c[3]]
Before(c, d) == \/ c[1] < d[1]
                \/ c[1] = d[1] /\ c[2] < d[2]
                \/ c[1] = d[1] /\ c[2] = d[2] /\ c[3] < d[3]

\* Nothing in the code keeps two stores from having one name; a configuration
\* that gives them one has the second unlink the first.
ASSUME NamesAssumption == \A c, d \in Cells : NameOf(c) \in Names /\ (NameOf(c) = NameOf(d) => c = d)

\* A region is named by the process and the store it was created for.
Regions == (1 .. Procs) \X Cells
None == <<>>

VARIABLES
  pc,      \* per process: "off", "init", "start", "run", "stop", "exit", "gone"
  done,    \* per process, the cells created so far
  create,  \* per process: "none", or how far ShmMdStore::create is with the next cell
  at,      \* per process, modules started, or stopped, so far
  map,     \* per process and cell, the region it writes to
  dir,     \* per name, the region it denotes
  ready,   \* regions that are initialised
  log,     \* per region, the messages written to it
  source,  \* per process and stream: "none", "on", "ending", "off"
  worker,  \* per process and stream: "none", "queued", "on", "off"
  queue,   \* per process and stream, what the channel holds: <<cell, number>>
  offered, \* per process and stream, messages got so far
  begun,   \* history: the <<process, stream>> whose worker has run
  crashed  \* history: processes that were killed

procvars == <<pc, done, create, at, crashed>>
shmvars == <<map, dir, ready, log>>
streamvars == <<source, worker, queue, offered, begun>>
vars == <<pc, done, create, at, map, dir, ready, log, source, worker, queue, offered, begun, crashed>>

Phases == {"off", "init", "start", "run", "stop", "exit", "gone"}
P == 1 .. Procs

GwTypeOK ==
  /\ pc \in [P -> Phases]
  /\ done \in [P -> SUBSET Cells]
  /\ create \in [P -> {"none", "unlinked", "opened"}]
  /\ at \in [P -> 0 .. Len(Md)]
  /\ map \in [P -> [Cells -> Regions \cup {None}]]
  /\ dir \in [Names -> Regions \cup {None}]
  /\ ready \subseteq Regions
  /\ log \in [Regions -> Seq(P \X (1 .. MaxMsgs))]
  /\ source \in [P -> [Streams -> {"none", "on", "ending", "off"}]]
  /\ worker \in [P -> [Streams -> {"none", "queued", "on", "off"}]]
  /\ queue \in [P -> [Streams -> Seq(Cells \X (1 .. MaxMsgs))]]
  /\ offered \in [P -> [Streams -> 0 .. MaxMsgs]]
  /\ begun \subseteq P \X Streams
  /\ crashed \subseteq P

Init ==
  /\ pc = [p \in P |-> "off"] /\ done = [p \in P |-> {}]
  /\ create = [p \in P |-> "none"] /\ at = [p \in P |-> 0]
  /\ map = [p \in P |-> [c \in Cells |-> None]]
  /\ dir = [n \in Names |-> None] /\ ready = {}
  /\ log = [r \in Regions |-> <<>>]
  /\ source = [p \in P |-> [st \in Streams |-> "none"]]
  /\ worker = [p \in P |-> [st \in Streams |-> "none"]]
  /\ queue = [p \in P |-> [st \in Streams |-> <<>>]]
  /\ offered = [p \in P |-> [st \in Streams |-> 0]]
  /\ begun = {} /\ crashed = {}

Goto(p, l) == pc' = [pc EXCEPT ![p] = l]

-----------------------------------------------------------------------------
(* main: create the modules, init_shm of each, start of each.              *)

\* A process is started when the one before it has been told to stop, or has
\* died; nothing makes it wait until that one is gone.
Launch(p) ==
  /\ pc[p] = "off"
  /\ p > 1 => pc[p-1] \in {"stop", "exit", "gone"}
  /\ Goto(p, "init")
  /\ UNCHANGED <<done, create, at, crashed, shmvars, streamvars>>

IsNext(p, c) == /\ c \in Cells \ done[p]
                /\ \A d \in Cells \ done[p] : d = c \/ Before(c, d)

\* Variant: the old region is opened and used again.
Unlink_Keep(p, c) ==
  /\ pc[p] = "init" /\ create[p] = "none" /\ IsNext(p, c)
  /\ create' = [create EXCEPT ![p] = "unlinked"]
  /\ UNCHANGED <<pc, done, at, crashed, shmvars, streamvars>>

\* ShmMdStore::create removes the stale name first.
Unlink(p, c) ==
  /\ pc[p] = "init" /\ create[p] = "none" /\ IsNext(p, c)
  /\ create' = [create EXCEPT ![p] = "unlinked"]
  /\ dir' = [dir EXCEPT ![NameOf(c)] = None]
  /\ UNCHANGED <<pc, done, at, crashed, map, ready, log, streamvars>>

\* shm_open without O_EXCL takes a region that is there; a new one is sized
\* and reads as zeros.
Open(p, c) ==
  /\ create[p] = "unlinked" /\ IsNext(p, c)
  /\ create' = [create EXCEPT ![p] = "opened"]
  /\ LET r == IF dir[NameOf(c)] = None THEN <<p, c>> ELSE dir[NameOf(c)]
     IN  dir' = [dir EXCEPT ![NameOf(c)] = r] /\ map' = [map EXCEPT ![p][c] = r]
  /\ UNCHANGED <<pc, done, at, crashed, ready, log, streamvars>>

\* The memory is zeroed, and the headers with index -1 are written.
Initialise(p, c) ==
  /\ create[p] = "opened" /\ IsNext(p, c)
  /\ create' = [create EXCEPT ![p] = "none"]
  /\ done' = [done EXCEPT ![p] = @ \cup {c}]
  /\ ready' = ready \cup {map[p][c]}
  /\ log' = [log EXCEPT ![map[p][c]] = <<>>]
  /\ UNCHANGED <<pc, at, crashed, map, dir, streamvars>>

\* Variant: a module whose init_shm fails is logged and left, as in the loop
\* that creates the modules.
CreateFails_Skip(p, c) ==
  /\ create[p] \in {"unlinked", "opened"} /\ IsNext(p, c)
  /\ create' = [create EXCEPT ![p] = "none"]
  /\ done' = [done EXCEPT ![p] = @ \cup {c}]
  /\ UNCHANGED <<pc, at, crashed, shmvars, streamvars>>

\* shm_open fails, or ftruncate or mmap after it has made the name: main
\* returns the error and no module is started.
CreateFails(p, c) ==
  /\ create[p] \in {"unlinked", "opened"} /\ IsNext(p, c)
  /\ create' = [create EXCEPT ![p] = "none"]
  /\ map' = [map EXCEPT ![p][c] = None]
  /\ Goto(p, "exit")
  /\ UNCHANGED <<done, at, crashed, dir, ready, log, streamvars>>

AllCreated(p) ==
  /\ pc[p] = "init" /\ done[p] = Cells
  /\ Goto(p, "start")
  /\ UNCHANGED <<done, create, at, crashed, shmvars, streamvars>>

\* The live streams of module m get a source, and a worker unless it is the
\* UDP module, whose receiver writes by itself.
Started(p, m) == {st \in Streams : st[1] = m /\ Live(st)}

\* UdpReceiver::bind needs the address that another process may still hold.
AddressFree(m) ==
  Md[m].exchange = "udp" =>
    \A q \in P, st \in Streams : IsUdp(st) => source[q][st] \notin {"on", "ending"}

Start(p) ==
  LET m == at[p] + 1 IN
  /\ pc[p] = "start" /\ m <= Len(Md) /\ AddressFree(m)
  /\ at' = [at EXCEPT ![p] = m]
  /\ source' = [source EXCEPT ![p] =
       [st \in Streams |-> IF st \in Started(p, m) THEN "on" ELSE @[st]]]
  /\ worker' = [worker EXCEPT ![p] =
       [st \in Streams |-> IF st \in Started(p, m) /\ ~IsUdp(st) THEN "queued" ELSE @[st]]]
  /\ UNCHANGED <<pc, done, create, crashed, shmvars, queue, offered, begun>>

BindFails(p) ==
  /\ pc[p] = "start" /\ at[p] < Len(Md) /\ Md[at[p] + 1].exchange = "udp"
  /\ Goto(p, "exit")
  /\ UNCHANGED <<done, create, at, crashed, shmvars, streamvars>>

AllStarted(p) ==
  /\ pc[p] = "start" /\ at[p] = Len(Md)
  /\ Goto(p, "run")
  /\ UNCHANGED <<done, create, at, crashed, shmvars, streamvars>>

-----------------------------------------------------------------------------
(* Ctrl-C, stop of each module, and the end of main.                       *)

CtrlC(p) ==
  /\ pc[p] = "run"
  /\ Goto(p, "stop") /\ at' = [at EXCEPT ![p] = 0]
  /\ UNCHANGED <<done, create, crashed, shmvars, streamvars>>

\* Variant: the abort takes a worker that runs.
Aborted_Running(p, st) == "off"

\* abort() cancels a blocking task that waits for its thread; one that runs
\* does not notice.
Aborted(p, st) == IF worker[p][st] = "queued" THEN "off" ELSE worker[p][st]

\* Variant: stop waits for the tasks and does not abort them.
StopModule_Awaits(p) ==
  LET m == at[p] + 1 IN
  /\ pc[p] = "stop" /\ m <= Len(Md)
  /\ \A st \in Streams : st[1] = m => source[p][st] \in {"none", "off"}
  /\ at' = [at EXCEPT ![p] = m]
  /\ UNCHANGED <<pc, done, create, crashed, shmvars, streamvars>>

\* The connection behind an aborted source ends at its next await.
StopModule(p) ==
  LET m == at[p] + 1 IN
  /\ pc[p] = "stop" /\ m <= Len(Md)
  /\ at' = [at EXCEPT ![p] = m]
  /\ source' = [source EXCEPT ![p] =
       [st \in Streams |-> IF st[1] = m /\ @[st] = "on" THEN "ending" ELSE @[st]]]
  /\ worker' = [worker EXCEPT ![p] =
       [st \in Streams |-> IF st[1] = m THEN Aborted(p, st) ELSE @[st]]]
  /\ UNCHANGED <<pc, done, create, crashed, shmvars, queue, offered, begun>>

\* main returns and the runtime shuts down: tasks are dropped at their next
\* await, blocking tasks that have not begun are not run.
Return(p) ==
  /\ pc[p] = "stop" /\ at[p] = Len(Md)
  /\ Goto(p, "exit")
  /\ UNCHANGED <<done, create, at, crashed, shmvars, streamvars>>

SourceEnds(p, st) ==
  /\ source[p][st] = "ending" \/ (source[p][st] = "on" /\ pc[p] = "exit")
  /\ source' = [source EXCEPT ![p][st] = "off"]
  /\ UNCHANGED <<procvars, shmvars, worker, queue, offered, begun>>

NeverRuns(p, st) ==
  /\ worker[p][st] = "queued" /\ pc[p] = "exit"
  /\ worker' = [worker EXCEPT ![p][st] = "off"]
  /\ UNCHANGED <<procvars, shmvars, source, queue, offered, begun>>

\* Variant: the regions' names go with the process.
Exited_Unlinks(p) ==
  /\ pc[p] = "exit"
  /\ \A st \in Streams : source[p][st] \in {"none", "off"} /\ worker[p][st] \in {"none", "off"}
  /\ Goto(p, "gone")
  /\ dir' = [n \in Names |-> IF \E c \in Cells : NameOf(c) = n THEN None ELSE dir[n]]
  /\ UNCHANGED <<done, create, at, crashed, map, ready, log, streamvars>>

\* The runtime waits for the workers that run.  Dropping a store unmaps it and
\* leaves its name.
Exited(p) ==
  /\ pc[p] = "exit"
  /\ \A st \in Streams : source[p][st] \in {"none", "off"} /\ worker[p][st] \in {"none", "off"}
  /\ Goto(p, "gone")
  /\ UNCHANGED <<done, create, at, crashed, shmvars, streamvars>>

Crash(p) ==
  /\ pc[p] \notin {"off", "gone"}
  /\ Goto(p, "gone") /\ crashed' = crashed \cup {p}
  /\ create' = [create EXCEPT ![p] = "none"]
  /\ source' = [source EXCEPT ![p] = [st \in Streams |-> "off"]]
  /\ worker' = [worker EXCEPT ![p] = [st \in Streams |-> "off"]]
  /\ queue' = [queue EXCEPT ![p] = [st \in Streams |-> <<>>]]
  /\ UNCHANGED <<done, at, shmvars, offered, begun>>

-----------------------------------------------------------------------------
(* The streams.                                                            *)

WorkerBegins(p, st) ==
  /\ worker[p][st] = "queued" /\ pc[p] # "exit"
  /\ worker' = [worker EXCEPT ![p][st] = "on"]
  /\ begun' = begun \cup {<<p, st>>}
  /\ UNCHANGED <<procvars, shmvars, source, queue, offered>>

\* The callback offers a message for one of the stream's stores; once the
\* receiver is gone try_send fails and the message is dropped.
Offer(p, st) ==
  /\ source[p][st] \in {"on", "ending"} /\ ~IsUdp(st)
  /\ offered[p][st] < MaxMsgs
  /\ offered' = [offered EXCEPT ![p][st] = @ + 1]
  /\ \E c \in {d \in Cells : StreamOf(d) = st} :
       queue' = IF worker[p][st] = "off" THEN queue
                ELSE [queue EXCEPT ![p][st] = Append(@, <<c, offered'[p][st]>>)]
  /\ UNCHANGED <<procvars, shmvars, source, worker, begun>>

Write(p, c, n) == log' = [log EXCEPT ![map[p][c]] = Append(@, <<p, n>>)]

Dedup(p, st) ==
  /\ worker[p][st] = "on" /\ queue[p][st] # <<>>
  /\ queue' = [queue EXCEPT ![p][st] = Tail(@)]
  /\ Write(p, Head(queue[p][st])[1], Head(queue[p][st])[2])
  /\ UNCHANGED <<procvars, map, dir, ready, source, worker, offered, begun>>

\* The channel is empty and the last sender is gone.
WorkerEnds(p, st) ==
  /\ worker[p][st] = "on" /\ queue[p][st] = <<>> /\ source[p][st] = "off"
  /\ worker' = [worker EXCEPT ![p][st] = "off"]
  /\ UNCHANGED <<procvars, shmvars, source, queue, offered, begun>>

UdpReceive(p, st) ==
  /\ source[p][st] \in {"on", "ending"} /\ IsUdp(st)
  /\ offered[p][st] < MaxMsgs
  /\ offered' = [offered EXCEPT ![p][st] = @ + 1]
  /\ \E c \in {d \in Cells : StreamOf(d) = st} : Write(p, c, offered'[p][st])
  /\ UNCHANGED <<procvars, map, dir, ready, source, worker, queue, begun>>

-----------------------------------------------------------------------------
Creating(p) == \/ \E c \in Cells : Unlink(p, c) \/ Open(p, c) \/ Initialise(p, c) \/ CreateFails(p, c)
               \/ AllCreated(p)
Main(p) == \/ Launch(p) \/ Creating(p) \/ Start(p) \/ BindFails(p) \/ AllStarted(p)
           \/ CtrlC(p) \/ StopModule(p) \/ Return(p) \/ Exited(p)
Stream(p, st) == \/ SourceEnds(p, st) \/ NeverRuns(p, st) \/ WorkerBegins(p, st) \/ Offer(p, st)
                 \/ Dedup(p, st) \/ WorkerEnds(p, st) \/ UdpReceive(p, st)

Next == \E p \in P : Main(p) \/ Crash(p) \/ \E st \in Streams : Stream(p, st)

Spec == Init /\ [][Next]_vars

\* main and the workers run on; the runtime drops the tasks of a process that
\* exits.  Nothing is assumed of the sources or of a process that is not told
\* to stop.
Fairness == \A p \in P :
  /\ WF_vars(StopModule(p) \/ Return(p)) /\ WF_vars(Exited(p))
  /\ \A st \in Streams : /\ WF_vars(pc[p] = "exit" /\ SourceEnds(p, st))
                         /\ WF_vars(NeverRuns(p, st))
                         /\ WF_vars(Dedup(p, st)) /\ WF_vars(WorkerEnds(p, st))

FairSpec == Spec /\ Fairness

-----------------------------------------------------------------------------
(* shm.rs:110-112 and 276: a region that somebody may have mapped is never *)
(* initialised again or cut: a reader of an old region keeps what it has,  *)
(* and a process that still drains cannot write into its successor's.      *)
MappedNeverReset ==
  [][\A r \in ready : /\ r \in ready'
                      /\ Len(log'[r]) >= Len(log[r])
                      /\ SubSeq(log'[r], 1, Len(log[r])) = log[r]
                      /\ \A i \in 1 .. Len(log'[r]) : log'[r][i][1] = r[1]]_vars

(* A name denotes the region of the process that last created it, complete *)
(* and with all that process wrote, after a stop, a failure elsewhere or a *)
(* crash too ("the SHM persists for readers"); only the store a process is *)
(* creating, or could not create, has no such region.                      *)
LastCreator(c, p) == c \in done[p] /\ \A q \in P : q > p => c \notin done[q]
Touched(c, q) == IsNext(q, c) /\ pc[q] # "off"
NamesServed ==
  \A p \in P, c \in Cells :
    LastCreator(c, p) /\ (\A q \in P : q > p => ~Touched(c, q)) =>
      dir[NameOf(c)] = <<p, c>> /\ <<p, c>> \in ready

(* No stream runs before every store of every module is there, and once    *)
(* main says that all have started, every stream with symbols has: a store *)
(* that cannot be made, or a connection that cannot, stops all or nothing. *)
AllOrNothing ==
  \A p \in P \ crashed :
    /\ \A st \in Streams : source[p][st] # "none" =>
         Live(st) /\ \A c \in Cells : <<p, c>> \in ready
    /\ pc[p] = "run" => \A st \in Streams : Live(st) => source[p][st] # "none"

(* A process that ends without a crash has written all that a worker of it *)
(* was given.                                                              *)
NothingLeftBehind ==
  \A p \in P \ crashed, st \in Streams :
    pc[p] = "gone" /\ <<p, st>> \in begun => queue[p][st] = <<>>

(* After Ctrl-C the process ends: main does not wait for the sources, they *)
(* end with the runtime, and the workers end because the sources did.      *)
StopEnds == \A p \in P : pc[p] = "stop" ~> pc[p] = "gone"

===============================================================================
