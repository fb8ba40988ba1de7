------------------------------ MODULE Redundant ------------------------------
(***************************************************************************)
(* RedundantWsClient (k4-core/src/ws/redundant.rs) and its                 *)
(* LatencyCollector (k4-core/src/latency.rs): a fixed number of            *)
(* connections with the same subscription, a histogram of latencies for    *)
(* each place among them, and an evaluation that replaces the slowest.     *)
(* The life of one connection is module WsConnection; here it is a task    *)
(* that runs until it is told to stop, and for a while after.              *)
(*                                                                         *)
(* Nothing in the repository uses the client: its user is external, and    *)
(* records any latency at any index.  A sample names no connection: one    *)
(* that comes late counts for the replacement, or for the next start.      *)
(***************************************************************************)
EXTENDS Naturals, Sequences, FiniteSets, SequencesExt, FiniteSetsExt

CONSTANTS ConnCount,   \* config.conn_count
          BinWidth,    \* BIN_WIDTH_US
          NumBins,     \* NUM_BINS
          Latencies,   \* the latencies that occur
          MaxIds,      \* bound: connections made
          MaxSamples   \* bound: samples recorded

ASSUME RedundantAssumption ==
  /\ ConnCount \in Nat /\ BinWidth \in Nat \ {0} /\ NumBins \in Nat \ {0}
  /\ MaxIds \in Nat /\ MaxSamples \in Nat

\* Latencies are u64 numbers: one of those that occur is the greatest.
ASSUME LatenciesAssumption ==
  /\ Latencies \subseteq Nat
  /\ \E m \in Latencies : \A us \in Latencies : m >= us

VARIABLES
  conns,       \* self.connections: their ids, by index
  collectors,  \* self.latency_collectors, by index
  nextId,      \* self.next_conn_id
  tasks,       \* ids of the connections whose task runs
  told,        \* ids of the connections that were told to stop
  op,          \* the call that awaits the end of a task, [name, idx], or NoOp
  recorded,    \* samples recorded so far
  window       \* history: by index, the samples its collector should hold

samplevars == <<collectors, recorded, window>>
rdvars == <<conns, nextId, tasks, told, op, samplevars>>

Indices == 1 .. ConnCount
NoOp == [name |-> "none", idx |-> 0]

-----------------------------------------------------------------------------
(* LatencyCollector.                                                       *)

Bins == 0 .. NumBins - 1
Bin(us) == IF us \div BinWidth < NumBins THEN us \div BinWidth ELSE NumBins - 1

\* u64::MAX, above every latency.
Highest == Max(Latencies) + 1

NewCollector == [bins |-> [b \in Bins |-> 0], count |-> 0, sum |-> 0, min |-> Highest, max |-> 0]

RecordIn(c, us) ==
  [bins  |-> [c.bins EXCEPT ![Bin(us)] = @ + 1],
   count |-> c.count + 1,
   sum   |-> c.sum + us,
   min   |-> Min({c.min, us}),
   max   |-> Max({c.max, us})]

\* percentile(num / den): the first bin up to which ceil(count * pct) samples
\* lie.  The products stay far below 2^53, where the code's floats are exact
\* enough for the ceiling and for the comparison of averages.
Percentile(c, num, den) ==
  LET rank    == (c.count * num + den - 1) \div den
      reached == {b \in Bins : MapThenSumSet(LAMBDA i : c.bins[i], 0 .. b) >= rank}
  IN  IF reached = {} THEN c.max ELSE Min(reached) * BinWidth

\* stats(): nothing for a collector without samples.
Slower(c, d) == c.sum * d.count > d.sum * c.count

-----------------------------------------------------------------------------
RdTypeOK ==
  /\ conns \in Seq(0 .. MaxIds - 1)
  /\ collectors \in [Indices -> [bins : [Bins -> Nat], count : Nat, sum : Nat,
                                 min : Latencies \cup {Highest}, max : Latencies \cup {0}]]
  /\ nextId \in 0 .. MaxIds
  /\ tasks \subseteq 0 .. MaxIds - 1 /\ told \subseteq 0 .. MaxIds - 1
  /\ op \in [name : {"none", "evaluate", "stop"}, idx : 0 .. ConnCount]
  /\ recorded \in 0 .. MaxSamples
  /\ window \in [Indices -> Seq(Latencies)]

RdInit ==
  /\ conns = <<>> /\ collectors = [i \in Indices |-> NewCollector] /\ nextId = 0
  /\ tasks = {} /\ told = {} /\ op = NoOp /\ recorded = 0
  /\ window = [i \in Indices |-> <<>>]

\* add_and_start_connection, conn_count times.  A user starts a client that
\* has no connections: a new one, or one that was stopped.
Start ==
  /\ op = NoOp /\ conns = <<>> /\ nextId + ConnCount <= MaxIds
  /\ conns' = [i \in Indices |-> nextId + i - 1]
  /\ nextId' = nextId + ConnCount
  /\ tasks' = tasks \cup ToSet(conns')
  /\ UNCHANGED <<told, op, samplevars>>

\* At an index that no collector has it does nothing.  Like every call it has the
\* client to itself (&mut self), so not while another awaits the end of a task.
RecordLatency(i, us) ==
  /\ op = NoOp /\ recorded < MaxSamples
  /\ recorded' = recorded + 1
  /\ collectors' = [collectors EXCEPT ![i] = RecordIn(@, us)]
  /\ window' = [window EXCEPT ![i] = Append(@, us)]
  /\ UNCHANGED <<conns, nextId, op, tasks, told>>

\* Variant: the totals are compared.
Worst_Total ==
  {i \in Indices : /\ collectors[i].sum > 0
                   /\ \A j \in Indices : collectors[j].sum <= collectors[i].sum
                   /\ \A j \in 1 .. i - 1 : collectors[j].sum < collectors[i].sum}

\* The first index with the highest average above 0.0, if there is one.
Worst ==
  {i \in Indices : /\ collectors[i].sum > 0
                   /\ \A j \in Indices : ~Slower(collectors[j], collectors[i])
                   /\ \A j \in 1 .. i - 1 :
                        collectors[j].count > 0 => Slower(collectors[i], collectors[j])}

\* evaluate_and_reset up to the await of the worst connection's end.  With at
\* most one connection it returns at once.  It looks at neither reset_on_hb nor
\* reset_threshold: whoever calls it has the slowest replaced.
Evaluate(i) ==
  /\ op = NoOp /\ Len(conns) > 1 /\ i \in Worst
  /\ op' = [name |-> "evaluate", idx |-> i]
  /\ told' = told \cup {conns[i]}
  /\ UNCHANGED <<conns, nextId, tasks, samplevars>>

\* ... and when none is worst.
EvaluateNone ==
  /\ op = NoOp /\ Len(conns) > 1 /\ Worst = {}
  /\ collectors' = [i \in Indices |-> NewCollector]
  /\ window' = [i \in Indices |-> <<>>]
  /\ UNCHANGED <<conns, nextId, op, tasks, told, recorded>>

\* Variant: the replacement goes on with the old collector.
Replace_KeepSamples ==
  /\ op.name = "evaluate" /\ conns[op.idx] \notin tasks /\ nextId < MaxIds
  /\ window' = [window EXCEPT ![op.idx] = <<>>]
  /\ conns' = [conns EXCEPT ![op.idx] = nextId]
  /\ tasks' = tasks \cup {nextId} /\ nextId' = nextId + 1
  /\ op' = NoOp
  /\ UNCHANGED <<collectors, told, recorded>>

\* Variant: the end of the old connection is not awaited.
Replace_NoWait ==
  /\ op.name = "evaluate" /\ nextId < MaxIds
  /\ collectors' = [collectors EXCEPT ![op.idx] = NewCollector]
  /\ window' = [window EXCEPT ![op.idx] = <<>>]
  /\ conns' = [conns EXCEPT ![op.idx] = nextId]
  /\ tasks' = tasks \cup {nextId} /\ nextId' = nextId + 1
  /\ op' = NoOp
  /\ UNCHANGED <<told, recorded>>

\* The rest of evaluate_and_reset: a new connection in the old one's place.
Replace ==
  /\ op.name = "evaluate" /\ conns[op.idx] \notin tasks /\ nextId < MaxIds
  /\ collectors' = [collectors EXCEPT ![op.idx] = NewCollector]
  /\ window' = [window EXCEPT ![op.idx] = <<>>]
  /\ conns' = [conns EXCEPT ![op.idx] = nextId]
  /\ tasks' = tasks \cup {nextId} /\ nextId' = nextId + 1
  /\ op' = NoOp
  /\ UNCHANGED <<told, recorded>>

\* stop: one connection after the other is told to stop and awaited.
Stop ==
  /\ op = NoOp /\ conns # <<>>
  /\ op' = [name |-> "stop", idx |-> 1] /\ told' = told \cup {conns[1]}
  /\ UNCHANGED <<conns, nextId, tasks, samplevars>>

StopNext ==
  /\ op.name = "stop" /\ conns[op.idx] \notin tasks /\ op.idx < Len(conns)
  /\ op' = [op EXCEPT !.idx = @ + 1] /\ told' = told \cup {conns[op.idx + 1]}
  /\ UNCHANGED <<conns, nextId, tasks, samplevars>>

\* connections.clear(); the collectors stay as they are.
Stopped ==
  /\ op.name = "stop" /\ conns[op.idx] \notin tasks /\ op.idx = Len(conns)
  /\ op' = NoOp /\ conns' = <<>>
  /\ UNCHANGED <<nextId, tasks, told, samplevars>>

\* WsConnection: a task that was told to stop ends.
TaskEnds(id) ==
  /\ id \in tasks \cap told
  /\ tasks' = tasks \ {id}
  /\ UNCHANGED <<conns, nextId, op, told, samplevars>>

RdNext == \/ Start \/ EvaluateNone \/ Replace \/ Stop \/ StopNext \/ Stopped
          \/ \E i \in Indices : Evaluate(i) \/ \E us \in Latencies : RecordLatency(i, us)
          \/ \E id \in tasks : TaskEnds(id)

RdSpec == RdInit /\ [][RdNext]_rdvars

-----------------------------------------------------------------------------
Total(w) == FoldLeft(LAMBDA t, us : t + us, 0, w)

(* redundant.rs:98-125: between calls the tasks that run are those of the  *)
(* connections the client holds; a replaced one has ended before its       *)
(* replacement starts, and no id is used twice, so the callback never      *)
(* hears more connections than were asked for, nor any after stop.         *)
OneTaskPerPlace ==
  /\ tasks \subseteq ToSet(conns) /\ IsInjective(conns)
  /\ \A i \in DOMAIN conns : conns[i] < nextId
  /\ op = NoOp => tasks = ToSet(conns) /\ Len(conns) \in {0, ConnCount}

(* redundant.rs:80-126, "the connection with the highest average latency   *)
(* is terminated and replaced": judged by all that was recorded at its     *)
(* place, which for another place may go back over earlier evaluations;    *)
(* the samples of a connection that stays are thrown away only if nothing  *)
(* above zero was recorded anywhere.                                       *)
SlowestReplaced ==
  [][\A i \in Indices :
       /\ i \in DOMAIN conns /\ i \in DOMAIN conns' /\ conns'[i] # conns[i] =>
            /\ Total(window[i]) > 0
            /\ \A j \in Indices :
                 Total(window[j]) * Len(window[i]) <= Total(window[i]) * Len(window[j])
       /\ i \in DOMAIN conns /\ conns' = conns /\ collectors'[i].count < collectors[i].count =>
            \A j \in Indices : Total(window[j]) = 0]_rdvars

(* latency.rs: a collector stands for the samples recorded at its place    *)
(* since it was last reset: their number, sum and extremes, and at 50, 90  *)
(* and 99 percent the sample of that rank, down to the width of a bin.     *)
(* A replacement starts with none; a client that is started again goes on  *)
(* with those of its last life.                                            *)
RankAt(w, num, den) == (Len(w) * num + den - 1) \div den
OfRank(w, k) == Min({us \in ToSet(w) : Cardinality({j \in DOMAIN w : w[j] <= us}) >= k})
WindowSummarised ==
  \A i \in Indices :
    LET c == collectors[i]
        w == window[i]
    IN  /\ c.count = Len(w) /\ c.sum = Total(w)
        /\ w # <<>> =>
             /\ c.min = Min(ToSet(w)) /\ c.max = Max(ToSet(w))
             /\ \A p \in {<<1, 2>>, <<9, 10>>, <<99, 100>>} :
                  Percentile(c, p[1], p[2]) = Bin(OfRank(w, RankAt(w, p[1], p[2]))) * BinWidth

=============================================================================
