---------------------------- MODULE LatestRecord ----------------------------
(***************************************************************************)
(* What a per-symbol store of the latest record promises its readers, with *)
(* no ring and no memory words.  A record is identified by its position in *)
(* the sequence of writes for its symbol.  A read is two steps: it begins  *)
(* on the record published last and ends with exactly that record, however *)
(* many are published meanwhile ("concurrent readers always see a          *)
(* consistent snapshot").                                                  *)
(***************************************************************************)
EXTENDS Integers

CONSTANTS Readers,    \* threads or processes that call read_latest
          Symbols,    \* instruments the store was created for
          Unknown     \* instruments it was not created for

VARIABLES published,  \* published[s]: position of the newest record, -1 if none
          reading     \* reading[r]: the read r is in, or the last one it made

absvars == <<published, reading>>

NoRecord == -1

AbsInit ==
  /\ published = [s \in Symbols |-> NoRecord]
  /\ reading \in [Readers -> [busy : {FALSE}, sym : Symbols \cup Unknown,
                              from : {NoRecord}, out : {NoRecord}]]

Publish(s) ==
  /\ published' = [published EXCEPT ![s] = @ + 1]
  /\ UNCHANGED reading

\* A read of a symbol with no record, or of an unknown one, ends at once.
ReadNone(r, s) ==
  /\ ~reading[r].busy
  /\ s \in Symbols => published[s] = NoRecord
  /\ reading' = [reading EXCEPT ![r] = [busy |-> FALSE, sym |-> s,
                                        from |-> NoRecord, out |-> NoRecord]]
  /\ UNCHANGED published

BeginRead(r, s) ==
  /\ ~reading[r].busy
  /\ published[s] # NoRecord
  /\ reading' = [reading EXCEPT ![r] = [busy |-> TRUE, sym |-> s,
                                        from |-> published[s], out |-> NoRecord]]
  /\ UNCHANGED published

EndRead(r) ==
  /\ reading[r].busy
  /\ reading' = [reading EXCEPT ![r] = [@ EXCEPT !.busy = FALSE, !.out = reading[r].from]]
  /\ UNCHANGED published

AbsNext ==
  \/ \E s \in Symbols : Publish(s)
  \/ \E r \in Readers : \/ \E s \in Symbols \cup Unknown : ReadNone(r, s)
                        \/ \E s \in Symbols : BeginRead(r, s)
                        \/ EndRead(r)

AbsSpec == AbsInit /\ [][AbsNext]_absvars

=============================================================================
