------------------------------ MODULE ShmRing -------------------------------
(***************************************************************************)
(* ShmMdStore (k4-core/src/shm.rs): for every symbol an atomic             *)
(* current_index and a ring of Size records.  One dedup thread writes; any *)
(* number of readers copy the newest record out.  The index is accessed    *)
(* with Release/Acquire ordering, the record itself by plain memory copies *)
(* (ptr::write, ptr::read) which the model splits into memory words, in an *)
(* order the compiler chooses.  A word holds the position, in the sequence *)
(* of writes for that symbol, of the record it came from.                  *)
(***************************************************************************)
EXTENDS Integers

CONSTANTS Readers,    \* callers of read_latest
          Symbols,    \* instruments given to create()
          Unknown,    \* instruments asked for that create() was not given
          Words,      \* the machine words one record T is copied in
          Size,       \* buffer_size
          MaxIndex,   \* bound of the model: records written per symbol
          Garbage     \* a read whose words are not one record

ASSUME SizeAssumption == Size \in Nat \ {0}
ASSUME MaxIndexAssumption == MaxIndex \in Nat
ASSUME WordsAssumption == Words # {}
ASSUME SymbolAssumption == Symbols \cap Unknown = {}
ASSUME GarbageAssumption == Garbage \notin Int

VARIABLES current_index,  \* per symbol, the AtomicI64 of its InstrumentHeader
          slots,          \* per symbol and slot, the words in memory
          writer,         \* the write() call in progress, if any
          reader          \* per reader, its last or current read_latest() call

vars == <<current_index, slots, writer, reader>>

Zero == -2       \* a word nothing was written to since write_bytes(base, 0)
NoRecord == -1   \* current_index before the first write; also a None result

Index == -1 .. MaxIndex
Stored == {Zero} \cup (0 .. MaxIndex)

\* The slot of the record with index i.
Slot(i) == i % Size

TypeOK ==
  /\ current_index \in [Symbols -> Index]
  /\ slots \in [Symbols -> [0 .. Size - 1 -> [Words -> Stored]]]
  /\ writer \in [busy : BOOLEAN, sym : Symbols, next : 0 .. MaxIndex, left : SUBSET Words]
  /\ reader \in [Readers -> [sym : Symbols \cup Unknown, idx : Index,
                             left : SUBSET Words, got : [Words -> Stored]]]

\* create() has returned: memory zeroed, every current_index -1.
Init ==
  /\ current_index = [s \in Symbols |-> NoRecord]
  /\ slots = [s \in Symbols |-> [i \in 0 .. Size - 1 |-> [w \in Words |-> Zero]]]
  /\ writer \in [busy : {FALSE}, sym : Symbols, next : {0}, left : {{}}]
  /\ reader \in [Readers -> [sym : Symbols \cup Unknown, idx : {NoRecord},
                             left : {{}}, got : {[w \in Words |-> Zero]}]]

-----------------------------------------------------------------------------
(* write(): of an unknown symbol it returns false and changes nothing.     *)

\* Variant: the index is stored first, the data after it.
BeginWrite_IndexFirst(s) ==
  /\ ~writer.busy
  /\ current_index[s] < MaxIndex
  /\ writer' = [busy |-> TRUE, sym |-> s, next |-> current_index[s] + 1, left |-> Words]
  /\ current_index' = [current_index EXCEPT ![s] = @ + 1]
  /\ UNCHANGED <<slots, reader>>

BeginWrite(s) ==
  /\ ~writer.busy
  /\ current_index[s] < MaxIndex
  /\ writer' = [busy |-> TRUE, sym |-> s, next |-> current_index[s] + 1, left |-> Words]
  /\ UNCHANGED <<current_index, slots, reader>>

StoreWord(w) ==
  /\ w \in writer.left
  /\ slots' = [slots EXCEPT ![writer.sym][Slot(writer.next)][w] = writer.next]
  /\ writer' = [writer EXCEPT !.left = @ \ {w}]
  /\ UNCHANGED <<current_index, reader>>

\* Variant: published while part of the copy is still to come (no Release).
PublishIndex_Early ==
  /\ writer.busy
  /\ writer' = [writer EXCEPT !.busy = (writer.left # {})]
  /\ current_index' = [current_index EXCEPT ![writer.sym] = writer.next]
  /\ UNCHANGED <<slots, reader>>

PublishIndex ==
  /\ writer.busy
  /\ writer.left = {}
  /\ current_index' = [current_index EXCEPT ![writer.sym] = writer.next]
  /\ writer' = [writer EXCEPT !.busy = FALSE]
  /\ UNCHANGED <<slots, reader>>

-----------------------------------------------------------------------------
(* read_latest(): the Acquire load decides between None and a copy.        *)

Copying(r) == reader[r].left # {}

ReadNone(r, s) ==
  /\ ~Copying(r)
  /\ s \in Symbols => current_index[s] = NoRecord
  /\ reader' = [reader EXCEPT ![r] =
        [sym |-> s, idx |-> NoRecord, left |-> {}, got |-> @.got]]
  /\ UNCHANGED <<current_index, slots, writer>>

LoadIndex(r, s) ==
  /\ ~Copying(r)
  /\ current_index[s] # NoRecord
  /\ reader' = [reader EXCEPT ![r] =
        [sym |-> s, idx |-> current_index[s], left |-> Words, got |-> @.got]]
  /\ UNCHANGED <<current_index, slots, writer>>

\* Variant: the copy starts one slot too far.
CopyWord_NextSlot(r, w) ==
  /\ w \in reader[r].left
  /\ reader' = [reader EXCEPT
        ![r].got[w] = slots[reader[r].sym][Slot(reader[r].idx + 1)][w],
        ![r].left = @ \ {w}]
  /\ UNCHANGED <<current_index, slots, writer>>

\* Variant: the index is loaded again for every word.
CopyWord_Reload(r, w) ==
  /\ w \in reader[r].left
  /\ reader' = [reader EXCEPT
        ![r].got[w] = slots[reader[r].sym][Slot(current_index[reader[r].sym])][w],
        ![r].left = @ \ {w}]
  /\ UNCHANGED <<current_index, slots, writer>>

CopyWord(r, w) ==
  /\ w \in reader[r].left
  /\ reader' = [reader EXCEPT
        ![r].got[w] = slots[reader[r].sym][Slot(reader[r].idx)][w],
        ![r].left = @ \ {w}]
  /\ UNCHANGED <<current_index, slots, writer>>

-----------------------------------------------------------------------------
Writer ==
  \/ \E s \in Symbols : BeginWrite(s)
  \/ \E w \in Words : StoreWord(w)
  \/ PublishIndex

Reader(r) ==
  \/ \E s \in Symbols \cup Unknown : ReadNone(r, s)
  \/ \E s \in Symbols : LoadIndex(r, s)
  \/ \E w \in Words : CopyWord(r, w)

Next == Writer \/ \E r \in Readers : Reader(r)

Spec == Init /\ [][Next]_vars

-----------------------------------------------------------------------------
\* The newest record whose slot may have been touched.
Newest(s) == IF writer.busy /\ writer.sym = s THEN writer.next ELSE current_index[s]

Returned(r) == ~Copying(r) /\ reader[r].idx # NoRecord

(* Every published record that the writer has not come round to again is   *)
(* complete in memory: a write in progress never touches the other         *)
(* Size - 1 newest records, whatever the interleaving.                     *)
RecentRecordsIntact ==
  \A s \in Symbols : \A i \in 0 .. MaxIndex :
    (i <= current_index[s] /\ Newest(s) < i + Size) =>
      \A w \in Words : slots[s][Slot(i)][w] = i

(* A reader's copy holds exactly the record it loaded the index of, unless *)
(* the writer began to refill that slot meanwhile.                         *)
CopyIntactUnlessLapped ==
  \A r \in Readers : reader[r].idx # NoRecord =>
    \/ Newest(reader[r].sym) >= reader[r].idx + Size
    \/ \A w \in Words \ reader[r].left : reader[r].got[w] = reader[r].idx

(* Even a reader that is overtaken never sees memory nobody wrote, a       *)
(* record older than the one it asked for, or a record of another slot.    *)
CopyNeverOlder ==
  \A r \in Readers : reader[r].idx # NoRecord =>
    \A w \in Words \ reader[r].left :
      /\ reader[r].got[w] >= reader[r].idx
      /\ reader[r].got[w] <= Newest(reader[r].sym)
      /\ Slot(reader[r].got[w]) = Slot(reader[r].idx)

(* The ring implements the store of latest records step by step, the index *)
(* being the publication and the last word copied the end of a read, but   *)
(* for one step: a read may end with a torn record if the writer has come  *)
(* round to its slot.                                                      *)
Whole(r) == \A w \in Words : reader[r].got[w] = reader[r].idx

absReading ==
  [r \in Readers |->
     [busy |-> Copying(r),
      sym  |-> reader[r].sym,
      from |-> reader[r].idx,
      out  |-> IF Copying(r) \/ reader[r].idx = NoRecord THEN NoRecord
               ELSE IF Whole(r) THEN reader[r].idx ELSE Garbage]]

Abstract == INSTANCE LatestRecord WITH published <- current_index, reading <- absReading

\* The exception: the last word is copied when the writer has reached the slot.
LappedRead(r) ==
  /\ Copying(r)
  /\ Newest(reader[r].sym) >= reader[r].idx + Size
  /\ absReading' = [absReading EXCEPT ![r] = [@ EXCEPT !.busy = FALSE, !.out = Garbage]]
  /\ UNCHANGED current_index

ImplementsUnlessLapped ==
  /\ Abstract!AbsInit
  /\ [][Abstract!AbsNext \/ \E r \in Readers : LappedRead(r)]_(Abstract!absvars)

(* What the comment of write() says, with no exception: the words a read   *)
(* returns are all of one record.  The ring does not keep it: a reader     *)
(* that is held up while the writer goes once round copies words of two    *)
(* records, and nothing in read_latest() notices.                          *)
ReadersSeeOneSnapshot ==
  \A r \in Readers : Returned(r) =>
    \A v, w \in Words : reader[r].got[v] = reader[r].got[w]

=============================================================================
