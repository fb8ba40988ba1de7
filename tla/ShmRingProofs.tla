--------------------------- MODULE ShmRingProofs ----------------------------
(***************************************************************************)
(* Proofs about ShmRing for every number of readers, symbols, words and    *)
(* slots, and every bound on the writes.                                   *)
(***************************************************************************)
EXTENDS ShmRing, TLAPS

(* The writer is one record ahead of the index it has published, and its   *)
(* finished words are in memory.                                           *)
WriterInv ==
  /\ ~writer.busy => writer.left = {}
  /\ writer.busy =>
       /\ writer.next = current_index[writer.sym] + 1
       /\ \A w \in Words \ writer.left :
            slots[writer.sym][Slot(writer.next)][w] = writer.next

(* Where a record was published, memory holds it or a later one of the     *)
(* same slot, none newer than the writer's.                                *)
MemoryInv ==
  \A s \in Symbols : \A i \in 0 .. MaxIndex : i <= current_index[s] =>
    \A w \in Words :
      /\ slots[s][Slot(i)][w] >= i
      /\ slots[s][Slot(i)][w] <= Newest(s)
      /\ Slot(slots[s][Slot(i)][w]) = Slot(i)

(* A reader copies only a record that was published.                       *)
ReaderInv ==
  \A r \in Readers :
    /\ reader[r].idx = NoRecord => reader[r].left = {}
    /\ reader[r].idx # NoRecord => /\ reader[r].sym \in Symbols
                                   /\ reader[r].idx <= current_index[reader[r].sym]

IInv == TypeOK /\ WriterInv /\ MemoryInv /\ ReaderInv /\ CopyNeverOlder

-----------------------------------------------------------------------------
(* Two records less than a ring apart do not share a slot.                 *)
LEMMA SlotsDiffer ==
  ASSUME NEW i \in Nat, NEW v \in Nat, i <= v, v < i + Size, Slot(v) = Slot(i)
  PROVE  v = i
<1> DEFINE qi == i \div Size
           qv == v \div Size
<1>1. Size \in Nat /\ Size > 0
  BY SizeAssumption
<1>2. /\ qi \in Int /\ qv \in Int
      /\ i = Size * qi + (i % Size)
      /\ v = Size * qv + (v % Size)
  BY <1>1, Z3
<1>3. v - i = Size * (qv - qi)
  BY <1>1, <1>2 DEF Slot
<1>4. CASE qv = qi
  BY <1>2, <1>4 DEF Slot
<1>5. CASE qv > qi
  <2>1. Size * (qv - qi) >= Size
    BY <1>1, <1>2, <1>5
  <2> QED BY <2>1, <1>3, <1>1
<1>6. CASE qv < qi
  <2>1. Size * (qv - qi) < 0
    BY <1>1, <1>2, <1>6
  <2> QED BY <2>1, <1>3, <1>1
<1> QED BY <1>4, <1>5, <1>6, <1>2

LEMMA SlotType ==
  ASSUME NEW i \in Nat
  PROVE  Slot(i) \in 0 .. Size - 1
BY SizeAssumption DEF Slot


-----------------------------------------------------------------------------
(* The inductive invariant holds initially and is kept by every step.      *)
LEMMA InitIInv == Init => IInv
<1> SUFFICES ASSUME Init PROVE IInv
  OBVIOUS
<1>1. TypeOK
  <2>1. NoRecord \in Index /\ 0 \in 0 .. MaxIndex /\ Zero \in Stored
    BY MaxIndexAssumption DEF Index, Stored, NoRecord
  <2>2. /\ current_index \in [Symbols -> Index]
        /\ slots \in [Symbols -> [0 .. Size - 1 -> [Words -> Stored]]]
    BY <2>1 DEF Init
  <2>3. writer \in [busy : BOOLEAN, sym : Symbols, next : 0 .. MaxIndex, left : SUBSET Words]
    BY <2>1 DEF Init
  <2>4. [w \in Words |-> Zero] \in [Words -> Stored]
    BY <2>1
  <2>5. reader \in [Readers -> [sym : Symbols \cup Unknown, idx : Index,
                               left : SUBSET Words, got : [Words -> Stored]]]
    <3>1. [sym : Symbols \cup Unknown, idx : {NoRecord},
           left : {{}}, got : {[w \in Words |-> Zero]}]
            \subseteq [sym : Symbols \cup Unknown, idx : Index,
                       left : SUBSET Words, got : [Words -> Stored]]
      BY <2>1, <2>4
    <3> QED BY <3>1 DEF Init
  <2> QED BY <2>2, <2>3, <2>5 DEF TypeOK
<1>2. WriterInv
  BY DEF Init, WriterInv
<1>3. MemoryInv
  BY MaxIndexAssumption DEF Init, MemoryInv, NoRecord
<1>4. ReaderInv /\ CopyNeverOlder
  BY DEF Init, ReaderInv, CopyNeverOlder, NoRecord
<1> QED BY <1>1, <1>2, <1>3, <1>4 DEF IInv

(* Only the writer moves the index and the memory; while it copies a       *)
(* record its symbol's newest record is the one it is copying.             *)
LEMMA BeginWriteStep ==
  ASSUME IInv, NEW s \in Symbols, BeginWrite(s)
  PROVE  IInv'
<1> USE DEF IInv, BeginWrite
<1>1. TypeOK'
  BY MaxIndexAssumption DEF TypeOK, Index, NoRecord
<1>2. WriterInv'
  BY DEF TypeOK, WriterInv
<1>3. \A t \in Symbols : Newest(t) <= Newest(t)'
  BY MaxIndexAssumption DEF TypeOK, Newest, Index, NoRecord
<1>4. MemoryInv'
  <2> SUFFICES ASSUME NEW t \in Symbols, NEW i \in 0 .. MaxIndex, i <= current_index[t],
                      NEW w \in Words
               PROVE  /\ slots[t][Slot(i)][w] >= i
                      /\ slots[t][Slot(i)][w] <= Newest(t)'
                      /\ Slot(slots[t][Slot(i)][w]) = Slot(i)
    BY DEF MemoryInv, TypeOK
  <2>1. Slot(i) \in 0 .. Size - 1
    BY SlotType, MaxIndexAssumption
  <2>2. slots[t][Slot(i)][w] \in Stored
    BY <2>1, SizeAssumption DEF TypeOK
  <2>3. Newest(t) \in Int /\ Newest(t)' \in Int
    BY MaxIndexAssumption DEF TypeOK, Newest, Index, NoRecord
  <2> QED BY <1>3, <2>2, <2>3, MaxIndexAssumption DEF MemoryInv, Stored, Zero
<1>5. ReaderInv'
  BY DEF ReaderInv
<1>6. CopyNeverOlder'
  <2> SUFFICES ASSUME NEW r \in Readers, reader[r].idx # NoRecord,
                      NEW w \in Words \ reader[r].left
               PROVE  /\ reader[r].got[w] >= reader[r].idx
                      /\ reader[r].got[w] <= Newest(reader[r].sym)'
                      /\ Slot(reader[r].got[w]) = Slot(reader[r].idx)
    BY DEF CopyNeverOlder
  <2>1. reader[r].sym \in Symbols /\ reader[r].got[w] \in Stored
    BY DEF ReaderInv, TypeOK
  <2>2. Newest(reader[r].sym) \in Int /\ Newest(reader[r].sym)' \in Int
    BY <2>1, MaxIndexAssumption DEF TypeOK, Newest, Index, NoRecord
  <2> QED BY <1>3, <2>1, <2>2, MaxIndexAssumption DEF CopyNeverOlder, Stored, Zero
<1> QED BY <1>1, <1>2, <1>4, <1>5, <1>6

LEMMA StoreWordStep ==
  ASSUME IInv, NEW v \in Words, StoreWord(v)
  PROVE  IInv'
<1> USE DEF IInv, StoreWord
<1> DEFINE z == writer.sym
           k == Slot(writer.next)
<1>0. /\ writer.busy /\ z \in Symbols
      /\ writer.next \in 0 .. MaxIndex
      /\ writer.next = current_index[z] + 1
      /\ k \in 0 .. Size - 1
  BY SlotType, MaxIndexAssumption DEF WriterInv, TypeOK
<1>1. TypeOK'
  <2>1. writer.next \in Stored
    BY <1>0 DEF Stored
  <2> QED BY <1>0, <2>1 DEF TypeOK
<1>2. \A t \in Symbols : Newest(t)' = Newest(t)
  BY DEF Newest, TypeOK
<1>3. \A t \in Symbols : \A j \in 0 .. Size - 1 : \A w \in Words :
        slots'[t][j][w] = IF t = z /\ j = k /\ w = v THEN writer.next ELSE slots[t][j][w]
  <2>1. /\ slots \in [Symbols -> [0 .. Size - 1 -> [Words -> Stored]]]
        /\ slots' = [slots EXCEPT ![z][k][v] = writer.next]
    BY DEF TypeOK
  <2> QED BY <2>1, <1>0, SizeAssumption
<1>4. WriterInv'
  BY <1>0, <1>3 DEF TypeOK, WriterInv
<1>5. MemoryInv'
  <2> SUFFICES ASSUME NEW t \in Symbols, NEW i \in 0 .. MaxIndex, i <= current_index[t],
                      NEW w \in Words
               PROVE  /\ slots'[t][Slot(i)][w] >= i
                      /\ slots'[t][Slot(i)][w] <= Newest(t)
                      /\ Slot(slots'[t][Slot(i)][w]) = Slot(i)
    BY <1>2 DEF MemoryInv, TypeOK
  <2>1. Slot(i) \in 0 .. Size - 1
    BY SlotType, MaxIndexAssumption
  <2>2. CASE t = z /\ Slot(i) = k /\ w = v
    <3>1. slots'[t][Slot(i)][w] = writer.next
      BY <1>3, <2>1, <2>2
    <3>2. Newest(t) = writer.next
      BY <1>0, <2>2 DEF Newest
    <3> QED BY <3>1, <3>2, <1>0, <2>2, MaxIndexAssumption DEF TypeOK, Index, NoRecord
  <2>3. CASE ~(t = z /\ Slot(i) = k /\ w = v)
    BY <1>3, <2>1, <2>3 DEF MemoryInv
  <2> QED BY <2>2, <2>3
<1>6. ReaderInv' /\ CopyNeverOlder'
  BY <1>2 DEF ReaderInv, CopyNeverOlder, TypeOK
<1> QED BY <1>1, <1>4, <1>5, <1>6

LEMMA PublishIndexStep ==
  ASSUME IInv, PublishIndex
  PROVE  IInv'
<1> USE DEF IInv, PublishIndex
<1> DEFINE z == writer.sym
<1>0. /\ z \in Symbols
      /\ writer.next \in 0 .. MaxIndex
      /\ writer.next = current_index[z] + 1
      /\ \A w \in Words : slots[z][Slot(writer.next)][w] = writer.next
  BY DEF WriterInv, TypeOK
<1>1. TypeOK'
  <2>1. writer' \in [busy : BOOLEAN, sym : Symbols, next : 0 .. MaxIndex, left : SUBSET Words]
    BY DEF TypeOK
  <2>2. writer.next \in Index
    BY <1>0, MaxIndexAssumption DEF Index
  <2> QED BY <1>0, <2>1, <2>2 DEF TypeOK
<1>2. WriterInv'
  BY DEF WriterInv, TypeOK
<1>3. \A t \in Symbols : Newest(t)' = Newest(t)
  BY <1>0 DEF Newest, TypeOK
<1>4. MemoryInv'
  <2> SUFFICES ASSUME NEW t \in Symbols, NEW i \in 0 .. MaxIndex, i <= current_index'[t],
                      NEW w \in Words
               PROVE  /\ slots[t][Slot(i)][w] >= i
                      /\ slots[t][Slot(i)][w] <= Newest(t)
                      /\ Slot(slots[t][Slot(i)][w]) = Slot(i)
    BY <1>3 DEF MemoryInv, TypeOK
  <2>1. CASE i <= current_index[t]
    BY <2>1 DEF MemoryInv
  <2>2. CASE ~(i <= current_index[t])
    <3>1. t = z /\ i = writer.next
      BY <1>0, <2>2, MaxIndexAssumption DEF TypeOK, Index, NoRecord
    <3> QED BY <3>1, <1>0, MaxIndexAssumption DEF Newest
  <2> QED BY <2>1, <2>2
<1>5. ReaderInv'
  <2> SUFFICES ASSUME NEW r \in Readers, reader[r].idx # NoRecord
               PROVE  /\ reader[r].sym \in Symbols
                      /\ reader[r].idx <= current_index'[reader[r].sym]
    BY DEF ReaderInv
  <2> QED BY <1>0, MaxIndexAssumption DEF ReaderInv, TypeOK, Index, NoRecord
<1>6. CopyNeverOlder'
  BY <1>3 DEF ReaderInv, CopyNeverOlder
<1> QED BY <1>1, <1>2, <1>4, <1>5, <1>6

LEMMA ReadNoneStep ==
  ASSUME IInv, NEW r \in Readers, NEW s \in Symbols \cup Unknown, ReadNone(r, s)
  PROVE  IInv'
<1> USE DEF IInv, ReadNone
<1>0. \A q \in Readers \ {r} : reader'[q] = reader[q]
  BY DEF TypeOK
<1>1. /\ reader'[r].idx = NoRecord
      /\ reader'[r].left = {}
  BY DEF TypeOK, Copying
<1>2. TypeOK'
  <2>1. NoRecord \in Index
    BY MaxIndexAssumption DEF Index, NoRecord
  <2>2. /\ reader[r] \in [sym : Symbols \cup Unknown, idx : Index,
                          left : SUBSET Words, got : [Words -> Stored]]
        /\ reader' = [reader EXCEPT ![r] = [sym |-> s, idx |-> NoRecord,
                                            left |-> {}, got |-> reader[r].got]]
    BY DEF TypeOK
  <2>3. reader' \in [Readers -> [sym : Symbols \cup Unknown, idx : Index,
                                left : SUBSET Words, got : [Words -> Stored]]]
    BY <2>1, <2>2 DEF TypeOK
  <2> QED BY <2>3 DEF TypeOK
<1>3. WriterInv' /\ MemoryInv'
  BY DEF WriterInv, MemoryInv, Newest
<1>4. ReaderInv' /\ CopyNeverOlder'
  BY <1>0, <1>1 DEF ReaderInv, CopyNeverOlder, Newest
<1> QED BY <1>2, <1>3, <1>4

LEMMA LoadIndexStep ==
  ASSUME IInv, NEW r \in Readers, NEW s \in Symbols, LoadIndex(r, s)
  PROVE  IInv'
<1> USE DEF IInv, LoadIndex
<1>0. \A q \in Readers \ {r} : reader'[q] = reader[q]
  BY DEF TypeOK
<1>1. /\ reader'[r].idx = current_index[s]
      /\ reader'[r].sym = s
      /\ reader'[r].left = Words
  BY DEF TypeOK
<1>2. TypeOK'
  <2>1. /\ reader[r] \in [sym : Symbols \cup Unknown, idx : Index,
                          left : SUBSET Words, got : [Words -> Stored]]
        /\ reader' = [reader EXCEPT ![r] = [sym |-> s, idx |-> current_index[s],
                                            left |-> Words, got |-> reader[r].got]]
    BY DEF TypeOK
  <2>2. current_index[s] \in Index
    BY DEF TypeOK
  <2>3. reader' \in [Readers -> [sym : Symbols \cup Unknown, idx : Index,
                                left : SUBSET Words, got : [Words -> Stored]]]
    BY <2>1, <2>2 DEF TypeOK
  <2> QED BY <2>3 DEF TypeOK
<1>3. WriterInv' /\ MemoryInv'
  BY DEF WriterInv, MemoryInv, Newest
<1>4. ReaderInv' /\ CopyNeverOlder'
  BY <1>0, <1>1, MaxIndexAssumption
     DEF ReaderInv, CopyNeverOlder, Newest, TypeOK, Index, NoRecord
<1> QED BY <1>2, <1>3, <1>4

LEMMA CopyWordStep ==
  ASSUME IInv, NEW r \in Readers, NEW v \in Words, CopyWord(r, v)
  PROVE  IInv'
<1> USE DEF IInv
<1> DEFINE z == reader[r].sym
           i == reader[r].idx
           x == slots[z][Slot(i)][v]
<1>a. /\ v \in reader[r].left
      /\ UNCHANGED <<current_index, slots, writer>>
  BY DEF CopyWord
<1>b. /\ reader[r] \in [sym : Symbols \cup Unknown, idx : Index,
                        left : SUBSET Words, got : [Words -> Stored]]
      /\ reader' = [reader EXCEPT ![r] = [sym |-> z, idx |-> i,
                                          left |-> reader[r].left \ {v},
                                          got |-> [reader[r].got EXCEPT ![v] = x]]]
  BY DEF CopyWord, TypeOK
<1>0. /\ \A q \in Readers \ {r} : reader'[q] = reader[q]
      /\ reader'[r].idx = i /\ reader'[r].sym = z
      /\ reader'[r].left = reader[r].left \ {v}
      /\ reader'[r].got = [reader[r].got EXCEPT ![v] = x]
  BY <1>b DEF TypeOK
<1>1. i \in 0 .. MaxIndex /\ z \in Symbols /\ i <= current_index[z]
  <2>1. i # NoRecord
    BY <1>a DEF ReaderInv
  <2> QED BY <2>1, <1>b, MaxIndexAssumption DEF ReaderInv, Index, NoRecord
<1>2. x \in Stored
  <2>1. Slot(i) \in 0 .. Size - 1
    BY <1>1, SlotType, MaxIndexAssumption
  <2> QED BY <1>1, <2>1, SizeAssumption DEF TypeOK
<1>3. TypeOK'
  BY <1>2, <1>a, <1>b DEF TypeOK
<1>4. WriterInv' /\ MemoryInv'
  BY <1>a DEF WriterInv, MemoryInv, Newest
<1>5. ReaderInv'
  BY <1>a, <1>0, <1>1, MaxIndexAssumption DEF ReaderInv, NoRecord
<1>6. CopyNeverOlder'
  <2>0. \A t : Newest(t)' = Newest(t)
    BY <1>a DEF Newest
  <2> SUFFICES ASSUME NEW q \in Readers, reader'[q].idx # NoRecord,
                      NEW w \in Words \ reader'[q].left
               PROVE  /\ reader'[q].got[w] >= reader'[q].idx
                      /\ reader'[q].got[w] <= Newest(reader'[q].sym)
                      /\ Slot(reader'[q].got[w]) = Slot(reader'[q].idx)
    BY <2>0 DEF CopyNeverOlder
  <2>1. CASE q # r
    BY <2>1, <1>0 DEF CopyNeverOlder
  <2>2. CASE q = r /\ w # v
    <3>1. reader'[r].got[w] = reader[r].got[w] /\ w \in Words \ reader[r].left
      BY <1>0, <1>b, <2>2
    <3> QED BY <3>1, <2>2, <1>0 DEF CopyNeverOlder
  <2>3. CASE q = r /\ w = v
    <3>1. reader'[r].got[v] = x
      BY <1>0, <1>b
    <3> QED BY <3>1, <2>3, <1>0, <1>1 DEF MemoryInv
  <2> QED BY <2>1, <2>2, <2>3
<1> QED BY <1>3, <1>4, <1>5, <1>6

LEMMA NextIInv == IInv /\ [Next]_vars => IInv'
<1> SUFFICES ASSUME IInv, [Next]_vars PROVE IInv'
  OBVIOUS
<1>1. ASSUME NEW s \in Symbols, BeginWrite(s) PROVE IInv'
  BY <1>1, BeginWriteStep
<1>2. ASSUME NEW w \in Words, StoreWord(w) PROVE IInv'
  BY <1>2, StoreWordStep
<1>3. CASE PublishIndex
  BY <1>3, PublishIndexStep
<1>4. ASSUME NEW r \in Readers, NEW s \in Symbols \cup Unknown, ReadNone(r, s) PROVE IInv'
  BY <1>4, ReadNoneStep
<1>5. ASSUME NEW r \in Readers, NEW s \in Symbols, LoadIndex(r, s) PROVE IInv'
  BY <1>5, LoadIndexStep
<1>6. ASSUME NEW r \in Readers, NEW w \in Words, CopyWord(r, w) PROVE IInv'
  BY <1>6, CopyWordStep
<1>7. CASE UNCHANGED vars
  BY <1>7 DEF vars, IInv, TypeOK, WriterInv, MemoryInv, ReaderInv, CopyNeverOlder, Newest
<1> QED BY <1>1, <1>2, <1>3, <1>4, <1>5, <1>6, <1>7 DEF Next, Writer, Reader

THEOREM Invariance == Spec => []IInv
BY InitIInv, NextIInv, PTL DEF Spec

(* Every variable keeps its type, whatever the number of slots.            *)
THEOREM TypeCorrect == Spec => []TypeOK
<1>1. IInv => TypeOK
  BY DEF IInv
<1> QED BY <1>1, Invariance, PTL

-----------------------------------------------------------------------------
(* The properties follow from the invariant and the slot arithmetic.       *)
LEMMA IntactFromIInv == IInv => RecentRecordsIntact
<1> SUFFICES ASSUME IInv, NEW s \in Symbols, NEW i \in 0 .. MaxIndex,
                    i <= current_index[s], Newest(s) < i + Size, NEW w \in Words
             PROVE  slots[s][Slot(i)][w] = i
  BY DEF RecentRecordsIntact
<1> DEFINE v == slots[s][Slot(i)][w]
<1>1. v >= i /\ v <= Newest(s) /\ Slot(v) = Slot(i)
  BY DEF IInv, MemoryInv
<1>2. v \in Stored
  <2>1. Slot(i) \in 0 .. Size - 1
    BY SlotType, MaxIndexAssumption
  <2> QED BY <2>1, SizeAssumption DEF IInv, TypeOK
<1>3. v \in Nat /\ i \in Nat /\ Newest(s) \in Int
  BY <1>1, <1>2, MaxIndexAssumption DEF IInv, TypeOK, Stored, Zero, Newest, Index, NoRecord
<1>4. v < i + Size
  BY <1>1, <1>3, SizeAssumption
<1> QED BY <1>1, <1>3, <1>4, SlotsDiffer

LEMMA CopyFromIInv == IInv => CopyIntactUnlessLapped
<1> SUFFICES ASSUME IInv, NEW r \in Readers, reader[r].idx # NoRecord,
                    ~(Newest(reader[r].sym) >= reader[r].idx + Size),
                    NEW w \in Words \ reader[r].left
             PROVE  reader[r].got[w] = reader[r].idx
  BY DEF CopyIntactUnlessLapped
<1> DEFINE v == reader[r].got[w]
           i == reader[r].idx
<1>1. v >= i /\ v <= Newest(reader[r].sym) /\ Slot(v) = Slot(i)
  BY DEF IInv, CopyNeverOlder
<1>2. v \in Stored /\ i \in Index /\ reader[r].sym \in Symbols
  BY DEF IInv, TypeOK, ReaderInv
<1>3. v \in Nat /\ i \in Nat /\ Newest(reader[r].sym) \in Int
  BY <1>1, <1>2, MaxIndexAssumption DEF IInv, TypeOK, Stored, Zero, Newest, Index, NoRecord
<1>4. v < i + Size
  BY <1>1, <1>3, SizeAssumption
<1> QED BY <1>1, <1>3, <1>4, SlotsDiffer

(* The Size - 1 newest records (all Size between two writes) stay complete *)
(* in shared memory, for every interleaving of word copies.                *)
THEOREM RecordsStayIntact == Spec => []RecentRecordsIntact
BY Invariance, IntactFromIInv, PTL

(* A copy that the writer does not lap is the record asked for.            *)
THEOREM UnlappedCopyIsWhole == Spec => []CopyIntactUnlessLapped
BY Invariance, CopyFromIInv, PTL

(* A lapped copy is made of records of the same slot, none older.          *)
THEOREM CopiesNeverOlder == Spec => []CopyNeverOlder
<1>1. IInv => CopyNeverOlder
  BY DEF IInv
<1> QED BY <1>1, Invariance, PTL

-----------------------------------------------------------------------------
(* Refinement of the store of latest records.                              *)
LEMMA InitRefines == Init => Abstract!AbsInit
<1> SUFFICES ASSUME Init PROVE Abstract!AbsInit
  OBVIOUS
<1>1. current_index = [s \in Symbols |-> Abstract!NoRecord]
  BY DEF Init, NoRecord, Abstract!NoRecord
<1>2. ASSUME NEW r \in Readers
      PROVE  absReading[r] \in [busy : {FALSE}, sym : Symbols \cup Unknown,
                                from : {Abstract!NoRecord}, out : {Abstract!NoRecord}]
  <2>1. /\ reader[r].idx = NoRecord /\ reader[r].left = {}
        /\ reader[r].sym \in Symbols \cup Unknown
    BY DEF Init
  <2> QED BY <2>1 DEF absReading, Copying, NoRecord, Abstract!NoRecord
<1>3. absReading = [r \in Readers |-> absReading[r]]
  BY DEF absReading
<1>4. absReading \in [Readers -> [busy : {FALSE}, sym : Symbols \cup Unknown,
                                  from : {Abstract!NoRecord}, out : {Abstract!NoRecord}]]
  BY <1>2, <1>3
<1> QED BY <1>1, <1>4 DEF Abstract!AbsInit

(* The mapping of one reader depends on that reader only.                  *)
LEMMA MappedReader ==
  ASSUME NEW r \in Readers,
         \A q \in Readers \ {r} : reader'[q] = reader[q],
         NEW x, absReading'[r] = x
  PROVE  absReading' = [absReading EXCEPT ![r] = x]
<1>1. \A q \in Readers \ {r} : absReading'[q] = absReading[q]
  BY DEF absReading, Copying, Whole
<1>2. /\ absReading = [q \in Readers |-> absReading[q]]
      /\ absReading' = [q \in Readers |-> absReading'[q]]
  BY DEF absReading
<1> QED BY <1>1, <1>2

LEMMA StepRefines ==
  IInv /\ IInv' /\ [Next]_vars =>
    [Abstract!AbsNext \/ \E r \in Readers : LappedRead(r)]_(Abstract!absvars)
<1> SUFFICES ASSUME IInv, IInv', [Next]_vars
             PROVE  \/ Abstract!AbsNext
                    \/ \E r \in Readers : LappedRead(r)
                    \/ UNCHANGED Abstract!absvars
  OBVIOUS
<1> USE DEF Abstract!absvars
<1>0. reader' = reader => absReading' = absReading
  BY DEF absReading, Copying, Whole
<1>1. ASSUME NEW s \in Symbols, BeginWrite(s) PROVE UNCHANGED Abstract!absvars
  BY <1>0, <1>1 DEF BeginWrite
<1>2. ASSUME NEW w \in Words, StoreWord(w) PROVE UNCHANGED Abstract!absvars
  BY <1>0, <1>2 DEF StoreWord
<1>3. CASE PublishIndex
  <2>1. writer.sym \in Symbols /\ writer.next = current_index[writer.sym] + 1
    BY <1>3 DEF PublishIndex, IInv, TypeOK, WriterInv
  <2>2. Abstract!Publish(writer.sym)
    BY <1>0, <1>3, <2>1 DEF PublishIndex, Abstract!Publish
  <2> QED BY <2>1, <2>2 DEF Abstract!AbsNext
<1>4. ASSUME NEW r \in Readers, NEW s \in Symbols \cup Unknown, ReadNone(r, s)
      PROVE  Abstract!AbsNext
  <2>1. /\ \A q \in Readers \ {r} : reader'[q] = reader[q]
        /\ reader'[r].sym = s /\ reader'[r].idx = NoRecord /\ reader'[r].left = {}
    BY <1>4 DEF ReadNone, IInv, TypeOK
  <2>2. absReading'[r] = [busy |-> FALSE, sym |-> s,
                          from |-> Abstract!NoRecord, out |-> Abstract!NoRecord]
    BY <2>1 DEF absReading, Copying, NoRecord, Abstract!NoRecord
  <2>3. Abstract!ReadNone(r, s)
    BY <1>4, <2>1, <2>2, MappedReader
       DEF ReadNone, Abstract!ReadNone, absReading, NoRecord, Abstract!NoRecord
  <2> QED BY <2>3 DEF Abstract!AbsNext
<1>5. ASSUME NEW r \in Readers, NEW s \in Symbols, LoadIndex(r, s)
      PROVE  Abstract!AbsNext
  <2>1. /\ \A q \in Readers \ {r} : reader'[q] = reader[q]
        /\ reader'[r].sym = s /\ reader'[r].idx = current_index[s]
        /\ reader'[r].left = Words
    BY <1>5 DEF LoadIndex, IInv, TypeOK
  <2>2. absReading'[r] = [busy |-> TRUE, sym |-> s,
                          from |-> current_index[s], out |-> Abstract!NoRecord]
    BY <2>1, WordsAssumption DEF absReading, Copying, NoRecord, Abstract!NoRecord
  <2>3. Abstract!BeginRead(r, s)
    BY <1>5, <2>1, <2>2, MappedReader
       DEF LoadIndex, Abstract!BeginRead, absReading, NoRecord, Abstract!NoRecord
  <2> QED BY <2>3 DEF Abstract!AbsNext
<1>6. ASSUME NEW r \in Readers, NEW w \in Words, CopyWord(r, w)
      PROVE  Abstract!AbsNext \/ LappedRead(r) \/ UNCHANGED Abstract!absvars
  <2> DEFINE i == reader[r].idx
             z == reader[r].sym
  <2>1. /\ \A q \in Readers \ {r} : reader'[q] = reader[q]
        /\ reader'[r].sym = z /\ reader'[r].idx = i
        /\ reader'[r].left = reader[r].left \ {w}
        /\ w \in reader[r].left
        /\ UNCHANGED <<current_index, slots, writer>>
    BY <1>6 DEF CopyWord, IInv, TypeOK
  <2>2. i # NoRecord /\ z \in Symbols
    BY <2>1 DEF IInv, ReaderInv
  <2>3. absReading[r] = [busy |-> TRUE, sym |-> z, from |-> i, out |-> NoRecord]
    BY <2>1 DEF absReading, Copying
  <2>4. CASE reader'[r].left # {}
    <3>1. absReading'[r] = absReading[r]
      BY <2>1, <2>3, <2>4 DEF absReading, Copying
    <3>2. absReading' = [absReading EXCEPT ![r] = absReading[r]]
      BY <2>1, <3>1, MappedReader
    <3> QED BY <3>2, <2>1 DEF absReading
  <2>5. CASE reader'[r].left = {}
    <3> DEFINE out == IF \A v \in Words : reader'[r].got[v] = i THEN i ELSE Garbage
    <3>1. absReading'[r] = [busy |-> FALSE, sym |-> z, from |-> i, out |-> out]
      BY <2>1, <2>2, <2>5 DEF absReading, Copying, Whole
    <3>2. absReading' = [absReading EXCEPT ![r] =
                           [busy |-> FALSE, sym |-> z, from |-> i, out |-> out]]
      BY <2>1, <3>1, MappedReader
    <3>3. absReading' = [absReading EXCEPT ![r] = [@ EXCEPT !.busy = FALSE, !.out = out]]
      BY <3>2, <2>3 DEF absReading
    <3>4. absReading[r].busy /\ absReading[r].from = i
      BY <2>3
    <3>5. CASE out = i
      <4>1. Abstract!EndRead(r)
        BY <3>3, <3>4, <3>5, <2>1 DEF Abstract!EndRead
      <4> QED BY <4>1 DEF Abstract!AbsNext
    <3>6. CASE out # i
      <4>1. out = Garbage /\ ~ \A v \in Words : reader'[r].got[v] = i
        BY <3>6
      <4>2. CopyIntactUnlessLapped'
        BY CopyFromIInv, PTL
      <4>3. Newest(z)' >= i + Size
        BY <4>1, <4>2, <2>1, <2>2, <2>5 DEF CopyIntactUnlessLapped
      <4>4. Newest(z) >= i + Size
        BY <4>3, <2>1 DEF Newest
      <4>5. LappedRead(r)
        BY <4>1, <4>4, <3>3, <2>1 DEF LappedRead, Copying
      <4> QED BY <4>5
    <3> QED BY <3>5, <3>6
  <2> QED BY <2>4, <2>5
<1>7. CASE UNCHANGED vars
  BY <1>0, <1>7 DEF vars
<1> QED BY <1>1, <1>2, <1>3, <1>4, <1>5, <1>6, <1>7 DEF Next, Writer, Reader

(* The ring implements the store of latest records, for every size: every  *)
(* step is one of the store's but the end of a read the writer has lapped. *)
THEOREM RingImplementsUnlessLapped == Spec => ImplementsUnlessLapped
BY InitRefines, StepRefines, Invariance, PTL DEF Spec, ImplementsUnlessLapped

=============================================================================
