------------------------ MODULE DocumentWriterProofs ------------------------
(***************************************************************************)
(* Proofs about DocumentWriter for any updates, sizes and options.         *)
(* WriterInv is inductive; the safety properties follow from it.           *)
(***************************************************************************)
EXTENDS DocumentWriter, TLAPS

(* What a batch at the end of the promise chain adds to it. *)
LEMMA EditsOfAppend ==
  ASSUME NEW q \in Seq(Batch), NEW b \in Batch
  PROVE  EditsOf(Append(q, b)) = EditsOf(q) \cup b.edits
<1>1. Len(Append(q, b)) = Len(q) + 1 /\ Len(q) \in Nat
  OBVIOUS
<1>2. \A i \in 1 .. Len(q) : Append(q, b)[i] = q[i]
  OBVIOUS
<1>3. Append(q, b)[Len(q) + 1] = b
  OBVIOUS
<1> QED
  BY <1>1, <1>2, <1>3 DEF EditsOf

(* The promise chain is its head and the rest. *)
LEMMA EditsOfTail ==
  ASSUME NEW q \in Seq(Batch), q # <<>>
  PROVE  /\ EditsOf(q) = Head(q).edits \cup EditsOf(Tail(q))
         /\ Head(q) \in Batch /\ Tail(q) \in Seq(Batch)
<1>1. Len(q) \in Nat \ {0} /\ Len(Tail(q)) = Len(q) - 1
  OBVIOUS
<1>2. \A i \in 1 .. Len(Tail(q)) : Tail(q)[i] = q[i + 1]
  BY <1>1
<1>3. Head(q) = q[1] /\ Head(q) \in Batch /\ Tail(q) \in Seq(Batch)
  BY <1>1
<1>4. ASSUME NEW i \in 1 .. Len(q)
      PROVE  i = 1 \/ (i - 1 \in 1 .. Len(Tail(q)) /\ Tail(q)[i - 1] = q[i])
  BY <1>1, <1>2
<1>5. ASSUME NEW i \in 1 .. Len(Tail(q))
      PROVE  i + 1 \in 1 .. Len(q) /\ Tail(q)[i] = q[i + 1]
  BY <1>1, <1>2
<1>6. EditsOf(q) \subseteq Head(q).edits \cup EditsOf(Tail(q))
  BY <1>3, <1>4 DEF EditsOf
<1>7. EditsOf(Tail(q)) \subseteq EditsOf(q)
  BY <1>5 DEF EditsOf
<1>8. Head(q).edits \subseteq EditsOf(q)
  BY <1>1, <1>3 DEF EditsOf
<1> QED
  BY <1>3, <1>6, <1>7, <1>8

(* A chain of batches that share no update stays one when a batch of other
   updates joins it. *)
LEMMA DisjointAppend ==
  ASSUME NEW q \in Seq(Batch), NEW b \in Batch, Disjoint(q), EditsOf(q) \cap b.edits = {}
  PROVE  Disjoint(Append(q, b))
<1>1. Len(Append(q, b)) = Len(q) + 1 /\ Len(q) \in Nat
  OBVIOUS
<1>2. \A i \in 1 .. Len(q) : Append(q, b)[i] = q[i] /\ q[i].edits \cap b.edits = {}
  BY DEF EditsOf
<1>3. Append(q, b)[Len(q) + 1] = b
  OBVIOUS
<1> QED
  BY <1>1, <1>2, <1>3 DEF Disjoint

(* The head of such a chain shares no update with the rest, and the rest is
   such a chain. *)
LEMMA DisjointTail ==
  ASSUME NEW q \in Seq(Batch), q # <<>>, Disjoint(q)
  PROVE  Disjoint(Tail(q)) /\ Head(q).edits \cap EditsOf(Tail(q)) = {}
<1>1. Len(q) \in Nat \ {0} /\ Len(Tail(q)) = Len(q) - 1 /\ Head(q) = q[1]
  OBVIOUS
<1>2. \A i \in 1 .. Len(Tail(q)) : Tail(q)[i] = q[i + 1] /\ i + 1 \in 1 .. Len(q) /\ i + 1 # 1
  BY <1>1
<1>3. Disjoint(Tail(q))
  BY <1>1, <1>2 DEF Disjoint
<1>4. \A i \in 1 .. Len(Tail(q)) : Head(q).edits \cap Tail(q)[i].edits = {}
  BY <1>1, <1>2 DEF Disjoint
<1> QED
  BY <1>3, <1>4 DEF EditsOf

(* flush() moves the updates it is given to the end of the chain. *)
LEMMA FlushMoves ==
  ASSUME queue \in Seq(Batch), Disjoint(queue),
         NEW p \in SUBSET Edits, NEW n \in Nat, p \cap Queued = {}, Flush(p, n)
  PROVE  /\ queue' \in Seq(Batch) /\ Disjoint(queue')
         /\ Queued' = Queued \cup p
         /\ queue # <<>> => queue' # <<>> /\ Head(queue') = Head(queue)
         /\ pending' = {} /\ pendingBytes' = 0 /\ timer' = NoTimer /\ waited' = 0
<1>1. CASE p = {}
  BY <1>1 DEF Flush, Queued
<1>2. CASE p # {}
  <2> DEFINE b == [edits |-> p, bytes |-> n]
  <2>1. b \in Batch /\ b.edits = p
    BY <1>2 DEF Batch
  <2>2. queue' = Append(queue, b)
    BY <1>2 DEF Flush
  <2>3. Queued' = Queued \cup p
    BY <2>1, <2>2, EditsOfAppend DEF Queued
  <2>4. Disjoint(queue')
    BY <2>1, <2>2, DisjointAppend DEF Queued
  <2> HIDE DEF b
  <2>5. queue # <<>> => queue' # <<>> /\ Head(queue') = Head(queue)
    BY <2>1, <2>2
  <2>6. queue' \in Seq(Batch)
    BY <2>1, <2>2
  <2> QED
    BY <2>3, <2>4, <2>5, <2>6 DEF Flush
<1> QED
  BY <1>1, <1>2

(* Pushing updates onto pending leaves a timer that covers the oldest. *)
LEMMA PushArms ==
  ASSUME TypeOK, ~closed, PendingWillFlush, TimerCoversOldest,
         NEW e \in SUBSET Edits, e # {}, NEW n \in Nat, Push(e, n)
  PROVE  /\ pending' = pending \cup e /\ pendingBytes' \in Nat /\ waited' \in Nat
         /\ timer' \in 0 .. NoTimer /\ timer' # NoTimer
         /\ TimerCoversOldest'
<1> USE WriterAssumption DEF TypeOK, Push, Schedule, PendingWillFlush, TimerCoversOldest, NoTimer
<1>1. CASE timer = NoTimer
  BY <1>1
<1>2. CASE timer # NoTimer /\ pending # {}
  BY <1>2
<1>3. CASE timer # NoTimer /\ pending = {}
  BY <1>3
<1> QED
  BY <1>1, <1>2, <1>3

(* The initial states satisfy the inductive invariant. *)
LEMMA InitWriterInv == Init => WriterInv
<1> SUFFICES ASSUME Init PROVE WriterInv
  OBVIOUS
<1>1. Queued = {}
  BY DEF Init, Queued, EditsOf
<1>2. TypeOK
  <2>1. timer \in 0 .. NoTimer /\ pendingBytes \in Nat /\ rowsSinceSnapshot \in Nat
    BY WriterAssumption DEF Init, NoTimer
  <2>2. queue \in Seq(Batch)
    BY DEF Init
  <2> QED
    BY <2>1, <2>2 DEF Init, TypeOK
<1>3. /\ NothingForgotten /\ PendingWillFlush /\ TimerCoversOldest /\ CompactingHead
      /\ WrittenOnce
  BY <1>1 DEF Init, NothingForgotten, PendingWillFlush, TimerCoversOldest, CompactingHead,
              WrittenOnce
<1>4. OnePlace
  BY <1>1 DEF Init, OnePlace, Disjoint
<1> QED
  BY <1>2, <1>3, <1>4 DEF WriterInv

(* record() puts the update in pending or, with the rest of pending, at the end
   of the chain. *)
LEMMA RecordInv ==
  ASSUME WriterInv, NEW e \in Edits, NEW n \in Sizes, Record(e, n)
  PROVE  WriterInv'
<1> USE DEF WriterInv
<1>1. /\ ~closed /\ e \notin recorded /\ recorded' = recorded \cup {e}
      /\ closed' = closed /\ writing' = writing /\ rowsSinceSnapshot' = rowsSinceSnapshot
      /\ stored' = stored /\ unsure' = unsure /\ dropped' = dropped
  BY DEF Record
<1>2. n \in Nat /\ pendingBytes + n \in Nat /\ pending \cup {e} \in SUBSET Edits
  BY WriterAssumption DEF TypeOK
<1>3. queue \in Seq(Batch) /\ Disjoint(queue) /\ (pending \cup {e}) \cap Queued = {}
  BY <1>1 DEF TypeOK, OnePlace
<1>4. CASE pendingBytes + n >= MaxBatchBytes
  <2>1. Flush(pending \cup {e}, pendingBytes + n)
    BY <1>4 DEF Record
  <2>2. /\ queue' \in Seq(Batch) /\ Disjoint(queue')
        /\ Queued' = Queued \cup (pending \cup {e})
        /\ queue # <<>> => queue' # <<>> /\ Head(queue') = Head(queue)
        /\ pending' = {} /\ pendingBytes' = 0 /\ timer' = NoTimer /\ waited' = 0
    BY <1>2, <1>3, <2>1, FlushMoves
  <2>3. TypeOK'
    BY <1>1, <2>2, WriterAssumption DEF TypeOK, NoTimer
  <2>4. NothingForgotten' /\ PendingWillFlush' /\ TimerCoversOldest'
    BY <1>1, <2>2 DEF NothingForgotten, PendingWillFlush, TimerCoversOldest
  <2>5. OnePlace' /\ CompactingHead'
    BY <1>1, <2>2 DEF OnePlace, CompactingHead
  <2>6. WrittenOnce'
    BY <1>1, <2>2 DEF WrittenOnce, OnePlace, CompactingHead
  <2> QED
    BY <2>3, <2>4, <2>5, <2>6
<1>5. CASE ~(pendingBytes + n >= MaxBatchBytes)
  <2>1. Push({e}, n) /\ queue' = queue
    BY <1>5 DEF Record
  <2>2. /\ pending' = pending \cup {e} /\ pendingBytes' \in Nat /\ waited' \in Nat
        /\ timer' \in 0 .. NoTimer /\ timer' # NoTimer /\ TimerCoversOldest'
    BY <1>1, <1>2, <2>1, PushArms
  <2>3. Queued' = Queued
    BY <2>1 DEF Queued
  <2>4. TypeOK'
    BY <1>1, <2>1, <2>2 DEF TypeOK
  <2>5. NothingForgotten' /\ PendingWillFlush'
    BY <1>1, <2>2, <2>3 DEF NothingForgotten, PendingWillFlush
  <2>6. OnePlace' /\ CompactingHead'
    BY <1>1, <1>3, <2>1, <2>2, <2>3 DEF OnePlace, CompactingHead
  <2>7. WrittenOnce'
    BY <1>1, <2>1, <2>2, <2>3 DEF WrittenOnce, OnePlace
  <2> QED
    BY <2>2, <2>4, <2>5, <2>6, <2>7
<1> QED
  BY <1>4, <1>5

(* The timer and close() empty pending into the chain. *)
LEMMA FlushInv ==
  ASSUME WriterInv, TimerFires \/ Close
  PROVE  WriterInv'
<1> USE DEF WriterInv
<1>1. /\ Flush(pending, pendingBytes)
      /\ writing' = writing /\ rowsSinceSnapshot' = rowsSinceSnapshot
      /\ recorded' = recorded /\ stored' = stored /\ unsure' = unsure /\ dropped' = dropped
  BY DEF TimerFires, Close
<1>2. closed' \in BOOLEAN /\ (closed => closed')
  BY Zenon DEF TimerFires, Close, TypeOK
<1>3. /\ queue' \in Seq(Batch) /\ Disjoint(queue')
      /\ Queued' = Queued \cup pending
      /\ queue # <<>> => queue' # <<>> /\ Head(queue') = Head(queue)
      /\ pending' = {} /\ pendingBytes' = 0 /\ timer' = NoTimer /\ waited' = 0
  <2>1. /\ queue \in Seq(Batch) /\ Disjoint(queue) /\ pending \in SUBSET Edits
        /\ pendingBytes \in Nat /\ pending \cap Queued = {}
    BY DEF TypeOK, OnePlace
  <2> QED
    BY <1>1, <2>1, FlushMoves
<1>4. TypeOK'
  BY <1>1, <1>2, <1>3, WriterAssumption DEF TypeOK, NoTimer
<1>5. NothingForgotten' /\ PendingWillFlush' /\ TimerCoversOldest'
  BY <1>1, <1>2, <1>3 DEF NothingForgotten, PendingWillFlush, TimerCoversOldest
<1>6. OnePlace' /\ CompactingHead' /\ WrittenOnce'
  BY <1>1, <1>3 DEF OnePlace, CompactingHead, WrittenOnce
<1> QED
  BY <1>4, <1>5, <1>6

(* A tick moves the timer and the age of the oldest pending update together. *)
LEMMA TickInv ==
  ASSUME WriterInv, Tick
  PROVE  WriterInv'
<1> USE DEF WriterInv
<1>1. /\ pending' = pending /\ pendingBytes' = pendingBytes /\ closed' = closed
      /\ queue' = queue /\ writing' = writing /\ rowsSinceSnapshot' = rowsSinceSnapshot
      /\ recorded' = recorded /\ stored' = stored /\ unsure' = unsure /\ dropped' = dropped
  BY DEF Tick
<1>2. Queued' = Queued
  BY <1>1 DEF Queued
<1>3. timer' \in 0 .. NoTimer /\ waited' \in Nat
  BY WriterAssumption DEF Tick, TypeOK, NoTimer
<1>4. TypeOK'
  BY <1>1, <1>3 DEF TypeOK
<1>5. PendingWillFlush' /\ TimerCoversOldest'
  BY <1>1, WriterAssumption DEF Tick, TypeOK, PendingWillFlush, TimerCoversOldest, NoTimer
<1>6. NothingForgotten' /\ OnePlace' /\ CompactingHead' /\ WrittenOnce'
  BY <1>1, <1>2 DEF NothingForgotten, OnePlace, CompactingHead, WrittenOnce
<1> QED
  BY <1>4, <1>5, <1>6

(* A batch leaves the head of the chain. *)
LEMMA PopMoves ==
  ASSUME queue \in Seq(Batch), Disjoint(queue), queue # <<>>, queue' = Tail(queue)
  PROVE  /\ queue' \in Seq(Batch) /\ Disjoint(queue')
         /\ Head(queue).edits \in SUBSET Edits /\ Head(queue).edits # {}
         /\ Head(queue).bytes \in Nat
         /\ Queued = Head(queue).edits \cup Queued'
         /\ Head(queue).edits \cap Queued' = {}
<1>1. Head(queue) \in Batch /\ Queued = Head(queue).edits \cup Queued' /\ queue' \in Seq(Batch)
  BY EditsOfTail DEF Queued
<1>2. Disjoint(queue') /\ Head(queue).edits \cap Queued' = {}
  BY DisjointTail DEF Queued
<1> QED
  BY <1>1, <1>2 DEF Batch

(* An append that resolves makes its batch stored; the batch leaves the chain
   now, or after the compaction it triggers. *)
LEMMA AppendOkInv ==
  ASSUME WriterInv, AppendOk
  PROVE  WriterInv'
<1> USE DEF WriterInv
<1>1. /\ queue # <<>> /\ writing = "append"
      /\ stored' = stored \cup Head(queue).edits
      /\ rowsSinceSnapshot' = rowsSinceSnapshot + 1
      /\ pending' = pending /\ pendingBytes' = pendingBytes /\ timer' = timer
      /\ closed' = closed /\ recorded' = recorded /\ unsure' = unsure /\ dropped' = dropped
      /\ waited' = waited
  BY DEF AppendOk, buffer
<1>2. queue \in Seq(Batch) /\ Disjoint(queue)
  BY DEF TypeOK, OnePlace
<1>3. Head(queue).edits \subseteq Edits /\ Head(queue).edits \subseteq Queued
  BY <1>1, <1>2, EditsOfTail DEF Queued, Batch
<1>4. PendingWillFlush' /\ TimerCoversOldest'
  BY <1>1 DEF PendingWillFlush, TimerCoversOldest
<1>5. CASE queue' = Tail(queue) /\ writing' = writing
  <2>1. /\ queue' \in Seq(Batch) /\ Disjoint(queue')
        /\ Queued = Head(queue).edits \cup Queued'
        /\ Head(queue).edits \cap Queued' = {}
    BY <1>1, <1>2, <1>5, PopMoves
  <2>2. TypeOK'
    BY <1>1, <1>3, <1>5, <2>1 DEF TypeOK
  <2>3. NothingForgotten' /\ OnePlace' /\ CompactingHead'
    BY <1>1, <1>5, <2>1 DEF NothingForgotten, OnePlace, CompactingHead
  <2>4. WrittenOnce'
    BY <1>1, <1>3, <1>5, <2>1 DEF WrittenOnce, OnePlace
  <2> QED
    BY <1>4, <2>2, <2>3, <2>4
<1>6. CASE queue' = queue /\ writing' = "compact"
  <2>1. Queued' = Queued
    BY <1>6 DEF Queued
  <2>2. TypeOK'
    BY <1>1, <1>3, <1>6 DEF TypeOK
  <2>3. NothingForgotten' /\ OnePlace' /\ CompactingHead'
    BY <1>1, <1>2, <1>3, <1>6, <2>1 DEF NothingForgotten, OnePlace, CompactingHead
  <2>4. WrittenOnce'
    BY <1>1, <1>3, <1>6, <2>1 DEF WrittenOnce, OnePlace
  <2> QED
    BY <1>4, <2>2, <2>3, <2>4
<1> QED
  BY <1>5, <1>6 DEF AppendOk

(* An append that rejects gives its batch back to pending with a timer, or, on
   a closed writer, to dropped. *)
LEMMA AppendFailInv ==
  ASSUME WriterInv, NEW n, NEW c \in BOOLEAN, AppendFail(n, c)
  PROVE  WriterInv'
<1> USE DEF WriterInv
<1>1. /\ queue # <<>> /\ writing = "append" /\ queue' = Tail(queue)
      /\ closed' = closed /\ writing' = writing /\ rowsSinceSnapshot' = rowsSinceSnapshot
      /\ recorded' = recorded
  BY DEF AppendFail
<1>2. /\ queue' \in Seq(Batch) /\ Disjoint(queue')
      /\ Head(queue).edits \in SUBSET Edits /\ Head(queue).edits # {}
      /\ Head(queue).bytes \in Nat
      /\ Queued = Head(queue).edits \cup Queued'
      /\ Head(queue).edits \cap Queued' = {}
  BY <1>1, PopMoves DEF TypeOK, OnePlace
<1>3. \/ stored' = stored /\ unsure' = unsure
      \/ /\ stored' = stored \cup Head(queue).edits
         /\ unsure' = unsure \cup Head(queue).edits
  BY DEF AppendFail
<1>4. n \in Nat
  BY <1>2 DEF AppendFail
<1>5. CASE closed
  <2>1. /\ dropped' = dropped \cup Head(queue).edits
        /\ pending' = pending /\ pendingBytes' = pendingBytes /\ timer' = timer
        /\ waited' = waited
    BY <1>5 DEF AppendFail, buffer
  <2>2. TypeOK'
    BY <1>1, <1>2, <1>3, <2>1 DEF TypeOK
  <2>3. NothingForgotten' /\ PendingWillFlush' /\ TimerCoversOldest' /\ CompactingHead'
    BY <1>1, <1>2, <1>3, <1>5, <2>1
       DEF NothingForgotten, PendingWillFlush, TimerCoversOldest, CompactingHead
  <2>4. OnePlace' /\ WrittenOnce'
    BY <1>1, <1>2, <1>3, <2>1 DEF OnePlace, WrittenOnce
  <2> QED
    BY <2>2, <2>3, <2>4
<1>6. CASE ~closed
  <2>1. Push(Head(queue).edits, n) /\ dropped' = dropped
    BY <1>6 DEF AppendFail
  <2>2. /\ pending' = pending \cup Head(queue).edits /\ pendingBytes' \in Nat /\ waited' \in Nat
        /\ timer' \in 0 .. NoTimer /\ timer' # NoTimer /\ TimerCoversOldest'
    BY <1>2, <1>4, <1>6, <2>1, PushArms
  <2>3. TypeOK'
    BY <1>1, <1>2, <1>3, <2>1, <2>2 DEF TypeOK
  <2>4. NothingForgotten' /\ PendingWillFlush' /\ CompactingHead'
    BY <1>1, <1>2, <1>3, <1>6, <2>1, <2>2 DEF NothingForgotten, PendingWillFlush, CompactingHead
  <2>5. OnePlace'
    BY <1>1, <1>2, <1>3, <2>1, <2>2 DEF OnePlace
  <2>6. WrittenOnce'
    BY <1>1, <1>2, <1>3, <2>1, <2>2 DEF OnePlace, WrittenOnce
  <2> QED
    BY <2>2, <2>3, <2>4, <2>5, <2>6
<1> QED
  BY <1>5, <1>6

(* A compaction ends, well or badly, and its batch leaves the chain. *)
LEMMA CompactEndsInv ==
  ASSUME WriterInv, NEW ok \in BOOLEAN, CompactEnds(ok)
  PROVE  WriterInv'
<1> USE DEF WriterInv
<1>1. /\ queue # <<>> /\ writing = "compact" /\ writing' = "append" /\ queue' = Tail(queue)
      /\ rowsSinceSnapshot' \in {0, rowsSinceSnapshot}
      /\ pending' = pending /\ pendingBytes' = pendingBytes /\ timer' = timer
      /\ closed' = closed /\ recorded' = recorded /\ unsure' = unsure /\ dropped' = dropped
      /\ stored' = stored /\ waited' = waited
  BY DEF CompactEnds, buffer
<1>2. /\ queue' \in Seq(Batch) /\ Disjoint(queue')
      /\ Queued = Head(queue).edits \cup Queued'
      /\ Head(queue).edits \cap Queued' = {}
  BY <1>1, PopMoves DEF TypeOK, OnePlace
<1>3. TypeOK'
  BY <1>1, <1>2 DEF TypeOK
<1>4. NothingForgotten'
  BY <1>1, <1>2 DEF NothingForgotten, CompactingHead
<1>5. PendingWillFlush' /\ TimerCoversOldest' /\ CompactingHead'
  BY <1>1 DEF PendingWillFlush, TimerCoversOldest, CompactingHead
<1>6. OnePlace' /\ WrittenOnce'
  BY <1>1, <1>2 DEF OnePlace, WrittenOnce
<1> QED
  BY <1>3, <1>4, <1>5, <1>6

(* Every step preserves the inductive invariant. *)
LEMMA NextWriterInv == WriterInv /\ [Next]_vars => WriterInv'
<1> SUFFICES ASSUME WriterInv, [Next]_vars PROVE WriterInv'
  OBVIOUS
<1>1. ASSUME NEW e \in Edits, NEW n \in Sizes, Record(e, n) PROVE WriterInv'
  BY <1>1, RecordInv
<1>2. CASE TimerFires \/ Close
  BY <1>2, FlushInv
<1>3. CASE Tick
  BY <1>3, TickInv
<1>4. CASE AppendOk
  BY <1>4, AppendOkInv
<1>5. CASE AppendFails
  BY <1>5, AppendFailInv DEF AppendFails
<1>6. CASE Compacts
  BY <1>6, CompactEndsInv DEF Compacts
<1>7. CASE UNCHANGED vars
  BY <1>7 DEF vars, buffer, WriterInv, TypeOK, NothingForgotten, PendingWillFlush,
              TimerCoversOldest, OnePlace, CompactingHead, WrittenOnce, Queued
<1> QED
  BY <1>1, <1>2, <1>3, <1>4, <1>5, <1>6, <1>7 DEF Next

(* WriterInv is an invariant of the writer. *)
THEOREM WriterInvariant == Spec => []WriterInv
  BY InitWriterInv, NextWriterInv, PTL DEF Spec

(* writer.ts keeps every variable of the model in its type. *)
THEOREM TypeCorrect == Spec => []TypeOK
<1>1. WriterInv => TypeOK
  BY DEF WriterInv
<1> QED
  BY <1>1, WriterInvariant, PTL

(* Whatever fails, record() never loses an update before the writer is closed. *)
THEOREM NothingIsForgotten == Spec => []NothingForgotten
<1>1. WriterInv => NothingForgotten
  BY DEF WriterInv
<1> QED
  BY <1>1, WriterInvariant, PTL

(* A pending update always has a timer, and close() leaves none behind. *)
THEOREM PendingIsFlushed == Spec => []PendingWillFlush
<1>1. WriterInv => PendingWillFlush
  BY DEF WriterInv
<1> QED
  BY <1>1, WriterInvariant, PTL

(* A pending update waits at most debounceMs for its batch. *)
THEOREM DebounceIsBounded == Spec => []DebounceBound
<1>1. WriterInv => DebounceBound
  BY WriterAssumption DEF WriterInv, TypeOK, TimerCoversOldest, DebounceBound, NoTimer
<1> QED
  BY <1>1, WriterInvariant, PTL

(* No update is appended twice unless an append took effect and rejected. *)
THEOREM UpdatesAreWrittenOnce == Spec => []WrittenOnce
<1>1. WriterInv => WrittenOnce
  BY DEF WriterInv
<1> QED
  BY <1>1, WriterInvariant, PTL

=============================================================================
