--------------------------- MODULE DocumentWriter ---------------------------
(***************************************************************************)
(* The write buffer between a room and the store                           *)
(* (apps/server/src/persistence/writer.ts): updates collect in pending,    *)
(* a debounce timer or a size limit turns them into a batch, and batches   *)
(* are written one after the other by a promise chain.  An append that     *)
(* fails goes back to pending, or is dropped once the writer is closed.    *)
(*                                                                         *)
(* The event loop runs a handler to completion, so an action is a whole    *)
(* handler.  Time is a count of ticks.  The store is external: each append *)
(* and compact resolves, rejects, or takes effect and rejects.             *)
(***************************************************************************)
EXTENDS Naturals, Sequences

CONSTANTS Edits,          \* updates a room may record, each of them once
          Sizes,          \* their sizes in bytes
          DebounceMs,     \* in ticks
          MaxBatchBytes,
          CompactAfter,
          InitialRows     \* rows the log may hold when the room is loaded

ASSUME WriterAssumption ==
    /\ Sizes \subseteq Nat \ {0}
    /\ DebounceMs \in Nat \ {0}
    /\ MaxBatchBytes \in Nat
    /\ CompactAfter \in Nat
    /\ InitialRows \subseteq Nat

VARIABLES
    pending,            \* updates not yet in a batch
    pendingBytes,
    timer,              \* ticks until the timer fires, or NoTimer
    closed,
    queue,              \* batches of the promise chain, the first being written
    writing,            \* which await of write() the first batch is at
    rowsSinceSnapshot

(* History. *)
VARIABLES
    recorded,           \* updates handed to record()
    stored,             \* updates the store has committed
    unsure,             \* of those, the ones whose append() rejected
    dropped,            \* updates given up by a closed writer
    waited              \* ticks since the oldest pending update was put there

buffer == <<pending, pendingBytes, timer>>
vars == <<buffer, closed, queue, writing, rowsSinceSnapshot,
          recorded, stored, unsure, dropped, waited>>

Batch == [edits : (SUBSET Edits) \ {{}}, bytes : Nat]
NoTimer == DebounceMs + 1   \* a value no running timer has
EditsOf(q) == UNION {q[i].edits : i \in 1 .. Len(q)}
Queued == EditsOf(queue)

Init ==
    /\ pending = {} /\ pendingBytes = 0 /\ timer = NoTimer
    /\ closed = FALSE
    /\ queue = <<>> /\ writing = "append"
    /\ rowsSinceSnapshot \in InitialRows
    /\ recorded = {} /\ stored = {} /\ unsure = {} /\ dropped = {}
    /\ waited = 0

(* Defects the properties below have to notice.  None is part of Next. *)

(* Every record() restarts the timer, as a debounce usually does. *)
ScheduleRestarts == timer' = IF closed THEN timer ELSE DebounceMs

(* The delay is doubled. *)
ScheduleLate == timer' = IF timer # NoTimer \/ closed THEN timer ELSE 2 * DebounceMs

(* flush() queues the pending updates and keeps them. *)
FlushKeepsPending(p, n) ==
    /\ timer' = NoTimer
    /\ pending' = p /\ pendingBytes' = 0 /\ waited' = 0
    /\ queue' = IF p = {} THEN queue ELSE Append(queue, [edits |-> p, bytes |-> n])

(* A rejected batch is logged and not put back. *)
AppendFailForgets(n, committed) ==
    /\ queue # <<>> /\ writing = "append"
    /\ queue' = Tail(queue)
    /\ UNCHANGED <<buffer, closed, writing, rowsSinceSnapshot,
                   recorded, stored, unsure, dropped, waited>>

(* A rejected batch is put back, and waits for the next record(). *)
AppendFailUnscheduled(n, committed) ==
    /\ queue # <<>> /\ writing = "append" /\ ~closed
    /\ queue' = Tail(queue)
    /\ pending' = pending \cup Head(queue).edits
    /\ pendingBytes' = pendingBytes + n
    /\ UNCHANGED <<timer, closed, writing, rowsSinceSnapshot,
                   recorded, stored, unsure, dropped, waited>>

(* A rejected batch is tried again, whether or not the writer is closed. *)
AppendFailRetries(n, committed) ==
    /\ queue # <<>> /\ writing = "append"
    /\ queue' = Append(Tail(queue), Head(queue))
    /\ UNCHANGED <<buffer, closed, writing, rowsSinceSnapshot,
                   recorded, stored, unsure, dropped, waited>>

(* schedule(): a timer already running is left alone. *)
Schedule ==
    timer' = IF timer # NoTimer \/ closed THEN timer ELSE DebounceMs

(* flush() of the updates p, of size n: the timer is cleared, and a batch that
   is not empty joins the end of the chain. *)
Flush(p, n) ==
    /\ timer' = NoTimer
    /\ pending' = {} /\ pendingBytes' = 0 /\ waited' = 0
    /\ queue' = IF p = {} THEN queue ELSE Append(queue, [edits |-> p, bytes |-> n])

(* Updates e of size n are pushed onto pending, without a flush. *)
Push(e, n) ==
    /\ pending' = pending \cup e
    /\ pendingBytes' = pendingBytes + n
    /\ waited' = IF pending = {} THEN 0 ELSE waited
    /\ Schedule

(* record().  A room records only what its clients send, and it has none when
   its writer is closed. *)
Record(e, n) ==
    /\ ~closed
    /\ e \notin recorded
    /\ recorded' = recorded \cup {e}
    /\ IF pendingBytes + n >= MaxBatchBytes
       THEN Flush(pending \cup {e}, pendingBytes + n)
       ELSE Push({e}, n) /\ UNCHANGED queue
    /\ UNCHANGED <<closed, writing, rowsSinceSnapshot, stored, unsure, dropped>>

(* The debounce timer fires. *)
TimerFires ==
    /\ timer = 0
    /\ Flush(pending, pendingBytes)
    /\ UNCHANGED <<closed, writing, rowsSinceSnapshot,
                   recorded, stored, unsure, dropped>>

(* close(): the final flush; the caller awaits the end of the chain. *)
Close ==
    /\ ~closed
    /\ closed' = TRUE
    /\ Flush(pending, pendingBytes)
    /\ UNCHANGED <<writing, rowsSinceSnapshot, recorded, stored, unsure, dropped>>

(* A tick passes; the event loop does not let a due timer wait.  Time matters
   only while the timer runs. *)
Tick ==
    /\ timer \in 1 .. DebounceMs
    /\ timer' = timer - 1
    /\ waited' = waited + 1
    /\ UNCHANGED <<pending, pendingBytes, closed, queue, writing, rowsSinceSnapshot,
                   recorded, stored, unsure, dropped>>

(* store.append() resolves; the log may now be long enough to compact. *)
AppendOk ==
    /\ queue # <<>> /\ writing = "append"
    /\ stored' = stored \cup Head(queue).edits
    /\ rowsSinceSnapshot' = rowsSinceSnapshot + 1
    /\ IF rowsSinceSnapshot + 1 < CompactAfter
       THEN queue' = Tail(queue) /\ UNCHANGED writing
       ELSE writing' = "compact" /\ UNCHANGED queue
    /\ UNCHANGED <<buffer, closed, recorded, unsure, dropped, waited>>

(* store.append() rejects: the batch goes back to pending, where its size is
   that of the merged update, or is dropped if the writer is closed.  The
   store may have committed it all the same. *)
AppendFail(n, committed) ==
    /\ queue # <<>> /\ writing = "append"
    /\ n \in 1 .. Head(queue).bytes
    /\ queue' = Tail(queue)
    /\ IF closed
       THEN /\ dropped' = dropped \cup Head(queue).edits
            /\ UNCHANGED <<buffer, waited>>
       ELSE /\ Push(Head(queue).edits, n)
            /\ UNCHANGED dropped
    /\ IF committed
       THEN /\ stored' = stored \cup Head(queue).edits
            /\ unsure' = unsure \cup Head(queue).edits
       ELSE UNCHANGED <<stored, unsure>>
    /\ UNCHANGED <<closed, writing, rowsSinceSnapshot, recorded>>

(* store.compact() resolves, or rejects and is tried again after a later
   append. *)
CompactEnds(ok) ==
    /\ queue # <<>> /\ writing = "compact"
    /\ rowsSinceSnapshot' = IF ok THEN 0 ELSE rowsSinceSnapshot
    /\ writing' = "append"
    /\ queue' = Tail(queue)
    /\ UNCHANGED <<buffer, closed, recorded, stored, unsure, dropped, waited>>

AppendFails == queue # <<>> /\ \E n \in 1 .. Head(queue).bytes, c \in BOOLEAN : AppendFail(n, c)
Compacts == \E ok \in BOOLEAN : CompactEnds(ok)

Next ==
    \/ \E e \in Edits, n \in Sizes : Record(e, n)
    \/ TimerFires \/ Close \/ Tick
    \/ AppendOk \/ AppendFails \/ Compacts

Spec == Init /\ [][Next]_vars

(* Timers fire, and every call to the store is answered one way or the other. *)
FairSpec ==
    /\ Spec
    /\ WF_vars(Tick) /\ WF_vars(TimerFires)
    /\ WF_vars(AppendOk \/ AppendFails) /\ WF_vars(Compacts)

(* A store that is asked again and again does not fail for ever. *)
StoreRecovers == SF_vars(AppendOk)

----------------------------------------------------------------------------
(* Every variable has its type. *)
TypeOK ==
    /\ pending \subseteq Edits
    /\ pendingBytes \in Nat
    /\ timer \in 0 .. NoTimer
    /\ closed \in BOOLEAN
    /\ queue \in Seq(Batch)
    /\ writing \in {"append", "compact"}
    /\ rowsSinceSnapshot \in Nat
    /\ recorded \subseteq Edits
    /\ stored \subseteq Edits
    /\ unsure \subseteq Edits
    /\ dropped \subseteq Edits
    /\ waited \in Nat

(* No update is forgotten: whatever was recorded is buffered, queued, stored,
   or was dropped by a writer that is closed. *)
NothingForgotten ==
    /\ recorded \subseteq pending \cup Queued \cup stored \cup dropped
    /\ dropped # {} => closed

(* While the writer is open a pending update always has a timer to wake it, a
   retried one included; a closed writer has nothing pending, so awaiting the
   chain is awaiting everything. *)
PendingWillFlush ==
    /\ pending # {} => timer # NoTimer
    /\ closed => pending = {} /\ timer = NoTimer

(* A pending update waits at most debounceMs for its batch, however busy the
   room is. *)
DebounceBound == pending # {} => waited <= DebounceMs

(* An update is written once: what is still to be written is not in the store,
   unless an append took effect and rejected. *)
WrittenOnce == (pending \cup Queued) \cap stored \subseteq
                   unsure \cup IF writing = "compact" THEN Head(queue).edits ELSE {}

(* Every update is stored in the end, or dropped by a closed writer, if the
   store comes back. *)
EditsSettle ==
    StoreRecovers => \A e \in Edits : e \in recorded ~> e \in stored \cup dropped

(* The promise of close() resolves, even if the store never comes back. *)
CloseReturns == closed ~> queue = <<>>

----------------------------------------------------------------------------
(* The parts of the inductive invariant behind the safety properties. *)

(* The timer was armed when the oldest pending update arrived. *)
TimerCoversOldest ==
    IF pending = {} THEN timer = NoTimer ELSE waited + timer = DebounceMs

(* An update is in one place of the pipeline at a time. *)
Disjoint(q) ==
    \A i, j \in 1 .. Len(q) : i # j => q[i].edits \cap q[j].edits = {}

OnePlace ==
    /\ Disjoint(queue)
    /\ pending \cap Queued = {}
    /\ pending \cup Queued \cup stored \cup dropped \subseteq recorded

(* A compaction runs on behalf of the head of the chain, which is stored. *)
CompactingHead ==
    writing = "compact" => queue # <<>> /\ Head(queue).edits \subseteq stored

WriterInv ==
    /\ TypeOK
    /\ NothingForgotten
    /\ PendingWillFlush
    /\ TimerCoversOldest
    /\ OnePlace
    /\ CompactingHead
    /\ WrittenOnce

=============================================================================
