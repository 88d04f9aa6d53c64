--------------------------- MODULE PostgresStore ---------------------------
(***************************************************************************)
(* The Postgres document store (apps/server/src/persistence/               *)
(* postgres-store.ts, sql/schema.sql), for one document: every statement   *)
(* filters on document_id, so documents do not interact.                   *)
(*                                                                         *)
(* A writer is one DocumentWriter: it issues one append or compact call at *)
(* a time.  Several writers exist at once when several instances hold the  *)
(* document, or when one instance reopens it while the room it closed is   *)
(* still flushing.  A loader is one RoomRegistry.load.                     *)
(*                                                                         *)
(* One action per SQL statement.  Transactions run at READ COMMITTED, the  *)
(* default the code leaves in place: a statement sees what is committed    *)
(* when the statement starts.  A batch of Yjs updates is a model value and *)
(* Y.mergeUpdates is union, because updates commute and are idempotent.    *)
(***************************************************************************)
EXTENDS Naturals, FiniteSets

CONSTANTS Writers,  \* the DocumentWriters that may be open on the document
          Loaders,  \* the RoomRegistry.load calls that may run
          Batches,  \* merged updates handed to append()
          MaxSeq    \* bound on the identity column document_updates.seq

ASSUME ConstantsAssumption == MaxSeq \in Nat

VARIABLES
    documents,    \* the documents row is committed
    documentsBy,  \* writers whose open transaction inserted the documents row
    updates,      \* committed rows of document_updates
    snapshot,     \* the committed document_snapshots row
    nextSeq,      \* next value of the identity column
    lock,         \* holders of pg_advisory_xact_lock(hashtext(id))
    pc,           \* where each writer's call stands
    batch,        \* the argument of a writer's append call
    inserted,     \* rows a writer's open transaction has inserted
    cutoff,       \* throughSeq of a writer's compaction
    merged,       \* parts / merged of a writer's compaction
    doomed,       \* rows a writer's open transaction has deleted
    load          \* each loader's call: base, tail and result

(* History: what the callers have been promised. *)
VARIABLES
    acked,        \* batches whose append() resolved
    overtaken     \* batches committed behind a compaction's cutoff

tables == <<documents, documentsBy, updates, snapshot, nextSeq, lock>>
calls == <<pc, batch, inserted, cutoff, merged, doomed>>
history == <<acked, overtaken>>
vars == <<tables, calls, load, history>>

Row == [seq : Nat, payload : Batches]
Snapshot == [state : SUBSET Batches, through_seq : Nat]

AppendPCs == {"begun", "ready", "inserted"}
CompactPCs == {"locked", "cutoff", "based", "merged", "written"}
PCs == {"idle", "waiting"} \cup AppendPCs \cup CompactPCs

Load == [pc : {"idle", "tail", "done"}, state : SUBSET Batches,
         through_seq : Nat, promised : SUBSET Batches, raced : BOOLEAN]

Payloads(rows) == {r.payload : r \in rows}

(* A missing snapshot row is read as no state and through_seq '0'. *)
NoSnapshot == [state |-> {}, through_seq |-> 0]

Init ==
    /\ documents = FALSE
    /\ documentsBy = {}
    /\ updates = {}
    /\ snapshot = NoSnapshot
    /\ nextSeq = 1
    /\ lock = {}
    /\ pc = [w \in Writers |-> "idle"]
    /\ batch = [w \in Writers |-> {}]
    /\ inserted = [w \in Writers |-> {}]
    /\ cutoff = [w \in Writers |-> 0]
    /\ merged = [w \in Writers |-> {}]
    /\ doomed = [w \in Writers |-> {}]
    /\ load = [l \in Loaders |-> [pc |-> "idle", state |-> {}, through_seq |-> 0,
                                  promised |-> {}, raced |-> FALSE]]
    /\ acked = {}
    /\ overtaken = {}

Goto(w, p) == pc' = [pc EXCEPT ![w] = p]

----------------------------------------------------------------------------
(* Defects the properties below have to notice.  None is part of Next. *)

(* The advisory lock is not waited for. *)
CompactLockIgnored(w) ==
    /\ pc[w] = "waiting"
    /\ lock' = lock \cup {w}
    /\ Goto(w, "locked")
    /\ UNCHANGED <<documents, documentsBy, updates, snapshot, nextSeq,
                   batch, inserted, cutoff, merged, doomed, load, history>>

(* The new snapshot is built from the log alone. *)
CompactWithoutBase(w) ==
    /\ pc[w] = "cutoff"
    /\ merged' = [merged EXCEPT ![w] = {}]
    /\ Goto(w, "based")
    /\ UNCHANGED <<tables, batch, inserted, cutoff, doomed, load, history>>

(* The tail stops short of the cutoff that the delete includes. *)
CompactTailExclusive(w) ==
    /\ pc[w] = "based"
    /\ merged' = [merged EXCEPT
           ![w] = @ \cup Payloads({r \in updates : r.seq < cutoff[w]})]
    /\ Goto(w, "merged")
    /\ UNCHANGED <<tables, batch, inserted, cutoff, doomed, load, history>>

(* A failed compaction keeps its lock, as a session-level lock would. *)
CompactFailKeepsLock(w) ==
    /\ pc[w] \in CompactPCs \cup {"waiting"}
    /\ Goto(w, "idle")
    /\ UNCHANGED <<tables, batch, inserted, cutoff, merged, doomed, load, history>>

(* A failed compaction has truncated the log, as without a transaction. *)
CompactFailTruncates(w) ==
    /\ pc[w] \in CompactPCs \cup {"waiting"}
    /\ updates' = updates \ doomed[w]
    /\ lock' = lock \ {w}
    /\ doomed' = [doomed EXCEPT ![w] = {}]
    /\ merged' = [merged EXCEPT ![w] = {}]
    /\ cutoff' = [cutoff EXCEPT ![w] = 0]
    /\ Goto(w, "idle")
    /\ UNCHANGED <<documents, documentsBy, snapshot, nextSeq, batch, inserted, load, history>>

(* Without a snapshot the log is read from the second row. *)
LoadSkipsFirst(l) ==
    /\ load[l].pc # "tail"
    /\ load' = [load EXCEPT ![l] =
           [pc |-> "tail", state |-> snapshot.state,
            through_seq |-> IF snapshot = NoSnapshot THEN 1 ELSE snapshot.through_seq,
            promised |-> acked, raced |-> FALSE]]
    /\ UNCHANGED <<tables, calls, history>>

----------------------------------------------------------------------------
(* append() *)

(* pool.connect() and begin.  The writer hands a batch over again only while
   its append has not resolved, and nobody else holds the same batch.  MaxSeq
   bounds the rows ever inserted. *)
AppendBegin(w, b) ==
    /\ pc[w] = "idle"
    /\ b \notin acked
    /\ \A v \in Writers : b \notin batch[v]
    /\ nextSeq + Cardinality({v \in Writers : pc[v] \in {"begun", "ready"}}) <= MaxSeq
    /\ batch' = [batch EXCEPT ![w] = {b}]
    /\ Goto(w, "begun")
    /\ UNCHANGED <<tables, inserted, cutoff, merged, doomed, load, history>>

(* insert into documents ... on conflict do nothing.  The unique index makes
   the statement wait for a transaction that has inserted the same id. *)
AppendInsertDocument(w) ==
    /\ pc[w] = "begun"
    /\ documentsBy = {}
    /\ documentsBy' = IF documents THEN {} ELSE {w}
    /\ Goto(w, "ready")
    /\ UNCHANGED <<documents, updates, snapshot, nextSeq, lock,
                   batch, inserted, cutoff, merged, doomed, load, history>>

(* insert into document_updates: the identity value is taken now, the row is
   seen by others at commit. *)
AppendInsertUpdate(w) ==
    /\ pc[w] = "ready"
    /\ inserted' = [inserted EXCEPT ![w] = {[seq |-> nextSeq, payload |-> b] : b \in batch[w]}]
    /\ nextSeq' = nextSeq + 1
    /\ Goto(w, "inserted")
    /\ UNCHANGED <<documents, documentsBy, updates, snapshot, lock,
                   batch, cutoff, merged, doomed, load, history>>

(* A row is overtaken when it becomes visible at or below a cutoff whose tail
   has already been read. *)
Overtaken(r) ==
    \/ r.seq <= snapshot.through_seq
    \/ \E v \in Writers : pc[v] \in {"merged", "written"} /\ r.seq <= cutoff[v]

(* The effect of commit on the tables. *)
CommitAppend(w) ==
    /\ pc[w] = "inserted"
    /\ updates' = updates \cup inserted[w]
    /\ documents' = TRUE
    /\ documentsBy' = documentsBy \ {w}
    /\ overtaken' = overtaken \cup Payloads({r \in inserted[w] : Overtaken(r)})
    /\ batch' = [batch EXCEPT ![w] = {}]
    /\ inserted' = [inserted EXCEPT ![w] = {}]
    /\ Goto(w, "idle")
    /\ UNCHANGED <<snapshot, nextSeq, lock, cutoff, merged, doomed, load>>

(* commit succeeds and append() resolves. *)
AppendCommit(w) ==
    /\ CommitAppend(w)
    /\ acked' = acked \cup Payloads(inserted[w])

(* The connection dies after Postgres committed and before the reply: append()
   rejects although the row is there. *)
AppendCommitLost(w) ==
    /\ CommitAppend(w)
    /\ acked' = acked

(* Any statement fails: rollback, and append() rejects. *)
AppendFail(w) ==
    /\ pc[w] \in AppendPCs
    /\ documentsBy' = documentsBy \ {w}
    /\ batch' = [batch EXCEPT ![w] = {}]
    /\ inserted' = [inserted EXCEPT ![w] = {}]
    /\ Goto(w, "idle")
    /\ UNCHANGED <<documents, updates, snapshot, nextSeq, lock,
                   cutoff, merged, doomed, load, history>>

----------------------------------------------------------------------------
(* compact() *)

(* pool.connect(), begin, and the request for the advisory lock.  A writer
   compacts only right after an append; that it may do so at any time here
   adds behaviours and takes none away. *)
CompactBegin(w) ==
    /\ pc[w] = "idle"
    /\ Goto(w, "waiting")
    /\ UNCHANGED <<tables, batch, inserted, cutoff, merged, doomed, load, history>>

(* The advisory lock is granted once nobody holds it. *)
CompactLock(w) ==
    /\ pc[w] = "waiting"
    /\ lock = {}
    /\ lock' = {w}
    /\ Goto(w, "locked")
    /\ UNCHANGED <<documents, documentsBy, updates, snapshot, nextSeq,
                   batch, inserted, cutoff, merged, doomed, load, history>>

(* select max(seq): with no rows there is nothing to fold and the transaction
   commits at once. *)
CompactCutoff(w) ==
    /\ pc[w] = "locked"
    /\ \/ /\ updates = {}
          /\ lock' = lock \ {w}
          /\ Goto(w, "idle")
          /\ UNCHANGED cutoff
       \/ \E top \in updates :
          /\ \A r \in updates : r.seq <= top.seq
          /\ cutoff' = [cutoff EXCEPT ![w] = top.seq]
          /\ Goto(w, "cutoff")
          /\ UNCHANGED lock
    /\ UNCHANGED <<documents, documentsBy, updates, snapshot, nextSeq,
                   batch, inserted, merged, doomed, load, history>>

(* select state from document_snapshots. *)
CompactReadSnapshot(w) ==
    /\ pc[w] = "cutoff"
    /\ merged' = [merged EXCEPT ![w] = snapshot.state]
    /\ Goto(w, "based")
    /\ UNCHANGED <<tables, batch, inserted, cutoff, doomed, load, history>>

(* select payload ... seq <= throughSeq, then Y.mergeUpdates. *)
CompactReadTail(w) ==
    /\ pc[w] = "based"
    /\ merged' = [merged EXCEPT
           ![w] = @ \cup Payloads({r \in updates : r.seq <= cutoff[w]})]
    /\ Goto(w, "merged")
    /\ UNCHANGED <<tables, batch, inserted, cutoff, doomed, load, history>>

(* Upsert of the snapshot and delete ... seq <= throughSeq.  Neither is seen
   by others before the commit; the rows deleted are those committed when the
   delete starts. *)
CompactWrite(w) ==
    /\ pc[w] = "merged"
    /\ doomed' = [doomed EXCEPT ![w] = {r \in updates : r.seq <= cutoff[w]}]
    /\ Goto(w, "written")
    /\ UNCHANGED <<tables, batch, inserted, cutoff, merged, load, history>>

(* commit: the new snapshot and the truncation appear together and the lock
   is released.  A load that has read the old snapshot is now raced. *)
CompactCommit(w) ==
    /\ pc[w] = "written"
    /\ snapshot' = [state |-> merged[w], through_seq |-> cutoff[w]]
    /\ updates' = updates \ doomed[w]
    /\ lock' = lock \ {w}
    /\ doomed' = [doomed EXCEPT ![w] = {}]
    /\ merged' = [merged EXCEPT ![w] = {}]
    /\ cutoff' = [cutoff EXCEPT ![w] = 0]
    /\ Goto(w, "idle")
    /\ load' = [l \in Loaders |-> [load[l] EXCEPT !.raced = @ \/ load[l].pc = "tail"]]
    /\ UNCHANGED <<documents, documentsBy, nextSeq, batch, inserted, history>>

(* Any statement fails: rollback releases the lock, and the writer logs it. *)
CompactFail(w) ==
    /\ pc[w] \in CompactPCs \cup {"waiting"}
    /\ lock' = lock \ {w}
    /\ doomed' = [doomed EXCEPT ![w] = {}]
    /\ merged' = [merged EXCEPT ![w] = {}]
    /\ cutoff' = [cutoff EXCEPT ![w] = 0]
    /\ Goto(w, "idle")
    /\ UNCHANGED <<documents, documentsBy, updates, snapshot, nextSeq,
                   batch, inserted, load, history>>

----------------------------------------------------------------------------
(* load() *)

(* select state, through_seq from document_snapshots. *)
LoadSnapshot(l) ==
    /\ load[l].pc # "tail"
    /\ load' = [load EXCEPT ![l] =
           [pc |-> "tail", state |-> snapshot.state,
            through_seq |-> snapshot.through_seq,
            promised |-> acked, raced |-> FALSE]]
    /\ UNCHANGED <<tables, calls, history>>

(* select payload ... seq > through_seq, a statement of its own and outside
   any transaction; the parts are merged and returned. *)
LoadTail(l) ==
    /\ load[l].pc = "tail"
    /\ load' = [load EXCEPT
           ![l].pc = "done",
           ![l].state = @ \cup Payloads({r \in updates : r.seq > load[l].through_seq})]
    /\ UNCHANGED <<tables, calls, history>>

(* A query fails and load() rejects; the join is refused. *)
LoadFail(l) ==
    /\ load[l].pc = "tail"
    /\ load' = [load EXCEPT ![l].pc = "idle"]
    /\ UNCHANGED <<tables, calls, history>>

----------------------------------------------------------------------------
(* The statements of a call that has started. *)
AppendStep(w) ==
    \/ AppendInsertDocument(w)
    \/ AppendInsertUpdate(w)
    \/ AppendCommit(w)

CompactStep(w) ==
    \/ CompactLock(w)
    \/ CompactCutoff(w)
    \/ CompactReadSnapshot(w)
    \/ CompactReadTail(w)
    \/ CompactWrite(w)
    \/ CompactCommit(w)

WriterNext(w) ==
    \/ \E b \in Batches : AppendBegin(w, b)
    \/ AppendStep(w) \/ AppendCommitLost(w) \/ AppendFail(w)
    \/ CompactBegin(w) \/ CompactStep(w) \/ CompactFail(w)

LoaderNext(l) == LoadSnapshot(l) \/ LoadTail(l) \/ LoadFail(l)

Next ==
    \/ \E w \in Writers : WriterNext(w)
    \/ \E l \in Loaders : LoaderNext(l)

Spec == Init /\ [][Next]_vars

(* A statement that is not waiting is answered, so a call that is neither
   waiting nor finished takes its next step or fails.  Postgres queues the
   waiters of a lock in order, so a statement whose lock is released again and
   again is eventually the one that gets it. *)
Fairness ==
    /\ \A w \in Writers :
        /\ WF_vars(AppendStep(w)) /\ WF_vars(CompactStep(w))
        /\ SF_vars(AppendInsertDocument(w)) /\ SF_vars(CompactLock(w))
    /\ \A l \in Loaders : WF_vars(LoadTail(l))

FairSpec == Spec /\ Fairness

----------------------------------------------------------------------------
(* Every variable has its type. *)
TypeOK ==
    /\ documents \in BOOLEAN
    /\ documentsBy \subseteq Writers
    /\ updates \subseteq Row
    /\ snapshot \in Snapshot
    /\ nextSeq \in Nat
    /\ lock \subseteq Writers
    /\ pc \in [Writers -> PCs]
    /\ batch \in [Writers -> SUBSET Batches]
    /\ inserted \in [Writers -> SUBSET Row]
    /\ cutoff \in [Writers -> Nat]
    /\ merged \in [Writers -> SUBSET Batches]
    /\ doomed \in [Writers -> SUBSET Row]
    /\ load \in [Loaders -> Load]
    /\ acked \subseteq Batches
    /\ overtaken \subseteq Batches

(* What load() would return if it ran now without interruption. *)
Readable ==
    snapshot.state \cup Payloads({r \in updates : r.seq > snapshot.through_seq})

(* A batch whose append() resolved stays readable.  Holds for one writer: see
   AckedReadableUnlessOvertaken for several. *)
AckedReadable == acked \subseteq Readable

(* With any number of writers, the only acknowledged batches that compaction can
   hide or delete are those that committed behind a cutoff already read. *)
AckedReadableUnlessOvertaken == acked \subseteq Readable \cup overtaken

(* load() returns every batch acknowledged before it started.  The code does not
   ensure it (README, item 2). *)
LoadComplete ==
    \A l \in Loaders : load[l].pc = "done" => load[l].promised \subseteq load[l].state

(* The same, for a load between whose two selects no compaction commits, and
   apart from the batches committed behind a cutoff. *)
LoadCompleteUnlessRaced ==
    \A l \in Loaders : load[l].pc = "done" /\ ~load[l].raced
        => load[l].promised \subseteq load[l].state \cup overtaken

(* A compaction never throws away what an earlier snapshot held, however many
   instances compact the same document. *)
SnapshotGrows == [][snapshot.state \subseteq snapshot'.state]_vars

(* Neither the advisory lock nor the insert into documents blocks for ever:
   every append and compact call returns. *)
CallsReturn == \A w \in Writers : pc[w] # "idle" ~> pc[w] = "idle"

(* The store implements what store.ts promises of append and compact. *)
Abstract == INSTANCE DocumentStore WITH saved <- Readable
StoreSpec == Abstract!Spec

----------------------------------------------------------------------------
(* The parts of the inductive invariant behind the safety properties. *)

(* The advisory lock is held exactly by the one writer that is compacting. *)
LockHeld ==
    /\ lock = {w \in Writers : pc[w] \in CompactPCs}
    /\ \A v, w \in lock : v = w

(* The state a compaction starts from is still the committed one. *)
BaseIsCurrent ==
    \A v \in Writers : pc[v] \in {"based", "merged", "written"}
        => snapshot.state \subseteq merged[v]

(* The rows up to the cutoff are in the merged state, or came too late. *)
TailIsFolded ==
    \A v \in Writers : pc[v] \in {"merged", "written"}
        => \A r \in updates : r.seq <= cutoff[v] => r.payload \in merged[v] \cup overtaken

(* So are the rows about to be deleted. *)
DoomedIsFolded ==
    \A v \in Writers : pc[v] = "written"
        => \A r \in doomed[v] : r.payload \in merged[v] \cup overtaken

(* So are the rows that load() skips. *)
SkippedIsFolded ==
    \A r \in updates : r.seq <= snapshot.through_seq
        => r.payload \in snapshot.state \cup overtaken

(* A load whose base is still the committed one will find the rest in the log. *)
LoadWillComplete ==
    \A l \in Loaders : load[l].pc = "tail" /\ ~load[l].raced
        => load[l].promised \subseteq
              load[l].state \cup overtaken
              \cup Payloads({r \in updates : r.seq > load[l].through_seq})

StoreInv ==
    /\ TypeOK
    /\ LockHeld
    /\ BaseIsCurrent
    /\ TailIsFolded
    /\ DoomedIsFolded
    /\ SkippedIsFolded
    /\ LoadWillComplete
    /\ AckedReadableUnlessOvertaken
    /\ LoadCompleteUnlessRaced

(* With one writer the log and the compaction never overlap. *)
OneWriter == \A v, w \in Writers : v = w

(* No row is ever overtaken, the log is exactly what the snapshot lacks, and a
   compaction folds and deletes all of it. *)
OneWriterInv ==
    /\ TypeOK
    /\ overtaken = {}
    /\ snapshot.through_seq < nextSeq
    /\ \A r \in updates : snapshot.through_seq < r.seq /\ r.seq < nextSeq
    /\ \A w \in Writers :
        /\ pc[w] \in AppendPCs => \E b \in Batches : batch[w] = {b}
        /\ pc[w] = "inserted" =>
            \E r \in inserted[w] : /\ inserted[w] = {r}
                                   /\ snapshot.through_seq < r.seq /\ r.seq < nextSeq
        /\ pc[w] \in CompactPCs \ {"locked"} =>
            /\ cutoff[w] < nextSeq
            /\ \A r \in updates : r.seq <= cutoff[w]
        /\ pc[w] = "based" => merged[w] = snapshot.state
        /\ pc[w] \in {"merged", "written"} => merged[w] = snapshot.state \cup Payloads(updates)
        /\ pc[w] = "written" => doomed[w] = updates
    /\ acked \subseteq Readable

=============================================================================
