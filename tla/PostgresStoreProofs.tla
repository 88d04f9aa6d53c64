------------------------- MODULE PostgresStoreProofs -------------------------
(***************************************************************************)
(* Proofs about PostgresStore for any number of writers, loaders and       *)
(* batches.  StoreInv is inductive; the safety properties follow from it.  *)
(***************************************************************************)
EXTENDS PostgresStore, TLAPS

(* The initial state satisfies the inductive invariant: empty tables, no call
   under way. *)
LEMMA InitStoreInv == Init => StoreInv
<1> SUFFICES ASSUME Init PROVE StoreInv
  OBVIOUS
<1>1. TypeOK
  BY ConstantsAssumption DEF Init, TypeOK, Row, Snapshot, NoSnapshot, PCs, Load
<1>2. LockHeld
  BY DEF Init, LockHeld, CompactPCs
<1>3. BaseIsCurrent /\ TailIsFolded /\ DoomedIsFolded
  BY DEF Init, BaseIsCurrent, TailIsFolded, DoomedIsFolded
<1>4. SkippedIsFolded /\ LoadWillComplete /\ LoadCompleteUnlessRaced
  BY DEF Init, SkippedIsFolded, LoadWillComplete, LoadCompleteUnlessRaced
<1>5. AckedReadableUnlessOvertaken
  BY DEF Init, AckedReadableUnlessOvertaken
<1> QED
  BY <1>1, <1>2, <1>3, <1>4, <1>5 DEF StoreInv

(* A step of append() before its commit changes nothing that another call or
   a reader can see. *)
LEMMA AppendPrefixInv ==
  ASSUME StoreInv, NEW w \in Writers,
         \/ \E b \in Batches : AppendBegin(w, b)
         \/ AppendInsertDocument(w)
         \/ AppendInsertUpdate(w)
         \/ AppendFail(w)
  PROVE  StoreInv'
<1>1. TypeOK /\ LockHeld
  BY DEF StoreInv
<1>2. /\ updates' = updates /\ snapshot' = snapshot /\ lock' = lock
      /\ cutoff' = cutoff /\ merged' = merged /\ doomed' = doomed
      /\ load' = load /\ acked' = acked /\ overtaken' = overtaken
  BY DEF AppendBegin, AppendInsertDocument, AppendInsertUpdate, AppendFail, tables, history
<1>3. \E p \in {"begun", "ready", "inserted", "idle"} : pc' = [pc EXCEPT ![w] = p]
  BY DEF AppendBegin, AppendInsertDocument, AppendInsertUpdate, AppendFail, Goto
<1>4. pc[w] \notin CompactPCs
  BY DEF AppendBegin, AppendInsertDocument, AppendInsertUpdate, AppendFail, AppendPCs, CompactPCs
<1>5. /\ pc' \in [Writers -> PCs]
      /\ \A v \in Writers : pc'[v] \in CompactPCs => pc'[v] = pc[v]
      /\ \A v \in Writers : pc[v] \in CompactPCs => pc'[v] = pc[v]
  BY <1>1, <1>3, <1>4 DEF TypeOK, PCs, AppendPCs, CompactPCs
<1>6. TypeOK'
  <2>1. documents' \in BOOLEAN
    BY <1>1, Zenon DEF TypeOK, AppendBegin, AppendInsertDocument, AppendInsertUpdate, AppendFail, tables
  <2>2. documentsBy' \subseteq Writers
    BY <1>1, Zenon DEF TypeOK, AppendBegin, AppendInsertDocument, AppendInsertUpdate, AppendFail, tables
  <2>3. nextSeq' \in Nat
    <3>1. nextSeq' = nextSeq \/ nextSeq' = nextSeq + 1
      BY Zenon DEF AppendBegin, AppendInsertDocument, AppendInsertUpdate, AppendFail, tables
    <3> QED
      BY <1>1, <3>1 DEF TypeOK
  <2>4. batch' \in [Writers -> SUBSET Batches]
    <3>1. \/ batch' = batch
          \/ batch' = [batch EXCEPT ![w] = {}]
          \/ \E b \in Batches : batch' = [batch EXCEPT ![w] = {b}]
      BY Zenon DEF AppendBegin, AppendInsertDocument, AppendInsertUpdate, AppendFail
    <3> QED
      BY <1>1, <3>1 DEF TypeOK
  <2>5. inserted' \in [Writers -> SUBSET Row]
    <3>1. CASE AppendInsertUpdate(w)
      <4>1. {[seq |-> nextSeq, payload |-> b] : b \in batch[w]} \subseteq Row
        BY <1>1 DEF TypeOK, Row
      <4> QED
        BY <1>1, <3>1, <4>1 DEF TypeOK, AppendInsertUpdate
    <3>2. CASE ~AppendInsertUpdate(w)
      BY <1>1, <3>2 DEF TypeOK, AppendBegin, AppendInsertDocument, AppendFail
    <3> QED
      BY <3>1, <3>2
  <2> QED
    BY <1>1, <1>2, <1>5, <2>1, <2>2, <2>3, <2>4, <2>5 DEF TypeOK
<1>7. LockHeld'
  BY <1>1, <1>2, <1>5 DEF LockHeld
<1>8. BaseIsCurrent' /\ TailIsFolded' /\ DoomedIsFolded'
  BY <1>2, <1>5 DEF StoreInv, BaseIsCurrent, TailIsFolded, DoomedIsFolded, CompactPCs
<1>9. /\ SkippedIsFolded' /\ LoadWillComplete'
      /\ AckedReadableUnlessOvertaken' /\ LoadCompleteUnlessRaced'
  BY <1>2 DEF StoreInv, SkippedIsFolded, LoadWillComplete, Payloads,
              AckedReadableUnlessOvertaken, LoadCompleteUnlessRaced, Readable
<1> QED
  BY <1>6, <1>7, <1>8, <1>9 DEF StoreInv

(* The commit of an append adds rows that are above every cutoff in force, or
   are recorded as overtaken. *)
LEMMA AppendCommitInv ==
  ASSUME StoreInv, NEW w \in Writers, AppendCommit(w) \/ AppendCommitLost(w)
  PROVE  StoreInv'
<1> USE DEF StoreInv
<1>1. CommitAppend(w) /\ acked' \subseteq acked \cup Payloads(inserted[w])
  BY DEF AppendCommit, AppendCommitLost
<1>2. /\ updates' = updates \cup inserted[w] /\ snapshot' = snapshot /\ lock' = lock
      /\ cutoff' = cutoff /\ merged' = merged /\ doomed' = doomed /\ load' = load
      /\ overtaken' = overtaken \cup Payloads({r \in inserted[w] : Overtaken(r)})
      /\ pc[w] = "inserted" /\ pc' = [pc EXCEPT ![w] = "idle"]
  BY <1>1 DEF CommitAppend, Goto
<1>3. overtaken \subseteq overtaken' /\ inserted[w] \subseteq Row
  BY <1>2 DEF TypeOK
<1>4. /\ pc' \in [Writers -> PCs]
      /\ \A v \in Writers : pc'[v] \in CompactPCs => pc'[v] = pc[v]
      /\ \A v \in Writers : pc[v] \in CompactPCs => pc'[v] = pc[v]
  BY <1>2 DEF TypeOK, PCs, AppendPCs, CompactPCs
<1>5. \A r \in inserted[w] : Overtaken(r) => r.payload \in overtaken'
  BY <1>2 DEF Payloads
<1>6. TypeOK'
  <2>1. Payloads(inserted[w]) \subseteq Batches /\ overtaken' \subseteq Batches
    BY <1>2, <1>3 DEF TypeOK, Payloads, Row
  <2>2. batch' \in [Writers -> SUBSET Batches] /\ inserted' \in [Writers -> SUBSET Row]
    BY <1>1 DEF TypeOK, CommitAppend
  <2>3. documents' \in BOOLEAN /\ documentsBy' \subseteq Writers /\ nextSeq' \in Nat
    BY <1>1 DEF TypeOK, CommitAppend
  <2> QED
    BY <1>1, <1>2, <1>3, <1>4, <2>1, <2>2, <2>3 DEF TypeOK
<1>7. LockHeld'
  BY <1>2, <1>4 DEF LockHeld
<1>8. BaseIsCurrent' /\ DoomedIsFolded'
  BY <1>2, <1>3, <1>4 DEF BaseIsCurrent, DoomedIsFolded, CompactPCs
<1>9. TailIsFolded'
  <2> SUFFICES ASSUME NEW v \in Writers, pc'[v] \in {"merged", "written"},
                      NEW r \in updates', r.seq <= cutoff[v]
               PROVE  r.payload \in merged[v] \cup overtaken'
    BY <1>2 DEF TailIsFolded
  <2>1. pc[v] \in {"merged", "written"}
    BY <1>4 DEF CompactPCs
  <2>2. CASE r \in updates
    BY <1>3, <2>1, <2>2 DEF TailIsFolded
  <2>3. CASE r \in inserted[w]
    BY <1>5, <2>1, <2>3 DEF Overtaken
  <2> QED
    BY <1>2, <2>2, <2>3
<1>10. SkippedIsFolded'
  <2> SUFFICES ASSUME NEW r \in updates', r.seq <= snapshot.through_seq
               PROVE  r.payload \in snapshot.state \cup overtaken'
    BY <1>2 DEF SkippedIsFolded
  <2>1. CASE r \in updates
    BY <1>3, <2>1 DEF SkippedIsFolded
  <2>2. CASE r \in inserted[w]
    BY <1>5, <2>2 DEF Overtaken
  <2> QED
    BY <1>2, <2>1, <2>2
<1>11. LoadWillComplete' /\ LoadCompleteUnlessRaced'
  BY <1>2, <1>3 DEF LoadWillComplete, LoadCompleteUnlessRaced, Payloads
<1>12. AckedReadableUnlessOvertaken'
  <2> SUFFICES ASSUME NEW b \in acked' PROVE b \in Readable' \cup overtaken'
    BY DEF AckedReadableUnlessOvertaken
  <2>1. CASE b \in acked
    BY <1>2, <1>3, <2>1 DEF AckedReadableUnlessOvertaken, Readable, Payloads
  <2>2. CASE b \in Payloads(inserted[w])
    <3>1. PICK r \in inserted[w] : r.payload = b
      BY <2>2 DEF Payloads
    <3>2. r \in updates' /\ r.seq \in Nat /\ snapshot.through_seq \in Nat
      BY <1>2, <1>3 DEF TypeOK, Row, Snapshot
    <3>3. CASE r.seq <= snapshot.through_seq
      BY <1>5, <3>1, <3>3 DEF Overtaken
    <3>4. CASE r.seq > snapshot.through_seq
      BY <1>2, <3>1, <3>2, <3>4 DEF Readable, Payloads
    <3> QED
      BY <3>2, <3>3, <3>4
  <2> QED
    BY <1>1, <2>1, <2>2
<1> QED
  BY <1>6, <1>7, <1>8, <1>9, <1>10, <1>11, <1>12

(* Waiting for, taking and giving back the advisory lock: only the lock and
   the position of the call change, and the lock changes as the position does. *)
LEMMA CompactLockInv ==
  ASSUME StoreInv, NEW w \in Writers,
         CompactBegin(w) \/ CompactLock(w) \/ CompactFail(w)
  PROVE  StoreInv'
<1> USE DEF StoreInv
<1>1. /\ updates' = updates /\ snapshot' = snapshot /\ load' = load
      /\ acked' = acked /\ overtaken' = overtaken
      /\ documents' = documents /\ documentsBy' = documentsBy /\ nextSeq' = nextSeq
      /\ batch' = batch /\ inserted' = inserted
  BY DEF CompactBegin, CompactLock, CompactFail, tables, history
<1>2. \A v \in Writers \ {w} : pc'[v] = pc[v] /\ cutoff'[v] = cutoff[v]
                            /\ merged'[v] = merged[v] /\ doomed'[v] = doomed[v]
  BY DEF TypeOK, Goto, CompactBegin, CompactLock, CompactFail
<1>3. pc'[w] \in {"waiting", "locked", "idle"}
  BY DEF TypeOK, Goto, CompactBegin, CompactLock, CompactFail
<1>4. TypeOK'
  <2>1. pc' \in [Writers -> PCs] /\ lock' \subseteq Writers
    BY DEF TypeOK, PCs, CompactPCs, Goto, CompactBegin, CompactLock, CompactFail, tables
  <2>2. /\ cutoff' \in [Writers -> Nat] /\ merged' \in [Writers -> SUBSET Batches]
        /\ doomed' \in [Writers -> SUBSET Row]
    BY DEF TypeOK, CompactBegin, CompactLock, CompactFail
  <2> QED
    BY <1>1, <2>1, <2>2 DEF TypeOK
<1>5. LockHeld'
  <2>1. CASE CompactBegin(w)
    BY <2>1 DEF TypeOK, LockHeld, CompactBegin, Goto, CompactPCs, tables
  <2>2. CASE CompactLock(w)
    BY <2>2 DEF TypeOK, LockHeld, CompactLock, Goto, CompactPCs
  <2>3. CASE CompactFail(w)
    BY <2>3 DEF TypeOK, LockHeld, CompactFail, Goto, CompactPCs
  <2> QED
    BY <2>1, <2>2, <2>3
<1>6. BaseIsCurrent' /\ TailIsFolded' /\ DoomedIsFolded'
  BY <1>1, <1>2, <1>3 DEF BaseIsCurrent, TailIsFolded, DoomedIsFolded
<1>7. /\ SkippedIsFolded' /\ LoadWillComplete'
      /\ AckedReadableUnlessOvertaken' /\ LoadCompleteUnlessRaced'
  BY <1>1 DEF SkippedIsFolded, LoadWillComplete, Payloads,
              AckedReadableUnlessOvertaken, LoadCompleteUnlessRaced, Readable
<1> QED
  BY <1>4, <1>5, <1>6, <1>7

(* The reads of a compaction, and its writes before they are committed: the
   state it merges starts from the committed snapshot and picks up every row
   that the cutoff covers. *)
LEMMA CompactReadInv ==
  ASSUME StoreInv, NEW w \in Writers,
         \/ CompactCutoff(w) \/ CompactReadSnapshot(w)
         \/ CompactReadTail(w) \/ CompactWrite(w)
  PROVE  StoreInv'
<1> USE DEF StoreInv
<1>1. /\ updates' = updates /\ snapshot' = snapshot /\ load' = load
      /\ acked' = acked /\ overtaken' = overtaken
      /\ documents' = documents /\ documentsBy' = documentsBy /\ nextSeq' = nextSeq
      /\ batch' = batch /\ inserted' = inserted
  BY DEF CompactCutoff, CompactReadSnapshot, CompactReadTail, CompactWrite, tables, history
<1>2. \A v \in Writers \ {w} : pc'[v] = pc[v] /\ cutoff'[v] = cutoff[v]
                            /\ merged'[v] = merged[v] /\ doomed'[v] = doomed[v]
  BY DEF TypeOK, Goto, CompactCutoff, CompactReadSnapshot, CompactReadTail, CompactWrite
<1>3. TypeOK'
  <2>1. pc' \in [Writers -> PCs] /\ lock' \subseteq Writers
    BY DEF TypeOK, PCs, CompactPCs, Goto, tables,
           CompactCutoff, CompactReadSnapshot, CompactReadTail, CompactWrite
  <2>2. cutoff' \in [Writers -> Nat]
    BY DEF TypeOK, Row, CompactCutoff, CompactReadSnapshot, CompactReadTail, CompactWrite
  <2>3. Payloads({r \in updates : r.seq <= cutoff[w]}) \subseteq Batches
    BY DEF TypeOK, Payloads, Row
  <2>4. merged' \in [Writers -> SUBSET Batches]
    BY <2>3 DEF TypeOK, Snapshot, CompactCutoff, CompactReadSnapshot, CompactReadTail, CompactWrite
  <2>5. doomed' \in [Writers -> SUBSET Row]
    BY DEF TypeOK, CompactCutoff, CompactReadSnapshot, CompactReadTail, CompactWrite
  <2> QED
    BY <1>1, <2>1, <2>2, <2>4, <2>5 DEF TypeOK
<1>4. LockHeld'
  <2>1. CASE CompactCutoff(w)
    BY <2>1 DEF TypeOK, LockHeld, CompactCutoff, Goto, CompactPCs
  <2>2. CASE CompactReadSnapshot(w) \/ CompactReadTail(w) \/ CompactWrite(w)
    BY <2>2 DEF TypeOK, LockHeld, CompactPCs, Goto, tables,
                CompactReadSnapshot, CompactReadTail, CompactWrite
  <2> QED
    BY <2>1, <2>2
<1>5. BaseIsCurrent'
  <2>1. pc'[w] \in {"based", "merged", "written"} => snapshot.state \subseteq merged'[w]
    <3>1. CASE CompactCutoff(w) \/ CompactReadSnapshot(w)
      BY <3>1 DEF TypeOK, Goto, CompactCutoff, CompactReadSnapshot
    <3>2. CASE CompactReadTail(w)
      <4>1. /\ snapshot.state \subseteq merged[w]
            /\ merged' = [merged EXCEPT
                   ![w] = @ \cup Payloads({r \in updates : r.seq <= cutoff[w]})]
        BY <3>2 DEF BaseIsCurrent, CompactReadTail
      <4> QED
        BY <4>1 DEF TypeOK
    <3>3. CASE CompactWrite(w)
      BY <3>3 DEF BaseIsCurrent, CompactWrite
    <3> QED
      BY <3>1, <3>2, <3>3
  <2> QED
    BY <1>1, <1>2, <2>1 DEF BaseIsCurrent
<1>6. TailIsFolded'
  <2>1. pc'[w] \in {"merged", "written"}
          => \A r \in updates : r.seq <= cutoff'[w] => r.payload \in merged'[w] \cup overtaken
    BY DEF TailIsFolded, TypeOK, Goto, Payloads,
           CompactCutoff, CompactReadSnapshot, CompactReadTail, CompactWrite
  <2> QED
    BY <1>1, <1>2, <2>1 DEF TailIsFolded
<1>7. DoomedIsFolded'
  <2>1. pc'[w] = "written" => \A r \in doomed'[w] : r.payload \in merged'[w] \cup overtaken
    BY DEF TailIsFolded, DoomedIsFolded, TypeOK, Goto,
           CompactCutoff, CompactReadSnapshot, CompactReadTail, CompactWrite
  <2> QED
    BY <1>1, <1>2, <2>1 DEF DoomedIsFolded
<1>8. /\ SkippedIsFolded' /\ LoadWillComplete'
      /\ AckedReadableUnlessOvertaken' /\ LoadCompleteUnlessRaced'
  BY <1>1 DEF SkippedIsFolded, LoadWillComplete, Payloads,
              AckedReadableUnlessOvertaken, LoadCompleteUnlessRaced, Readable
<1> QED
  BY <1>3, <1>4, <1>5, <1>6, <1>7, <1>8

(* The commit of a compaction: what it deletes or moves behind through_seq is
   in the new snapshot or overtaken, and the loads it races are marked. *)
LEMMA CompactCommitInv ==
  ASSUME StoreInv, NEW w \in Writers, CompactCommit(w)
  PROVE  StoreInv'
<1> USE DEF StoreInv
<1>1. /\ snapshot' = [state |-> merged[w], through_seq |-> cutoff[w]]
      /\ updates' = updates \ doomed[w]
      /\ lock' = lock \ {w}
      /\ doomed' = [doomed EXCEPT ![w] = {}]
      /\ merged' = [merged EXCEPT ![w] = {}]
      /\ cutoff' = [cutoff EXCEPT ![w] = 0]
      /\ pc[w] = "written" /\ pc' = [pc EXCEPT ![w] = "idle"]
      /\ load' = [l \in Loaders |-> [load[l] EXCEPT !.raced = @ \/ load[l].pc = "tail"]]
      /\ documents' = documents /\ documentsBy' = documentsBy /\ nextSeq' = nextSeq
      /\ batch' = batch /\ inserted' = inserted
      /\ acked' = acked /\ overtaken' = overtaken
  BY DEF CompactCommit, Goto, history
<1>2. \A v \in Writers \ {w} : pc[v] \notin CompactPCs /\ pc'[v] = pc[v]
  BY <1>1 DEF LockHeld, CompactPCs, TypeOK
<1>3. pc'[w] = "idle"
  BY <1>1 DEF TypeOK
<1>4. TypeOK'
  <2>1. pc' \in [Writers -> PCs] /\ lock' \subseteq Writers /\ updates' \subseteq Row
    BY <1>1 DEF TypeOK, PCs
  <2>2. /\ cutoff' \in [Writers -> Nat] /\ merged' \in [Writers -> SUBSET Batches]
        /\ doomed' \in [Writers -> SUBSET Row] /\ snapshot' \in Snapshot
    BY <1>1 DEF TypeOK, Snapshot
  <2>3. load' \in [Loaders -> Load]
    <3> SUFFICES ASSUME NEW l \in Loaders
                 PROVE  [load[l] EXCEPT !.raced = @ \/ load[l].pc = "tail"] \in Load
      BY <1>1
    <3>1. load[l] \in Load /\ (load[l].raced \/ load[l].pc = "tail") \in BOOLEAN
      BY DEF TypeOK
    <3> QED
      BY <3>1 DEF Load
  <2> QED
    BY <1>1, <2>1, <2>2, <2>3 DEF TypeOK
<1>5. LockHeld'
  BY <1>1, <1>2, <1>3 DEF LockHeld, CompactPCs
<1>6. BaseIsCurrent' /\ TailIsFolded' /\ DoomedIsFolded'
  BY <1>2, <1>3 DEF BaseIsCurrent, TailIsFolded, DoomedIsFolded, CompactPCs
<1>7. SkippedIsFolded'
  BY <1>1 DEF SkippedIsFolded, TailIsFolded
<1>8. AckedReadableUnlessOvertaken'
  <2> SUFFICES ASSUME NEW b \in acked PROVE b \in Readable' \cup overtaken
    BY <1>1 DEF AckedReadableUnlessOvertaken
  <2>1. b \in snapshot.state => b \in Readable'
    BY <1>1 DEF BaseIsCurrent, Readable
  <2>2. ASSUME NEW r \in updates, r.payload = b
        PROVE  b \in Readable' \cup overtaken
    <3>1. r.seq \in Nat /\ cutoff[w] \in Nat
      BY DEF TypeOK, Row
    <3>2. CASE r.seq <= cutoff[w]
      BY <1>1, <2>2, <3>2 DEF TailIsFolded, Readable
    <3>3. CASE r \in doomed[w]
      BY <1>1, <2>2, <3>3 DEF DoomedIsFolded, Readable
    <3>4. CASE r.seq > cutoff[w] /\ r \notin doomed[w]
      BY <1>1, <2>2, <3>4 DEF Readable, Payloads
    <3> QED
      BY <3>1, <3>2, <3>3, <3>4
  <2> QED
    BY <2>1, <2>2 DEF AckedReadableUnlessOvertaken, Readable, Payloads
<1>9. \A l \in Loaders : /\ load'[l].pc = load[l].pc
                         /\ load'[l].state = load[l].state
                         /\ load'[l].promised = load[l].promised
                         /\ ~load'[l].raced => ~load[l].raced /\ load[l].pc # "tail"
  <2> SUFFICES ASSUME NEW l \in Loaders
               PROVE  /\ load'[l].pc = load[l].pc
                      /\ load'[l].state = load[l].state
                      /\ load'[l].promised = load[l].promised
                      /\ ~load'[l].raced => ~load[l].raced /\ load[l].pc # "tail"
    OBVIOUS
  <2>1. load'[l] = [load[l] EXCEPT !.raced = load[l].raced \/ load[l].pc = "tail"]
    BY <1>1
  <2>2. load[l] \in Load
    BY DEF TypeOK
  <2>3. load'[l].raced = (load[l].raced \/ load[l].pc = "tail")
    BY <2>1, <2>2 DEF Load
  <2> QED
    BY <2>1, <2>2, <2>3 DEF Load
<1>10. LoadWillComplete' /\ LoadCompleteUnlessRaced'
  BY <1>1, <1>9 DEF LoadWillComplete, LoadCompleteUnlessRaced
<1> QED
  BY <1>4, <1>5, <1>6, <1>7, <1>8, <1>10

(* A load reads its base and its tail at two moments; unless a compaction
   commits in between, the tail holds what the base does not. *)
LEMMA LoadInv ==
  ASSUME StoreInv, NEW l \in Loaders, LoadSnapshot(l) \/ LoadTail(l) \/ LoadFail(l)
  PROVE  StoreInv'
<1> USE DEF StoreInv
<1>1. UNCHANGED <<tables, calls, history>>
  BY DEF LoadSnapshot, LoadTail, LoadFail
<1>2. /\ UNCHANGED <<documents, documentsBy, updates, snapshot, nextSeq, lock>>
      /\ UNCHANGED <<pc, batch, inserted, cutoff, merged, doomed>>
      /\ UNCHANGED <<acked, overtaken>>
  BY <1>1 DEF tables, calls, history
<1>3. load \in [Loaders -> Load] /\ load[l] \in Load
  BY DEF TypeOK
<1>4. load' \in [Loaders -> Load] /\ \A k \in Loaders \ {l} : load'[k] = load[k]
  <2>1. CASE LoadSnapshot(l)
    BY <1>3, <2>1 DEF LoadSnapshot, TypeOK, Snapshot, Load
  <2>2. CASE LoadTail(l)
    <3>1. Payloads({r \in updates : r.seq > load[l].through_seq}) \subseteq Batches
      BY DEF TypeOK, Payloads, Row
    <3> QED
      BY <1>3, <2>2, <3>1 DEF LoadTail, Load
  <2>3. CASE LoadFail(l)
    BY <1>3, <2>3 DEF LoadFail, Load
  <2> QED
    BY <2>1, <2>2, <2>3
<1>5. TypeOK'
  BY <1>2, <1>4 DEF TypeOK
<1>6. /\ LockHeld' /\ BaseIsCurrent' /\ TailIsFolded' /\ DoomedIsFolded'
      /\ SkippedIsFolded' /\ AckedReadableUnlessOvertaken'
  BY <1>2 DEF LockHeld, BaseIsCurrent, TailIsFolded, DoomedIsFolded,
              SkippedIsFolded, AckedReadableUnlessOvertaken, Readable, Payloads
<1>7. LoadWillComplete' /\ LoadCompleteUnlessRaced'
  <2>1. CASE LoadSnapshot(l)
    <3>1. load'[l] = [pc |-> "tail", state |-> snapshot.state,
                      through_seq |-> snapshot.through_seq,
                      promised |-> acked, raced |-> FALSE]
      BY <1>3, <2>1 DEF LoadSnapshot
    <3>2. acked \subseteq snapshot.state \cup overtaken
              \cup Payloads({r \in updates : r.seq > snapshot.through_seq})
      BY DEF AckedReadableUnlessOvertaken, Readable
    <3> QED
      BY <1>2, <1>4, <3>1, <3>2 DEF LoadWillComplete, LoadCompleteUnlessRaced, Payloads
  <2>2. CASE LoadTail(l)
    <3>1. /\ load[l].pc = "tail" /\ load'[l].pc = "done"
          /\ load'[l].promised = load[l].promised /\ load'[l].raced = load[l].raced
          /\ load'[l].state = load[l].state
                \cup Payloads({r \in updates : r.seq > load[l].through_seq})
      BY <1>3, <2>2 DEF LoadTail, Load
    <3> QED
      BY <1>2, <1>4, <3>1 DEF LoadWillComplete, LoadCompleteUnlessRaced, Payloads
  <2>3. CASE LoadFail(l)
    <3>1. load'[l].pc = "idle"
      BY <1>3, <2>3 DEF LoadFail, Load
    <3> QED
      BY <1>2, <1>4, <3>1 DEF LoadWillComplete, LoadCompleteUnlessRaced, Payloads
  <2> QED
    BY <2>1, <2>2, <2>3
<1> QED
  BY <1>5, <1>6, <1>7

(* Every step preserves the inductive invariant. *)
LEMMA NextStoreInv == StoreInv /\ [Next]_vars => StoreInv'
<1> SUFFICES ASSUME StoreInv, [Next]_vars PROVE StoreInv'
  OBVIOUS
<1>1. CASE UNCHANGED vars
  BY <1>1 DEF vars, tables, calls, history, StoreInv, TypeOK, LockHeld, BaseIsCurrent,
              TailIsFolded, DoomedIsFolded, SkippedIsFolded, LoadWillComplete,
              AckedReadableUnlessOvertaken, LoadCompleteUnlessRaced, Readable, Payloads
<1>2. ASSUME NEW w \in Writers, WriterNext(w) PROVE StoreInv'
  BY <1>2, AppendPrefixInv, AppendCommitInv, CompactLockInv, CompactReadInv, CompactCommitInv
     DEF WriterNext, AppendStep, CompactStep
<1>3. ASSUME NEW l \in Loaders, LoaderNext(l) PROVE StoreInv'
  BY <1>3, LoadInv DEF LoaderNext
<1> QED
  BY <1>1, <1>2, <1>3 DEF Next

(* StoreInv is an invariant of the store. *)
THEOREM StoreInvariant == Spec => []StoreInv
  BY InitStoreInv, NextStoreInv, PTL DEF Spec

(* postgres-store.ts keeps every variable of the model in its type. *)
THEOREM TypeCorrect == Spec => []TypeOK
<1>1. StoreInv => TypeOK
  BY DEF StoreInv
<1> QED
  BY <1>1, StoreInvariant, PTL

(* However many instances append and compact, an acknowledged batch stays
   readable unless it committed behind a cutoff already read. *)
THEOREM AckedSurvive == Spec => []AckedReadableUnlessOvertaken
<1>1. StoreInv => AckedReadableUnlessOvertaken
  BY DEF StoreInv
<1> QED
  BY <1>1, StoreInvariant, PTL

(* A load that no compaction interrupts returns what had been acknowledged
   when it began, apart from the batches committed behind a cutoff. *)
THEOREM LoadsComplete == Spec => []LoadCompleteUnlessRaced
<1>1. StoreInv => LoadCompleteUnlessRaced
  BY DEF StoreInv
<1> QED
  BY <1>1, StoreInvariant, PTL

(* The snapshot never shrinks: the advisory lock keeps two compactions from
   overwriting each other. *)
THEOREM SnapshotNeverShrinks == Spec => SnapshotGrows
<1>1. StoreInv /\ [Next]_vars => [snapshot.state \subseteq snapshot'.state]_vars
  <2> SUFFICES ASSUME StoreInv, Next PROVE snapshot.state \subseteq snapshot'.state
    OBVIOUS
  <2>1. ASSUME NEW w \in Writers, CompactCommit(w)
        PROVE  snapshot.state \subseteq snapshot'.state
    BY <2>1 DEF StoreInv, BaseIsCurrent, CompactCommit
  <2>2. ASSUME NEW w \in Writers, WriterNext(w), ~CompactCommit(w)
        PROVE  snapshot' = snapshot
    BY <2>2, Zenon DEF WriterNext, AppendStep, CompactStep, tables,
       AppendBegin, AppendInsertDocument, AppendInsertUpdate, AppendCommit, AppendCommitLost,
       CommitAppend, AppendFail, CompactBegin, CompactLock, CompactCutoff,
       CompactReadSnapshot, CompactReadTail, CompactWrite, CompactFail
  <2>3. ASSUME NEW l \in Loaders, LoaderNext(l) PROVE snapshot' = snapshot
    BY <2>3 DEF LoaderNext, LoadSnapshot, LoadTail, LoadFail, tables
  <2> QED
    BY <2>1, <2>2, <2>3 DEF Next
<1> QED
  BY <1>1, StoreInvariant, PTL DEF Spec, SnapshotGrows

(* With one writer, what load() skips is empty, so it reads the whole log. *)
LEMMA OneWriterReadable ==
  OneWriterInv => Readable = snapshot.state \cup Payloads(updates)
  BY DEF OneWriterInv, TypeOK, Row, Snapshot, Readable, Payloads

(* One writer: every step preserves the invariant, because its appends and its
   compactions cannot overlap. *)
LEMMA OneWriterStep ==
  ASSUME OneWriter, OneWriterInv, NEW w \in Writers, WriterNext(w), TypeOK'
  PROVE  OneWriterInv'
<1> USE DEF OneWriterInv
<1>1. \A v \in Writers : v = w
  BY DEF OneWriter
<1>2. TypeOK
  OBVIOUS
<1>3. CASE \E b \in Batches : AppendBegin(w, b)
  BY <1>1, <1>2, <1>3 DEF AppendBegin, TypeOK, Goto, tables, history, AppendPCs, CompactPCs,
                          Readable, Payloads
<1>4. CASE AppendInsertDocument(w)
  BY <1>1, <1>2, <1>4 DEF AppendInsertDocument, TypeOK, Goto, history, AppendPCs, CompactPCs,
                          Readable, Payloads
<1>5. CASE AppendInsertUpdate(w)
  <2>1. PICK b \in Batches : batch[w] = {b}
    BY <1>5 DEF AppendInsertUpdate, AppendPCs
  <2>2. inserted'[w] = {[seq |-> nextSeq, payload |-> b]}
    BY <1>2, <1>5, <2>1 DEF AppendInsertUpdate, TypeOK
  <2>3. /\ pc'[w] = "inserted" /\ nextSeq' = nextSeq + 1 /\ batch' = batch
        /\ updates' = updates /\ snapshot' = snapshot
        /\ overtaken' = overtaken /\ acked' = acked
    BY <1>2, <1>5 DEF AppendInsertUpdate, TypeOK, Goto, history
  <2>4. /\ nextSeq \in Nat /\ snapshot.through_seq \in Nat
        /\ \A r \in updates : r.seq \in Nat
    BY <1>2 DEF TypeOK, Row, Snapshot
  <2>5. Readable' = Readable
    BY <2>3 DEF Readable, Payloads
  <2>6. \E r \in inserted'[w] : /\ inserted'[w] = {r}
                                /\ snapshot'.through_seq < r.seq /\ r.seq < nextSeq'
    BY <2>2, <2>3, <2>4
  <2>7. \A r \in updates' : snapshot'.through_seq < r.seq /\ r.seq < nextSeq'
    BY <2>3, <2>4
  <2> QED
    BY <1>1, <2>1, <2>3, <2>4, <2>5, <2>6, <2>7 DEF AppendPCs, CompactPCs
<1>6. CASE AppendCommit(w) \/ AppendCommitLost(w)
  <2>1. PICK r \in inserted[w] : /\ inserted[w] = {r}
                                 /\ snapshot.through_seq < r.seq /\ r.seq < nextSeq
    BY <1>6 DEF AppendCommit, AppendCommitLost, CommitAppend
  <2>2. pc'[w] = "idle" /\ updates' = updates \cup {r} /\ snapshot' = snapshot
        /\ nextSeq' = nextSeq
    BY <1>2, <1>6, <2>1 DEF AppendCommit, AppendCommitLost, CommitAppend, Goto, TypeOK
  <2>3. ~Overtaken(r)
    BY <1>1, <1>2, <1>6, <2>1 DEF Overtaken, AppendCommit, AppendCommitLost, CommitAppend,
                                  TypeOK, Row, Snapshot
  <2>4. overtaken' = {}
    BY <1>6, <2>1, <2>3 DEF AppendCommit, AppendCommitLost, CommitAppend, Payloads
  <2>5. acked' \subseteq Readable'
    BY <1>6, <2>1, <2>2 DEF AppendCommit, AppendCommitLost, Readable, Payloads
  <2> QED
    BY <1>1, <2>1, <2>2, <2>4, <2>5 DEF AppendPCs, CompactPCs
<1>7. CASE AppendFail(w)
  BY <1>1, <1>2, <1>7 DEF AppendFail, TypeOK, Goto, history, AppendPCs, CompactPCs,
                          Readable, Payloads
<1>8. CASE CompactBegin(w) \/ CompactLock(w) \/ CompactFail(w)
  BY <1>1, <1>2, <1>8 DEF CompactBegin, CompactLock, CompactFail, TypeOK, Goto, tables, history,
                          AppendPCs, CompactPCs, Readable, Payloads
<1>9. CASE CompactCutoff(w)
  BY <1>1, <1>2, <1>9 DEF CompactCutoff, TypeOK, Goto, history, Row, AppendPCs, CompactPCs,
                          Readable, Payloads
<1>10. CASE CompactReadSnapshot(w)
  BY <1>1, <1>2, <1>10 DEF CompactReadSnapshot, TypeOK, Goto, tables, history,
                           AppendPCs, CompactPCs, Readable, Payloads
<1>11. CASE CompactReadTail(w) \/ CompactWrite(w)
  <2>1. {r \in updates : r.seq <= cutoff[w]} = updates
    BY <1>11 DEF CompactReadTail, CompactWrite, CompactPCs
  <2>2. /\ updates' = updates /\ snapshot' = snapshot /\ nextSeq' = nextSeq
        /\ cutoff' = cutoff /\ overtaken' = overtaken /\ acked' = acked
    BY <1>11 DEF CompactReadTail, CompactWrite, tables, history
  <2>3. Readable' = Readable /\ Payloads(updates') = Payloads(updates)
    BY <2>2 DEF Readable, Payloads
  <2>4. pc[w] \in CompactPCs \ {"locked"} /\ pc'[w] \in {"merged", "written"}
    BY <1>2, <1>11 DEF CompactReadTail, CompactWrite, TypeOK, Goto, CompactPCs
  <2>5. merged'[w] = snapshot.state \cup Payloads(updates)
    BY <1>2, <1>11, <2>1 DEF CompactReadTail, CompactWrite, TypeOK
  <2>6. pc'[w] = "written" => doomed'[w] = updates
    BY <1>2, <1>11, <2>1 DEF CompactReadTail, CompactWrite, TypeOK, Goto
  <2> QED
    BY <1>1, <2>2, <2>3, <2>4, <2>5, <2>6 DEF AppendPCs, CompactPCs
<1>12. CASE CompactCommit(w)
  <2>1. /\ pc'[w] = "idle" /\ updates' = {} /\ overtaken' = overtaken /\ acked' = acked
        /\ snapshot' = [state |-> merged[w], through_seq |-> cutoff[w]]
        /\ nextSeq' = nextSeq /\ cutoff[w] < nextSeq
    BY <1>2, <1>12 DEF CompactCommit, Goto, history, TypeOK, CompactPCs
  <2>2. merged[w] = Readable
    BY <1>12, OneWriterReadable DEF CompactCommit
  <2>3. acked' \subseteq Readable'
    BY <2>1, <2>2 DEF Readable
  <2> QED
    BY <1>1, <2>1, <2>3 DEF AppendPCs, CompactPCs
<1> QED
  BY <1>3, <1>4, <1>5, <1>6, <1>7, <1>8, <1>9, <1>10, <1>11, <1>12
     DEF WriterNext, AppendStep, CompactStep

(* OneWriterInv holds of a store with one writer. *)
LEMMA OneWriterInvariant ==
  ASSUME OneWriter PROVE Spec => []OneWriterInv
<1>1. Init => OneWriterInv
  BY InitStoreInv DEF StoreInv, Init, OneWriterInv, NoSnapshot, AppendPCs, CompactPCs
<1>2. OneWriterInv /\ TypeOK' /\ [Next]_vars => OneWriterInv'
  <2> SUFFICES ASSUME OneWriterInv, TypeOK', [Next]_vars PROVE OneWriterInv'
    OBVIOUS
  <2>1. ASSUME NEW w \in Writers, WriterNext(w) PROVE OneWriterInv'
    BY <2>1, OneWriterStep
  <2>2. ASSUME UNCHANGED <<tables, calls, history>> PROVE OneWriterInv'
    BY <2>2 DEF OneWriterInv, tables, calls, history, Readable, Payloads
  <2>3. ASSUME NEW l \in Loaders, LoaderNext(l) PROVE OneWriterInv'
    BY <2>2, <2>3 DEF LoaderNext, LoadSnapshot, LoadTail, LoadFail
  <2>4. CASE UNCHANGED vars
    BY <2>2, <2>4 DEF vars
  <2> QED
    BY <2>1, <2>3, <2>4 DEF Next
<1> QED
  BY <1>1, <1>2, TypeCorrect, PTL DEF Spec

(* With one writer on the document, nothing append() acknowledged is lost. *)
THEOREM OneWriterAckedReadable ==
  ASSUME OneWriter PROVE Spec => []AckedReadable
<1>1. OneWriterInv => AckedReadable
  BY DEF OneWriterInv, AckedReadable
<1> QED
  BY <1>1, OneWriterInvariant, PTL

(* With one writer, the Postgres store implements the contract of store.ts:
   each commit of an append is an abstract append, and compaction is invisible. *)
THEOREM OneWriterImplements ==
  ASSUME OneWriter PROVE Spec => StoreSpec
<1>1. Init => Abstract!Init
  BY DEF Init, Abstract!Init, Readable, Payloads, NoSnapshot
<1>2. OneWriterInv /\ OneWriterInv' /\ [Next]_vars => [Abstract!Next]_(Abstract!vars)
  <2> SUFFICES ASSUME OneWriterInv, OneWriterInv', [Next]_vars
               PROVE  Abstract!Next \/ (Readable' = Readable /\ acked' = acked)
    BY DEF Abstract!vars
  <2>1. ASSUME updates' = updates, snapshot' = snapshot, acked' = acked
        PROVE  Readable' = Readable /\ acked' = acked
    BY <2>1 DEF Readable, Payloads
  <2>2. ASSUME NEW w \in Writers, AppendCommit(w) \/ AppendCommitLost(w)
        PROVE  Abstract!Next
    <3>1. PICK r \in inserted[w] : /\ inserted[w] = {r}
                                   /\ snapshot.through_seq < r.seq
      BY <2>2 DEF OneWriterInv, AppendCommit, AppendCommitLost, CommitAppend
    <3>2. r.payload \in Batches
      BY DEF OneWriterInv, TypeOK, Row
    <3>3. updates' = updates \cup {r} /\ snapshot' = snapshot
      BY <2>2, <3>1 DEF AppendCommit, AppendCommitLost, CommitAppend
    <3>4. Readable' = Readable \cup {r.payload}
      BY <3>3, OneWriterReadable DEF Payloads, OneWriterInv, Readable
    <3>5. acked' = acked \cup {r.payload} \/ acked' = acked
      BY <2>2, <3>1 DEF AppendCommit, AppendCommitLost, Payloads
    <3> QED
      BY <3>2, <3>4, <3>5 DEF Abstract!Next, Abstract!Append, Abstract!AppendUnacknowledged
  <2>3. ASSUME NEW w \in Writers, CompactCommit(w)
        PROVE  Readable' = Readable /\ acked' = acked
    <3>1. /\ updates' = updates \ updates
          /\ snapshot'.state = snapshot.state \cup Payloads(updates)
          /\ acked' = acked
      BY <2>3 DEF OneWriterInv, CompactCommit, history
    <3>2. Readable' = snapshot'.state \cup Payloads(updates')
      BY OneWriterReadable DEF OneWriterInv, TypeOK, Row, Snapshot, Readable, Payloads
    <3> QED
      BY <3>1, <3>2, OneWriterReadable DEF Payloads
  <2>4. ASSUME NEW w \in Writers, WriterNext(w), ~CompactCommit(w),
               ~AppendCommit(w), ~AppendCommitLost(w)
        PROVE  updates' = updates /\ snapshot' = snapshot /\ acked' = acked
    BY <2>4, Zenon DEF WriterNext, AppendStep, CompactStep, tables, history,
       AppendBegin, AppendInsertDocument, AppendInsertUpdate, AppendFail,
       CompactBegin, CompactLock, CompactCutoff, CompactReadSnapshot, CompactReadTail,
       CompactWrite, CompactFail
  <2>5. ASSUME NEW l \in Loaders, LoaderNext(l)
        PROVE  updates' = updates /\ snapshot' = snapshot /\ acked' = acked
    BY <2>5 DEF LoaderNext, LoadSnapshot, LoadTail, LoadFail, tables, history
  <2>6. CASE UNCHANGED vars
    BY <2>1, <2>6 DEF vars, tables, history
  <2> QED
    BY <2>1, <2>2, <2>3, <2>4, <2>5, <2>6 DEF Next
<1> QED
  BY <1>1, <1>2, OneWriterInvariant, PTL DEF Spec, StoreSpec, Abstract!Spec

=============================================================================
