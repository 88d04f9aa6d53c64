--------------------------- MODULE ShutdownProofs ---------------------------
(***************************************************************************)
(* Proofs about Shutdown for any number of clients, updates and rooms.     *)
(* Every step is a step of RoomRegistry or changes nothing of it, so that  *)
(* RegistryInv comes from RoomRegistryProofs; the rest of ShutdownInv says *)
(* what is left to do in each phase.                                       *)
(***************************************************************************)
EXTENDS Shutdown, RoomRegistryProofs

(* The initial state satisfies the inductive invariant. *)
LEMMA InitShutdownInv == ShutdownInit => ShutdownInv
<1> SUFFICES ASSUME ShutdownInit PROVE ShutdownInv
  OBVIOUS
<1>1. RegistryInv
  BY InitRegistryInv DEF ShutdownInit
<1>2. ShutdownTypeOK
  BY DEF ShutdownInit, ShutdownTypeOK, Phases, Calls
<1>3. CloseAllFindsNothing /\ NobodyLeft /\ LateOrOut /\ ExitLosesOnlyLate
  BY DEF ShutdownInit, CloseAllFindsNothing, NobodyLeft, LateOrOut, ExitLosesOnlyLate
<1>4. OutIsAsked
  BY DEF ShutdownInit, OutIsAsked
<1> QED
  BY <1>1, <1>2, <1>3, <1>4 DEF ShutdownInv

(* When every socket has closed the registry holds no room, so closeAll() takes
   none and the gateway is closed without a change to the registry. *)
LEMMA NothingToClose ==
  ASSUME RegistryInv, GatewayClosed
  PROVE  swept' = {} /\ UNCHANGED vars
<1>1. \A c \in Clients : room[c] = None
  BY DEF GatewayClosed, AllClosed, RegistryInv, JoinsOnce
<1>2. rooms = None
  <2> SUFFICES ASSUME rooms # None PROVE FALSE
    OBVIOUS
  <2>1. rooms \in Rooms /\ members[rooms] # {} /\ members[rooms] \subseteq Clients
    BY DEF RegistryInv, TypeOK, RoomHasClients
  <2>2. PICK c \in Clients : c \in members[rooms]
    BY <2>1
  <2> QED
    BY <1>1, <2>1, <2>2 DEF RegistryInv, NoGhosts
<1>3. swept' = {} /\ rooms' = rooms
  BY <1>2 DEF GatewayClosed
<1>4. stage' = stage
  BY <1>3 DEF GatewayClosed, RegistryInv, TypeOK
<1> QED
  BY <1>3, <1>4 DEF GatewayClosed, vars, registry

(* Every step is a step of RoomRegistry or changes nothing of it. *)
LEMMA StepIsRegistryStep ==
  ASSUME RegistryInv, [ShutdownNext]_allVars
  PROVE  [Next]_vars
<1>1. ASSUME NEW c \in Clients, ClientStep(c) PROVE Next
  BY <1>1 DEF ClientStep, ClientNext, Next
<1>2. ASSUME NEW r \in Rooms, RoomStep(r) PROVE Next
  BY <1>2 DEF RoomStep, RoomNext, LoadStep, Next
<1>3. ASSUME NEW r \in Rooms, StoreStep(r) PROVE [Next]_vars
  BY <1>3 DEF StoreStep, GetsConnection, StoreAnswers, PoolRefuses, RoomNext, LoadStep, WriteEnd, Next
<1>4. CASE Signal
  <2> DEFINE cs == {c \in Clients : IsOpen(c)}
  <2>1. CloseAll(cs)
    BY <1>4 DEF Signal, CloseAll
  <2>2. CASE cs = {}
    BY <1>4, <2>1, <2>2 DEF Signal, CloseAll, vars, connection, RegistryInv, TypeOK
  <2>3. CASE cs # {}
    <3>1. StartClosing(cs)
      BY <1>4, <2>1, <2>3 DEF Signal, StartClosing
    <3> QED
      BY <3>1 DEF Next
  <2> QED
    BY <2>2, <2>3
<1>5. CASE Proceed \/ ForcedExit
  BY <1>5, NothingToClose DEF Proceed, RoomsFlushed, BusClosed, Exit, ForcedExit
<1>6. CASE UNCHANGED allVars
  BY <1>6 DEF allVars
<1> QED
  BY <1>1, <1>2, <1>3, <1>4, <1>5, <1>6 DEF ShutdownNext

(* No client does anything once the gateway is closed. *)
LEMMA NoClientSteps ==
  ASSUME ShutdownInv, phase \in {"flushing", "closing", "ending", "exited"}, NEW c \in Clients
  PROVE  ~ClientStep(c)
<1>1. socket[c] \in {"new", "closed"}
  BY DEF ShutdownInv, NobodyLeft, AllClosed
<1> QED
  BY <1>1 DEF ClientStep, Connect, StartClosing, SocketClosed, JoinOpenRoom, JoinByOpening, Frame,
              CanDeliver, IsOpen

(* The shutdown itself changes nothing of the registry once it has begun. *)
LEMMA ProceedKeepsVars ==
  ASSUME ShutdownInv, Proceed \/ ForcedExit
  PROVE  UNCHANGED vars /\ swept' = {}
  BY NothingToClose DEF ShutdownInv, CloseAllFindsNothing, Proceed, RoomsFlushed, BusClosed, Exit,
                        ForcedExit

(* The variables of the shutdown keep their types. *)
LEMMA ShutdownTypeInv ==
  ASSUME ShutdownInv, [ShutdownNext]_allVars
  PROVE  ShutdownTypeOK'
<1> USE DEF ShutdownInv, ShutdownTypeOK
<1>1. TypeOK
  BY DEF RegistryInv
<1>2. ASSUME CallsFollow PROVE call' \in [Rooms -> Calls]
  BY <1>2 DEF CallsFollow, Calls
<1>3. ASSUME NEW c \in Clients, ClientStep(c) PROVE ShutdownTypeOK'
  BY <1>2, <1>3 DEF ClientStep
<1>4. ASSUME NEW r \in Rooms, RoomStep(r) \/ PoolRefuses(r) PROVE ShutdownTypeOK'
  BY <1>2, <1>4 DEF RoomStep, PoolRefuses
<1>5. ASSUME NEW r \in Rooms, GetsConnection(r) PROVE ShutdownTypeOK'
  BY <1>5 DEF GetsConnection, Calls
<1>6. ASSUME NEW r \in Rooms, StoreAnswers(r) PROVE ShutdownTypeOK'
  BY <1>1, <1>2, <1>6 DEF StoreAnswers, TypeOK
<1>7. CASE Signal
  BY <1>7 DEF Signal, Phases
<1>8. CASE Proceed \/ ForcedExit
  <2>1. swept' \subseteq Rooms
    BY <1>8, ProceedKeepsVars
  <2>2. phase' \in Phases
    BY <1>8 DEF Proceed, GatewayClosed, RoomsFlushed, BusClosed, Exit, ForcedExit, Phases
  <2>3. call' \in [Rooms -> Calls]
    BY <1>8 DEF Proceed, GatewayClosed, RoomsFlushed, BusClosed, Exit, ForcedExit, Calls
  <2>4. late' \subseteq Edits
    BY <1>1, <1>8 DEF Proceed, GatewayClosed, RoomsFlushed, BusClosed, Exit, ForcedExit,
                      Unwritten, TypeOK
  <2> QED
    BY <2>1, <2>2, <2>3, <2>4
<1>9. CASE UNCHANGED allVars
  BY <1>9 DEF allVars
<1> QED
  BY <1>3, <1>4, <1>5, <1>6, <1>7, <1>8, <1>9 DEF ShutdownNext, StoreStep

(* closeAll() has nothing to wait for, and from then on no socket is there. *)
LEMMA NobodyLeftInv ==
  ASSUME ShutdownInv, [ShutdownNext]_allVars
  PROVE  CloseAllFindsNothing' /\ NobodyLeft'
<1> USE DEF ShutdownInv
<1>1. CloseAllFindsNothing'
  BY ProceedKeepsVars DEF CloseAllFindsNothing, ShutdownNext, ClientStep, RoomStep, StoreStep,
     GetsConnection, StoreAnswers, PoolRefuses, Signal, allVars
<1>2. NobodyLeft'
  <2> DEFINE Past == {"flushing", "closing", "ending", "exited"}
  <2>1. CASE Proceed \/ ForcedExit
    <3>1. socket' = socket
      BY <2>1, ProceedKeepsVars DEF vars, connection
    <3> QED
      BY <2>1, <3>1 DEF Proceed, GatewayClosed, RoomsFlushed, BusClosed, Exit, ForcedExit,
                        NobodyLeft, AllClosed
  <2>2. CASE Signal
    BY <2>2 DEF Signal, NobodyLeft
  <2>3. ASSUME NEW c \in Clients, ClientStep(c) PROVE NobodyLeft'
    BY <2>3, NoClientSteps DEF ClientStep, NobodyLeft
  <2>4. ASSUME NEW r \in Rooms, RoomStep(r) \/ StoreStep(r) PROVE NobodyLeft'
    <3>1. phase' = phase
      BY <2>4 DEF RoomStep, StoreStep, GetsConnection, StoreAnswers, PoolRefuses
    <3>2. \/ socket' = socket
          \/ CloseAll(waiting)
      BY <2>4 DEF RoomStep, StoreStep, GetsConnection, StoreAnswers, PoolRefuses, LoadDone,
         WriteStart, CloseStep, Unsubscribed, Destroyed, LoadRead, LoadFails, WriteOk, WriteFails,
         connection, vars
    <3> QED
      BY <3>1, <3>2 DEF NobodyLeft, AllClosed, CloseAll, IsOpen
  <2>5. CASE UNCHANGED allVars
    BY <2>5 DEF allVars, vars, connection, NobodyLeft, AllClosed
  <2> QED
    BY <2>1, <2>2, <2>3, <2>4, <2>5 DEF ShutdownNext
<1> QED
  BY <1>1, <1>2

(* Whoever has or awaits a connection of the pool has a call under way. *)
LEMMA OutIsAskedInv ==
  ASSUME ShutdownInv, [ShutdownNext]_allVars
  PROVE  OutIsAsked'
<1> USE DEF ShutdownInv, ShutdownTypeOK
<1>1. ASSUME CallsFollow PROVE OutIsAsked'
  BY <1>1 DEF CallsFollow, OutIsAsked
<1>2. ASSUME UNCHANGED vars, \A r \in Rooms : call'[r] # "none" => Asking(r) PROVE OutIsAsked'
  BY <1>2 DEF OutIsAsked, Asking, vars, writer
<1>3. CASE Proceed \/ ForcedExit
  <2>1. \A r \in Rooms : call'[r] # "none" => call[r] # "none"
    BY <1>3 DEF Proceed, GatewayClosed, RoomsFlushed, BusClosed, Exit, ForcedExit
  <2> QED
    BY <1>2, <1>3, <2>1, ProceedKeepsVars DEF OutIsAsked
<1>4. ASSUME NEW r \in Rooms, GetsConnection(r) PROVE OutIsAsked'
  <2>1. Asking(r)
    BY <1>4 DEF GetsConnection, OutIsAsked
  <2> QED
    BY <1>2, <1>4, <2>1 DEF GetsConnection, OutIsAsked
<1>5. CASE Signal
  BY <1>5 DEF Signal, OutIsAsked, Asking, writer
<1>6. CASE UNCHANGED allVars
  BY <1>6 DEF allVars, vars, writer, OutIsAsked, Asking
<1> QED
  BY <1>1, <1>3, <1>4, <1>5, <1>6 DEF ShutdownNext, ClientStep, RoomStep, StoreStep,
     StoreAnswers, PoolRefuses

(* The pool is ended: what has no connection is late from now on, and what a room
   has applied is stored, dropped or on its way (AcceptedKept). *)
LEMMA BusClosedLate ==
  ASSUME ShutdownInv, BusClosed
  PROVE  LateOrOut'
<1> USE DEF ShutdownInv
<1>1. UNCHANGED <<pending, writing, saved, dropped, accepted>>
  BY DEF BusClosed, vars, writer
<1>2. \A r \in Rooms : call'[r] = "out" <=> call[r] = "out"
  BY DEF BusClosed
<1>3. \A r \in Rooms : pending[r] \subseteq late' /\ (call[r] # "out" => writing[r] \subseteq late')
  BY DEF BusClosed, Unwritten
<1>4. \A e \in accepted : \/ e \in saved \cup late' \cup dropped
                          \/ \E r \in Rooms : call[r] = "out" /\ e \in writing[r]
  BY <1>3 DEF RegistryInv, AcceptedKept, Kept
<1> QED
  BY <1>1, <1>2, <1>3, <1>4 DEF LateOrOut

(* After that no room applies anything, a write that starts is late, and one that
   has a connection ends up in the store or is refused. *)
LEMMA RoomStepLate ==
  ASSUME ShutdownInv, phase = "ending", NEW r \in Rooms, RoomStep(r)
  PROVE  LateOrOut'
<1> USE DEF ShutdownInv, ShutdownTypeOK
<1>1. LateOrOut /\ AllClosed /\ OutIsAsked /\ TypeOK
  BY DEF NobodyLeft, RegistryInv
<1>2. UNCHANGED <<phase, late>> /\ CallsFollow
  BY DEF RoomStep
<1> HIDE DEF ShutdownInv
<1>3. ASSUME UNCHANGED <<pending, writing, saved, dropped, accepted>> PROVE LateOrOut'
  <2>1. \A q \in Rooms : call'[q] = "out" => call[q] = "out"
    BY <1>2 DEF CallsFollow
  <2>2. \A q \in Rooms : call[q] = "out" /\ writing[q] # {} => call'[q] = "out"
    BY <1>2, <1>3 DEF CallsFollow, Asking
  <2> QED
    BY <1>1, <1>2, <1>3, <2>1, <2>2 DEF LateOrOut
<1>4. CASE LoadDone(r)
  <2>1. {c \in waiting : IsOpen(c)} = {}
    BY <1>1 DEF AllClosed, IsOpen, TypeOK
  <2>2. UNION {FramesOf(queued[c]) : c \in {d \in waiting : IsOpen(d)}} = {}
    BY <2>1
  <2>3. Dispatch(r, {})
    BY <1>4, <2>2 DEF LoadDone
  <2>4. UNCHANGED <<pending, accepted>>
    BY <1>1, <2>3 DEF Dispatch, TypeOK
  <2> QED
    BY <1>3, <1>4, <2>4 DEF LoadDone
<1>5. CASE CloseStep(r)
  BY <1>3, <1>5 DEF CloseStep, Unsubscribed, Destroyed, writer
<1>6. CASE WriteStart(r)
  <2>1. /\ UNCHANGED <<saved, dropped, accepted>>
        /\ writing[r] = {} /\ stage[r] # "reading"
        /\ pending' = [pending EXCEPT ![r] = {}]
        /\ writing' = [writing EXCEPT ![r] = pending[r]]
    BY <1>6 DEF WriteStart
  <2>2. call[r] = "none"
    BY <1>1, <2>1 DEF OutIsAsked, Asking
  <2>3. call'[r] # "out" /\ \A q \in Rooms : call'[q] = "out" => call[q] = "out"
    BY <1>2, <2>2 DEF CallsFollow
  <2>4. \A q \in Rooms \ {r} : pending'[q] = pending[q] /\ writing'[q] = writing[q]
    BY <1>1, <2>1 DEF TypeOK
  <2>5. pending'[r] = {} /\ writing'[r] = pending[r]
    BY <1>1, <2>1 DEF TypeOK
  <2>6. \A q \in Rooms : call[q] = "out" /\ writing[q] # {} => call'[q] = "out" /\ q # r
    BY <1>2, <2>1, <2>4 DEF CallsFollow, Asking
  <2>7. \A q \in Rooms : /\ pending'[q] \subseteq late
                         /\ call'[q] # "out" => writing'[q] \subseteq late
    BY <1>1, <2>3, <2>4, <2>5, <2>6 DEF LateOrOut
  <2>8. \A e \in accepted : \/ e \in saved \cup late \cup dropped
                            \/ \E q \in Rooms : call'[q] = "out" /\ e \in writing'[q]
    BY <1>1, <2>4, <2>6 DEF LateOrOut
  <2> QED
    BY <1>2, <2>1, <2>7, <2>8 DEF LateOrOut
<1> QED
  BY <1>4, <1>5, <1>6 DEF RoomStep

LEMMA StoreStepLate ==
  ASSUME ShutdownInv, phase = "ending", NEW r \in Rooms, StoreAnswers(r) \/ PoolRefuses(r)
  PROVE  LateOrOut'
<1> USE DEF ShutdownInv, ShutdownTypeOK
<1>1. LateOrOut /\ OutIsAsked /\ TypeOK
  BY DEF RegistryInv
<1>2. phase' = phase /\ late \subseteq late' /\ CallsFollow
  BY DEF StoreAnswers, PoolRefuses
<1> HIDE DEF ShutdownInv
<1>3. ASSUME UNCHANGED <<pending, writing, saved, dropped, accepted>> PROVE LateOrOut'
  <2>1. \A q \in Rooms : call'[q] = "out" => call[q] = "out"
    BY <1>2 DEF CallsFollow
  <2>2. \A q \in Rooms : call[q] = "out" /\ writing[q] # {} => call'[q] = "out"
    BY <1>2, <1>3 DEF CallsFollow, Asking
  <2> QED
    BY <1>1, <1>2, <1>3, <2>1, <2>2 DEF LateOrOut
<1>4. CASE LoadRead(r) \/ LoadFails(r)
  BY <1>3, <1>4 DEF LoadRead, LoadFails, writer
<1>5. ASSUME /\ writing' = [writing EXCEPT ![r] = {}] /\ accepted' = accepted
             /\ saved \subseteq saved' /\ dropped \subseteq dropped'
             /\ \A q \in Rooms : pending'[q] \subseteq pending[q] \cup late'
             /\ writing[r] \subseteq saved' \cup late'
      PROVE  LateOrOut'
  <2>1. writing'[r] = {} /\ \A q \in Rooms \ {r} : writing'[q] = writing[q]
    BY <1>1, <1>5 DEF TypeOK
  <2>2. \A q \in Rooms : call'[q] = "out" => call[q] = "out"
    BY <1>2 DEF CallsFollow
  <2>3. \A q \in Rooms \ {r} : call[q] = "out" /\ writing[q] # {} => call'[q] = "out"
    BY <1>2, <2>1 DEF CallsFollow, Asking
  <2>4. \A q \in Rooms : /\ pending'[q] \subseteq late'
                         /\ call'[q] # "out" => writing'[q] \subseteq late'
    BY <1>1, <1>2, <1>5, <2>1, <2>3 DEF LateOrOut
  <2>5. \A e \in accepted : \/ e \in saved' \cup late' \cup dropped'
                            \/ \E q \in Rooms : call'[q] = "out" /\ e \in writing'[q]
    BY <1>1, <1>2, <1>5, <2>1, <2>3 DEF LateOrOut
  <2> QED
    BY <1>2, <1>5, <2>4, <2>5 DEF LateOrOut
<1>6. CASE WriteOk(r)
  BY <1>5, <1>6 DEF WriteOk
<1>7. CASE WriteFails(r) /\ ~WriteOk(r)
  <2>1. writing[r] \subseteq late'
    <3>1. CASE StoreAnswers(r)
      <4>1. CASE WriteOk(r)
        BY <1>7, <4>1
      <4>2. CASE LoadRead(r) \/ LoadFails(r)
        BY <1>1, <1>7, <4>2 DEF LoadRead, LoadFails, WriteFails, writer, TypeOK
      <4>3. CASE late' = IF phase = "ending" THEN late \cup writing[r] ELSE late
        BY <4>3
      <4> QED
        BY <3>1, <4>1, <4>2, <4>3 DEF StoreAnswers
    <3>2. CASE PoolRefuses(r)
      BY <1>1, <3>2 DEF PoolRefuses, LateOrOut
    <3> QED
      BY <3>1, <3>2
  <2>2. \A q \in Rooms : pending'[q] \subseteq pending[q] \cup late'
    BY <1>1, <1>7, <2>1 DEF WriteFails, TypeOK
  <2> QED
    BY <1>5, <1>7, <2>1, <2>2 DEF WriteFails
<1> QED
  BY <1>4, <1>6, <1>7 DEF StoreAnswers, PoolRefuses

(* Nothing unaccounted for is lost when the pool has been ended, nor by the exit
   that waits for it. *)
LEMMA LateInv ==
  ASSUME ShutdownInv, [ShutdownNext]_allVars
  PROVE  LateOrOut' /\ ExitLosesOnlyLate'
<1> USE DEF ShutdownInv
<1>1. CASE BusClosed
  BY <1>1, BusClosedLate DEF BusClosed, ExitLosesOnlyLate
<1>2. CASE Exit
  <2>1. UNCHANGED <<pending, writing, saved, dropped, accepted, late, call>>
    BY <1>2 DEF Exit, vars, writer
  <2>2. LateOrOut'
    BY <1>2, <2>1 DEF Exit, LateOrOut
  <2>3. accepted \subseteq saved \cup late \cup dropped
    BY <1>2 DEF Exit, LateOrOut
  <2> QED
    BY <2>1, <2>2, <2>3 DEF ExitLosesOnlyLate
<1>3. CASE GatewayClosed \/ RoomsFlushed \/ ForcedExit \/ Signal
  BY <1>3 DEF GatewayClosed, RoomsFlushed, ForcedExit, Signal, LateOrOut, ExitLosesOnlyLate
<1>4. ASSUME NEW c \in Clients, ClientStep(c) PROVE LateOrOut' /\ ExitLosesOnlyLate'
  BY <1>4, NoClientSteps DEF ClientStep, LateOrOut, ExitLosesOnlyLate
<1>5. ASSUME NEW r \in Rooms, RoomStep(r) \/ StoreStep(r) PROVE LateOrOut' /\ ExitLosesOnlyLate'
  <2>1. phase' = phase /\ phase # "exited"
    BY <1>5 DEF RoomStep, StoreStep, GetsConnection, StoreAnswers, PoolRefuses, Running
  <2>2. CASE phase # "ending"
    BY <2>1, <2>2 DEF LateOrOut, ExitLosesOnlyLate
  <2>3. CASE phase = "ending"
    BY <1>5, <2>1, <2>3, RoomStepLate, StoreStepLate DEF StoreStep, GetsConnection, ExitLosesOnlyLate
  <2> QED
    BY <2>2, <2>3
<1>6. CASE UNCHANGED allVars
  BY <1>6 DEF allVars, vars, writer, LateOrOut, ExitLosesOnlyLate
<1> QED
  BY <1>1, <1>2, <1>3, <1>4, <1>5, <1>6 DEF ShutdownNext, Proceed

(* Every step preserves the inductive invariant. *)
LEMMA NextShutdownInv == ShutdownInv /\ [ShutdownNext]_allVars => ShutdownInv'
<1> SUFFICES ASSUME ShutdownInv, [ShutdownNext]_allVars PROVE ShutdownInv'
  OBVIOUS
<1>1. RegistryInv'
  BY StepIsRegistryStep, NextRegistryInv DEF ShutdownInv
<1> QED
  BY <1>1, ShutdownTypeInv, NobodyLeftInv, OutIsAskedInv, LateInv DEF ShutdownInv

(* ShutdownInv holds in every reachable state, whatever fails. *)
THEOREM ShutdownInvariant == ShutdownSpec => []ShutdownInv
<1>1. ShutdownInit => ShutdownInv
  BY InitShutdownInv
<1>2. ShutdownInv /\ [ShutdownNext]_allVars => ShutdownInv'
  BY NextShutdownInv
<1> QED
  BY <1>1, <1>2, PTL DEF ShutdownSpec

(* closeAll() never finds a room: by the time the gateway calls it, leave() has
   taken the last one out of the registry. *)
THEOREM NothingIsSwept == ShutdownSpec => []CloseAllFindsNothing
<1>1. ShutdownInv => CloseAllFindsNothing
  BY DEF ShutdownInv
<1> QED
  BY <1>1, ShutdownInvariant, PTL

(* A process that exits by itself has written what its rooms applied, but for
   what had no connection to the store once the pool was ended and for what the
   store refused. *)
THEOREM ExitIsClean == ShutdownSpec => []ExitLosesOnlyLate
<1>1. ShutdownInv => ExitLosesOnlyLate
  BY DEF ShutdownInv
<1> QED
  BY <1>1, ShutdownInvariant, PTL

(* Once the rooms are being flushed no update is taken from a client. *)
THEOREM NothingIsAcceptedLate == ShutdownSpec => NothingAcceptedLate
<1>1. ASSUME ShutdownInv, [ShutdownNext]_allVars, phase \notin {"serving", "draining"}
      PROVE  accepted' = accepted
  <2> USE DEF ShutdownInv
  <2>1. CASE phase = "killed"
    BY <1>1, <2>1 DEF ShutdownNext, ClientStep, RoomStep, StoreStep, GetsConnection, StoreAnswers,
       PoolRefuses, Signal, Proceed, GatewayClosed, RoomsFlushed, BusClosed, Exit, ForcedExit,
       Running, allVars, vars
  <2>2. CASE phase # "killed"
    <3>1. phase \in {"flushing", "closing", "ending", "exited"}
      BY <1>1, <2>2 DEF ShutdownTypeOK, Phases
    <3>2. \A c \in Clients : ~IsOpen(c)
      BY <1>1, <3>1 DEF NobodyLeft, AllClosed, IsOpen
    <3>3. ASSUME NEW r \in Rooms, LoadDone(r) PROVE accepted' = accepted
      <4>1. UNION {FramesOf(queued[c]) : c \in {d \in waiting : IsOpen(d)}} = {}
        BY <1>1, <3>2 DEF RegistryInv, TypeOK
      <4> QED
        BY <3>3, <4>1 DEF LoadDone, Dispatch
    <3>4. ASSUME NEW r \in Rooms, RoomStep(r) \/ StoreStep(r) PROVE accepted' = accepted
      BY <3>3, <3>4 DEF RoomStep, StoreStep, GetsConnection, StoreAnswers, PoolRefuses, WriteStart,
         CloseStep, Unsubscribed, Destroyed, LoadRead, LoadFails, WriteOk, WriteFails, vars
    <3>5. CASE Proceed \/ ForcedExit
      BY <1>1, <3>5, ProceedKeepsVars DEF vars
    <3>6. CASE UNCHANGED allVars
      BY <3>6 DEF allVars, vars
    <3> QED
      BY <1>1, <3>1, <3>4, <3>5, <3>6, NoClientSteps DEF ShutdownNext, Signal
  <2> QED
    BY <2>1, <2>2
<1>2. ShutdownInv /\ [ShutdownNext]_allVars
        => [phase \notin {"serving", "draining"} => accepted' = accepted]_allVars
  BY <1>1
<1> QED
  BY <1>2, ShutdownInvariant, PTL DEF ShutdownSpec, NothingAcceptedLate

=============================================================================
