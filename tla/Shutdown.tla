------------------------------ MODULE Shutdown ------------------------------
(***************************************************************************)
(* A signal reaches an instance (apps/server/src/index.ts): the gateway    *)
(* closes every socket, waits for them and asks the registry to close its  *)
(* rooms; then the HTTP server, the bus and the connection pool are closed *)
(* (app.ts) and the process exits.  A timer ends it earlier if that takes  *)
(* five seconds.  All the while connections leave, rooms close and writers *)
(* flush as RoomRegistry describes.                                        *)
(*                                                                         *)
(* What RoomRegistry leaves open is added: a call to the store waits for a *)
(* connection of the pool, which other documents use too, and a pool that  *)
(* is being ended serves no call that still waits and refuses new ones.    *)
(***************************************************************************)
EXTENDS RoomRegistry

CONSTANTS StoreFails,        \* whether a call that has a connection may fail, or its wait time out
          BusMayFail         \* whether the broker may be down

(* RoomRegistry has to allow for a failing store: an ended pool rejects. *)
ASSUME ShutdownAssumption ==
    StoreMayFail = TRUE /\ StoreFails \in BOOLEAN /\ BusMayFail \in BOOLEAN

VARIABLES
    phase,         \* how far the shutdown is
    swept,         \* the rooms closeAll() found and waits for
    call,          \* each room's call to the store
    late           \* history: updates with no connection once the pool was ended

allVars == <<vars, phase, swept, call, late>>

Phases == {"serving", "draining", "flushing", "closing", "ending", "exited", "killed"}
Calls == {"none", "waiting", "out", "stuck"}

ShutdownInit ==
    /\ Init
    /\ phase = "serving"
    /\ swept = {}
    /\ call = [r \in Rooms |-> "none"]
    /\ late = {}

Running == phase \notin {"exited", "killed"}

(* Room r has a call to the store under way. *)
Asking(r) == stage[r] = "reading" \/ writing[r] # {}

(* A call waits for a connection when it is made, and is over with its answer. *)
CallsFollow ==
    call' = [r \in Rooms |->
                IF ~Asking(r)' THEN "none"
                ELSE IF call[r] = "none" THEN "waiting" ELSE call[r]]

(* Updates without a connection to write them. *)
Unwritten == UNION {pending[r] \cup (IF call[r] = "out" THEN {} ELSE writing[r]) : r \in Rooms}

AllClosed == \A c \in Clients : socket[c] \in {"new", "closed"}

(* Defects the properties below have to notice.  None is part of ShutdownNext. *)

(* gateway.close() asks the registry to close its rooms without waiting for the
   sockets. *)
GatewayClosedEarly ==
    /\ phase = "draining"
    /\ phase' = "flushing"
    /\ swept' = {rooms} \ {None}
    /\ rooms' = None
    /\ stage' = [r \in Rooms |-> IF r \in swept' THEN "unsubscribing" ELSE stage[r]]
    /\ UNCHANGED <<connection, opening, waiting, members, doc, writer, sent, accepted, call, late>>

(* gateway.close() closes only the clients that have joined. *)
SignalJoined ==
    /\ phase = "serving"
    /\ phase' = "draining"
    /\ CloseAll({c \in Clients : room[c] # None})
    /\ UNCHANGED <<user, room, queued, registry, stage, members, doc, writer, sent, accepted,
                   swept, call, late>>

(* store.close() does not wait for the connections in use. *)
ExitAtOnce ==
    /\ phase = "ending"
    /\ phase' = "exited"
    /\ UNCHANGED <<vars, swept, call, late>>

----------------------------------------------------------------------------
(* What goes on meanwhile *)

(* The connections.  A gateway that is being closed answers an upgrade with 503. *)
ClientStep(c) ==
    /\ Running
    /\ \/ phase = "serving" /\ Connect(c)
       \/ StartClosing({c})
       \/ SocketClosed(c)
       \/ JoinOpenRoom(c)
       \/ JoinByOpening(c)
       \/ \E e \in Edits : Frame(c, e)
    /\ CallsFollow
    /\ UNCHANGED <<phase, swept, late>>

(* The rooms, but for the answers of the store. *)
RoomStep(r) ==
    /\ Running
    /\ LoadDone(r) \/ WriteStart(r) \/ CloseStep(r)
    /\ CallsFollow
    /\ UNCHANGED <<phase, swept, late>>

(* The pool has a connection for the call. *)
GetsConnection(r) ==
    /\ Running /\ phase # "ending"
    /\ call[r] = "waiting"
    /\ call' = [call EXCEPT ![r] = "out"]
    /\ UNCHANGED <<vars, phase, swept, late>>

StoreAnswers(r) ==
    /\ Running
    /\ call[r] = "out"
    /\ \/ (LoadRead(r) \/ WriteOk(r)) /\ UNCHANGED late
       \/ /\ StoreFails
          /\ LoadFails(r) \/ WriteFails(r)
          /\ late' = IF phase = "ending" THEN late \cup writing[r] ELSE late
    /\ CallsFollow
    /\ UNCHANGED <<phase, swept>>

(* pool.connect() rejects: the pool has been ended, or the wait timed out. *)
PoolRefuses(r) ==
    /\ Running
    /\ call[r] = "waiting"
    /\ phase = "ending" \/ StoreFails
    /\ LoadFails(r) \/ WriteFails(r)
    /\ CallsFollow
    /\ UNCHANGED <<phase, swept, late>>

----------------------------------------------------------------------------
(* The shutdown *)

(* shutdown(), and gateway.close() as far as it is synchronous. *)
Signal ==
    /\ phase = "serving"
    /\ phase' = "draining"
    /\ CloseAll(Clients)
    /\ UNCHANGED <<user, room, queued, registry, stage, members, doc, writer, sent, accepted,
                   swept, call, late>>

(* wss.close() calls back once every socket has closed; closeAll() takes the
   rooms out of the registry and starts to close them. *)
GatewayClosed ==
    /\ phase = "draining"
    /\ AllClosed
    /\ phase' = "flushing"
    /\ swept' = {rooms} \ {None}
    /\ rooms' = None
    /\ stage' = [r \in Rooms |-> IF r \in swept' THEN "unsubscribing" ELSE stage[r]]
    /\ UNCHANGED <<connection, opening, waiting, members, doc, writer, sent, accepted, call, late>>

(* closeAll() resolves; the HTTP server and then the bus are being closed. *)
RoomsFlushed ==
    /\ phase = "flushing"
    /\ \A r \in swept : stage[r] = "gone"
    /\ phase' = "closing"
    /\ UNCHANGED <<vars, swept, call, late>>

(* bus.close() resolves and pool.end() is called in the same turn.  A broker
   that is up answers the unsubscriptions before the QUIT. *)
BusClosed ==
    /\ phase = "closing"
    /\ \/ BusMayFail
       \/ \A r \in Rooms : stage[r] = "unsubscribing" => pending[r] = {} /\ writing[r] = {}
    /\ phase' = "ending"
    /\ call' = [r \in Rooms |-> IF call[r] = "waiting" THEN "stuck" ELSE call[r]]
    /\ late' = Unwritten
    /\ UNCHANGED <<vars, swept>>

(* pool.end() resolves when every connection has been given back; the process
   exits. *)
Exit ==
    /\ phase = "ending"
    /\ \A r \in Rooms : call[r] # "out"
    /\ phase' = "exited"
    /\ UNCHANGED <<vars, swept, call, late>>

(* The timer that shutdown() starts fires first. *)
ForcedExit ==
    /\ Running /\ phase # "serving"
    /\ phase' = "killed"
    /\ UNCHANGED <<vars, swept, call, late>>

----------------------------------------------------------------------------
StoreStep(r) == GetsConnection(r) \/ StoreAnswers(r) \/ PoolRefuses(r)
Proceed == GatewayClosed \/ RoomsFlushed \/ BusClosed \/ Exit

ShutdownNext ==
    \/ \E c \in Clients : ClientStep(c)
    \/ \E r \in Rooms : RoomStep(r) \/ StoreStep(r)
    \/ Signal \/ Proceed \/ ForcedExit

ShutdownSpec == ShutdownInit /\ [][ShutdownNext]_allVars

(* As in RoomRegistry, and the pool has a connection in the end.  Nothing makes
   a signal come or the timer fire. *)
FairShutdown ==
    /\ ShutdownSpec
    /\ \A r \in Rooms : WF_allVars(RoomStep(r)) /\ WF_allVars(StoreStep(r))
    /\ \A c \in Clients : WF_allVars(socket[c] = "closing" /\ SocketClosed(c) /\ ClientStep(c))
    /\ WF_allVars(Proceed)

----------------------------------------------------------------------------
(* closeAll() finds no room to flush: wss.close() has waited for the sockets, and
   the last of them has taken the room with it (registry.ts, leave()).  The
   flush of those rooms is awaited by nobody. *)
CloseAllFindsNothing == swept = {}

(* No update is taken from a client, queued ones included, once the rooms are
   being flushed: it could come too late to be written. *)
NothingAcceptedLate ==
    [][phase \notin {"serving", "draining"} => accepted' = accepted]_allVars

(* What a client's room has applied is in the store when the process exits by
   itself, unless it had no connection to the store by the time the pool was
   ended, or the store refused it then or to a closing writer.  A call that has
   one is waited for. *)
ExitLosesOnlyLate == phase = "exited" => accepted \subseteq saved \cup late \cup dropped

(* The process exits by itself: no socket, room or call can hold the shutdown up
   so that only the timer ends it. *)
ShutdownEnds == phase = "draining" ~> ~Running

(* The comment of writer.ts: an ordinary restart loses nothing. *)
RestartLosesNothing == phase = "exited" => accepted \subseteq saved

----------------------------------------------------------------------------
(* The parts of the inductive invariant. *)

ShutdownTypeOK ==
    /\ phase \in Phases
    /\ swept \subseteq Rooms
    /\ call \in [Rooms -> Calls]
    /\ late \subseteq Edits

(* Once the gateway is closed there is no socket left. *)
NobodyLeft == phase \in {"flushing", "closing", "ending", "exited"} => AllClosed

(* A room that has or awaits a connection of the pool has a call under way. *)
OutIsAsked == \A r \in Rooms : call[r] # "none" => Asking(r)

(* Once the pool is ended, what is not stored was late or has a connection. *)
LateOrOut ==
    phase \in {"ending", "exited"} =>
        /\ \A r \in Rooms : /\ pending[r] \subseteq late
                            /\ call[r] # "out" => writing[r] \subseteq late
        /\ \A e \in accepted : \/ e \in saved \cup late \cup dropped
                               \/ \E r \in Rooms : call[r] = "out" /\ e \in writing[r]

ShutdownInv ==
    /\ RegistryInv
    /\ ShutdownTypeOK
    /\ CloseAllFindsNothing
    /\ NobodyLeft
    /\ OutIsAsked
    /\ LateOrOut
    /\ ExitLosesOnlyLate

=============================================================================
