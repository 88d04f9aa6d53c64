---------------------------- MODULE RoomRegistry ----------------------------
(***************************************************************************)
(* The life of one document on one instance: the connections that join and *)
(* leave it (apps/server/src/ws/connection.ts), the registry that opens    *)
(* and closes its rooms (rooms/registry.ts), and each room's document and  *)
(* writer (rooms/room.ts, persistence/writer.ts).                          *)
(*                                                                         *)
(* A handler runs to completion, and so do the promise reactions it queues *)
(* before the event loop takes the next event; an action is one such turn. *)
(* Only the store, the bus, timers and sockets take turns in between.      *)
(*                                                                         *)
(* A room object is a number, because the registry may hold a new room     *)
(* while an earlier one is still closing.  The store reads and appends     *)
(* atomically here; PostgresStore takes its calls apart.                   *)
(***************************************************************************)
EXTENDS Naturals, Sequences

CONSTANTS Clients,           \* Connection objects, one per socket
          Edits,             \* updates clients may send, each of them once
          MaxRooms,          \* bound on the room objects ever created
          MAX_QUEUED_FRAMES,
          StoreMayFail       \* whether the store may reject a call

ASSUME RegistryAssumption ==
    MaxRooms \in Nat /\ MAX_QUEUED_FRAMES \in Nat /\ StoreMayFail \in BOOLEAN

Rooms == 1 .. MaxRooms
None == 0          \* no room

VARIABLES
    (* Connection *)
    socket,        \* readyState of each socket
    user,          \* the connection has presented a valid token
    room,          \* the room it has joined, or None
    queued,        \* frames it sent while its document was loading
    (* RoomRegistry *)
    rooms,         \* the room the registry holds, or None
    opening,       \* the room being loaded, or None
    waiting,       \* connections whose join() awaits the load
    (* Room and DocumentWriter *)
    stage,         \* how far each room is through load(), its life and leave()
    members,       \* each room's clients
    doc,           \* each room's document
    pending,       \* updates its writer has yet to write
    writing,       \* updates its writer is writing
    (* The store *)
    saved

(* History. *)
VARIABLES
    sent,          \* updates a client has sent
    accepted,      \* updates a room has applied for a client
    dropped        \* updates a closing writer gave up

connection == <<socket, user, room, queued>>
registry == <<rooms, opening, waiting>>
writer == <<pending, writing, saved, dropped>>
vars == <<connection, registry, stage, members, doc, writer, sent, accepted>>

Stages == {"none", "reading", "subscribing", "open", "unsubscribing", "flushing", "gone"}

Init ==
    /\ socket = [c \in Clients |-> "new"]
    /\ user = [c \in Clients |-> FALSE]
    /\ room = [c \in Clients |-> None]
    /\ queued = [c \in Clients |-> <<>>]
    /\ rooms = None /\ opening = None /\ waiting = {}
    /\ stage = [r \in Rooms |-> "none"]
    /\ members = [r \in Rooms |-> {}]
    /\ doc = [r \in Rooms |-> {}]
    /\ pending = [r \in Rooms |-> {}]
    /\ writing = [r \in Rooms |-> {}]
    /\ saved = {} /\ sent = {} /\ accepted = {} /\ dropped = {}

FramesOf(q) == {q[i] : i \in 1 .. Len(q)}

IsOpen(c) == socket[c] = "open"

(* A closing socket still delivers the frames that were on their way. *)
CanDeliver(c) == socket[c] \in {"open", "closing"}

(* client.close(): nothing happens to a socket that is not open. *)
CloseAll(cs) ==
    socket' = [c \in Clients |-> IF c \in cs /\ IsOpen(c) THEN "closing" ELSE socket[c]]

(* Defects the properties below have to notice.  None is part of Next. *)

(* leave() drops the room although clients remain. *)
RoomKeepsNone(r, m) ==
    LET gone == m = {} \/ (m \subseteq members[r] /\ m # members[r]) IN
    /\ members' = [members EXCEPT ![r] = m]
    /\ rooms' = IF gone THEN None ELSE r
    /\ stage' = [stage EXCEPT ![r] = IF gone THEN "unsubscribing" ELSE "open"]

(* leave() keeps the room although nobody is left. *)
RoomKeepsEmpty(r, m) ==
    /\ members' = [members EXCEPT ![r] = m]
    /\ rooms' = r
    /\ stage' = [stage EXCEPT ![r] = "open"]

(* join() does not look at readyState once the document is there. *)
ArriveUnchecked(r, cs) ==
    /\ members' = [members EXCEPT ![r] = @ \cup cs]
    /\ rooms' = r
    /\ stage' = [stage EXCEPT ![r] = "open"]
    /\ room' = [c \in Clients |-> IF c \in cs /\ IsOpen(c) THEN r ELSE room[c]]

(* A failed load is not reported to the clients that wait for it. *)
LoadFailsSilently(r) ==
    /\ StoreMayFail
    /\ stage[r] = "reading"
    /\ stage' = [stage EXCEPT ![r] = "gone"]
    /\ opening' = None /\ waiting' = {}
    /\ UNCHANGED <<connection, rooms, members, doc, writer, sent, accepted>>

(* A batch the store refused is not put back. *)
WriteFailsForgets(r) ==
    /\ StoreMayFail
    /\ writing[r] # {}
    /\ writing' = [writing EXCEPT ![r] = {}]
    /\ UNCHANGED <<connection, registry, stage, members, doc, pending, saved, dropped,
                   sent, accepted>>

----------------------------------------------------------------------------
(* Room r, with members m once a turn is over, is in the registry; or it is on
   its way out, having lost its last client. *)
RoomKeeps(r, m) ==
    /\ members' = [members EXCEPT ![r] = m]
    /\ rooms' = IF m = {} THEN None ELSE r
    /\ stage' = [stage EXCEPT ![r] = IF m = {} THEN "unsubscribing" ELSE "open"]

(* Clients cs are added to room r, and those whose socket is no longer open
   leave it again: every add comes before the first leave. *)
Arrive(r, cs) ==
    LET stay == {c \in cs : IsOpen(c)} IN
    /\ RoomKeeps(r, members[r] \cup stay)
    /\ room' = [c \in Clients |-> IF c \in stay THEN r ELSE room[c]]

(* Room r applies the updates es of its clients: onDocUpdate records those
   that are new to the document. *)
Dispatch(r, es) ==
    /\ doc' = [doc EXCEPT ![r] = @ \cup es]
    /\ pending' = [pending EXCEPT ![r] = @ \cup (es \ doc[r])]
    /\ accepted' = accepted \cup es

----------------------------------------------------------------------------
(* Sockets *)

(* Gateway.onConnection. *)
Connect(c) ==
    /\ socket[c] = "new"
    /\ socket' = [socket EXCEPT ![c] = "open"]
    /\ UNCHANGED <<user, room, queued, registry, stage, members, doc, writer, sent, accepted>>

(* The server closes sockets: no or a bad token, the handshake timer, the rate
   limit, backpressure; at a shutdown all of them.  Or a peer starts the closing
   handshake. *)
StartClosing(cs) ==
    /\ cs # {}
    /\ \A c \in cs : IsOpen(c)
    /\ CloseAll(cs)
    /\ UNCHANGED <<user, room, queued, registry, stage, members, doc, writer, sent, accepted>>

(* onSocketClosed(): the connection leaves its room, if it has one; the last
   one to leave takes the room out of the registry. *)
SocketClosed(c) ==
    /\ CanDeliver(c)
    /\ socket' = [socket EXCEPT ![c] = "closed"]
    /\ IF room[c] = None
       THEN UNCHANGED <<room, rooms, stage, members>>
       ELSE /\ room' = [room EXCEPT ![c] = None]
            /\ RoomKeeps(room[c], members[room[c]] \ {c})
    /\ UNCHANGED <<user, queued, opening, waiting, doc, writer, sent, accepted>>

----------------------------------------------------------------------------
(* Joining *)

(* authenticate() with a valid token while the registry holds a room. *)
JoinOpenRoom(c) ==
    /\ CanDeliver(c) /\ ~user[c]
    /\ rooms # None
    /\ user' = [user EXCEPT ![c] = TRUE]
    /\ Arrive(rooms, {c})
    /\ UNCHANGED <<socket, queued, opening, waiting, doc, writer, sent, accepted>>

(* authenticate() otherwise: join() awaits the load that is under way, or
   starts one. *)
JoinByOpening(c) ==
    /\ CanDeliver(c) /\ ~user[c]
    /\ rooms = None
    /\ user' = [user EXCEPT ![c] = TRUE]
    /\ waiting' = waiting \cup {c}
    /\ IF opening # None
       THEN UNCHANGED <<opening, stage>>
       ELSE \E r \in Rooms :
              /\ stage[r] = "none"
              /\ \A q \in 1 .. r - 1 : stage[q] # "none"
              /\ opening' = r
              /\ stage' = [stage EXCEPT ![r] = "reading"]
    /\ UNCHANGED <<socket, room, queued, rooms, members, doc, writer, sent, accepted>>

(* store.load() resolves; the state is kept to hydrate the room with. *)
LoadRead(r) ==
    /\ stage[r] = "reading"
    /\ doc' = [doc EXCEPT ![r] = saved]
    /\ stage' = [stage EXCEPT ![r] = "subscribing"]
    /\ UNCHANGED <<connection, registry, members, writer, sent, accepted>>

(* store.load() rejects: so does every join() that awaits it. *)
LoadFails(r) ==
    /\ StoreMayFail
    /\ stage[r] = "reading"
    /\ stage' = [stage EXCEPT ![r] = "gone"]
    /\ opening' = None
    /\ waiting' = {}
    /\ CloseAll(waiting)
    /\ UNCHANGED <<user, room, queued, rooms, members, doc, writer, sent, accepted>>

(* bus.subscribe() resolves: the room enters the registry, every waiting
   client is added, and those still there have their queued frames applied. *)
LoadDone(r) ==
    /\ stage[r] = "subscribing"
    /\ opening' = None
    /\ waiting' = {}
    /\ Arrive(r, waiting)
    /\ LET stay == {c \in waiting : IsOpen(c)} IN
       /\ Dispatch(r, UNION {FramesOf(queued[c]) : c \in stay})
       /\ queued' = [c \in Clients |-> IF c \in stay THEN <<>> ELSE queued[c]]
    /\ UNCHANGED <<socket, user, writing, saved, dropped, sent>>

(* onFrame() with a document update: queued while the document loads, and not
   kept at all once the queue is full. *)
Frame(c, e) ==
    /\ CanDeliver(c) /\ user[c]
    /\ e \notin sent
    /\ sent' = sent \cup {e}
    /\ IF room[c] = None
       THEN /\ queued' = [queued EXCEPT ![c] =
                   IF Len(@) < MAX_QUEUED_FRAMES THEN Append(@, e) ELSE @]
            /\ UNCHANGED <<doc, pending, accepted>>
       ELSE /\ Dispatch(room[c], {e})
            /\ UNCHANGED queued
    /\ UNCHANGED <<socket, user, room, registry, stage, members, writing, saved, dropped>>

----------------------------------------------------------------------------
(* A room's writer, and its end *)

(* The timer, the size limit, the end of the batch before, or close() starts a
   write of what is pending.  The batches queued behind a write count as
   pending. *)
WriteStart(r) ==
    /\ stage[r] \in {"open", "unsubscribing", "flushing"}
    /\ writing[r] = {} /\ pending[r] # {}
    /\ writing' = [writing EXCEPT ![r] = pending[r]]
    /\ pending' = [pending EXCEPT ![r] = {}]
    /\ UNCHANGED <<connection, registry, stage, members, doc, saved, dropped, sent, accepted>>

WriteOk(r) ==
    /\ writing[r] # {}
    /\ saved' = saved \cup writing[r]
    /\ writing' = [writing EXCEPT ![r] = {}]
    /\ UNCHANGED <<connection, registry, stage, members, doc, pending, dropped, sent, accepted>>

(* The batch goes back to pending, unless the writer is closed. *)
WriteFails(r) ==
    /\ StoreMayFail
    /\ writing[r] # {}
    /\ writing' = [writing EXCEPT ![r] = {}]
    /\ IF stage[r] = "flushing"
       THEN dropped' = dropped \cup writing[r] /\ UNCHANGED pending
       ELSE pending' = [pending EXCEPT ![r] = @ \cup writing[r]] /\ UNCHANGED dropped
    /\ UNCHANGED <<connection, registry, stage, members, doc, saved, sent, accepted>>

(* leave() goes on to room.destroy(), which closes the writer. *)
Unsubscribed(r) ==
    /\ stage[r] = "unsubscribing"
    /\ stage' = [stage EXCEPT ![r] = "flushing"]
    /\ UNCHANGED <<connection, registry, members, doc, writer, sent, accepted>>

(* The chain of writes has ended; the document is destroyed. *)
Destroyed(r) ==
    /\ stage[r] = "flushing" /\ pending[r] = {} /\ writing[r] = {}
    /\ stage' = [stage EXCEPT ![r] = "gone"]
    /\ UNCHANGED <<connection, registry, members, doc, writer, sent, accepted>>

----------------------------------------------------------------------------
ClientNext(c) ==
    \/ Connect(c) \/ SocketClosed(c)
    \/ JoinOpenRoom(c) \/ JoinByOpening(c)
    \/ \E e \in Edits : Frame(c, e)

LoadStep(r) == LoadRead(r) \/ LoadFails(r) \/ LoadDone(r)
WriteEnd(r) == WriteOk(r) \/ WriteFails(r)
CloseStep(r) == Unsubscribed(r) \/ Destroyed(r)
RoomNext(r) == LoadStep(r) \/ WriteStart(r) \/ WriteEnd(r) \/ CloseStep(r)

Next ==
    \/ \E c \in Clients : ClientNext(c)
    \/ \E cs \in SUBSET Clients : StartClosing(cs)
    \/ \E r \in Rooms : RoomNext(r)

Spec == Init /\ [][Next]_vars

(* The store and the bus answer, timers fire, and a closing handshake ends: ws
   destroys the socket when the peer does not answer. *)
FairSpec ==
    /\ Spec
    /\ \A r \in Rooms : WF_vars(LoadStep(r)) /\ WF_vars(WriteStart(r))
                     /\ WF_vars(WriteEnd(r)) /\ WF_vars(CloseStep(r))
    /\ \A c \in Clients : WF_vars(socket[c] = "closing" /\ SocketClosed(c))

----------------------------------------------------------------------------
(* Every variable has its type. *)
TypeOK ==
    /\ socket \in [Clients -> {"new", "open", "closing", "closed"}]
    /\ user \in [Clients -> BOOLEAN]
    /\ room \in [Clients -> Rooms \cup {None}]
    /\ queued \in [Clients -> Seq(Edits)]
    /\ \A c \in Clients : Len(queued[c]) <= MAX_QUEUED_FRAMES
    /\ rooms \in Rooms \cup {None}
    /\ opening \in Rooms \cup {None}
    /\ waiting \subseteq Clients
    /\ stage \in [Rooms -> Stages]
    /\ members \in [Rooms -> SUBSET Clients]
    /\ doc \in [Rooms -> SUBSET Edits]
    /\ pending \in [Rooms -> SUBSET Edits]
    /\ writing \in [Rooms -> SUBSET Edits]
    /\ saved \subseteq Edits
    /\ sent \subseteq Edits
    /\ accepted \subseteq Edits
    /\ dropped \subseteq Edits

(* Everyone who has joined the document is in the one room the registry holds,
   so edits of one reach all the others. *)
OneRoom ==
    \A c \in Clients : room[c] # None => room[c] = rooms /\ c \in members[rooms]

(* A room has no client whose socket has gone, however the load and the close
   interleaved. *)
NoGhosts ==
    \A r \in Rooms : \A c \in members[r] : socket[c] # "closed" /\ room[c] = r

(* The registry holds a room exactly while it has clients; a room that is being
   closed has none, so nothing is recorded by a writer that is closed. *)
RoomHasClients ==
    \A r \in Rooms : (stage[r] = "open" <=> rooms = r) /\ (rooms = r <=> members[r] # {})

(* The updates in the store or on their way there, and the ones a closing
   writer gave up. *)
Kept == saved \cup dropped \cup UNION {pending[r] \cup writing[r] : r \in Rooms}

(* An update a room applied for a client is in the store or on its way there,
   unless a closing writer could not reach the store. *)
AcceptedKept == accepted \subseteq Kept

(* A join ends: the client is in the room or on its way out. *)
JoinsEnd == \A c \in Clients : user[c] ~> room[c] # None \/ ~IsOpen(c)

(* When everyone has gone, every room is destroyed. *)
RoomsAreReleased ==
    (\A c \in Clients : socket[c] = "closed")
        ~> (\A r \in Rooms : stage[r] \in {"none", "gone"})

----------------------------------------------------------------------------
(* The parts of the inductive invariant behind the safety properties. *)

(* There is at most one load, and none while the registry holds a room. *)
OneLoad ==
    /\ \A r \in Rooms : stage[r] \in {"reading", "subscribing"} => opening = r
    /\ opening # None => rooms = None /\ stage[opening] \in {"reading", "subscribing"}

(* A connection joins once: one that waits has authenticated and has no room. *)
JoinsOnce ==
    /\ \A c \in Clients : room[c] # None => user[c]
    /\ \A c \in waiting : user[c] /\ room[c] = None
    /\ \A c \in Clients : socket[c] = "closed" => room[c] = None
    /\ \A c \in Clients : socket[c] = "new" => ~user[c]

(* A document holds nothing else than what is kept. *)
DocumentsKept == \A r \in Rooms : doc[r] \subseteq Kept

RegistryInv ==
    /\ TypeOK
    /\ OneRoom
    /\ NoGhosts
    /\ RoomHasClients
    /\ OneLoad
    /\ JoinsOnce
    /\ AcceptedKept
    /\ DocumentsKept

=============================================================================
