---------------------------- MODULE SyncSession ----------------------------
(***************************************************************************)
(* One document between the browsers that edit it and the rooms that hold  *)
(* it: the provider (apps/web/src/collab/provider.ts) with its cached      *)
(* token, its socket and its timers; the connection and the room's sync    *)
(* handlers on the server (apps/server/src/ws, rooms/room.ts); and what    *)
(* they leave to the bus and the store.                                    *)
(*                                                                         *)
(* A document is a set of edits, as in Cluster.  Yjs keeps an edit whose   *)
(* predecessors are missing aside, and integrates it in the transaction    *)
(* that brings the last of them: whoever brings that one is the origin of  *)
(* both, and only then is there an update event.  A sync step 1 carries    *)
(* the edits its sender shows, a step 2 is an update like any other.       *)
(*                                                                         *)
(* A socket has two ends, which find out separately that it has gone.      *)
(* Loading a document and writing it are one step each: RoomRegistry,      *)
(* Cluster and DocumentWriter take them apart.  Timers fire at any time.   *)
(***************************************************************************)
EXTENDS Naturals, Sequences

CONSTANTS Clients, Instances,
          Edits,             \* each of them typed at most once
          before,            \* the edits that are typed before each, if an order is given
          MaxSockets,        \* bound on the sockets a client has at one time,
                             \* with those the server has not yet seen go
          MAX_QUEUED_FRAMES,
          MaxTroubles        \* bound on what goes wrong: sockets that break or
                             \* are closed, tokens, crashes

ASSUME SessionAssumption ==
    /\ before \in [Edits -> SUBSET Edits]
    /\ MaxSockets \in Nat \ {0} /\ MAX_QUEUED_FRAMES \in Nat \ {0}
    /\ MaxTroubles \in Nat

Sockets == Clients \X (1 .. MaxSockets)

VARIABLES
    (* CollabProvider and sessionSource *)
    connecting,   \* clients whose connect() awaits the token
    retrying,     \* clients whose reconnect timer is set
    refreshToken, \* clients whose token was refused
    stale,        \* clients whose cached token the servers refuse
    destroyed,
    socket,       \* each client's socket, if it has one
    online,       \* clients whose socket is open
    doc,          \* each client's document
    (* Connection *)
    conn,         \* none, new, joining or joined
    at,           \* the instance of each connection
    closing,      \* sockets the server has started to close
    queued,       \* frames that wait for the room
    up, down,     \* frames on their way to the server, and to the client
    (* Room, bus and store *)
    open,         \* instances that have a room
    room,         \* the document of each room
    unwritten,    \* edits its writer has yet to write
    bus,          \* what the bus has for each room
    stored,
    dep           \* the edits each edit was typed next to

(* History. *)
VARIABLES
    typed,
    troubles,     \* how often something went wrong
    ahead,        \* edits a room has held without what they depend on
    crashed       \* edits in the write buffers of instances that died

provider == <<connecting, retrying, refreshToken, stale, destroyed, socket, online>>
connection == <<conn, at, closing, queued>>
rooms == <<open, room, unwritten, bus, stored, ahead, crashed>>
typing == <<dep, typed>>
vars == <<provider, doc, connection, up, down, rooms, typing, troubles>>

Frame(kind, edits) == [kind |-> kind, edits |-> edits]
Update(u) == Frame("Update", u)
Step1(u) == Frame("Step1", u)
Frames == [kind : {"Auth", "StaleAuth", "Step1", "Update", "Unauthorized", "Close"},
           edits : SUBSET Edits]

Init ==
    /\ connecting = Clients /\ retrying = {} /\ refreshToken = {} /\ stale = {}
    /\ destroyed = {} /\ online = {}
    /\ socket = [c \in Clients |-> {}]
    /\ doc = [c \in Clients |-> {}]
    /\ conn = [s \in Sockets |-> "none"]
    /\ at = [s \in Sockets |-> {}]
    /\ closing = {}
    /\ queued = [s \in Sockets |-> <<>>]
    /\ up = [s \in Sockets |-> <<>>]
    /\ down = [s \in Sockets |-> <<>>]
    /\ open = {} /\ stored = {} /\ ahead = {} /\ crashed = {}
    /\ room = [i \in Instances |-> {}]
    /\ unwritten = [i \in Instances |-> {}]
    /\ bus = [i \in Instances |-> <<>>]
    /\ dep = [e \in Edits |-> {}] /\ typed = {} /\ troubles = 0

----------------------------------------------------------------------------
(* The edits of u that a document holding u can show. *)
Shown(u, d) == UNION {v \in SUBSET u : \A e \in v : d[e] \subseteq v}
Visible(u) == Shown(u, dep)

NonEmpty(u) == IF u = {} THEN <<>> ELSE <<Update(u)>>

Joined(i) == {s \in Sockets : conn[s] = "joined" /\ at[s] = {i}}
Listening(s) == socket[s[1]] = {s}

(* client.send(): nothing more is sent on a socket that closes; what is sent
   after the client's end has gone arrives nowhere. *)
Sent(s, frames) ==
    IF s \in closing \/ ~Listening(s) THEN down[s] ELSE down[s] \o frames

(* socket.close() on the server. *)
ServerClose(s, kind) ==
    /\ closing' = closing \cup {s}
    /\ down' = [down EXCEPT ![s] = Sent(s, <<Frame(kind, {})>>)]

(* The provider's send(). *)
SentUp(s, frames) == IF conn[s] = "none" THEN up ELSE [up EXCEPT ![s] = @ \o frames]

Free(c) == {k \in 1 .. MaxSockets : conn[<<c, k>>] = "none" /\ socket[c] # {<<c, k>>}}

(* The next frame arrives on a connection that is in one of these states. *)
Arrives(s, states) ==
    /\ conn[s] \in states
    /\ up[s] # <<>>
    /\ up' = [up EXCEPT ![s] = Tail(@)]

----------------------------------------------------------------------------
(* Defects the properties below have to notice.  None is part of Next. *)

(* The provider forgets that its token was refused. *)
GetTokenCached(c) == refreshToken' = refreshToken \ {c} /\ UNCHANGED stale

(* onopen sends no step 1. *)
OpensWithoutStep1(c, i) ==
    /\ c \notin online
    /\ \E s \in socket[c] :
        /\ conn' = [conn EXCEPT ![s] = "new"]
        /\ at' = [at EXCEPT ![s] = {i}]
        /\ up' = [up EXCEPT ![s] = <<Frame(IF c \in stale THEN "StaleAuth" ELSE "Auth", {})>>]
    /\ online' = online \cup {c}
    /\ UNCHANGED <<connecting, retrying, refreshToken, stale, destroyed, socket,
                   doc, closing, queued, down, rooms, typing>>

(* A document frame over the budget is dropped as a presence frame is. *)
OverLimitSilently(s) ==
    /\ Arrives(s, {"joining", "joined"})
    /\ UNCHANGED <<provider, doc, conn, at, closing, down, queued, rooms, typing>>

(* A room that closes is not flushed. *)
SocketClosedUnflushed(s) ==
    /\ conn[s] # "none"
    /\ conn' = [conn EXCEPT ![s] = "none"]
    /\ at' = [at EXCEPT ![s] = {}]
    /\ closing' = closing \ {s}
    /\ queued' = [queued EXCEPT ![s] = <<>>]
    /\ up' = [up EXCEPT ![s] = <<>>]
    /\ LET gone == {i \in at[s] : Joined(i) = {s}} IN
       /\ open' = open \ gone
       /\ room' = [i \in Instances |-> IF i \in gone THEN {} ELSE room[i]]
       /\ unwritten' = [i \in Instances |-> IF i \in gone THEN {} ELSE unwritten[i]]
       /\ bus' = [i \in Instances |-> IF i \in gone THEN <<>> ELSE bus[i]]
    /\ UNCHANGED <<provider, doc, down, stored, ahead, crashed, typing>>

----------------------------------------------------------------------------
(* The provider *)

(* getToken() resolves: with the cached token, or with a new one if the servers
   have refused the last. *)
GetToken(c) ==
    /\ refreshToken' = refreshToken \ {c}
    /\ stale' = IF c \in refreshToken THEN stale \ {c} ELSE stale

(* A defect: connect() does not look again whether the provider has been destroyed. *)
TokenArrivesUnchecked(c) ==
    /\ c \in connecting
    /\ connecting' = connecting \ {c}
    /\ GetToken(c)
    /\ \E k \in Free(c) : socket' = [socket EXCEPT ![c] = {<<c, k>>}]
    /\ UNCHANGED <<retrying, destroyed, online, doc, connection, up, down, rooms, typing>>

(* connect() creates the socket, unless the provider has been destroyed. *)
TokenArrives(c) ==
    /\ c \in connecting
    /\ connecting' = connecting \ {c}
    /\ GetToken(c)
    /\ IF c \in destroyed
       THEN UNCHANGED socket
       ELSE \E k \in Free(c) :
                /\ \A j \in Free(c) : k <= j
                /\ socket' = [socket EXCEPT ![c] = {<<c, k>>}]
    /\ UNCHANGED <<retrying, destroyed, online, doc, connection, up, down, rooms, typing>>

(* getToken() rejects: connect() sets the timer, destroyed or not. *)
TokenFails(c) ==
    /\ c \in connecting
    /\ connecting' = connecting \ {c}
    /\ retrying' = retrying \cup {c}
    /\ UNCHANGED <<refreshToken, stale, destroyed, socket, online,
                   doc, connection, up, down, rooms, typing>>

(* The reconnect timer fires: connect(). *)
RetryFires(c) ==
    /\ c \in retrying
    /\ retrying' = retrying \ {c}
    /\ connecting' = IF c \in destroyed THEN connecting ELSE connecting \cup {c}
    /\ UNCHANGED <<refreshToken, stale, destroyed, socket, online,
                   doc, connection, up, down, rooms, typing>>

(* Instance i accepts the socket, and onopen sends the token and step 1. *)
Opens(c, i) ==
    /\ c \notin online
    /\ \E s \in socket[c] :
        /\ conn' = [conn EXCEPT ![s] = "new"]
        /\ at' = [at EXCEPT ![s] = {i}]
        /\ up' = [up EXCEPT ![s] =
                <<Frame(IF c \in stale THEN "StaleAuth" ELSE "Auth", {}), Step1(Visible(doc[c]))>>]
    /\ online' = online \cup {c}
    /\ UNCHANGED <<connecting, retrying, refreshToken, stale, destroyed, socket,
                   doc, closing, queued, down, rooms, typing>>

(* onclose: the provider lets the socket go, and sets the timer. *)
Offline(c) ==
    /\ socket' = [socket EXCEPT ![c] = {}]
    /\ online' = online \ {c}
    /\ down' = [s \in Sockets |-> IF s \in socket[c] THEN <<>> ELSE down[s]]
    /\ retrying' = retrying \cup {c}
    /\ UNCHANGED <<connecting, stale, destroyed, doc, connection, up, rooms, typing>>

(* The server's end of the client's socket is gone, and so is what it sent. *)
HalfOpen(c) == c \in online /\ \A s \in socket[c] : conn[s] = "none" /\ down[s] = <<>>

(* The socket cannot be opened, breaks, or answers no ping. *)
SocketLost(c) ==
    /\ socket[c] # {}
    /\ Offline(c)
    /\ UNCHANGED refreshToken

(* The server's close frame arrives. *)
ReceiveClose(c) ==
    \E s \in socket[c] :
        /\ down[s] # <<>>
        /\ Head(down[s]).kind \in {"Unauthorized", "Close"}
        /\ refreshToken' = IF Head(down[s]).kind = "Unauthorized"
                           THEN refreshToken \cup {c} ELSE refreshToken
        /\ Offline(c)

(* onFrame(): step 1 is answered with what its sender does not show. *)
ReceiveSync(c) ==
    \E s \in socket[c] :
        /\ down[s] # <<>>
        /\ down' = [down EXCEPT ![s] = Tail(@)]
        /\ LET f == Head(down[s]) IN
           \/ /\ f.kind = "Step1"
              /\ up' = SentUp(s, NonEmpty(doc[c] \ f.edits))
              /\ UNCHANGED doc
           \/ /\ f.kind = "Update"
              /\ doc' = [doc EXCEPT ![c] = @ \cup f.edits]
              /\ UNCHANGED up
        /\ UNCHANGED <<provider, connection, rooms, typing>>

(* Someone types; the update is sent if the socket is open. *)
Type(c, e) ==
    /\ c \notin destroyed
    /\ e \notin typed /\ before[e] \subseteq typed
    /\ typed' = typed \cup {e}
    /\ dep' = [dep EXCEPT ![e] = Visible(doc[c])]
    /\ doc' = [doc EXCEPT ![c] = @ \cup {e}]
    /\ up' = [s \in Sockets |-> IF c \in online /\ s \in socket[c] /\ conn[s] # "none"
                                THEN Append(up[s], Update({e})) ELSE up[s]]
    /\ UNCHANGED <<provider, connection, down, rooms>>

(* The document is left: the socket closes and the timers are cleared. *)
Destroy(c) ==
    /\ c \notin destroyed
    /\ destroyed' = destroyed \cup {c}
    /\ retrying' = retrying \ {c}
    /\ socket' = [socket EXCEPT ![c] = {}]
    /\ online' = online \ {c}
    /\ down' = [s \in Sockets |-> IF s \in socket[c] THEN <<>> ELSE down[s]]
    /\ doc' = [doc EXCEPT ![c] = {}]
    /\ UNCHANGED <<connecting, refreshToken, stale, connection, up, rooms, typing>>

(* The servers come to refuse the token: it expires, or the key changes. *)
Expire(c) ==
    /\ stale' = stale \cup {c}
    /\ UNCHANGED <<connecting, retrying, refreshToken, destroyed, socket, online,
                   doc, connection, up, down, rooms, typing>>

----------------------------------------------------------------------------
(* The connection *)

(* authenticate(), for the first frame. *)
Authenticate(s) ==
    /\ Arrives(s, {"new"})
    /\ IF Head(up[s]).kind = "Auth"
       THEN conn' = [conn EXCEPT ![s] = "joining"] /\ UNCHANGED <<closing, down>>
       ELSE ServerClose(s, "Unauthorized") /\ UNCHANGED conn
    /\ UNCHANGED <<provider, doc, at, queued, rooms, typing>>

(* Frames wait while the document loads, up to a limit. *)
QueueFrame(s) ==
    /\ Arrives(s, {"joining"})
    /\ queued' = IF Len(queued[s]) < MAX_QUEUED_FRAMES
                 THEN [queued EXCEPT ![s] = Append(@, Head(up[s]))] ELSE queued
    /\ UNCHANGED <<provider, doc, conn, at, closing, down, rooms, typing>>

(* withinLimits(): a frame over the budget is dropped, and its socket closed. *)
OverLimit(s) ==
    /\ Arrives(s, {"joining", "joined"})
    /\ ServerClose(s, "Close")
    /\ UNCHANGED <<provider, doc, conn, at, queued, rooms, typing>>

(* The server closes a socket: it did not authenticate in time, its document
   could not be loaded, or it is too far behind. *)
ServerCloses(s) ==
    /\ conn[s] # "none" /\ s \notin closing
    /\ ServerClose(s, IF conn[s] = "new" THEN "Unauthorized" ELSE "Close")
    /\ UNCHANGED <<provider, doc, conn, at, queued, up, rooms, typing>>

----------------------------------------------------------------------------
(* The room *)

(* onDocUpdate(): the edits that document r of room i shows once it has u, and
   did not show before, go to its clients but for those in from. *)
Shows(r, u) == Visible(r \cup u) \ Visible(r)

Broadcast(i, new, from, reply) ==
    down' = [s \in Sockets |->
        IF s \in from THEN Sent(s, reply)
        ELSE IF s \in Joined(i) THEN Sent(s, NonEmpty(new)) ELSE down[s]]

(* An update of a client is recorded and published. *)
Record(i, new) == unwritten' = [unwritten EXCEPT ![i] = @ \cup new]
Publish(i, b, new) ==
    bus' = [j \in Instances |-> IF j \in open \ {i} THEN b[j] \o NonEmpty(new) ELSE b[j]]

Hold(i, r) ==
    /\ room' = [room EXCEPT ![i] = r]
    /\ ahead' = ahead \cup (r \ Visible(r))

(* room.handleSync() for the frames q of socket s, in a room that holds r. *)
HandleSync(s, i, r, b, greeting, q) ==
    LET f == {q[k] : k \in 1 .. Len(q)}
        u == UNION {g.edits : g \in {h \in f : h.kind = "Update"}}
        asks == {h \in f : h.kind = "Step1"}
        reply == IF asks = {} THEN <<>>
                 ELSE NonEmpty(r \ (CHOOSE h \in asks : TRUE).edits)
    IN /\ Hold(i, r \cup u)
       /\ Record(i, Shows(r, u))
       /\ Publish(i, b, Shows(r, u))
       /\ Broadcast(i, Shows(r, u), {s}, greeting \o reply)

(* room.add(): the room's step 1. *)
Greeting(r) == <<Step1(Visible(r))>>

(* join() gets its room, which the first client opens: with what is stored, and
   with what rooms of other instances answer.  Then the queued frames follow.
   A socket that closes meanwhile leaves again. *)
Join(s) ==
    /\ conn[s] = "joining" /\ s \notin closing
    /\ conn' = [conn EXCEPT ![s] = "joined"]
    /\ queued' = [queued EXCEPT ![s] = <<>>]
    /\ \E i \in at[s] :
        /\ open' = open \cup {i}
        /\ \E answers \in IF i \in open THEN {bus[i]} ELSE {NonEmpty(UNION {room[j] : j \in open})} :
           LET r == IF i \in open THEN room[i] ELSE stored IN
           HandleSync(s, i, r, [bus EXCEPT ![i] = answers], Greeting(r), queued[s])
    /\ UNCHANGED <<provider, doc, at, closing, up, stored, crashed, typing>>

(* A frame of a client that has joined. *)
Dispatch(s) ==
    /\ Arrives(s, {"joined"})
    /\ \E i \in at[s] : HandleSync(s, i, room[i], bus, <<>>, <<Head(up[s])>>)
    /\ UNCHANGED <<provider, doc, connection, open, stored, crashed, typing>>

(* room.receive(): an update of another instance, which is neither recorded nor
   published. *)
Receive(i) ==
    /\ bus[i] # <<>>
    /\ bus' = [bus EXCEPT ![i] = Tail(@)]
    /\ LET u == Head(bus[i]).edits IN
       /\ Hold(i, room[i] \cup u)
       /\ Broadcast(i, Shows(room[i], u), {}, <<>>)
    /\ UNCHANGED <<provider, doc, connection, up, open, unwritten, stored, crashed, typing>>

(* The writer's batch is stored. *)
Write(i) ==
    /\ unwritten[i] # {}
    /\ stored' = stored \cup unwritten[i]
    /\ unwritten' = [unwritten EXCEPT ![i] = {}]
    /\ UNCHANGED <<provider, doc, connection, up, down, open, room, bus, ahead, crashed, typing>>

(* The server's end of a socket goes.  The last one to leave closes the room,
   which is flushed. *)
SocketClosed(s) ==
    /\ conn[s] # "none"
    /\ conn' = [conn EXCEPT ![s] = "none"]
    /\ at' = [at EXCEPT ![s] = {}]
    /\ closing' = closing \ {s}
    /\ queued' = [queued EXCEPT ![s] = <<>>]
    /\ up' = [up EXCEPT ![s] = <<>>]
    /\ LET gone == {i \in at[s] : Joined(i) = {s}} IN
       /\ open' = open \ gone
       /\ stored' = stored \cup UNION {unwritten[i] : i \in gone}
       /\ room' = [i \in Instances |-> IF i \in gone THEN {} ELSE room[i]]
       /\ unwritten' = [i \in Instances |-> IF i \in gone THEN {} ELSE unwritten[i]]
       /\ bus' = [i \in Instances |-> IF i \in gone THEN <<>> ELSE bus[i]]
    /\ UNCHANGED <<provider, doc, down, ahead, crashed, typing>>

(* A sweep of the heartbeat finds a socket that has not answered its ping, or the
   network breaks it. *)
Terminate(s) == SocketClosed(s)

(* The process dies, and starts again without its sockets and its room. *)
Crash(i) ==
    /\ LET lost == {s \in Sockets : at[s] = {i}} IN
       /\ lost # {}
       /\ conn' = [s \in Sockets |-> IF s \in lost THEN "none" ELSE conn[s]]
       /\ at' = [s \in Sockets |-> IF s \in lost THEN {} ELSE at[s]]
       /\ closing' = closing \ lost
       /\ queued' = [s \in Sockets |-> IF s \in lost THEN <<>> ELSE queued[s]]
       /\ up' = [s \in Sockets |-> IF s \in lost THEN <<>> ELSE up[s]]
    /\ open' = open \ {i}
    /\ room' = [room EXCEPT ![i] = {}]
    /\ crashed' = crashed \cup unwritten[i]
    /\ unwritten' = [unwritten EXCEPT ![i] = {}]
    /\ bus' = [bus EXCEPT ![i] = <<>>]
    /\ UNCHANGED <<provider, doc, down, stored, ahead, typing>>

----------------------------------------------------------------------------
Calm == UNCHANGED troubles

ProviderStep(c) ==
    /\ \/ TokenArrives(c) \/ RetryFires(c) \/ \E i \in Instances : Opens(c, i)
       \/ ReceiveClose(c) \/ ReceiveSync(c)
       \/ HalfOpen(c) /\ SocketLost(c)
    /\ Calm

ServerStep(s) ==
    /\ \/ Authenticate(s) \/ QueueFrame(s) \/ Join(s) \/ Dispatch(s)
       \/ (s \in closing \/ ~Listening(s)) /\ SocketClosed(s)
    /\ Calm

RoomStep(i) == (Receive(i) \/ Write(i)) /\ Calm

Trouble ==
    /\ troubles < MaxTroubles
    /\ troubles' = troubles + 1
    /\ \/ \E c \in Clients : TokenFails(c) \/ SocketLost(c) \/ Expire(c) \/ Destroy(c)
       \/ \E s \in Sockets : OverLimit(s) \/ ServerCloses(s) \/ Terminate(s)
       \/ \E i \in Instances : Crash(i)

Next ==
    \/ \E c \in Clients : ProviderStep(c)
    \/ \E c \in Clients, e \in Edits : Type(c, e) /\ Calm
    \/ \E s \in Sockets : ServerStep(s)
    \/ \E i \in Instances : RoomStep(i)
    \/ Trouble

Spec == Init /\ [][Next]_vars

(* Sockets, timers, tokens, the bus and the store make progress: it is enough that
   some step of theirs is taken as long as one can be. *)
Progress ==
    \/ \E c \in Clients : ProviderStep(c)
    \/ \E s \in Sockets : ServerStep(s)
    \/ \E i \in Instances : RoomStep(i)

FairSpec == Spec /\ WF_vars(Progress)

----------------------------------------------------------------------------
(* Every variable has its type, and no more frames wait for a room than may. *)
TypeOK ==
    /\ connecting \subseteq Clients /\ retrying \subseteq Clients
    /\ refreshToken \subseteq Clients /\ stale \subseteq Clients
    /\ destroyed \subseteq Clients /\ online \subseteq Clients
    /\ socket \in [Clients -> SUBSET Sockets]
    /\ doc \in [Clients -> SUBSET Edits]
    /\ conn \in [Sockets -> {"none", "new", "joining", "joined"}]
    /\ at \in [Sockets -> SUBSET Instances]
    /\ closing \subseteq Sockets
    /\ queued \in [Sockets -> Seq(Frames)]
    /\ up \in [Sockets -> Seq(Frames)]
    /\ down \in [Sockets -> Seq(Frames)]
    /\ open \subseteq Instances
    /\ room \in [Instances -> SUBSET Edits]
    /\ unwritten \in [Instances -> SUBSET Edits]
    /\ bus \in [Instances -> Seq(Frames)]
    /\ stored \subseteq Edits /\ typed \subseteq Edits
    /\ ahead \subseteq Edits /\ crashed \subseteq Edits
    /\ dep \in [Edits -> SUBSET Edits]
    /\ \A s \in Sockets : Len(queued[s]) <= MAX_QUEUED_FRAMES

(* A provider in use has exactly one of a token request, a reconnect timer and a
   socket, so it neither gives up nor connects twice; a destroyed one has no
   socket, although the request it awaited may still resolve. *)
OneAttempt ==
    \A c \in Clients :
        IF c \in destroyed THEN socket[c] = {}
        ELSE \/ c \in connecting /\ c \notin retrying /\ socket[c] = {}
             \/ c \notin connecting /\ c \in retrying /\ socket[c] = {}
             \/ c \notin connecting /\ c \notin retrying /\ \E s \in Sockets : socket[c] = {s}

InFlight(q, e) == \E k \in 1 .. Len(q) : q[k].kind = "Update" /\ e \in q[k].edits
Asked(q, e) == \E k \in 1 .. Len(q) : q[k].kind = "Step1" /\ e \notin q[k].edits

(* The client's socket is in use at both ends. *)
Live(s) == conn[s] = "joined" /\ s \notin closing /\ Listening(s)

(* What a client has and its room has not is on its way, or the room's step 1 is
   and will be answered with it: frames dropped from a full queue and edits typed
   offline included. *)
ClientIsHeard ==
    \A s \in Sockets : Live(s) => \A i \in at[s] : \A e \in doc[s[1]] \ room[i] :
        InFlight(up[s], e) \/ Asked(down[s], e)

Told(s, e) == InFlight(down[s], e) \/ Asked(up[s], e)

(* What a room shows and a client has not is on its way: send() may not drop a frame
   and onDocUpdate() may skip only who sent the edit.  The code does not ensure it
   (README, item 7). *)
ClientIsTold ==
    \A s \in Sockets : Live(s) =>
        \A i \in at[s] : \A e \in Visible(room[i]) \ doc[s[1]] : Told(s, e)

(* The same for edits that no room has had to keep aside, whose origin is the client
   that sent them. *)
ClientIsToldInOrder ==
    \A s \in Sockets : Live(s) =>
        \A i \in at[s] : \A e \in Visible(room[i]) \ (doc[s[1]] \cup ahead) : Told(s, e)

Recorded == stored \cup crashed \cup UNION {unwritten[i] : i \in Instances}

(* What a room shows is stored, or will be, unless it was in the buffer of an
   instance that died, or a room has had to keep it aside: onDocUpdate() leaves
   what comes from the bus to the instance that accepted it. *)
ShownIsRecordedInOrder == \A i \in Instances : Visible(room[i]) \subseteq Recorded \cup ahead

(* What one client holds the other has, but for edits that a room has had to keep
   aside: it then takes another client, or the bus, for their author. *)
Agreed ==
    \A c, d \in Clients \ destroyed : doc[c] \ ahead \subseteq doc[d]

(* Whatever has been typed, and wherever, clients come to agree on it: through
   reconnects, other instances and refused tokens, with the exception of Agreed
   (README, items 7 and 8). *)
EditsArrive == []<>Agreed

----------------------------------------------------------------------------
(* The parts of the inductive invariant. *)

(* A provider has at most one socket, its own. *)
OneSocket ==
    \A c \in Clients : socket[c] = {} \/ \E k \in 1 .. MaxSockets : socket[c] = {<<c, k>>}

(* The server's end of a socket is at one instance, and has joined its room. *)
ServerEnd ==
    \A s \in Sockets :
        /\ conn[s] = "none" => at[s] = {}
        /\ conn[s] # "none" => \E i \in Instances : at[s] = {i}
        /\ conn[s] = "joined" => at[s] \subseteq open

(* Nothing is on its way to a client whose end is not open, and the server has no
   end before it is. *)
NothingDown ==
    \A s \in Sockets :
        /\ ~Listening(s) \/ s[1] \notin online => down[s] = <<>>
        /\ Listening(s) /\ s[1] \notin online => conn[s] = "none"

(* No update is sent before the client has joined, and then none that the room
   does not hold. *)
DownIsHeld ==
    \A s \in Sockets : \A e \in Edits : InFlight(down[s], e) =>
        /\ conn[s] \notin {"new", "joining"}
        /\ Live(s) => \A i \in at[s] : e \in room[i]

SessionInv ==
    /\ TypeOK
    /\ OneAttempt
    /\ OneSocket
    /\ ServerEnd
    /\ NothingDown
    /\ DownIsHeld
    /\ ClientIsHeard

(* The edits of every frame of q are among u. *)
Carries(q, u) == \A k \in 1 .. Len(q) : q[k].edits \subseteq u

(* No edit is anywhere before it is typed: what it depends on is settled before any
   room could show it. *)
EditsAreTyped ==
    /\ stored \subseteq typed
    /\ \A c \in Clients : doc[c] \subseteq typed
    /\ \A i \in Instances :
        room[i] \cup unwritten[i] \subseteq typed /\ Carries(bus[i], typed)
    /\ \A s \in Sockets :
        Carries(up[s], typed) /\ Carries(queued[s], typed) /\ Carries(down[s], typed)

(* What a room holds or is about to hear of is recorded, or a room keeps it aside. *)
RoomsAreRecorded ==
    \A i \in Instances :
        room[i] \subseteq Recorded \cup ahead /\ Carries(bus[i], Recorded \cup ahead)

(* What a room holds and does not show, it keeps aside. *)
RestIsAhead == \A i \in Instances : room[i] \ Visible(room[i]) \subseteq ahead

(* Frames wait for a room only while it is joined, and those on their way to it
   carry nothing that their client does not hold. *)
FramesAreOwn ==
    \A s \in Sockets :
        /\ conn[s] # "joining" => queued[s] = <<>>
        /\ Listening(s) /\ conn[s] # "none" =>
               Carries(queued[s], doc[s[1]]) /\ Carries(up[s], doc[s[1]])

(* Until a socket has joined, the client's step 1 is the first frame the room will
   see: the queue is never too full for it. *)
AsksFirst ==
    \A s \in Sockets : s \notin closing =>
        /\ conn[s] = "new" => Len(up[s]) >= 2 /\ up[s][2].kind = "Step1"
        /\ conn[s] = "joining" =>
               IF queued[s] = <<>> THEN up[s] # <<>> /\ Head(up[s]).kind = "Step1"
               ELSE Head(queued[s]).kind = "Step1"

ToldInv ==
    /\ EditsAreTyped
    /\ RestIsAhead
    /\ FramesAreOwn
    /\ AsksFirst
    /\ ClientIsToldInOrder

=============================================================================
