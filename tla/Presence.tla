------------------------------ MODULE Presence ------------------------------
(***************************************************************************)
(* Who is shown as being there.  Every client and every room keeps, of     *)
(* each client, the clock of the last announcement it heard and whether it *)
(* shows that client (the meta and the states of y-protocols' Awareness).  *)
(* Announcements go from a client to its room, from there to the other     *)
(* clients and over the bus to the rooms of other instances (Room of       *)
(* apps/server/src/rooms/room.ts, CollabProvider of apps/web/src/collab).  *)
(*                                                                         *)
(* Kept apart: a client and its sockets, of which an old one may linger on *)
(* the server while the client is on a new one.  Loads take no time here,  *)
(* and one document is enough.                                             *)
(***************************************************************************)
EXTENDS Integers, Sequences

CONSTANTS Clients, Instances,
          MaxSockets,     \* bound on the sockets of a client
          MaxEvents       \* bound on what clients and the network do of themselves

ASSUME PresenceAssumption ==
    /\ {MaxSockets, MaxEvents} \subseteq Nat
    /\ Clients \cap Instances = {}

Nodes == Clients \cup Instances
Sockets == Clients \X (1 .. MaxSockets)

VARIABLES
    (* Awareness, of a client or of the room an instance has *)
    clock,         \* clock[n][c]: meta, 0 while there is none
    shown,         \* shown[n]: the clients with a state
    (* CollabProvider *)
    here,          \* the page is open
    linked,        \* this.socket is defined
    last,          \* number of the client's latest socket
    announced,     \* it has set its state on this socket
    (* Connection *)
    conn,          \* the server's end of each socket
    at,            \* the instance it is on
    controlled,    \* controlledAwarenessIds
    (* The network *)
    cut,           \* sockets that carry nothing any more
    up, down,      \* frames under way on each socket
    bus,           \* what each instance has yet to get from the bus
    events,        \* how often a client or the network has done something
    faulty         \* a presence frame was dropped, or an instance died

(* History: the clients that were in the session when a client last announced
   itself and have not left it since. *)
VARIABLE told
(* History: the clients that an instance sent as an answer although a removal of
   them had already reached it, and was behind the request. *)
VARIABLE late

awareness == <<clock, shown>>
provider == <<here, linked, last, announced>>
server == <<conn, at, controlled>>
vars == <<awareness, provider, server, cut, up, down, bus, events, faulty, told, late>>

None == "none"
Request == {}                    \* an empty update stands for a state request

Init ==
    /\ clock = [n \in Nodes |-> [c \in Clients |-> IF n = c THEN 1 ELSE 0]]
    /\ shown = [n \in Nodes |-> {n} \cap Clients]
    /\ here = Clients /\ linked = {}
    /\ last = [c \in Clients |-> 0]
    /\ announced = {}
    /\ conn = [s \in Sockets |-> "none"]
    /\ at = [s \in Sockets |-> None]
    /\ controlled = [s \in Sockets |-> {}]
    /\ cut = {}
    /\ up = [s \in Sockets |-> <<>>] /\ down = [s \in Sockets |-> <<>>]
    /\ bus = [i \in Instances |-> <<>>]
    /\ events = 0 /\ faulty = FALSE
    /\ told = [c \in Clients |-> {}] /\ late = {}

Current(c) == <<c, last[c]>>
Online == {c \in linked : Current(c) \notin cut}
Members(i) == {s \in Sockets : conn[s] = "joined" /\ at[s] = i}
IsRoom(i) == Members(i) # {}
InSession == {c \in linked : conn[Current(c)] = "joined"}

----------------------------------------------------------------------------
(* Awareness *)

(* encodeAwarenessUpdate() *)
Encode(n, ids) == {[id |-> c, clock |-> clock[n][c], here |-> c \in shown[n]] : c \in ids}

(* applyAwarenessUpdate(): a later clock counts, and a removal also with the
   clock that is known.  Nobody removes a client for itself: it takes a later
   clock instead. *)
News(n, u) == {e \in u : \/ e.clock > clock[n][e.id]
                         \/ e.clock = clock[n][e.id] /\ ~e.here /\ e.id \in shown[n]}
Ids(u) == {e.id : e \in u}
IsOwn(n, c) == n = c /\ n \in shown[n]

MergedClock(n, u) ==
    [c \in Clients |->
        IF c \notin Ids(News(n, u)) THEN clock[n][c]
        ELSE LET e == CHOOSE x \in News(n, u) : x.id = c IN
             IF ~e.here /\ IsOwn(n, c) THEN e.clock + 1 ELSE e.clock]
MergedShown(n, u) ==
    {c \in Clients : IF c \in Ids(News(n, u)) /\ ~IsOwn(n, c)
                     THEN \E e \in News(n, u) : e.id = c /\ e.here
                     ELSE c \in shown[n]}

Merge(n, u) ==
    /\ clock' = [clock EXCEPT ![n] = MergedClock(n, u)]
    /\ shown' = [shown EXCEPT ![n] = MergedShown(n, u)]

(* The update event: what was new to n, and what of it others are told. *)
Added(n, u) == {e.id : e \in {x \in News(n, u) : x.here /\ clock[n][x.id] = 0}}
Removed(n, u) == {e.id : e \in {x \in News(n, u) : ~x.here /\ clock[n][x.id] # 0}}
Relayed(n, u) ==
    {[id |-> c, clock |-> MergedClock(n, u)[c], here |-> c \in MergedShown(n, u)] :
        c \in {e.id : e \in {x \in News(n, u) : x.here \/ clock[n][x.id] # 0}}}

----------------------------------------------------------------------------
(* Room *)

(* Frames go to every client of the room but the origin; one that is sent to an end
   that has gone is not kept. *)
Reader(s) == s[1] \in linked /\ s = Current(s[1]) /\ s \notin cut
Sent(i, u, origin) ==
    [s \in Sockets |-> IF s \in Members(i) \ origin /\ Reader(s) /\ u # {}
                       THEN Append(down[s], u) ELSE down[s]]

(* Only an instance with a room is subscribed. *)
Published(inboxes, i, m) ==
    [j \in Instances |-> IF j # i /\ IsRoom(j) THEN Append(inboxes[j], m) ELSE inboxes[j]]

(* The entries of the frames q, and whether the entries u remove client c as it is
   known with clock k. *)
Entries(q) == UNION {q[j] : j \in 1 .. Len(q)}
Removes(u, c, k) == \E e \in u : e.id = c /\ ~e.here /\ e.clock >= k

(* What instance i shows that the messages it has yet to get remove. *)
AnsweredLate(i) == {c \in shown[i] : Removes(Entries(bus[i]), c, clock[i][c])}

(* Defects the properties below have to notice.  None is part of Next. *)

(* A removal by others moves the clock of the client. *)
ForgetAhead(n, ids) ==
    /\ shown' = [shown EXCEPT ![n] = shown[n] \ ids]
    /\ clock' = [clock EXCEPT ![n] = [c \in Clients |-> clock[n][c] + (IF c \in ids THEN 1 ELSE 0)]]

(* What a room removes for a closed socket is not published. *)
SpreadHere(i, u, origin) ==
    /\ down' = Sent(i, u, origin)
    /\ bus' = IF u = {} \/ (\A e \in u : ~e.here) THEN bus ELSE Published(bus, i, u)

(* What comes over the bus is not passed on to the clients. *)
ReceiveBusOnly(i) ==
    LET u == Head(bus[i])
        rest == [bus EXCEPT ![i] = Tail(@)]
    IN
    /\ bus[i] # <<>>
    /\ IF u = Request
       THEN /\ bus' = IF shown[i] = {} THEN rest ELSE Published(rest, i, Encode(i, shown[i]))
            /\ UNCHANGED <<awareness, down>>
       ELSE Merge(i, u) /\ bus' = rest /\ UNCHANGED down
    /\ late' = late \cup IF u = Request THEN AnsweredLate(i) ELSE {}
    /\ UNCHANGED <<provider, server, cut, up, events, faulty, told>>

(* onAwarenessUpdate() at instance i, for what does not come from the bus. *)
Spread(i, u, origin) ==
    /\ down' = Sent(i, u, origin)
    /\ bus' = IF u = {} THEN bus ELSE Published(bus, i, u)

(* removeAwarenessStates() for others: the clock stays. *)
Forget(n, ids) ==
    /\ shown' = [shown EXCEPT ![n] = shown[n] \ ids]
    /\ UNCHANGED clock
Removal(n, ids) == {[id |-> c, clock |-> clock[n][c], here |-> FALSE] : c \in ids}

NoClocks == [c \in Clients |-> 0]
Only(c, k) == [NoClocks EXCEPT ![c] = k]

----------------------------------------------------------------------------
(* The client *)

Happens == events < MaxEvents /\ events' = events + 1

Own(c, k, h) == {[id |-> c, clock |-> k, here |-> h]}

(* The frame is lost when the socket is not open, or is dead. *)
SentUp(c, u) == IF c \in Online THEN [up EXCEPT ![Current(c)] = Append(@, u)] ELSE up

(* socket.onopen; the first token is valid and the first frame is the token. *)
Open(c, i) ==
    /\ Happens
    /\ c \in here \ linked /\ last[c] < MaxSockets
    /\ last' = [last EXCEPT ![c] = @ + 1]
    /\ linked' = linked \cup {c}
    /\ conn' = [conn EXCEPT ![Current(c)'] = "queued"]
    /\ at' = [at EXCEPT ![Current(c)'] = i]
    /\ up' = [up EXCEPT ![Current(c)'] = <<Own(c, clock[c][c], TRUE)>>]
    /\ UNCHANGED <<awareness, here, announced, controlled, cut, down, bus, faulty, told, late>>

(* setLocalState(): a cursor moves, a name changes, or the refresh timer fires.
   The clock runs while there is no socket, too. *)
Announce(c) ==
    /\ Happens
    /\ c \in here
    /\ clock' = [clock EXCEPT ![c][c] = @ + 1]
    /\ up' = SentUp(c, Own(c, clock[c][c] + 1, TRUE))
    /\ announced' = announced \cup ({c} \cap linked)
    /\ told' = IF c \in linked THEN [told EXCEPT ![c] = InSession] ELSE told
    /\ UNCHANGED <<shown, here, linked, last, server, cut, down, bus, faulty, late>>

(* A removal of the client itself moves its clock; the provider sends nothing for
   what it got from the server. *)
Receive(c) ==
    LET s == Current(c) IN
    /\ c \in linked /\ down[s] # <<>>
    /\ Merge(c, Head(down[s]))
    /\ down' = [down EXCEPT ![s] = Tail(@)]
    /\ told' = IF clock'[c][c] # clock[c][c] THEN [told EXCEPT ![c] = {}] ELSE told
    /\ UNCHANGED <<provider, server, cut, up, bus, events, faulty, late>>

OutOfSession(c) == [d \in Clients |-> IF d = c THEN {} ELSE told[d] \ {c}]

(* socket.onclose *)
Lost(c) ==
    /\ c \in linked \ Online
    /\ Forget(c, Clients \ {c})
    /\ linked' = linked \ {c} /\ announced' = announced \ {c}
    /\ cut' = cut \ {Current(c)}
    /\ told' = OutOfSession(c)
    /\ UNCHANGED <<here, last, server, up, down, bus, events, faulty, late>>

(* The page is closed, and onUnload() says so first, or the client goes on to
   another document: destroy() says nothing. *)
Leave(c, says) ==
    /\ Happens
    /\ c \in here
    /\ here' = here \ {c} /\ linked' = linked \ {c} /\ announced' = announced \ {c}
    /\ clock' = [clock EXCEPT ![c] = Only(c, IF says THEN @[c] + 1 ELSE @[c])]
    /\ shown' = [shown EXCEPT ![c] = {}]
    /\ up' = IF says THEN SentUp(c, Own(c, clock[c][c] + 1, FALSE)) ELSE up
    /\ down' = [s \in Sockets |-> IF s[1] = c THEN <<>> ELSE down[s]]
    /\ cut' = cut \ {Current(c)}
    /\ told' = OutOfSession(c)
    /\ UNCHANGED <<last, server, bus, faulty, late>>

----------------------------------------------------------------------------
(* The connection *)

(* room.add(), and for the first client of a room requestState(). *)
Join(s) ==
    LET i == at[s]
        u == Encode(i, shown[i])
    IN
    /\ conn[s] = "queued"
    /\ conn' = [conn EXCEPT ![s] = "joined"]
    /\ down' = IF Reader(s) /\ u # {} THEN [down EXCEPT ![s] = Append(@, u)] ELSE down
    /\ bus' = IF IsRoom(i) THEN bus ELSE Published(bus, i, Request)
    /\ UNCHANGED <<awareness, provider, at, controlled, cut, up, events, faulty, told, late>>

(* handleAwareness(); what was queued is handled after the join. *)
HandleAwareness(s) ==
    LET i == at[s]
        u == Head(up[s])
    IN
    /\ conn[s] = "joined" /\ up[s] # <<>>
    /\ up' = [up EXCEPT ![s] = Tail(@)]
    /\ Merge(i, u)
    /\ controlled' = [controlled EXCEPT ![s] = (@ \cup Added(i, u)) \ Removed(i, u)]
    /\ Spread(i, Relayed(i, u), {s})
    /\ UNCHANGED <<provider, conn, at, cut, events, faulty, told, late>>

(* onSocketClosed(), when the client has gone or the heartbeat gives it up:
   room.remove(), and the last one takes the room along. *)
SocketClosed(s) ==
    LET i == at[s]
        gone == Removal(i, controlled[s] \cap shown[i])
    IN
    /\ conn[s] \in {"queued", "joined"} /\ ~Reader(s) /\ up[s] = <<>>
    /\ conn' = [conn EXCEPT ![s] = "gone"]
    /\ at' = [at EXCEPT ![s] = None]
    /\ controlled' = [controlled EXCEPT ![s] = {}]
    /\ IF Members(i) \ {s} # {}
       THEN Spread(i, gone, {s}) /\ Forget(i, Ids(gone))
       ELSE /\ bus' = [IF gone = {} THEN bus ELSE Published(bus, i, gone) EXCEPT ![i] = <<>>]
            /\ shown' = [shown EXCEPT ![i] = {}]
            /\ clock' = [clock EXCEPT ![i] = NoClocks]
            /\ UNCHANGED down
    /\ UNCHANGED <<provider, cut, up, events, faulty, told, late>>

(* receive() *)
ReceiveBus(i) ==
    LET u == Head(bus[i])
        rest == [bus EXCEPT ![i] = Tail(@)]
    IN
    /\ bus[i] # <<>>
    /\ IF u = Request
       THEN /\ bus' = IF shown[i] = {} THEN rest ELSE Published(rest, i, Encode(i, shown[i]))
            /\ UNCHANGED <<awareness, down>>
       ELSE /\ Merge(i, u)
            /\ down' = Sent(i, Relayed(i, u), {})
            /\ bus' = rest
    /\ late' = late \cup IF u = Request THEN AnsweredLate(i) ELSE {}
    /\ UNCHANGED <<provider, server, cut, up, events, faulty, told>>

----------------------------------------------------------------------------
(* Time and trouble *)

(* Nothing is under way; frames may be queued during a load. *)
Still ==
    /\ \A s \in Sockets : down[s] = <<>> /\ (conn[s] = "joined" => up[s] = <<>>)
    /\ \A i \in Instances : bus[i] = <<>>

(* Nothing was heard of a client for 30 seconds, which is longer than messages
   take: it has no working socket, or has not announced itself since.  A client
   tells the server, a room everyone. *)
Expire(n, c) ==
    /\ Still
    /\ c \in shown[n] \ {n}
    /\ c \notin Online \/ c \notin announced
    /\ Forget(n, {c})
    /\ IF n \in Clients
       THEN up' = SentUp(n, Removal(n, {c})) /\ UNCHANGED <<down, bus>>
       ELSE Spread(n, Removal(n, {c}), {}) /\ UNCHANGED up
    /\ UNCHANGED <<provider, server, cut, events, faulty, told, late>>

(* The network fails, or the server closes the socket. *)
Break(c) ==
    LET s == Current(c) IN
    /\ Happens
    /\ c \in Online
    /\ cut' = cut \cup {s}
    /\ up' = [up EXCEPT ![s] = <<>>] /\ down' = [down EXCEPT ![s] = <<>>]
    /\ UNCHANGED <<awareness, provider, server, bus, faulty, told, late>>

(* A presence frame over the budget or behind a full queue, or for a client that
   is slow, is dropped. *)
Drop(s) ==
    /\ Happens /\ faulty' = TRUE
    /\ \/ up[s] # <<>> /\ up' = [up EXCEPT ![s] = Tail(@)] /\ UNCHANGED down
       \/ down[s] # <<>> /\ down' = [down EXCEPT ![s] = Tail(@)] /\ UNCHANGED up
    /\ UNCHANGED <<awareness, provider, server, cut, bus, told, late>>

(* The process of an instance dies, and is started again. *)
Crash(i) ==
    LET dead == {s \in Sockets : at[s] = i /\ conn[s] \in {"queued", "joined"}} IN
    /\ Happens /\ faulty' = TRUE
    /\ dead # {}
    /\ conn' = [s \in Sockets |-> IF s \in dead THEN "gone" ELSE conn[s]]
    /\ at' = [s \in Sockets |-> IF s \in dead THEN None ELSE at[s]]
    /\ controlled' = [s \in Sockets |-> IF s \in dead THEN {} ELSE controlled[s]]
    /\ cut' = cut \cup {s \in dead : Reader(s)}
    /\ up' = [s \in Sockets |-> IF s \in dead THEN <<>> ELSE up[s]]
    /\ down' = [s \in Sockets |-> IF s \in dead THEN <<>> ELSE down[s]]
    /\ bus' = [bus EXCEPT ![i] = <<>>]
    /\ shown' = [shown EXCEPT ![i] = {}]
    /\ clock' = [clock EXCEPT ![i] = NoClocks]
    /\ UNCHANGED <<provider, told, late>>

----------------------------------------------------------------------------
Next ==
    \/ \E c \in Clients :
           \/ \E i \in Instances : Open(c, i)
           \/ Announce(c) \/ Receive(c) \/ Lost(c) \/ Break(c)
           \/ \E says \in BOOLEAN : Leave(c, says)
           \/ \E n \in Nodes : Expire(n, c)
    \/ \E s \in Sockets : Join(s) \/ HandleAwareness(s) \/ SocketClosed(s) \/ Drop(s)
    \/ \E i \in Instances : ReceiveBus(i) \/ Crash(i)

Spec == Init /\ [][Next]_vars

----------------------------------------------------------------------------
(* Nothing is under way, and every socket is in the session or noticed to be
   gone at both ends. *)
Quiet ==
    /\ Still
    /\ linked = Online
    /\ \A s \in Sockets : conn[s] \in {"none", "gone"} \/ (conn[s] = "joined" /\ Reader(s))

(* Nobody knows a later clock of a client than the client itself, so that its next
   announcement is news to everyone: removals by others use its clock and do not
   move it (room.ts, provider.ts). *)
OwnerAhead == \A n \in Nodes, c \in Clients : clock[n][c] <= clock[c][c]

(* Once things are quiet nobody shows a client that has gone, unless it has been
   back in between, or an instance answered with it too late (or a frame was
   dropped, or an instance died): a connection removes with its socket what it
   controls (room.ts, client.ts). *)
GhostsHaveReturned ==
    Quiet /\ ~faulty =>
        \A n \in Nodes : \A c \in shown[n] \ linked : c = n \/ last[c] > 1 \/ c \in late

(* Once things are quiet a client is shown to all who have been in the session
   since it last announced itself, on whichever instance they are: neither the
   removal with its old connection nor an expiry elsewhere hides it for longer. *)
PresenceReturns ==
    Quiet /\ ~faulty =>
        \A c \in linked : \A d \in told[c] : c \in shown[d]

----------------------------------------------------------------------------
(* The parts of the inductive invariant. *)

Entry == [id : Clients, clock : Nat \ {0}, here : BOOLEAN]
Frame == {u \in SUBSET Entry : \A d, e \in u : d.id = e.id => d = e}
Queue == Seq(Frame)

PresenceTypeOK ==
    /\ clock \in [Nodes -> [Clients -> Nat]]
    /\ shown \in [Nodes -> SUBSET Clients]
    /\ \A n \in Nodes : \A c \in shown[n] \cup ({n} \cap Clients) : clock[n][c] # 0
    /\ here \subseteq Clients /\ linked \subseteq Clients
    /\ last \in [Clients -> 0 .. MaxSockets]
    /\ \A c \in linked : last[c] # 0
    /\ conn \in [Sockets -> {"none", "queued", "joined", "gone"}]
    /\ \A s \in Sockets : conn[s] \in {"queued", "joined"} => at[s] \in Instances
    /\ at \in [Sockets -> Instances \cup {None}]
    /\ controlled \in [Sockets -> SUBSET Clients]
    /\ up \in [Sockets -> Queue] /\ down \in [Sockets -> Queue]
    /\ bus \in [Instances -> Queue]

(* Nothing under way is ahead of its owner, either. *)
Behind(k, u) == \A e \in u : e.clock <= k[e.id][e.id]
AllBehind(k, q) == \A j \in 1 .. Len(q) : Behind(k, q[j])
QueuesBehind ==
    /\ \A s \in Sockets : AllBehind(clock, up[s]) /\ AllBehind(clock, down[s])
    /\ \A i \in Instances : AllBehind(clock, bus[i])

PresenceInv == PresenceTypeOK /\ OwnerAhead /\ QueuesBehind

=============================================================================
