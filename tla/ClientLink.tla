----------------------------- MODULE ClientLink -----------------------------
(***************************************************************************)
(* What protects the server from one socket, and a slow socket from the    *)
(* server: the handshake timer and the rate limit of                       *)
(* apps/server/src/ws/connection.ts and rate-limit.ts, the send buffer of  *)
(* client.ts and the heartbeat of heartbeat.ts, on one time line.          *)
(*                                                                         *)
(* Time is a count of ticks; a timer that is due fires before the tick     *)
(* ends.  A frame the server sends is one unit of the send buffer, a ping  *)
(* none, but both wait behind what was sent before them.                   *)
(***************************************************************************)
EXTENDS Integers, Sequences, FiniteSets

CONSTANTS INTERVAL,          \* config.heartbeat.intervalMs
          HANDSHAKE,         \* config.auth.handshakeTimeoutMs
          SOFT, HARD,        \* config.backpressure
          RATE,              \* config.rateLimit.bytesPerSecond, per tick
          MIN_FRAME_COST,    \* config.rateLimit.minFrameCost
          Sizes,             \* sizes of the frames clients send
          LATENCY,           \* ticks a pong may take
          MaxTime            \* bound on the ticks the rate limit is followed

(* A frame a tick is how fast a peer that still reads does so; the last clause
   says that such a peer answers a ping before the next sweep, whichever limit
   lets more into its buffer: config.ts does not order them. *)
ASSUME LinkAssumption ==
    /\ {INTERVAL, HANDSHAKE} \subseteq Nat \ {0}
    /\ {SOFT, HARD, RATE, MIN_FRAME_COST, LATENCY, MaxTime} \subseteq Nat
    /\ Sizes \subseteq Nat
    /\ \A limit \in {SOFT, HARD} : limit + 2 + LATENCY < INTERVAL

VARIABLES
    (* The socket and its Connection *)
    socket,        \* readyState
    user,          \* a valid token has been presented
    authIn,        \* ticks until authTimer fires, or Off
    (* Client: the send buffer *)
    pipe,          \* what is buffered or under way to the peer
    (* Heartbeat *)
    alive,
    sweepIn,       \* ticks until the next sweep
    (* documentBudget: a TokenBucket *)
    tokens, updatedAt,
    now,
    (* The peer *)
    peer,          \* whether it reads, or has vanished without a word
    read,          \* it has read something since the last tick
    pongs          \* pongs under way: the ticks each may still take

(* History. *)
VARIABLES
    skipped,       \* a document frame was not sent
    cut,           \* the heartbeat has terminated the socket while it was open
    silentFor,     \* ticks since the peer vanished
    idleFor,       \* ticks without a token
    before         \* before[s]: what the budget granted before tick s

connection == <<socket, user, authIn>>
heartbeat == <<alive, sweepIn>>
bucket == <<tokens, updatedAt, before>>
remote == <<peer, read, pongs>>
history == <<skipped, cut, silentFor, idleFor>>
vars == <<connection, pipe, heartbeat, bucket, now, remote, history>>

Off == -1
CAP == 2 * RATE                  \* bursts are allowed at twice the rate
MaxSilence == 2 * INTERVAL + LATENCY

Init ==
    /\ socket = "open" /\ user = FALSE /\ authIn = HANDSHAKE
    /\ pipe = <<>>
    /\ alive = TRUE /\ sweepIn \in 0 .. INTERVAL
    /\ tokens = CAP /\ updatedAt = 0 /\ now = 0
    /\ peer = "reading" /\ read = FALSE /\ pongs = {}
    /\ skipped = FALSE /\ cut = FALSE /\ silentFor = 0 /\ idleFor = 0
    /\ before = [s \in 0 .. MaxTime + 1 |-> 0]

IsOpen == socket = "open"

(* client.close(): a socket that is not open stays as it is. *)
Closed == IF IsOpen THEN "closing" ELSE socket

Pings == {k \in 1 .. Len(pipe) : pipe[k] = "ping"}
Buffered == Len(pipe) - Cardinality(Pings)

(* A defect TakeIsExact has to notice: the refill has no upper limit. *)
RefilledUncapped == tokens + RATE * (now - updatedAt)

(* TokenBucket.take(): what the refill makes of the tokens. *)
Refilled ==
    LET sum == tokens + RATE * (now - updatedAt) IN
    IF sum > CAP THEN CAP ELSE sum

Cost(size) == IF size < MIN_FRAME_COST THEN MIN_FRAME_COST ELSE size

Spent == before[MaxTime + 1]

Take(cost) ==
    /\ updatedAt' = now
    /\ IF Refilled < cost
       THEN tokens' = Refilled /\ UNCHANGED before
       ELSE /\ tokens' = Refilled - cost
            /\ before' = [s \in 0 .. MaxTime + 1 |->
                             IF s > now THEN before[s] + cost ELSE before[s]]

----------------------------------------------------------------------------
(* Further defects the properties below have to notice.  None is part of Next. *)

(* A document frame for a slow client is dropped, as presence is. *)
SendDrops ==
    /\ user /\ socket # "closed"
    /\ IF IsOpen /\ Buffered <= HARD
       THEN pipe' = Append(pipe, IF skipped THEN "late" ELSE "document") /\ UNCHANGED skipped
       ELSE skipped' = TRUE /\ UNCHANGED pipe
    /\ UNCHANGED <<connection, heartbeat, bucket, now, remote, cut, silentFor, idleFor>>

(* The sweep terminates a client that has not answered the ping it sends. *)
SweepImpatient ==
    /\ sweepIn = 0 /\ socket # "closed"
    /\ sweepIn' = INTERVAL
    /\ alive' = FALSE
    /\ socket' = "closed" /\ cut' = TRUE
    /\ UNCHANGED <<user, authIn, pipe, bucket, now, remote, skipped, silentFor, idleFor>>

(* close() rather than terminate(). *)
SweepCloses ==
    /\ sweepIn = 0 /\ socket # "closed"
    /\ sweepIn' = INTERVAL
    /\ alive' = FALSE
    /\ IF alive
       THEN pipe' = (IF IsOpen THEN Append(pipe, "ping") ELSE pipe) /\ UNCHANGED <<socket, cut>>
       ELSE socket' = Closed /\ cut' = IsOpen /\ UNCHANGED pipe
    /\ UNCHANGED <<user, authIn, bucket, now, remote, skipped, silentFor, idleFor>>

----------------------------------------------------------------------------
(* From the peer *)

(* onFrame() with the first frame: anything but a valid token closes. *)
Authenticate(valid) ==
    /\ socket # "closed" /\ peer = "reading" /\ ~user
    /\ IF valid
       THEN user' = TRUE /\ authIn' = Off /\ UNCHANGED socket
       ELSE socket' = Closed /\ UNCHANGED <<user, authIn>>
    /\ UNCHANGED <<pipe, heartbeat, bucket, now, remote, history>>

(* withinLimits() with a document frame: one over the budget closes. *)
DocumentFrame(size) ==
    /\ socket # "closed" /\ peer = "reading" /\ user
    /\ now < MaxTime
    /\ Take(Cost(size))
    /\ socket' = IF Refilled < Cost(size) THEN Closed ELSE socket
    /\ UNCHANGED <<user, authIn, pipe, heartbeat, now, remote, history>>

(* The peer takes the next frame; its WebSocket answers a ping by itself. *)
Read ==
    /\ peer = "reading" /\ pipe # <<>> /\ socket # "closed"
    /\ pipe' = Tail(pipe)
    /\ read' = TRUE
    /\ pongs' = IF Head(pipe) = "ping" THEN pongs \cup {LATENCY} ELSE pongs
    /\ UNCHANGED <<connection, heartbeat, bucket, now, peer, history>>

PongArrives ==
    /\ socket # "closed"
    /\ \E p \in pongs : pongs' = pongs \ {p}
    /\ alive' = TRUE
    /\ UNCHANGED <<connection, pipe, sweepIn, bucket, now, peer, read, history>>

(* The peer's network is gone, and no close frame comes. *)
Vanish ==
    /\ peer = "reading" /\ socket # "closed"
    /\ peer' = "silent"
    /\ UNCHANGED <<connection, pipe, heartbeat, bucket, now, read, pongs, history>>

(* The socket's close event: the closing handshake ends or times out, the peer
   goes, the connection breaks. *)
SocketCloses ==
    /\ socket # "closed"
    /\ socket' = "closed"
    /\ authIn' = Off
    /\ UNCHANGED <<user, pipe, heartbeat, bucket, now, remote, history>>

----------------------------------------------------------------------------
(* From the server *)

(* client.send() of a document frame, to a client that has joined. *)
Send ==
    /\ user /\ socket # "closed"
    /\ IF ~IsOpen
       THEN skipped' = TRUE /\ UNCHANGED <<socket, pipe>>
       ELSE IF Buffered > HARD
       THEN skipped' = TRUE /\ socket' = Closed /\ UNCHANGED pipe
       ELSE /\ pipe' = Append(pipe, IF skipped THEN "late" ELSE "document")
            /\ UNCHANGED <<socket, skipped>>
    /\ UNCHANGED <<user, authIn, heartbeat, bucket, now, remote, cut, silentFor, idleFor>>

(* client.sendPresence(), unless it drops the frame. *)
SendPresence ==
    /\ user /\ IsOpen
    /\ Buffered <= SOFT
    /\ pipe' = Append(pipe, "presence")
    /\ UNCHANGED <<connection, heartbeat, bucket, now, remote, history>>

(* The server closes the socket for some other reason: a document that cannot be
   loaded, a shutdown. *)
ServerCloses ==
    /\ IsOpen
    /\ socket' = Closed
    /\ UNCHANGED <<user, authIn, pipe, heartbeat, bucket, now, remote, history>>

AuthTimeout ==
    /\ authIn = 0
    /\ authIn' = Off
    /\ socket' = Closed
    /\ UNCHANGED <<user, pipe, heartbeat, bucket, now, remote, history>>

(* Heartbeat.sweep(): a ping is queued behind what is buffered; ws sends none on
   a socket that is closing. *)
Sweep ==
    /\ sweepIn = 0 /\ socket # "closed"
    /\ sweepIn' = INTERVAL
    /\ IF alive
       THEN /\ alive' = FALSE
            /\ pipe' = IF IsOpen THEN Append(pipe, "ping") ELSE pipe
            /\ UNCHANGED <<socket, cut>>
       ELSE /\ socket' = "closed" /\ cut' = IsOpen
            /\ UNCHANGED <<alive, pipe>>
    /\ UNCHANGED <<user, authIn, bucket, now, remote, skipped, silentFor, idleFor>>

(* A tick ends when no timer is due, no pong is, and a peer that reads has read. *)
Tick ==
    /\ socket # "closed"
    /\ sweepIn > 0 /\ authIn # 0 /\ 0 \notin pongs
    /\ peer = "reading" /\ pipe # <<>> => read
    /\ now' = IF now < MaxTime THEN now + 1 ELSE now
    /\ sweepIn' = sweepIn - 1
    /\ authIn' = IF authIn = Off THEN Off ELSE authIn - 1
    /\ pongs' = {p - 1 : p \in pongs}
    /\ read' = FALSE
    /\ silentFor' = IF peer = "silent" THEN silentFor + 1 ELSE 0
    /\ idleFor' = IF user THEN 0 ELSE idleFor + 1
    /\ UNCHANGED <<socket, user, pipe, alive, bucket, peer, skipped, cut>>

Next ==
    \/ \E valid \in BOOLEAN : Authenticate(valid)
    \/ \E size \in Sizes : DocumentFrame(size)
    \/ Read \/ PongArrives \/ Vanish \/ SocketCloses
    \/ Send \/ SendPresence \/ ServerCloses \/ AuthTimeout \/ Sweep \/ Tick

Spec == Init /\ [][Next]_vars

----------------------------------------------------------------------------
Costs == {Cost(size) : size \in Sizes}

(* A cost would keep every window that ends now within the burst and the rate:
   what a token bucket promises, said without tokens. *)
Allowed(cost) ==
    \A s \in 0 .. now : Spent - before[s] + cost <= CAP + RATE * (now - s)

(* A document frame is let through exactly when the budget allows it, however
   frames and pauses alternate and although the refill is only computed on
   demand: no burst beyond it, and no refusal short of it (rate-limit.ts). *)
TakeIsExact == \A cost \in Costs : Refilled >= cost <=> Allowed(cost)

(* The heartbeat terminates no socket whose peer reads and answers, however much
   is buffered in front of the ping (heartbeat.ts, client.ts). *)
ReaderIsKept == cut => peer = "silent"

(* A peer that vanished is gone after two sweeps and the last pong, in whatever
   state its socket is; and a socket without a token is not kept open longer
   than the handshake may take. *)
NobodyLingers == silentFor <= MaxSilence /\ (idleFor > HANDSHAKE => ~IsOpen)

(* The document frames a peer gets are those it was sent, up to some point: after
   the first that is not sent none follows, and the socket is on its way out, so
   that the client asks again (client.ts). *)
NothingSkipped == skipped => ~IsOpen /\ \A i \in 1 .. Len(pipe) : pipe[i] # "late"

----------------------------------------------------------------------------
(* The parts of the inductive invariant. *)

LinkTypeOK ==
    /\ socket \in {"open", "closing", "closed"} /\ user \in BOOLEAN
    /\ authIn \in 0 .. HANDSHAKE \cup {Off}
    /\ pipe \in Seq({"document", "late", "presence", "ping"})
    /\ alive \in BOOLEAN /\ sweepIn \in 0 .. INTERVAL
    /\ tokens \in 0 .. CAP /\ updatedAt \in Nat /\ now \in updatedAt .. MaxTime
    /\ peer \in {"reading", "silent"} /\ read \in BOOLEAN /\ pongs \subseteq 0 .. LATENCY
    /\ skipped \in BOOLEAN /\ cut \in BOOLEAN
    /\ silentFor \in Nat /\ idleFor \in Nat
    /\ before \in [0 .. MaxTime + 1 -> Nat]

(* The budget is what the tightest window that ended at the last refill left. *)
Window(s) == CAP + RATE * (updatedAt - s) - (Spent - before[s])
BucketIsTightest ==
    /\ \A s \in 0 .. MaxTime + 1 :
           /\ before[s] <= Spent
           /\ s <= updatedAt => tokens <= Window(s)
           /\ s > updatedAt => before[s] = Spent
    /\ \E s \in 0 .. updatedAt : tokens = Window(s)

(* How long a silent peer may still have: a sweep, and another if it was alive. *)
SweepsToCome ==
    /\ silentFor <= MaxSilence
    /\ peer = "reading" => silentFor = 0
    /\ peer = "silent" /\ socket # "closed" =>
           /\ \A p \in pongs : p + silentFor <= LATENCY
           /\ silentFor + sweepIn + (IF alive THEN INTERVAL ELSE 0) <= MaxSilence

(* The handshake timer covers the time without a token. *)
HandshakeIsTimed ==
    /\ user /\ IsOpen => idleFor <= HANDSHAKE
    /\ ~user /\ IsOpen => authIn # Off
    /\ ~user /\ authIn # Off => idleFor + authIn <= HANDSHAKE

(* One ping is unanswered when the client is not marked alive, and none
   otherwise; a peer that reads needs fewer ticks for what is in front of the ping
   and for the pong than are left until the sweep. *)
ReaderHasTime ==
    /\ IsOpen =>
           /\ alive => Pings = {} /\ pongs = {}
           /\ ~alive => \/ pongs = {} /\ \E k \in Pings : Pings = {k}
                        \/ Pings = {} /\ \E p \in pongs : pongs = {p}
           /\ \E limit \in {SOFT, HARD} : Buffered <= limit + 1
    /\ IsOpen /\ peer = "reading" =>
           /\ \A k \in Pings : k - 1 + (IF read THEN 1 ELSE 0) + LATENCY < sweepIn
           /\ \A p \in pongs : p < sweepIn

LinkInv ==
    /\ LinkTypeOK
    /\ BucketIsTightest
    /\ SweepsToCome
    /\ HandshakeIsTimed
    /\ NothingSkipped
    /\ ReaderHasTime /\ ReaderIsKept

=============================================================================
