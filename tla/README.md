# A formal model of the collaborative code editor

TLA+ modules for the parts of this repository in which several things happen at
once: the Postgres log and its compaction, the write buffer in front of it, the
life of a room between connections that come and go, the relay between
instances, the session between a browser and a room, what users see of each
other's presence, what guards the server from one socket, and the shutdown of an
instance. Each module is checked
with TLC on small instances and most of its safety properties are proved with
TLAPS for every value of the constants. `PROJECT.json` maps every definition to
the lines it models, lists the runs, and gives for each checked property a
defect of the code that the property notices.

To check a run: `tlc -config Cluster.cfg MCCluster.tla`. To check the proofs of
a module: `tlapm ClusterProofs.tla`.

## The system

Paths are below `src/`.

| Part | State | Operations | Talks to | Correct when |
| --- | --- | --- | --- | --- |
| Postgres store, `apps/server/src/persistence/postgres-store.ts`, `apps/server/sql/schema.sql` | tables `documents`, `document_updates`, `document_snapshots`; the advisory lock | `append`, `compact` (both transactions), `load` (two selects), `close` | called by writers of all instances | what was acknowledged stays readable; compaction changes nothing a reader can see |
| Document writer, `persistence/writer.ts` | pending updates, their size, one timer, a promise chain, rows since the snapshot | `record`, `flush`, timer, `write`, `close` | the room; the store | no update is forgotten or written twice, none waits for ever, `close` waits for all of them |
| Room registry, `rooms/registry.ts` | rooms by document, loads under way | `join`, `leave`, `open`, `load`, `closeAll` | connections, rooms, bus, store | one room per document, alive while it has clients |
| Room, `rooms/room.ts` | the Yjs document, clients, awareness | `hydrate`, `add`, `remove`, `dispatch`, `receive`, `onDocUpdate`, `answerStateRequest`, `destroy` | clients, bus, writer | all clients, on all instances, end up with the same text |
| Connection, `ws/connection.ts` | user, room, queued frames, rate buckets, handshake timer | `onFrame`, `authenticate`, `join`, `onSocketClosed` | socket, registry, room | a socket that goes leaves nothing behind; an accepted edit is applied once |
| Redis bus, `cluster/redis-bus.ts`, `cluster/messages.ts` | two connections, listener by channel | `subscribe`, `unsubscribe`, `publish`, `onMessage`, `close` | Redis, rooms | an outage is a partition, and ends in convergence |
| Client send path, heartbeat, rate limit, `ws/client.ts`, `ws/heartbeat.ts`, `ws/rate-limit.ts` | bytes buffered, alive flags, tokens | `send`, `close`, sweep, `take` | sockets | document traffic is delivered or the socket is closed so that it resyncs |
| Gateway and lifecycle, `ws/gateway.ts`, `app.ts`, `index.ts` | set of connections, shutting-down flag | upgrade, `close`, signal handling | everything | a shutdown writes what was accepted |
| Provider, `apps/web/src/collab/provider.ts` | socket, retry and ping timers, cached token, Yjs document | connect, auth, sync steps, reconnect, destroy | gateway, editor | local edits reach the server after any number of reconnects |
| Tokens, HTTP, protocol framing, user interface, configuration, deployment | little or none | pure functions, request handlers, React components | | |

What is hard here: the load of a document awaits the store and the bus while
sockets go on opening, closing and sending; a room that closes is out of the
registry while its writer still works; two instances append to and compact one
log with no coordination but one lock; each store call can fail, or succeed and
lose its answer; Redis forgets what it cannot deliver; an instance can die with
updates that others already show. `hazards` in `PROJECT.json` lists these
places by line.

## Modules

| Module | What it is |
| --- | --- |
| `DocumentStore` | what `store.ts` promises of `append` and `compact` for one document: an abstract specification |
| `PostgresStore` | the SQL statements of `append`, `compact` and `load`, interleaved; implements `DocumentStore` when there is one writer |
| `DocumentWriter` | `writer.ts`: buffer, timer, size limit, promise chain, failing store, `close` |
| `RoomRegistry` | connections, registry, rooms and their writers, for one document on one instance |
| `Cluster` | rooms of several instances, the Redis relay and the shared store |
| `SyncSession` | browsers that connect, type, reconnect and are refused, against connections and rooms of several instances |
| `Presence` | awareness: what clients and rooms know of each other's presence, across reconnects, instances, lost frames and crashes |
| `ClientLink` | one socket: handshake timer, rate limit, send buffer with backpressure, heartbeat, on one time line |
| `Shutdown` | the signal, the order in which gateway, rooms, bus and pool are closed, the forced exit; extends `RoomRegistry` |
| `...Proofs` | theorems about the module they are named after |
| `MC...` | the symmetry sets for TLC |

The modules look at the same code from different distances. `PostgresStore`
takes a store call apart into statements; `RoomRegistry` and `Cluster` treat a
call as one step. `DocumentWriter` models the timer and the chain; the other two
keep of it that a write starts some time and may fail. `RoomRegistry` shows that
an instance has one open room for a document and that a room which closes still
writes what it has; `Cluster` builds on that with one room per instance and a
set `closing` of what closed rooms have yet to write. `SyncSession` adds the
clients and takes from the others what they show: opening a room is one step, a
room that closes is flushed in it, and the bus works and brings each room what
the others publish. What goes wrong there is `Cluster`'s subject; what goes wrong
between a browser and a room is this module's.

`Shutdown` is built on `RoomRegistry`: its steps use the registry's actions, under
the conditions that the phase of the shutdown and the pool add.
`Presence` and `ClientLink` stand beside the others: awareness shares sockets and
rooms with the document but no data, and the limits of a socket decide only when
it closes, which the other modules allow at any time.

One document is modelled throughout: documents share no state but the Redis
connections and the connection pool. In `Shutdown` the pool is what other
documents may have taken all connections of.

### PostgresStore

A writer's `pc` names the statement that comes next in its call; `updates` and
`snapshot` are the committed rows; `inserted`, `merged` and `doomed` are what an
open transaction has written and nobody else sees. Isolation is READ COMMITTED,
so each statement sees what is committed when it starts. Three details of
Postgres matter and are modelled: `bigserial` hands out a sequence number at the
insert and not at the commit, the unique index makes a concurrent insert of the
same `documents` row wait for the first to finish, and
`pg_advisory_xact_lock` is held until the transaction ends. Every statement may
fail, which rolls back; a commit may succeed and its answer be lost
(`AppendCommitLost`), and the writer will then append the batch again.
`overtaken` records the rows that commit at or below a cutoff whose tail has been
read: it is a history variable, for stating exactly what goes wrong.

### DocumentWriter

One action per turn of the event loop: `Record`, `TimerFires`, `Close`, and one
for each way a store call can end. `queue` is the promise chain; `writing` says
which await of `write()` its first batch is at. Time is a count of ticks. A batch
that failed is merged again with what is pending, and its size is then any size
up to the sum, because `mergeUpdates` makes one smaller update.

### RoomRegistry

An action is one turn of the event loop: a handler and the promise reactions
it queues. `LoadDone` is the longest: `bus.subscribe` resolves, the room enters
the map, every join that awaited the load adds its client, each checks
`readyState`, those still open have their queued frames applied, and those gone
leave again. All adds come before the first leave because the awaiting joins
continue in one batch of microtasks. A room object is a number, so that a room
being closed and its successor are told apart. The store and the bus answer at
any later time; the store may reject.

### Cluster

A message is `Update` with a set of updates, or `StateRequest`. `outbox[i]` is
what instance i has published and Redis has not yet executed, `inbox[i]` what
Redis has sent it: Redis runs one connection's commands in order and fans out to
the subscribers of that moment. Two ioredis options decide what an outage does:
the publisher has `enableOfflineQueue: false`, so a publish fails at once, and
the subscriber has `autoResubscribe`, so its subscription comes back with the
broker. `dep[e]` is the set of updates its author saw when it was typed; Yjs
cannot integrate an update without what it depends on, which is what `Visible`
says.

`HandleSync` is a frame of a client, with everything `onDocUpdate` does. A client may
bring any updates in any order: what it has just typed, what it typed next to
updates that this room does not have yet, and, as its sync step 2 after a reconnect
does, what it or another has brought to some room before. What the room thereby
comes to show (`Shows`), updates it had kept aside included, is recorded and
published; what comes to be shown because of a message of the bus (`ApplyRemote`) is
not, since its origin is then `REMOTE`. Which clients hold what, and therefore would
bring what, is left to `SyncSession`. `MaxFrames` bounds these frames.

`frames`, `recorded`, `ahead`, `orphaned`, `crashed` and `parted` are history
variables. An update is in `ahead` when a client has brought it to a room that had to
keep it aside, and is `Adrift` as long as no room has recorded it or the record died:
a room that integrates it later, because the bus brings what it needs, does so as if
it had come from elsewhere (item 8 below). An update is orphaned when its room ends before
it has been written, or with its publish still waiting for the broker and unwritten
(`Unsent`), or while another room that has read the store is yet to be answered
(`Catching`). The middle case takes a crash and three instances: the author's
instance dies with the update unwritten; another, which has it, is asked for its
document and closes before the broker has passed the answer on. Of two rooms that
open then, one gets the answer and is not yet open when the other one's request
arrives, so the other never has the update. No run reaches it (`MCCluster` has two
instances); a scripted run of TLC does.

### SyncSession

A client is a `CollabProvider`: `connecting` while `connect()` awaits the token,
`retrying` while the reconnect timer is set, then a `socket`, which is `online`
once it has opened. A socket has a number, which is used again when both ends of
it are gone, so that a client may have a new socket while the server still keeps
the connection of an old one. `conn` is what `connection.ts` knows: `new` until
the token is verified, `joining` while the document loads, then `joined`; a
socket in `closing` has been closed by the server and is no longer open to
`client.send()`. `up` and `down` are the frames under way. What is sent to an
end that has gone arrives nowhere, and what was under way is lost with the
socket.

A document is a set of edits, and an edit can be shown when all that its author
saw before it is there (`Visible`). Sync step 1 carries what its sender shows (the
state vector), and its answer all that the other holds and the sender does not show,
edits kept aside included, as `encodeStateAsUpdate` does. An update event fires for what
becomes visible (`Shows`), with the origin of the transaction. On that origin
`onDocUpdate` decides what is persisted and published (`Record`, `Publish`: not
what came from the bus) and who is told (`Broadcast`: everyone but the origin).
`ahead` remembers the edits that some room has held before their predecessors:
for these the origin is not their author, and the code treats them as if it were.

`Trouble` is what goes wrong, at most `MaxTroubles` times: a token request that
fails, a socket that breaks, a token that the servers begin to refuse, a client
that leaves, a frame over the budget, a server that closes a socket (handshake
timeout, load that fails, backpressure), a connection ended by the heartbeat, an
instance that dies. A half-open socket is found by the provider's ping in the
normal course of things (`HalfOpen`), and the server's end of one by the
heartbeat.

### Presence

`clock[n][c]` and `shown[n]` are what y-protocols' `Awareness` of client or room n
has: of each client c the clock of the last announcement it accepted (`meta`), and
whether it has a state for it (`states`). `Merge` is `applyAwarenessUpdate`, which
is not in this repository and is modelled from its use and its published
behaviour: a later clock counts, a removal also counts at the clock that is
known, and a client that is told of its own removal takes a later clock and stays.
`Forget` is `removeAwarenessStates` for others, which leaves the clock. An update
is a set of entries; the empty one stands for a state request on the bus.

The server's end of a socket is `conn`; `controlled` is `controlledAwarenessIds`.
`Join` is `room.add` (and `requestState` for the first client of a room),
`HandleAwareness` a frame of a client with everything `onAwarenessUpdate` does,
`SocketClosed` what `room.remove` removes and tells, and for the last client the
end of the room's awareness. An old socket may linger on the server while its
client is already on a new one, on this instance or another. Joining takes no
time: frames queued during a load wait in `up`.

`Expire` is the 30-second timeout of y-protocols. It is not given a clock:
it may happen whenever nothing is under way and the client concerned is not
online or has not announced itself on its socket, which assumes that messages
take less than 30 seconds and that a working provider announces itself in time
(every 10 seconds, `startAnnouncing`). `told[c]` is history: the clients that were
in the session when c last announced itself. `late` is history too: the clients
an instance sent as an answer to a state request although their removal was in its
inbox already, behind the request. With three instances this shows a client that
has gone (item 12 below).

### ClientLink

Time is a count of ticks, and a tick ends only when no timer is due. The peer
reads at least a frame a tick, or has vanished; what it reads is the head of `pipe`,
and a ping in `pipe` waits behind the frames before it. `LinkAssumption` says what
the heartbeat takes for granted: that a peer which reads gets through a full
buffer, and its pong back, within one interval (30 seconds for 4 MiB, in the
default configuration). It says so of both limits, because nothing in `config.ts`
makes `softBytes` the smaller one, and presence is buffered up to that. `before[s]` is history: what the budget has granted
before tick s, from which `Allowed` says without any tokens what a burst of CAP
and a rate of RATE allow. Ticks are followed up to `MaxTime` for the budget only;
heartbeat and handshake go on.

### Shutdown

`phase` follows `app.close()`: `draining` while `wss.close()` waits for the
sockets, `flushing` in `closeAll()`, `closing` while the HTTP server and the bus
are closed, `ending` in `pool.end()`. `call[r]` is where the room's call to the
store is: `waiting` for a connection of the pool, `out` with one, or `stuck`: it
was waiting when the pool was ended, which never serves it. Connections and rooms
go on as `RoomRegistry` has it through all of that. `GatewayClosed` is the turn in
which the last socket has closed: `closeAll()` takes what is in the registry then
(`swept`). `late` is history: the updates that had no connection when the pool was
ended, and those refused afterwards.

## Runs

| Run | Bound | What it shows |
| --- | --- | --- |
| `store_writers` | 2 writers, 1 loader, 2 batches, 3 sequence numbers | the inductive invariant `StoreInv`; compaction hides nothing acknowledged but a row committed behind its cutoff; a load no compaction interrupts is complete; snapshots only grow; no call blocks for ever on the lock or the index |
| `store_one_writer` | 1 writer, 1 loader, 3 batches, 4 sequence numbers | acknowledged batches stay readable; the statements implement `DocumentStore` |
| `store_overtaken` | 2 writers | **violation** of `AckedReadable` |
| `writer` | 3 updates of 1 or 2 bytes, limit 3 bytes, debounce 2 ticks, compaction after 2 rows | nothing forgotten or written twice; a timer for whatever is pending; nothing pending longer than the debounce; every update is stored or dropped by a closed writer; `close()` returns |
| `registry` | 3 connections, 2 updates, 2 rooms, queue of 1, failing store | one room for all who joined; no client without a socket; rooms held exactly while they have clients; no applied update lost; joins end; rooms are destroyed |
| `cluster` | 2 instances, 2 updates, one typed next to the other, 3 openings, 2 frames of clients; rooms close, instances crash, the broker fails and returns | until the broker fails, quiet rooms differ only by updates of rooms that ended too early and by updates brought ahead of their predecessors; only those, and updates that died in a buffer, keep anything from being read back |
| `session` | 2 clients, 2 instances, 2 edits, 2 sockets a client, queue of 1, 1 trouble | one attempt at a time; on a socket in use, what one end holds and the other does not is under way or asked for, in both directions; what a room shows is on its way to the store; the last two but for edits a room kept aside |
| `presence` | 2 clients with 2 sockets each, 2 instances, 5 events of clients or network | no one is ahead of a client's own clock; once things are quiet, everyone in the session is shown to all who were there when it announced itself, and nobody who has gone is, unless it had been back in between |
| `link` | 1 socket, interval of 4 ticks, handshake of 2, buffer of 1 frame, frames of 3 sizes | the bucket grants exactly what burst and rate allow; the heartbeat ends no socket whose peer reads; vanished and silent peers go in time; no frame follows one that was not sent |
| `shutdown` | 2 connections, 2 updates, 2 rooms, failing store, exhausted pool, broker down | nothing is accepted once rooms are flushed; `closeAll()` finds none; an exit loses only what had no connection by then; the shutdown ends by itself |
| `shutdown_loss` | 1 connection, 1 room, store and broker work | **violation** of `RestartLosesNothing` |
| `session_liveness` | 2 clients with 1 socket each at a time, 2 instances, 2 edits, queue of 1, 1 trouble | clients come to agree, whatever the one trouble is, but for edits that a room kept aside |

Why the bounds are enough. The races of the store need two writers, one that
compacts and one that appends, and rows before and behind the cutoff; a batch
whose answer was lost is appended again, so two batches fill three rows. The
writer needs a batch being written, one queued behind it and one pending, which
three updates are. In the registry two connections can share a load while a third
comes when the room is closing, and the second room is the one that replaces it;
two updates of one connection overrun the queue of one. In the cluster two
instances have all pairwise races, the second update cannot be shown without the
first, so that with two frames it can be brought ahead of it, or one of them twice,
to two rooms, and three openings include a room opened again beside one that stayed
open. Each exception that the two properties make is needed in this run: TLC refutes
them without it. A third frame, which can offer again what was brought ahead, and a
third update typed next to the second were checked too, with two updates and three
openings and with three updates and two openings; those runs are larger and show
nothing else. An
instance that hears of an update only over a third one needs three instances:
`Cluster` was written for any number, and the theorems hold for any number, but
no run has three: what only three can do is the proofs' part, and two exceptions
(`Unsent` in `Cluster`, `late` in `Presence`) come from there. In a session two clients can be on one instance or on two, the
second edit can depend on the first (in `session_liveness`, where edits cannot be
symmetric, they are numbered in the order they are typed: `before`), and the second
socket of a client is the one
it opens while the first lingers; the queue of one overflows with the frame after
step 1. One trouble is enough for each kind to meet each state of the others;
two at once are beyond the time a run may take. In `Presence` two sockets are a
connection that lingers and its successor, on one instance or two; the longest
case the properties need (a client joins, announces itself, breaks, comes back
and announces itself again, while the other one watches) takes five events. Two
clients do not show what a third would hear of the second only over the first's
room; the rooms treat all clients alike. The link's
buffer of one is passed by the second frame, its interval is the shortest that lets
a peer which reads answer in time, and three ticks are a burst, a pause shorter
than a full refill and another burst. A shutdown needs a room that closes beside
one that opens, and an update pending behind one that is being written. The
proofs do not depend on any of these bounds.

Deadlock is checked for `PostgresStore`. The others may stop: all updates have
been sent, all rooms opened that the bound allows, all sockets closed; in
`SyncSession` all edits typed and all clients in agreement; in `Presence` and
`ClientLink` all events used up or the socket closed; in `Shutdown` the process
has exited.

### Fairness

- `PostgresStore`: a statement that is not waiting for a lock is answered (weak
  fairness of the steps of a call). Postgres queues the waiters of a lock in
  order, so a wait ends if the lock is released again and again (strong fairness
  of the two statements that wait).
- `DocumentWriter`: time passes, a timer that is due fires, each store call is
  answered in some way (weak fairness). `EditsSettle` also assumes
  `StoreRecovers`: a store asked over and over does not fail every time. It is a
  premise of the property and not part of the specification; `CloseReturns` does
  without it.
- `RoomRegistry`: store and bus answer, writes start, and a closing handshake
  ends (`ws` destroys a socket whose peer does not answer). Clients are under no
  fairness: they need not join, send or leave.
- `SyncSession`: a provider goes on (its token request resolves, its timer fires,
  a working socket opens and delivers frames in order, a half-open one is noticed),
  a connection goes on (frames are handled, a load ends, an end without a peer is
  reaped), the bus delivers. Weak fairness of all these steps together (`Progress`)
  is enough: each of them is taken in time, and `EditsArrive` needs no more than that
  some step is taken as long as one can be, whoever's turn it is. Typing and
  trouble are under no fairness. `MaxTroubles` matters here: `EditsArrive` is
  about what happens once things stop going wrong.
- `Shutdown`: as in `RoomRegistry`, a call gets a connection of the pool in the
  end, and each step of `app.close()` is taken once what it awaits has happened
  (weak fairness). Neither the signal nor the timer of the forced exit is under
  any fairness, so `ShutdownEnds` says that the shutdown does not need the timer.
  That a socket closes may take `ws` longer than the five seconds of the timer.
- `Presence` and `ClientLink` have no liveness property: what must happen is said
  there of quiet states and in ticks.
- `Cluster` has no liveness property of its own: that edits arrive is said of
  `SyncSession`, with the clients.

## Proofs

All theorems hold for any finite or infinite sets of writers, batches,
connections, updates and instances, and any limits that satisfy the named
assumptions (`StoreAssumption`, `WriterAssumption`, `RegistryAssumption`,
`ClusterAssumption`, `SessionAssumption`, `PresenceAssumption`,
`ShutdownAssumption`, which say of limits that they are numbers, of switches that
they are Booleans and of sets that they are disjoint; `ClusterAssumption` that of any
updates one was typed before the others, `SessionAssumption` that `before` names
edits; `LinkAssumption` also says how
fast a peer that reads does so).

- **PostgresStoreProofs.** `StoreInvariant` proves `StoreInv`. That acknowledged
  batches are readable or overtaken is not inductive: a compaction commits a
  snapshot and a deletion, so one has to know at every statement before the
  commit what the two will be. `TailIsFolded` and `DoomedIsFolded` say that what
  a transaction is about to delete or skip is folded; `BaseIsCurrent` that the
  snapshot it started from is still the committed one, which needs `LockHeld`;
  `SkippedIsFolded` is what they leave behind after the commit;
  `LoadWillComplete` follows a load from its first select to its second.
  `AckedSurvive`, `LoadsComplete` and `SnapshotNeverShrinks` follow.
  `OneWriterAckedReadable` and `OneWriterImplements` assume one writer, and use
  the stronger `OneWriterInv`: nothing is overtaken, the log is exactly what the
  snapshot lacks. The latter shows that each statement is a step of
  `DocumentStore` or changes nothing of it, with `saved` mapped to what a load
  would return now.
- **DocumentWriterProofs.** `WriterInvariant` proves `WriterInv`. The debounce
  bound is inductive only with `TimerCoversOldest`, which ties the timer to the
  age of the oldest pending update; writing each update once needs `OnePlace`
  (the batches of the chain are disjoint from each other and from what is
  pending) and `CompactingHead`.
- **RoomRegistryProofs.** `RegistryInvariant` proves `RegistryInv`. The three
  properties about clients and rooms support each other and need `OneLoad` (at
  most one room is being loaded, and none while one is held) and `JoinsOnce`.
  That no applied update is lost needs `DocumentsKept`, because an update that a
  document already holds is not recorded again.
- **ClusterProofs.** `ClusterInvariant` proves `ClusterInv`.
  `CrashesAndGapsHideUpdates` proves `ReadableUnlessCrashed` from it: whatever a room
  or a message has was brought by a client, and what was recorded had what it needs
  (`OnlyBrought`); what was recorded is stored, in some write buffer, or died in one
  (`RecordedIsKept`); and what is known but was never recorded was brought ahead. So
  the updates that a visible one needs are among those, whatever the relay lost
  (`VisibleGrows`). It says how far the damage of a crash
  goes: see item 6 below. `RoomsConverge` proves `ConvergedUnlessOrphaned` from
  `ConvergenceInv`, which follows each update that is neither orphaned nor adrift to each
  room that is opening or open (`ComesToHave`): the room has it, has read it, has it in its
  inbox or will get it from a sender's outbox (`Has`); or a room that has it is still
  to answer (`WillBeAnswered`), which is why an answering room that closes orphans
  what it has; or no room shows it, it is not in the store, and whoever is yet to
  receive it will be asked after that (`IsForgotten`). When nothing is under way only
  the first case is left. `SentIsHeld` and `CaughtIsHeld` say that what is under way
  is in some room or in the store as well, so that a room that reads the store misses
  nothing for good; they hold of updates that are adrift as well, because such an update
  ceases to be adrift when a room records it, and has to be followed from there.
- **SyncSessionProofs.** `SessionInvariant` proves `SessionInv`, from which
  `ProvidersTryOnce` and `ClientsAreHeard`. The second says that a socket in use
  never forgets an edit of its client, although frames are dropped from the full
  queue and while the client is offline. It holds because the room's own step 1
  is still to come, or has asked: `GreetingAsks`. It is not inductive alone: a client that
  applies an update must not thereby hold what its room does not, so
  `DownIsHeld` says that a room sends only what it holds, and nothing before
  the join; `NothingDown`, `OneSocket` and `ServerEnd` keep the frames of an
  old socket away from its successor. `ShownIsRecorded` proves
  `ShownIsRecordedInOrder`: every edit in a room or on the bus is stored, in a write
  buffer or kept aside somewhere (`RoomsAreRecorded`), and what comes from the bus
  makes nothing visible that no room has recorded but what was kept aside.
  `ClientsAreTold` proves `ClientIsToldInOrder` from `ToldInv`: until a socket has
  joined, the client's step 1 is the first frame the room will see (`AsksFirst`),
  and afterwards what a room comes to show goes to everyone but the origin, who
  holds it already because the frames on its socket are its own (`FramesAreOwn`).
  What the origin did not bring had been kept aside (`RestIsAhead`), which is where
  the exception comes from (item 7). `RoomGrows` is the common step of a join,
  a frame of a client and a message of the bus; `EndsGo` of a socket that closes and
  an instance that dies.

- **ShutdownProofs.** `ShutdownInvariant` proves `ShutdownInv`, which contains
  `RegistryInv`: each step is one of `RoomRegistry`'s or changes nothing of it
  (the lemma `StepIsRegistryStep`), so the lemma about a step of the registry is used
  again. Once the
  gateway is closed no socket is left (`NobodyLeft`), so no room is held, since a
  room is held exactly while it has clients: `NothingIsSwept`, and
  `NothingIsAcceptedLate`. `LateOrOut` follows what is not stored when the pool is
  ended to the exit: `ExitIsClean`.
- **ClientLinkProofs.** `LinkInvariant` proves `LinkInv`. `BucketIsTightest` ties the
  tokens to the history: they are what the tightest window that ended at the last
  refill has left, and no window has less. From that `BudgetIsExact` follows at any
  later time. `SweepsToCome` counts down what a silent peer still has,
  `HandshakeIsTimed` what a socket without a token has: `LingerersGo`.
  `ReadersAreKept` proves `ReaderIsKept` by counting what is in front of the one
  ping (`ReaderHasTime`): at most one frame over a limit and the ping itself when it
  is sent, a place less each tick, then the pong's latency; the sum stays below the
  ticks left until the sweep.
- **PresenceProofs.** `PresenceInvariant` proves `PresenceInv`, from which
  `OwnersAreAhead`. The clocks in views are behind their owners only as long as those
  in all messages are, in sockets and on the bus (`QueuesBehind`). `MergeBehind` is
  the step of every node that takes an update. `PresenceComesBack` proves
  `PresenceReturns` with two more invariants. `SocketsInv` says what sockets and
  rooms are: frames have readers, a connection controls its own client only, a room
  without members has no state. `ToldInv` follows the last announcement of a client
  (`IsTold`), as long as nothing was dropped: either a removal with its present clock
  is certain to reach it, so that its clock will move (`WillMove`); or there is no
  such removal anywhere (`NotRemoved`), and the announcement is on its way to the
  client's room and known nowhere else (`Unheard`), or the room has it and everyone
  it was told to has it too, or has it under way, from the room or over the bus
  (`Heard`). `ToldSame` is the common step: nothing is brought of the client, and its
  room and those it told stay. `GhostsAreExplained` proves `GhostsHaveReturned` from
  `GhostInv`, whose four parts hold as long as nothing was dropped. What a client shows
  of another its room shows or has removed (`ClientsFollow`). Nobody knows a later clock
  of a client on its first socket than its room does (`KnownInv`), so that each
  announcement is new there when it is new anywhere; the connection of the client
  controls it from the first on (`ControlsInv`). What another room shows of the client,
  or is about to, the client's room shows, or the first is about to remove, and what the
  client's room is about to remove the others are, too (`FollowInv`): answers and
  removals of one room reach the others in the order they were sent, except for
  the answers counted in `late`. When all is quiet nothing is about to be removed, and
  the room of a client that has gone does not exist. `FollowedSpoken` is the common step
  of a room that says something to the others.

Only model-checked: the liveness properties (`CallsReturn`, `EditsSettle`,
`CloseReturns`, `JoinsEnd`, `RoomsAreReleased`, `EditsArrive`, `ShutdownEnds`), which
TLAPS cannot prove. Every safety property that a passing run checks is also a theorem.

## What the model found

1. **A row can commit behind a running compaction's cutoff**
   (`postgres-store.ts:129`, run `store_overtaken`). Writer w1 inserts and has
   sequence number 1, uncommitted; w2 appends 2 and compacts through 2; w1
   commits after w2 has read the tail. Its row is deleted, or skipped by every
   load. `compact()`'s own comment says that rows of other instances survive.
2. **A load can miss rows** (`postgres-store.ts:38`). A
   compaction that commits between the two selects moves rows out of the log
   into a snapshot that was read before. `LoadCompleteUnlessRaced` excepts this
   load; `LoadComplete` does not, and TLC refutes it.
3. **A reopened room can lack what the room before is still writing**
   (`registry.ts:37`). The room is out of the map before
   it is flushed. Nothing is lost for good: `AcceptedKept` holds, and the
   updates are there on the next load.
4. **An update can be missed between the load and the subscription**
   (`registry.ts:71`). The comment says "subscribe
   before hydrating", which is so, but the read is before the subscription.
   Usually the state request repairs it; not if the author's room has closed.
   `ConvergedUnlessOrphaned` excepts it (`orphaned`). An update stays excepted even if
   a client offers it again later.
5. **A room that reopens does not tell the others what it loaded**
   (`room.ts:121`). After an outage it learns; the rooms
   that stayed open do not, until a client offers what they lack.
   `ConvergedUnlessOrphaned` is about the time before an outage (`~parted`).
6. **A crash can make later updates unreadable** (`room.ts:165`). An update that died in one instance's buffer is shown by
   the others, which do not persist it; what is typed next to it there is
   persisted and depends on it. `ReadableUnlessCrashed` has this exception
   (`crashed`).
7. **A client can be taken for the author of another's edit** (`room.ts:175`). An edit that had to wait for its predecessors is integrated
   in the transaction that brings them, and the client that brought them is the
   origin of both: it is skipped, and never gets the other's edit while its
   socket stays open. In TLC's case an instance dies with an unwritten edit, both
   clients reconnect, one types before it has answered the room's step 1, and the
   other one answers first. `ClientIsToldInOrder` excepts it; `ClientIsTold` does
   not, and TLC refutes it; `EditsArrive` has the same exception (`Agreed`).
8. **The same with the bus as the origin** (`room.ts:165`). An edit that a client
   gave this instance, and that a bus message makes visible, is neither persisted
   nor published by it. It takes no failure: a client moves to another instance while
   its last edit is unwritten at the first, and types next to it before the answer to
   the new room's state request is there. The answer then brings both edits to
   light, the client's step 2 later adds nothing, and the rooms differ although all
   is quiet; the second edit is stored by nobody, and what is typed next to it on that
   instance is stored and cannot be read back, until a client offers it to a room that
   does not have it. `ShownIsRecordedInOrder`, `EditsArrive`, `ConvergedUnlessOrphaned`
   (`Adrift`) and `ReadableUnlessCrashed` (`ahead`) have this exception, and TLC
   refutes each of them without it. The comment above that line says that persisting
   remote updates "would write the same bytes once per instance"; an update that a
   client offers again to another instance is written once more all the same, which
   is harmless.

9. **A shutdown does not wait for the rooms it closes** (`registry.ts:37`,
   `app.ts:57`, run `shutdown_loss`). `gateway.close()` waits for every socket
   first, and the last socket of a room takes it out of the registry, so
   `closeAll()` finds nothing to flush and the flushes under way are awaited by
   nobody. `store.close()` waits for the calls that have a connection of the pool,
   and most flushes have one by then; those that do not are lost, which takes more
   rooms than the pool has connections, or a broker that does not answer the
   unsubscription.
10. **A cursor can outlive its connection** (`room.ts:184`). A connection controls
    an id if the id was added, and to a room an id is new only once: what removes
    it leaves its clock. A client that reconnects to a room that stayed open is
    therefore controlled by its old connection while that lasts, and then by none.
    When it is destroyed or breaks off later, nobody removes it, and it stays shown
    until it expires after 30 seconds (a page that is closed says so itself).
    `client.ts:16-19` says "one user's cursor never lingers on other screens".
    `GhostsHaveReturned` excepts clients that had been back, and needs to with one
    instance as with two.
11. **A client that is back is not shown at once** (`provider.ts:146`). It sends
    its state with the clock it had, at which others have removed it; they ignore
    that. The next announcement, at most ten seconds later, counts:
    `PresenceReturns` is about what has been announced since.
12. **A late answer can show a client that has gone** (`room.ts:152`). Instance 2
    shows client c of instance 1; a client opens the room on instance 3, whose state
    request waits for instance 2; c leaves, and its removal queues up behind the
    request. The last client of instance 3 goes and another opens a room there anew,
    or on instance 1, after the removal has passed; then instance 2 answers the old
    request with c in it. The new room shows c until it expires after 30 seconds.
    It takes three instances; `GhostsHaveReturned` excepts clients in `late`.

Only items 1 and 9 have a run that exhibits them; the others are the exceptions
that the properties named there make, and each exception is needed: without it
TLC refutes the property, quickly but for item 12, which takes three
instances. Item 3 is what `AcceptedKept` allows.

One comment is loose without a run of its own: `writer.ts:6` calls `debounceMs` a
quiet period after the last update. The timer is not restarted, so it is the
longest an update is pending, and `DebounceBound` holds because of it.

## Limits, and what comes next

Not modelled, and staying so: `http.ts` (stateless requests, static files), the
React components and local storage, `config.ts` and `logger.ts`, the deployment
files and the load test, token signing (pure), message framing (pure; messages
are their kinds), the length of the backoff and the status shown, the memory store (each operation is one step of
`DocumentStore`).

Of the modelled parts, these simplifications matter. Clients in `RoomRegistry` send
only new updates; what a client offers again after a reconnect is not there. In
`Cluster` a client may offer anything again and need not, so a loss that it allows may
be repaired by a client that still holds the update. The store in `Cluster` always answers;
failures are in the modules below it. In `SyncSession` the frames queued during a
load are handled in one step, an update event is what a whole frame made visible,
and the Redis bus neither loses nor delays but by its queue. A crash restarts the
instance at once. Two writers in `PostgresStore` stand for two instances, and also for two
rooms of one instance, the old one closing and its successor
(`RoomRegistry`).

In `Presence` a load takes no time and what one message carries is a set of
clocks; user names and cursors are left out, and so is the clock of the 30-second
timeout. In `ClientLink` time is the same for all timers and never steps back, a
frame is one unit of the buffer, and the presence budget is not there (`Presence`
drops frames at any time). In `Shutdown` the HTTP server's own connections are not
modelled: a request that keeps one open delays `server.close()` until the forced
exit. What a forced exit loses is not bounded there: a client that does not answer
the close frame holds its room open past the five seconds, and only the debounce
timer writes what the room has until then.

Planned, in this order:

1. An abstract replicated document, and that `Cluster` implements it when no room
   closes early and no update is brought ahead of its predecessors.
2. A larger instance of `Cluster` with three instances, which needs a coarser
   model of the relay.
