------------------------------ MODULE Cluster ------------------------------
(***************************************************************************)
(* One document on several instances: each instance's room                 *)
(* (apps/server/src/rooms/room.ts, rooms/registry.ts), the Redis relay     *)
(* between them (cluster/redis-bus.ts) and the store they share.           *)
(*                                                                         *)
(* A room that is open has clients; RoomRegistry shows why, and also what  *)
(* happens when the store fails, so here it answers.  An update is a model *)
(* value, and a document is the set of updates it has received: Yjs merges *)
(* in any order, and ignores what it has.  It keeps an update that came    *)
(* before those it was typed next to aside, and integrates it in the       *)
(* transaction that brings the last of them.                               *)
(*                                                                         *)
(* Who has typed what, and which client has it, is SyncSession's subject:  *)
(* here a client may bring a room any updates, at any time and in any      *)
(* order, what it has brought to another room before included.             *)
(*                                                                         *)
(* Redis runs one instance's publishes in order and hands each to the      *)
(* connections subscribed at that moment; a publish it cannot be given is  *)
(* lost.                                                                   *)
(***************************************************************************)
EXTENDS Naturals, Sequences

CONSTANTS Instances,
          Edits,         \* updates clients may send
          dep,           \* the updates each was typed next to, and needs to be integrated
          MaxOpens,      \* bound on how often rooms are opened
          MaxFrames      \* bound on the frames of clients that bring a room anything

ASSUME ClusterAssumption ==
    (* Of any updates one was typed before the others. *)
    /\ dep \in [Edits -> SUBSET Edits]
    /\ \A v \in SUBSET Edits : v # {} => \E e \in v : dep[e] \cap v = {}
    /\ MaxOpens \in Nat /\ MaxFrames \in Nat

VARIABLES
    stage,       \* each instance's room: closed, being loaded, or open
    read,        \* what store.load returned, until the room is hydrated
    doc,         \* each room's document
    unwritten,   \* updates the open room's writer has yet to write
    closing,     \* updates the writers of rooms that were closed have yet to write
    saved,       \* the store
    (* The relay *)
    up,          \* the broker is reachable
    publishers,  \* instances whose publisher connection is ready
    channel,     \* instances the broker has as subscribers of the document
    outbox,      \* publishes on their way to the broker
    inbox        \* messages on their way from it

(* History. *)
VARIABLES
    opens,       \* how many times a room was opened
    frames,      \* how many frames of clients brought a room anything
    recorded,    \* updates a room has recorded with its writer
    ahead,       \* updates a client brought to a room that had to keep them aside
    orphaned,    \* updates of a room that ended before the others could have them
    crashed,     \* recorded updates that died with the write buffer they were in
    parted       \* the broker has failed

rooms == <<stage, read, doc, unwritten, closing, saved>>
relay == <<up, publishers, channel, outbox, inbox>>
history == <<opens, frames, recorded, ahead, orphaned, crashed, parted>>
vars == <<rooms, relay, history>>

Stages == {"closed", "reading", "subscribing", "open"}
Update(u) == [kind |-> "Update", payload |-> u]
StateRequest == [kind |-> "StateRequest", payload |-> {}]
Message == {Update(u) : u \in SUBSET Edits} \cup {StateRequest}

Init ==
    /\ stage = [i \in Instances |-> "closed"]
    /\ read = [i \in Instances |-> {}]
    /\ doc = [i \in Instances |-> {}]
    /\ unwritten = [i \in Instances |-> {}]
    /\ closing = [i \in Instances |-> {}]
    /\ saved = {}
    /\ up = TRUE /\ publishers = Instances /\ channel = {}
    /\ outbox = [i \in Instances |-> <<>>]
    /\ inbox = [i \in Instances |-> <<>>]
    /\ opens = 0 /\ frames = 0 /\ recorded = {} /\ ahead = {} /\ orphaned = {} /\ crashed = {}
    /\ parted = FALSE

(* bus.publish(): a publish fails at once while the connection is not ready. *)
Publish(i, m) ==
    outbox' = IF i \in publishers THEN [outbox EXCEPT ![i] = Append(@, m)] ELSE outbox

(* The updates of u that a document holding u can show. *)
Visible(u) ==
    UNION {v \in SUBSET u : \A e \in v : dep[e] \subseteq v}

(* The updates that document r shows once it has u, and did not show before. *)
Shows(r, u) == Visible(r \cup u) \ Visible(r)

OpenRooms == {i \in Instances : stage[i] = "open"}

(* Every room can publish, and receive. *)
Connected == up /\ publishers = Instances /\ OpenRooms \subseteq channel

(* The updates that the messages q bring, and whether one of q asks for them. *)
Brought(q) == UNION {q[k].payload : k \in 1 .. Len(q)}
Asks(q) == \E k \in 1 .. Len(q) : q[k].kind = "StateRequest"

(* The updates instance i has published and the broker has not passed on. *)
Unsent(i) == Brought(outbox[i])

(* Instance i has read the store and not yet been answered. *)
Catching(i) ==
    \/ stage[i] \in {"reading", "subscribing"}
    \/ Asks(outbox[i])
    \/ \E j \in Instances : Asks(inbox[j])

----------------------------------------------------------------------------
(* Defects the properties below have to notice.  None is part of Next. *)

(* A state request is answered with the updates not yet written. *)
AnswerUnwritten(i) ==
    IF stage[i] = "open" THEN Publish(i, Update(unwritten[i])) ELSE UNCHANGED outbox

(* A room that is closed does not wait for its writer. *)
CloseForgets(i) ==
    /\ stage[i] = "open"
    /\ stage' = [stage EXCEPT ![i] = "closed"]
    /\ doc' = [doc EXCEPT ![i] = {}]
    /\ unwritten' = [unwritten EXCEPT ![i] = {}]
    /\ channel' = channel \ {i}
    /\ inbox' = [inbox EXCEPT ![i] = <<>>]
    /\ UNCHANGED <<read, closing, saved, up, publishers, outbox, history>>

----------------------------------------------------------------------------
(* Opening a room *)

(* The first client joins: registry.open(). *)
Open(i) ==
    /\ stage[i] = "closed" /\ opens < MaxOpens
    /\ stage' = [stage EXCEPT ![i] = "reading"]
    /\ opens' = opens + 1
    /\ UNCHANGED <<read, doc, unwritten, closing, saved, relay,
                   frames, recorded, ahead, orphaned, crashed, parted>>

(* store.load() resolves; the listener is set and SUBSCRIBE sent. *)
LoadRead(i) ==
    /\ stage[i] = "reading"
    /\ read' = [read EXCEPT ![i] = saved]
    /\ stage' = [stage EXCEPT ![i] = "subscribing"]
    /\ UNCHANGED <<doc, unwritten, closing, saved, relay, history>>

(* The broker executes SUBSCRIBE, or the one ioredis sends again after an
   outage. *)
BrokerSubscribes(i) ==
    /\ up /\ i \notin channel
    /\ stage[i] \in {"subscribing", "open"}
    /\ channel' = channel \cup {i}
    /\ UNCHANGED <<rooms, up, publishers, outbox, inbox, history>>

(* subscribe() resolves, with or without the broker: the room is hydrated,
   enters the registry and asks the others for what they have. *)
Opened(i) ==
    /\ stage[i] = "subscribing"
    /\ i \in channel \/ ~up
    /\ stage' = [stage EXCEPT ![i] = "open"]
    /\ doc' = [doc EXCEPT ![i] = @ \cup read[i]]
    /\ read' = [read EXCEPT ![i] = {}]
    /\ Publish(i, StateRequest)
    /\ UNCHANGED <<unwritten, closing, saved, up, publishers, channel, inbox,
                   opens, frames, recorded, ahead, orphaned, crashed, parted>>

----------------------------------------------------------------------------
(* The room at work *)

(* onDocUpdate(): what a client's frame lets the room show goes to the writer and
   to the other instances, together with what the room had kept aside. *)
Record(i, new) == unwritten' = [unwritten EXCEPT ![i] = @ \cup new]
PublishNew(i, new) == IF new = {} THEN UNCHANGED outbox ELSE Publish(i, Update(new))

(* handleSync(): an update or a step 2 of a client, with what it has just typed, or
   has typed offline, or offers again.  What the room shows already changes nothing. *)
HandleSync(i, u) ==
    /\ stage[i] = "open" /\ frames < MaxFrames
    /\ ~(u \subseteq Visible(doc[i]))
    /\ frames' = frames + 1
    /\ doc' = [doc EXCEPT ![i] = @ \cup u]
    /\ LET new == Shows(doc[i], u) IN
       /\ Record(i, new)
       /\ PublishNew(i, new)
       /\ recorded' = recorded \cup new
       /\ crashed' = crashed \ new
    /\ ahead' = ahead \cup (u \ Visible(doc[i] \cup u))
    /\ UNCHANGED <<stage, read, closing, saved, up, publishers, channel, inbox,
                   opens, orphaned, parted>>

(* An update of another instance is applied, and neither it nor what it lets the
   room show is ours to persist or to publish. *)
ApplyRemote(i, u) ==
    /\ doc' = [doc EXCEPT ![i] = @ \cup u]
    /\ UNCHANGED unwritten

(* answerStateRequest(), by a room that has clients. *)
Answer(i) ==
    IF stage[i] = "open" THEN Publish(i, Update(doc[i])) ELSE UNCHANGED outbox

(* The broker executes the next publish of instance i.  It also delivers it
   back to i, where onMessage() ignores it. *)
Relay(i) ==
    /\ outbox[i] # <<>>
    /\ outbox' = [outbox EXCEPT ![i] = Tail(@)]
    /\ inbox' = [j \in Instances |->
           IF j \in channel \ {i} THEN Append(inbox[j], Head(outbox[i])) ELSE inbox[j]]
    /\ UNCHANGED <<rooms, up, publishers, channel, history>>

(* onMessage() and room.receive(). *)
Receive(i) ==
    /\ inbox[i] # <<>>
    /\ inbox' = [inbox EXCEPT ![i] = Tail(@)]
    /\ LET m == Head(inbox[i]) IN
       IF m.kind = "Update"
       THEN ApplyRemote(i, m.payload) /\ UNCHANGED outbox
       ELSE Answer(i) /\ UNCHANGED <<doc, unwritten>>
    /\ UNCHANGED <<stage, read, closing, saved, up, publishers, channel, history>>

(* The writer's batch, or the last one of a room that was closed, is stored. *)
Write(i) ==
    /\ unwritten[i] # {}
    /\ saved' = saved \cup unwritten[i]
    /\ unwritten' = [unwritten EXCEPT ![i] = {}]
    /\ UNCHANGED <<stage, read, doc, closing, relay, history>>

FlushClosed(i) ==
    /\ closing[i] # {}
    /\ saved' = saved \cup closing[i]
    /\ closing' = [closing EXCEPT ![i] = {}]
    /\ UNCHANGED <<stage, read, doc, unwritten, relay, history>>

----------------------------------------------------------------------------
(* The end of a room, of an instance, and of the broker *)

(* The last client leaves: the listener goes at once, so messages on their way
   are dropped, and the writer is left to flush what it has. *)
Close(i) ==
    /\ stage[i] = "open"
    /\ stage' = [stage EXCEPT ![i] = "closed"]
    /\ doc' = [doc EXCEPT ![i] = {}]
    /\ unwritten' = [unwritten EXCEPT ![i] = {}]
    /\ closing' = [closing EXCEPT ![i] = @ \cup unwritten[i]]
    /\ channel' = channel \ {i}
    /\ inbox' = [inbox EXCEPT ![i] = <<>>]
    /\ orphaned' = orphaned \cup unwritten[i] \cup (Unsent(i) \ saved)
           \cup IF \E j \in Instances \ {i} : Catching(j) THEN doc[i] ELSE {}
    /\ UNCHANGED <<read, saved, up, publishers, outbox,
                   opens, frames, recorded, ahead, crashed, parted>>

(* The process dies, and starts again. *)
Crash(i) ==
    /\ stage' = [stage EXCEPT ![i] = "closed"]
    /\ read' = [read EXCEPT ![i] = {}]
    /\ doc' = [doc EXCEPT ![i] = {}]
    /\ unwritten' = [unwritten EXCEPT ![i] = {}]
    /\ closing' = [closing EXCEPT ![i] = {}]
    /\ channel' = channel \ {i}
    /\ outbox' = [outbox EXCEPT ![i] = <<>>]
    /\ inbox' = [inbox EXCEPT ![i] = <<>>]
    /\ crashed' = crashed \cup unwritten[i] \cup closing[i]
    /\ orphaned' = orphaned \cup Unsent(i)
           \cup IF \E j \in Instances \ {i} : Catching(j) THEN doc[i] ELSE {}
    /\ UNCHANGED <<saved, up, publishers, opens, frames, recorded, ahead, parted>>

(* The broker becomes unreachable: subscriptions and messages under way are
   gone. *)
BrokerFails ==
    /\ up
    /\ up' = FALSE
    /\ publishers' = {} /\ channel' = {}
    /\ outbox' = [i \in Instances |-> <<>>]
    /\ inbox' = [i \in Instances |-> <<>>]
    /\ parted' = TRUE
    /\ UNCHANGED <<rooms, opens, frames, recorded, ahead, orphaned, crashed>>

BrokerReturns ==
    /\ ~up
    /\ up' = TRUE
    /\ UNCHANGED <<rooms, publishers, channel, outbox, inbox, history>>

PublisherReady(i) ==
    /\ up /\ i \notin publishers
    /\ publishers' = publishers \cup {i}
    /\ UNCHANGED <<rooms, up, channel, outbox, inbox, history>>

----------------------------------------------------------------------------
OpenStep(i) == LoadRead(i) \/ BrokerSubscribes(i) \/ Opened(i)
BusStep(i) == Relay(i) \/ Receive(i)

Next ==
    \/ \E i \in Instances :
        \/ Open(i) \/ OpenStep(i) \/ BusStep(i)
        \/ \E u \in SUBSET Edits : HandleSync(i, u)
        \/ Write(i) \/ FlushClosed(i)
        \/ Close(i) \/ Crash(i) \/ PublisherReady(i)
    \/ BrokerFails \/ BrokerReturns

Spec == Init /\ [][Next]_vars

----------------------------------------------------------------------------
(* Every variable has its type, and an instance that has no room holds nothing
   and receives nothing. *)
TypeOK ==
    /\ stage \in [Instances -> Stages]
    /\ read \in [Instances -> SUBSET Edits]
    /\ doc \in [Instances -> SUBSET Edits]
    /\ unwritten \in [Instances -> SUBSET Edits]
    /\ closing \in [Instances -> SUBSET Edits]
    /\ saved \subseteq Edits
    /\ up \in BOOLEAN
    /\ publishers \subseteq Instances
    /\ channel \subseteq Instances
    /\ outbox \in [Instances -> Seq(Message)]
    /\ inbox \in [Instances -> Seq(Message)]
    /\ opens \in 0 .. MaxOpens /\ frames \in 0 .. MaxFrames
    /\ recorded \subseteq Edits
    /\ ahead \subseteq Edits
    /\ orphaned \subseteq Edits
    /\ crashed \subseteq Edits
    /\ parted \in BOOLEAN
    /\ \A i \in Instances :
        /\ stage[i] # "subscribing" => read[i] = {}
        /\ stage[i] \in {"closed", "reading"} =>
               /\ i \notin channel /\ inbox[i] = <<>>
               /\ doc[i] = {} /\ unwritten[i] = {}

(* Nothing is on its way and every open room is connected. *)
Quiet ==
    /\ Connected
    /\ \A i \in Instances : /\ outbox[i] = <<>> /\ inbox[i] = <<>>
                            /\ stage[i] \in {"closed", "open"}

Agree(u) == \A i, j \in OpenRooms : doc[i] \ u = doc[j] \ u

(* Updates that clients have brought ahead of those they were typed next to, and
   that no room has recorded, unless it died: a room integrates them as coming from
   the bus if that brings what they need, and then nobody publishes them. *)
Adrift == ahead \ (recorded \ crashed)

(* As long as the broker works quiet rooms differ by nothing but updates whose room
   ended before it had written or sent them, or while another was opening (README,
   item 4), and updates that are adrift (README, item 8). *)
ConvergedUnlessOrphaned == Quiet /\ ~parted => Agree(orphaned \cup Adrift)

(* Recorded updates that are yet to be written. *)
Buffered == UNION {unwritten[i] \cup closing[i] : i \in Instances}

(* Whatever a room shows, or has recorded, can be read back and shown once the
   writers are done, whatever the relay lost and whoever closed: unless it is, or
   depends on, an update that died in the write buffer of an instance, or one that
   was brought ahead of its predecessors (README, item 8). *)
ReadableUnlessCrashed ==
    recorded \cup UNION {Visible(doc[i]) : i \in Instances} \subseteq
        Visible(saved \cup Buffered \cup crashed \cup ahead)

----------------------------------------------------------------------------
(* The parts of the inductive invariant behind the safety properties. *)

(* The updates that clients have brought. *)
Known == recorded \cup ahead

(* No update comes from nowhere, and what has been recorded was integrated. *)
OnlyBrought ==
    /\ \A i \in Instances :
        /\ read[i] \subseteq Known /\ doc[i] \subseteq Known
        /\ \A k \in 1 .. Len(outbox[i]) : outbox[i][k].payload \subseteq Known
        /\ \A k \in 1 .. Len(inbox[i]) : inbox[i][k].payload \subseteq Known
    /\ recorded \subseteq Visible(Known)

(* What has been recorded is stored, waits to be, or died. *)
RecordedIsKept ==
    /\ recorded \subseteq saved \cup Buffered \cup crashed
    /\ saved \cup Buffered \cup crashed \subseteq recorded

ClusterInv ==
    /\ TypeOK
    /\ OnlyBrought
    /\ RecordedIsKept

(* The parts of the one behind ConvergedUnlessOrphaned, which hold as long as
   the broker has not failed. *)

(* A room reads no more than was saved and has what its writer has; what the
   writer of a closed room has is orphaned. *)
RoomsAreSound ==
    /\ Connected
    /\ \A i \in Instances :
        /\ read[i] \subseteq saved
        /\ unwritten[i] \subseteq IF stage[i] = "open" THEN doc[i] ELSE {}
        /\ closing[i] \subseteq orphaned

(* The open rooms that have update e. *)
Holders(e) == {i \in OpenRooms : e \in doc[i]}

(* An update on its way to the broker is one that its sender has, or has read
   if it was another room that sent it. *)
SentIsHeld(e) ==
    \A k \in Instances : e \in Unsent(k) =>
        IF stage[k] = "open" THEN e \in doc[k]
                             ELSE e \in saved /\ (stage[k] = "subscribing" => e \in read[k])

(* A room that is not open yet is not the only one that has an update. *)
CaughtIsHeld(e) ==
    \A i \in Instances :
        stage[i] = "subscribing" /\ e \in doc[i] \cup Brought(inbox[i]) =>
            e \in saved \/ Holders(e) # {}

(* Room j has the update, or will without asking. *)
Has(j, e) ==
    \/ e \in doc[j] \cup read[j] \cup Brought(inbox[j])
    \/ j \in channel /\ \E k \in Instances \ {j} : e \in Unsent(k)

(* A room that has it is still to answer j. *)
WillBeAnswered(j, e) ==
    \E i \in Holders(e) \ {j} : \/ stage[j] = "subscribing"
                                \/ Asks(outbox[j]) \/ Asks(inbox[i])

(* Among the messages q one asks for updates after another brought e. *)
AskedAfter(q, e) ==
    \E m \in 1 .. Len(q) : /\ q[m].kind = "StateRequest"
                           /\ \E l \in 1 .. m - 1 : e \in q[l].payload

(* No room shows it, and a room that is yet to receive it will be asked by j, or
   by another, once it has. *)
IsForgotten(j, e) ==
    /\ e \notin saved /\ Holders(e) = {}
    /\ \/ stage[j] = "subscribing"
       \/ Asks(outbox[j])
       \/ \A i \in Instances : e \in Brought(inbox[i]) => AskedAfter(inbox[i], e)

ComesToHave(j, e) == Has(j, e) \/ WillBeAnswered(j, e) \/ IsForgotten(j, e)

Followed(e) ==
    /\ SentIsHeld(e)
    /\ CaughtIsHeld(e)
    /\ e \notin Adrift =>
           \A j \in Instances : stage[j] \in {"subscribing", "open"} => ComesToHave(j, e)

ConvergenceInv ==
    ~parted => RoomsAreSound /\ \A e \in Edits \ orphaned : Followed(e)

=============================================================================
