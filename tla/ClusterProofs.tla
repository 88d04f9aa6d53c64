--------------------------- MODULE ClusterProofs ---------------------------
(***************************************************************************)
(* Proofs about Cluster for any number of instances and updates, however   *)
(* often rooms open and close, instances die and the broker fails.         *)
(* ClusterInv is inductive; the safety properties follow from it.          *)
(***************************************************************************)
EXTENDS Cluster, TLAPS

(* q is a sequence of messages that carry updates of the set a only. *)
Carries(q, a) == q \in Seq(Message) /\ \A k \in 1 .. Len(q) : q[k].payload \subseteq a

(* The empty sequence does, and updates may be added to the set. *)
LEMMA EmptyCarries == <<>> \in Seq(Message) /\ \A a : Carries(<<>>, a)
  BY DEF Carries

LEMMA CarriesMore ==
  ASSUME NEW q, NEW a, NEW b, a \subseteq b, Carries(q, a)
  PROVE  Carries(q, b)
  BY DEF Carries

(* Adding a message to the end keeps it so. *)
LEMMA AppendCarries ==
  ASSUME NEW q, NEW a, Carries(q, a), NEW m \in Message, m.payload \subseteq a
  PROVE  Carries(Append(q, m), a)
<1> USE DEF Carries
<1>1. Append(q, m) \in Seq(Message) /\ Len(Append(q, m)) = Len(q) + 1
  OBVIOUS
<1>2. ASSUME NEW k \in 1 .. Len(q) + 1 PROVE Append(q, m)[k].payload \subseteq a
  <2>1. Append(q, m)[k] = IF k = Len(q) + 1 THEN m ELSE q[k]
    OBVIOUS
  <2> QED
    BY <2>1
<1> QED
  BY <1>1, <1>2

(* So does taking the first message away, which is one of them. *)
LEMMA TailCarries ==
  ASSUME NEW q, NEW a, Carries(q, a), q # <<>>
  PROVE  Carries(Tail(q), a) /\ Head(q) \in Message /\ Head(q).payload \subseteq a
<1> USE DEF Carries
<1>1. /\ Tail(q) \in Seq(Message) /\ Len(Tail(q)) = Len(q) - 1 /\ Len(q) > 0
      /\ Head(q) = q[1] /\ Len(q) \in Nat
  OBVIOUS
<1>2. Head(q) \in Message
  BY <1>1
<1>3. ASSUME NEW k \in 1 .. Len(q) - 1 PROVE Tail(q)[k].payload \subseteq a
  <2>1. Tail(q)[k] = q[k + 1] /\ k + 1 \in 1 .. Len(q)
    BY <1>1
  <2> QED
    BY <2>1
<1> QED
  BY <1>1, <1>2, <1>3

(* The messages of all instances. *)
Mail == \A i \in Instances : Carries(outbox[i], Known) /\ Carries(inbox[i], Known)

LEMMA InvMail == ClusterInv => Mail
  BY DEF ClusterInv, TypeOK, OnlyBrought, Mail, Carries

(* A publish leaves an outbox that carries what it carried and the message. *)
LEMMA PublishCarries ==
  ASSUME NEW i \in Instances, NEW m \in Message, NEW a,
         outbox \in [Instances -> Seq(Message)],
         \A j \in Instances : Carries(outbox[j], a),
         m.payload \subseteq a, Publish(i, m)
  PROVE  /\ outbox' \in [Instances -> Seq(Message)]
         /\ \A j \in Instances : Carries(outbox'[j], a)
<1>1. Carries(Append(outbox[i], m), a)
  BY AppendCarries
<1>2. outbox' = [outbox EXCEPT ![i] = Append(@, m)] \/ outbox' = outbox
  BY DEF Publish
<1> QED
  BY <1>1, <1>2 DEF Carries

(* Where updates are buffered and stored concerns nobody else. *)
LEMMA BuffersUnchanged ==
  ASSUME RecordedIsKept,
         UNCHANGED <<unwritten, closing, saved, recorded, crashed>>
  PROVE  RecordedIsKept'
  BY DEF RecordedIsKept, Buffered

(* A document shows what it holds, and with more updates no less of it. *)
LEMMA VisibleGrows ==
  /\ \A u : Visible(u) \subseteq u
  /\ \A u, v : u \subseteq v => Visible(u) \subseteq Visible(v)
  BY DEF Visible

(* Only a client's frame brings updates. *)
LEMMA KnownUnchanged ==
  ASSUME UNCHANGED <<recorded, ahead>>
  PROVE  Known' = Known /\ Visible(Known)' = Visible(Known)
  BY DEF Known, Visible

(* The initial state satisfies the inductive invariant. *)
LEMMA InitClusterInv == Init => ClusterInv
<1> SUFFICES ASSUME Init PROVE ClusterInv
  OBVIOUS
<1>1. \A i \in Instances : outbox[i] = <<>> /\ inbox[i] = <<>>
  BY DEF Init
<1>2. outbox \in [Instances -> Seq(Message)] /\ inbox \in [Instances -> Seq(Message)]
  BY EmptyCarries DEF Init
<1>3. TypeOK
  <2>1. opens \in 0 .. MaxOpens /\ frames \in 0 .. MaxFrames
    BY ClusterAssumption DEF Init
  <2>2. up \in BOOLEAN /\ parted \in BOOLEAN
    BY DEF Init
  <2> QED
    BY <1>1, <1>2, <2>1, <2>2 DEF Init, TypeOK, Stages
<1>4. OnlyBrought
  BY <1>1 DEF Init, OnlyBrought
<1>5. RecordedIsKept
  BY DEF Init, RecordedIsKept, Buffered
<1> QED
  BY <1>3, <1>4, <1>5 DEF ClusterInv

(* A room begins to open, and reads the store. *)
LEMMA OpenInv ==
  ASSUME ClusterInv, NEW i \in Instances, Open(i) \/ LoadRead(i)
  PROVE  ClusterInv'
<1> USE DEF ClusterInv
<1>1. /\ UNCHANGED <<doc, unwritten, closing, saved, up, publishers, channel>>
      /\ UNCHANGED <<outbox, inbox, frames, recorded, ahead, orphaned, crashed, parted>>
  BY DEF Open, LoadRead, relay, history
<1>2. opens' \in 0 .. MaxOpens
  BY ClusterAssumption DEF Open, LoadRead, history, TypeOK
<1>3. saved \subseteq Known
  BY DEF RecordedIsKept, Known
<1>4. TypeOK' /\ \A j \in Instances : read'[j] \subseteq Known
  <2>1. CASE Open(i)
    BY <1>1, <1>2, <2>1 DEF Open, TypeOK, Stages, OnlyBrought
  <2>2. CASE LoadRead(i)
    BY <1>1, <1>2, <1>3, <2>2 DEF LoadRead, TypeOK, Stages, OnlyBrought
  <2> QED
    BY <2>1, <2>2
<1>5. OnlyBrought'
  BY <1>1, <1>4, KnownUnchanged DEF OnlyBrought
<1> QED
  BY <1>1, <1>4, <1>5, BuffersUnchanged

(* The room is subscribed; the broker and the connections to it come and go. *)
LEMMA BrokerInv ==
  ASSUME ClusterInv,
         \/ \E i \in Instances : BrokerSubscribes(i) \/ PublisherReady(i)
         \/ BrokerFails \/ BrokerReturns
  PROVE  ClusterInv'
<1> USE DEF ClusterInv
<1>1. /\ UNCHANGED <<stage, read, doc, unwritten, closing, saved>>
      /\ UNCHANGED <<opens, frames, recorded, ahead, orphaned, crashed>>
  BY DEF BrokerSubscribes, PublisherReady, BrokerFails, BrokerReturns, rooms, history
<1>2. /\ up' \in BOOLEAN /\ publishers' \subseteq Instances /\ channel' \subseteq Instances
      /\ parted' \in BOOLEAN
      /\ \A j \in channel' : j \in channel \/ stage[j] \in {"subscribing", "open"}
  BY DEF BrokerSubscribes, PublisherReady, BrokerFails, BrokerReturns, history, TypeOK
<1>3. \/ outbox' = outbox /\ inbox' = inbox
      \/ outbox' = [j \in Instances |-> <<>>] /\ inbox' = [j \in Instances |-> <<>>]
  BY DEF BrokerSubscribes, PublisherReady, BrokerFails, BrokerReturns
<1>4. /\ outbox' \in [Instances -> Seq(Message)] /\ inbox' \in [Instances -> Seq(Message)]
      /\ \A j \in Instances : Carries(outbox'[j], Known) /\ Carries(inbox'[j], Known)
  <2>1. CASE outbox' = outbox /\ inbox' = inbox
    BY <2>1, InvMail DEF Mail, TypeOK
  <2>2. CASE outbox' = [j \in Instances |-> <<>>] /\ inbox' = [j \in Instances |-> <<>>]
    BY <2>2, EmptyCarries
  <2> QED
    BY <1>3, <2>1, <2>2
<1>5. TypeOK'
  <2>1. \A j \in Instances : inbox[j] = <<>> => inbox'[j] = <<>>
    BY <1>3
  <2> QED
    BY <1>1, <1>2, <1>4, <2>1 DEF TypeOK
<1>6. OnlyBrought'
  BY <1>1, <1>4, KnownUnchanged DEF OnlyBrought, Carries
<1> QED
  BY <1>1, <1>5, <1>6, BuffersUnchanged

(* The room opens. *)
LEMMA OpenedInv ==
  ASSUME ClusterInv, NEW i \in Instances, Opened(i)
  PROVE  ClusterInv'
<1> USE DEF ClusterInv
<1>1. /\ UNCHANGED <<unwritten, closing, saved, up, publishers, channel, inbox>>
      /\ UNCHANGED <<opens, frames, recorded, ahead, orphaned, crashed, parted>>
      /\ stage[i] = "subscribing" /\ stage' = [stage EXCEPT ![i] = "open"]
      /\ doc' = [doc EXCEPT ![i] = @ \cup read[i]] /\ read' = [read EXCEPT ![i] = {}]
      /\ Publish(i, StateRequest)
  BY DEF Opened, TypeOK
<1>2. StateRequest \in Message /\ StateRequest.payload \subseteq Known
  BY DEF StateRequest, Message
<1>3. /\ outbox' \in [Instances -> Seq(Message)]
      /\ \A j \in Instances : Carries(outbox'[j], Known)
  BY <1>1, <1>2, InvMail, PublishCarries DEF Mail, TypeOK
<1>4. TypeOK'
  BY <1>1, <1>3 DEF TypeOK, Stages
<1>5. \A j \in Instances : doc'[j] \subseteq Known /\ read'[j] \subseteq Known
  BY <1>1 DEF OnlyBrought, TypeOK
<1>6. OnlyBrought'
  BY <1>1, <1>3, <1>5, KnownUnchanged DEF OnlyBrought, Carries
<1> QED
  BY <1>1, <1>4, <1>6, BuffersUnchanged

(* A client's frame: what it brings is recorded or was brought ahead, and what it
   lets the room show is in the writer's buffer. *)
LEMMA HandleSyncInv ==
  ASSUME ClusterInv, NEW i \in Instances, NEW u \in SUBSET Edits, HandleSync(i, u)
  PROVE  ClusterInv'
<1> USE DEF ClusterInv
<1> DEFINE new == Shows(doc[i], u)
           aside == u \ Visible(doc[i] \cup u)
<1>1. /\ stage[i] = "open" /\ frames < MaxFrames /\ frames' = frames + 1
      /\ doc' = [doc EXCEPT ![i] = @ \cup u]
      /\ unwritten' = [unwritten EXCEPT ![i] = @ \cup new]
      /\ recorded' = recorded \cup new /\ crashed' = crashed \ new
      /\ ahead' = ahead \cup aside
      /\ outbox' = outbox \/ Publish(i, Update(new))
      /\ UNCHANGED <<stage, read, closing, saved, up, publishers, channel, inbox>>
      /\ UNCHANGED <<opens, orphaned, parted>>
  BY DEF HandleSync, Record, PublishNew
<1>2. /\ new \subseteq Visible(doc[i] \cup u) /\ new \subseteq doc[i] \cup u
      /\ u \subseteq doc[i] \cup new \cup aside
  BY VisibleGrows DEF Shows
<1> HIDE DEF new, aside
<1>3. Known' = Known \cup new \cup aside
  BY <1>1 DEF Known
<1>4. doc[i] \subseteq Edits /\ new \subseteq Edits /\ u \subseteq Edits
  BY <1>2 DEF TypeOK
<1>5. \A j \in Instances : Carries(outbox[j], Known') /\ Carries(inbox[j], Known')
  BY <1>3, InvMail, CarriesMore DEF Mail
<1>6. Update(new) \in Message /\ Update(new).payload \subseteq Known'
  BY <1>3, <1>4 DEF Update, Message
<1>7. /\ outbox' \in [Instances -> Seq(Message)]
      /\ \A j \in Instances : Carries(outbox'[j], Known')
  <2>1. CASE outbox' = outbox
    BY <1>5, <2>1 DEF TypeOK
  <2>2. CASE Publish(i, Update(new))
    BY <1>5, <1>6, <2>2, PublishCarries DEF TypeOK
  <2> QED
    BY <1>1, <2>1, <2>2
<1>8. TypeOK'
  <2>1. frames' \in 0 .. MaxFrames
    BY <1>1, ClusterAssumption DEF TypeOK
  <2>2. /\ doc' \in [Instances -> SUBSET Edits] /\ unwritten' \in [Instances -> SUBSET Edits]
        /\ recorded' \subseteq Edits /\ crashed' \subseteq Edits /\ ahead' \subseteq Edits
    <3>1. aside \subseteq Edits
      BY DEF aside
    <3>2. /\ doc \in [Instances -> SUBSET Edits] /\ unwritten \in [Instances -> SUBSET Edits]
          /\ recorded \subseteq Edits /\ crashed \subseteq Edits /\ ahead \subseteq Edits
      BY DEF TypeOK
    <3> QED
      BY <1>1, <1>4, <3>1, <3>2
  <2>3. \A j \in Instances \ {i} : doc'[j] = doc[j] /\ unwritten'[j] = unwritten[j]
    BY <1>1 DEF TypeOK
  <2> QED
    BY <1>1, <1>7, <2>1, <2>2, <2>3 DEF TypeOK
<1>9. \A j \in Instances : doc'[j] \subseteq Known' /\ read'[j] \subseteq Known'
  <2>1. \A j \in Instances : doc'[j] = IF j = i THEN doc[i] \cup u ELSE doc[j]
    BY <1>1 DEF TypeOK
  <2> QED
    BY <1>1, <1>2, <1>3, <2>1 DEF OnlyBrought
<1>10. recorded' \subseteq Visible(Known')
  <2>1. doc[i] \cup u \subseteq Known'
    BY <1>2, <1>3 DEF OnlyBrought
  <2>2. Visible(doc[i] \cup u) \subseteq Visible(Known') /\ Visible(Known) \subseteq Visible(Known')
    BY <1>3, <2>1, VisibleGrows
  <2> QED
    BY <1>1, <1>2, <2>2 DEF OnlyBrought
<1>11. OnlyBrought'
  <2>1. Visible(Known)' = Visible(Known')
    BY DEF Visible
  <2> QED
    BY <1>1, <1>5, <1>7, <1>9, <1>10, <2>1 DEF OnlyBrought, Carries
<1>12. RecordedIsKept'
  <2>1. \A j \in Instances : unwritten'[j] = IF j = i THEN unwritten[i] \cup new ELSE unwritten[j]
    BY <1>1 DEF TypeOK
  <2>2. Buffered' = Buffered \cup new
    BY <1>1, <2>1 DEF Buffered
  <2> QED
    BY <1>1, <2>2 DEF RecordedIsKept
<1> QED
  BY <1>8, <1>11, <1>12

(* A message reaches the broker and is passed on. *)
LEMMA RelayInv ==
  ASSUME ClusterInv, NEW i \in Instances, Relay(i)
  PROVE  ClusterInv'
<1> USE DEF ClusterInv
<1>1. /\ UNCHANGED <<stage, read, doc, unwritten, closing, saved, up, publishers, channel>>
      /\ UNCHANGED <<opens, frames, recorded, ahead, orphaned, crashed, parted>>
      /\ outbox[i] # <<>> /\ outbox' = [outbox EXCEPT ![i] = Tail(@)]
      /\ inbox' = [j \in Instances |->
             IF j \in channel \ {i} THEN Append(inbox[j], Head(outbox[i])) ELSE inbox[j]]
  BY DEF Relay, rooms, history
<1>2. /\ Carries(Tail(outbox[i]), Known)
      /\ Head(outbox[i]) \in Message /\ Head(outbox[i]).payload \subseteq Known
  BY <1>1, InvMail, TailCarries DEF Mail
<1>3. \A j \in Instances : Carries(outbox'[j], Known)
  BY <1>1, <1>2, InvMail DEF Mail, TypeOK
<1>4. \A j \in Instances : Carries(inbox'[j], Known)
  BY <1>1, <1>2, InvMail, AppendCarries DEF Mail
<1>5. outbox' \in [Instances -> Seq(Message)] /\ inbox' \in [Instances -> Seq(Message)]
  BY <1>1, <1>2, <1>3, <1>4 DEF Carries, TypeOK
<1>6. \A j \in Instances : j \notin channel => inbox'[j] = inbox[j]
  BY <1>1
<1>7. TypeOK'
  BY <1>1, <1>5, <1>6 DEF TypeOK
<1>8. OnlyBrought'
  BY <1>1, <1>3, <1>4, KnownUnchanged DEF OnlyBrought, Carries
<1> QED
  BY <1>1, <1>7, <1>8, BuffersUnchanged

(* A message is received: an update is applied and not recorded, a request is
   answered with what the room holds. *)
LEMMA ReceiveInv ==
  ASSUME ClusterInv, NEW i \in Instances, Receive(i)
  PROVE  ClusterInv'
<1> USE DEF ClusterInv
<1> DEFINE m == Head(inbox[i])
<1>1. /\ UNCHANGED <<stage, read, unwritten, closing, saved, up, publishers, channel>>
      /\ UNCHANGED <<opens, frames, recorded, ahead, orphaned, crashed, parted>>
      /\ inbox[i] # <<>> /\ inbox' = [inbox EXCEPT ![i] = Tail(@)]
  BY DEF Receive, ApplyRemote, Answer, history
<1>2. Carries(Tail(inbox[i]), Known) /\ m \in Message /\ m.payload \subseteq Known
  BY <1>1, InvMail, TailCarries DEF Mail
<1>3. /\ inbox' \in [Instances -> Seq(Message)]
      /\ \A j \in Instances : Carries(inbox'[j], Known)
  BY <1>1, <1>2, InvMail DEF Mail, TypeOK, Carries
<1>4. /\ outbox' \in [Instances -> Seq(Message)]
      /\ \A j \in Instances : Carries(outbox'[j], Known)
  <2>1. Update(doc[i]) \in Message /\ Update(doc[i]).payload \subseteq Known
    BY DEF Update, Message, TypeOK, OnlyBrought
  <2>2. outbox' = outbox \/ Publish(i, Update(doc[i]))
    BY DEF Receive, Answer
  <2>3. CASE outbox' = outbox
    BY <2>3, InvMail DEF Mail, TypeOK
  <2>4. CASE Publish(i, Update(doc[i]))
    BY <2>1, <2>4, InvMail, PublishCarries DEF Mail, TypeOK
  <2> QED
    BY <2>2, <2>3, <2>4
<1>5. m.payload \subseteq Edits
  BY <1>2 DEF Message, Update, StateRequest
<1>6. doc' = doc \/ doc' = [doc EXCEPT ![i] = @ \cup m.payload]
  BY DEF Receive, ApplyRemote
<1>7. doc' \in [Instances -> SUBSET Edits] /\ \A j \in Instances : doc'[j] \subseteq Known
  <2>1. doc \in [Instances -> SUBSET Edits] /\ \A j \in Instances : doc[j] \subseteq Known
    BY DEF TypeOK, OnlyBrought
  <2>2. CASE doc' = doc
    BY <2>1, <2>2
  <2>3. CASE doc' = [doc EXCEPT ![i] = doc[i] \cup m.payload]
    BY <1>2, <1>5, <2>1, <2>3
  <2> QED
    BY <1>6, <2>2, <2>3
<1>8. stage[i] \notin {"closed", "reading"} /\ \A j \in Instances \ {i} : doc'[j] = doc[j]
  <2>1. stage[i] \notin {"closed", "reading"}
    <3>1. stage[i] \in {"closed", "reading"} => inbox[i] = <<>>
      BY DEF TypeOK
    <3> QED
      BY <1>1, <3>1
  <2>2. doc \in [Instances -> SUBSET Edits]
    BY DEF TypeOK
  <2>3. \A j \in Instances \ {i} : doc'[j] = doc[j]
    BY <1>6, <2>2
  <2> QED
    BY <2>1, <2>3
<1>9. \A j \in Instances \ {i} : inbox'[j] = inbox[j]
  BY <1>1 DEF TypeOK
<1>10. TypeOK'
  BY <1>1, <1>3, <1>4, <1>7, <1>8, <1>9 DEF TypeOK
<1>11. OnlyBrought'
  BY <1>1, <1>3, <1>4, <1>7, KnownUnchanged DEF OnlyBrought, Carries
<1> QED
  BY <1>1, <1>10, <1>11, BuffersUnchanged

(* A batch is stored. *)
LEMMA WriteInv ==
  ASSUME ClusterInv, NEW i \in Instances, Write(i) \/ FlushClosed(i)
  PROVE  ClusterInv'
<1> USE DEF ClusterInv
<1>1. /\ UNCHANGED <<stage, read, doc, up, publishers, channel, outbox, inbox>>
      /\ UNCHANGED <<opens, frames, recorded, ahead, orphaned, crashed, parted>>
      /\ \/ /\ saved' = saved \cup unwritten[i] /\ closing' = closing
            /\ unwritten' = [unwritten EXCEPT ![i] = {}]
         \/ /\ saved' = saved \cup closing[i] /\ unwritten' = unwritten
            /\ closing' = [closing EXCEPT ![i] = {}]
  BY DEF Write, FlushClosed, relay, history
<1>2. TypeOK'
  BY <1>1 DEF TypeOK
<1>3. OnlyBrought'
  BY <1>1, KnownUnchanged DEF OnlyBrought
<1>4. RecordedIsKept'
  <2> DEFINE buffer(k) == unwritten[k] \cup closing[k]
  <2>1. \A k \in Instances \ {i} : buffer(k)' = buffer(k)
    BY <1>1 DEF TypeOK
  <2>2. saved' \cup buffer(i)' = saved \cup buffer(i)
    BY <1>1 DEF TypeOK
  <2> HIDE DEF buffer
  <2>3. saved' \cup UNION {buffer(k)' : k \in Instances} = saved \cup UNION {buffer(k) : k \in Instances}
    BY <2>1, <2>2
  <2>4. saved' \cup Buffered' = saved \cup Buffered
    BY <2>3 DEF Buffered, buffer
  <2> QED
    BY <1>1, <2>4 DEF RecordedIsKept
<1> QED
  BY <1>2, <1>3, <1>4

(* A room closes, or its instance dies. *)
LEMMA EndInv ==
  ASSUME ClusterInv, NEW i \in Instances, Close(i) \/ Crash(i)
  PROVE  ClusterInv'
<1> USE DEF ClusterInv
<1>1. /\ UNCHANGED <<saved, up, publishers, opens, frames, recorded, ahead, parted>>
      /\ stage' = [stage EXCEPT ![i] = "closed"]
      /\ doc' = [doc EXCEPT ![i] = {}] /\ unwritten' = [unwritten EXCEPT ![i] = {}]
      /\ channel' = channel \ {i}
      /\ inbox' = [inbox EXCEPT ![i] = <<>>]
      /\ outbox' = outbox \/ outbox' = [outbox EXCEPT ![i] = <<>>]
  BY DEF Close, Crash
<1>0. read' = [read EXCEPT ![i] = {}]
  <2>1. CASE Close(i)
    BY <2>1 DEF Close, TypeOK
  <2> QED
    BY <2>1 DEF Crash
<1>2. \/ /\ closing' = [closing EXCEPT ![i] = @ \cup unwritten[i]] /\ crashed' = crashed
      \/ /\ closing' = [closing EXCEPT ![i] = {}]
         /\ crashed' = crashed \cup unwritten[i] \cup closing[i]
  BY DEF Close, Crash
<1>3. orphaned' \subseteq Edits
  <2>1. Unsent(i) \subseteq Edits
    <3>1. Known \subseteq Edits
      BY DEF Known, TypeOK
    <3>2. Carries(outbox[i], Known)
      BY InvMail DEF Mail
    <3> HIDE DEF ClusterInv
    <3> QED
      BY <3>1, <3>2 DEF Carries, Unsent, Brought
  <2>2. doc[i] \subseteq Edits /\ unwritten[i] \subseteq Edits /\ orphaned \subseteq Edits
    BY DEF TypeOK
  <2>3. orphaned' \subseteq orphaned \cup Unsent(i) \cup doc[i] \cup unwritten[i]
    BY DEF Close, Crash
  <2> QED
    BY <2>1, <2>2, <2>3
<1>4. \A j \in Instances : /\ outbox'[j] \in {outbox[j], <<>>}
                           /\ inbox'[j] = IF j = i THEN <<>> ELSE inbox[j]
  BY <1>1 DEF TypeOK
<1>5. \A j \in Instances : Carries(outbox'[j], Known) /\ Carries(inbox'[j], Known)
  BY <1>4, InvMail, EmptyCarries DEF Mail
<1>6. outbox' \in [Instances -> Seq(Message)] /\ inbox' \in [Instances -> Seq(Message)]
  <2>1. outbox \in [Instances -> Seq(Message)] /\ inbox \in [Instances -> Seq(Message)]
    BY DEF TypeOK
  <2> HIDE DEF ClusterInv
  <2> QED
    BY <1>1, <2>1, EmptyCarries
<1>7. TypeOK'
  <2>1. closing' \in [Instances -> SUBSET Edits] /\ crashed' \subseteq Edits
    <3>1. /\ closing \in [Instances -> SUBSET Edits] /\ crashed \subseteq Edits
          /\ unwritten[i] \subseteq Edits /\ closing[i] \subseteq Edits
      BY DEF TypeOK
    <3> HIDE DEF ClusterInv
    <3> QED
      BY <1>2, <3>1
  <2> QED
    BY <1>0, <1>1, <1>3, <1>4, <1>6, <2>1 DEF TypeOK, Stages
<1>8. \A j \in Instances : doc'[j] \subseteq Known /\ read'[j] \subseteq Known
  BY <1>0, <1>1 DEF OnlyBrought, TypeOK
<1>9. OnlyBrought'
  BY <1>1, <1>5, <1>8, KnownUnchanged DEF OnlyBrought, Carries
<1>10. \A j \in Instances : unwritten'[j] = IF j = i THEN {} ELSE unwritten[j]
  BY <1>1 DEF TypeOK
<1>11. \A j \in Instances \ {i} : closing'[j] = closing[j]
  BY <1>2 DEF TypeOK
<1>12. \/ closing'[i] = closing[i] \cup unwritten[i] /\ crashed' = crashed
       \/ closing'[i] = {} /\ crashed' = crashed \cup unwritten[i] \cup closing[i]
  BY <1>2 DEF TypeOK
<1>13. RecordedIsKept'
  <2>1. Buffered' \cup crashed' = Buffered \cup crashed
    BY <1>10, <1>11, <1>12 DEF Buffered
  <2>2. saved' = saved /\ recorded' = recorded
    BY <1>1
  <2> QED
    BY <2>1, <2>2 DEF RecordedIsKept
<1> QED
  BY <1>7, <1>9, <1>13

(* Every step preserves the inductive invariant. *)
LEMMA NextClusterInv == ClusterInv /\ [Next]_vars => ClusterInv'
<1> SUFFICES ASSUME ClusterInv, [Next]_vars PROVE ClusterInv'
  OBVIOUS
<1>1. CASE \E i \in Instances : \/ Open(i) \/ OpenStep(i) \/ BusStep(i)
                                \/ \E u \in SUBSET Edits : HandleSync(i, u)
                                \/ Write(i) \/ FlushClosed(i)
                                \/ Close(i) \/ Crash(i) \/ PublisherReady(i)
  BY <1>1, OpenInv, BrokerInv, OpenedInv, HandleSyncInv, RelayInv, ReceiveInv, WriteInv, EndInv
     DEF OpenStep, BusStep
<1>2. CASE BrokerFails \/ BrokerReturns
  BY <1>2, BrokerInv
<1>3. CASE UNCHANGED vars
  <2>1. /\ UNCHANGED <<stage, read, doc, unwritten, closing, saved>>
        /\ UNCHANGED <<up, publishers, channel, outbox, inbox>>
        /\ UNCHANGED <<opens, frames, recorded, ahead, orphaned, crashed, parted>>
    BY <1>3 DEF vars, rooms, relay, history
  <2>2. TypeOK'
    BY <2>1 DEF ClusterInv, TypeOK
  <2>3. OnlyBrought'
    BY <2>1, KnownUnchanged DEF ClusterInv, OnlyBrought
  <2> QED
    BY <2>1, <2>2, <2>3, BuffersUnchanged DEF ClusterInv
<1> QED
  BY <1>1, <1>2, <1>3 DEF Next

(* ClusterInv holds in every reachable state, for any number of instances. *)
THEOREM ClusterInvariant == Spec => []ClusterInv
<1>1. Init => ClusterInv
  BY InitClusterInv
<1>2. ClusterInv /\ [Next]_vars => ClusterInv'
  BY NextClusterInv
<1> QED
  BY <1>1, <1>2, PTL DEF Spec

(* The variables of rooms and relay keep their types, and an instance without a
   room holds nothing and receives nothing. *)
THEOREM TypeCorrect == Spec => []TypeOK
<1>1. ClusterInv => TypeOK
  BY DEF ClusterInv
<1> QED
  BY <1>1, ClusterInvariant, PTL

(* Whatever the relay lost, whichever rooms closed and however often clients brought
   the same updates, one that a room shows and that will not be read back and shown
   depends on one that died in a write buffer or was brought ahead of its
   predecessors. *)
THEOREM CrashesAndGapsHideUpdates == Spec => []ReadableUnlessCrashed
<1>1. ClusterInv => ReadableUnlessCrashed
  <2> SUFFICES ASSUME ClusterInv PROVE ReadableUnlessCrashed
    OBVIOUS
  <2> DEFINE kept == saved \cup Buffered \cup crashed \cup ahead
  <2>1. Known \subseteq kept
    BY DEF ClusterInv, RecordedIsKept, Known
  <2>2. Visible(Known) \subseteq Visible(kept)
    BY <2>1, VisibleGrows
  <2>3. recorded \subseteq Visible(Known)
    BY DEF ClusterInv, OnlyBrought
  <2>4. ASSUME NEW i \in Instances PROVE Visible(doc[i]) \subseteq Visible(Known)
    <3>1. doc[i] \subseteq Known
      BY DEF ClusterInv, OnlyBrought
    <3> QED
      BY <3>1, VisibleGrows
  <2> HIDE DEF kept
  <2>5. recorded \cup UNION {Visible(doc[i]) : i \in Instances} \subseteq Visible(kept)
    BY <2>2, <2>3, <2>4
  <2> QED
    BY <2>5 DEF ReadableUnlessCrashed, kept
<1> QED
  BY <1>1, ClusterInvariant, PTL

----------------------------------------------------------------------------
(* What messages bring and ask for. *)

LEMMA NoMessages ==
  /\ Brought(<<>>) = {} /\ ~Asks(<<>>)
  /\ \A q \in Seq(Message) : ~Asks(q) => \A e : ~AskedAfter(q, e)
  BY DEF Brought, Asks, AskedAfter

(* A message added to the end brings its own updates; if it is a request, it comes
   after all the others. *)
LEMMA AppendBrings ==
  ASSUME NEW q \in Seq(Message), NEW m \in Message
  PROVE  /\ Brought(Append(q, m)) = Brought(q) \cup m.payload
         /\ Asks(Append(q, m)) <=> Asks(q) \/ m.kind = "StateRequest"
         /\ \A e : AskedAfter(q, e) => AskedAfter(Append(q, m), e)
         /\ \A e : e \in Brought(q) /\ m.kind = "StateRequest" => AskedAfter(Append(q, m), e)
<1> DEFINE r == Append(q, m)
<1>1. Len(q) \in Nat /\ Len(r) = Len(q) + 1
  OBVIOUS
<1>2. \A k \in 1 .. Len(q) + 1 : r[k] = IF k = Len(q) + 1 THEN m ELSE q[k]
  OBVIOUS
<1> HIDE DEF r
<1>3. Brought(r) = Brought(q) \cup m.payload
  <2>1. \A k \in 1 .. Len(r) : k \in 1 .. Len(q) \/ k = Len(q) + 1
    BY <1>1
  <2>2. \A k \in 1 .. Len(q) : k \in 1 .. Len(r) /\ r[k] = q[k]
    BY <1>1, <1>2
  <2>3. Len(q) + 1 \in 1 .. Len(r) /\ r[Len(q) + 1] = m
    BY <1>1, <1>2
  <2> QED
    BY <2>1, <2>2, <2>3 DEF Brought
<1>4. Asks(r) <=> Asks(q) \/ m.kind = "StateRequest"
  BY <1>1, <1>2 DEF Asks
<1>5. ASSUME NEW e, AskedAfter(q, e) PROVE AskedAfter(r, e)
  <2>1. PICK k \in 1 .. Len(q) : /\ q[k].kind = "StateRequest"
                                 /\ \E l \in 1 .. k - 1 : e \in q[l].payload
    BY <1>5 DEF AskedAfter
  <2>2. k \in 1 .. Len(r) /\ r[k] = q[k] /\ \A l \in 1 .. k - 1 : r[l] = q[l]
    BY <1>1, <1>2
  <2> QED
    BY <2>1, <2>2 DEF AskedAfter
<1>6. ASSUME NEW e, e \in Brought(q), m.kind = "StateRequest" PROVE AskedAfter(r, e)
  <2>1. PICK l \in 1 .. Len(q) : e \in q[l].payload
    BY <1>6 DEF Brought
  <2>2. Len(q) + 1 \in 1 .. Len(r) /\ r[Len(q) + 1] = m /\ l \in 1 .. (Len(q) + 1) - 1 /\ r[l] = q[l]
    BY <1>1, <1>2
  <2> QED
    BY <1>6, <2>1, <2>2 DEF AskedAfter
<1> QED
  BY <1>3, <1>4, <1>5, <1>6 DEF r

(* Without the first message the others still come in order. *)
LEMMA TailBrings ==
  ASSUME NEW q \in Seq(Message), q # <<>>
  PROVE  /\ Tail(q) \in Seq(Message) /\ Head(q) \in Message
         /\ Brought(q) = Head(q).payload \cup Brought(Tail(q))
         /\ Asks(q) <=> Head(q).kind = "StateRequest" \/ Asks(Tail(q))
         /\ \A e : AskedAfter(q, e) =>
                \/ AskedAfter(Tail(q), e)
                \/ e \in Head(q).payload /\ Asks(Tail(q))
<1> DEFINE r == Tail(q)
<1>1. /\ Len(q) \in Nat /\ Len(q) > 0 /\ Len(r) = Len(q) - 1
      /\ r \in Seq(Message) /\ Head(q) = q[1] /\ q[1] \in Message
  OBVIOUS
<1>2. \A k \in 1 .. Len(q) - 1 : r[k] = q[k + 1]
  OBVIOUS
<1> HIDE DEF r
<1>3. \A k \in 1 .. Len(q) : k = 1 \/ (k - 1 \in 1 .. Len(r) /\ r[k - 1] = q[k])
  <2> TAKE k \in 1 .. Len(q)
  <2>1. CASE k # 1
    <3>1. k - 1 \in 1 .. Len(q) - 1 /\ (k - 1) + 1 = k
      BY <1>1, <2>1
    <3> QED
      BY <1>1, <1>2, <3>1
  <2> QED
    BY <2>1
<1>4. \A k \in 1 .. Len(r) : k + 1 \in 1 .. Len(q) /\ r[k] = q[k + 1]
  BY <1>1, <1>2
<1>5. 1 \in 1 .. Len(q)
  BY <1>1
<1>6. Brought(q) = q[1].payload \cup Brought(r)
  BY <1>3, <1>4, <1>5 DEF Brought
<1>7. Asks(q) <=> q[1].kind = "StateRequest" \/ Asks(r)
  BY <1>3, <1>4, <1>5 DEF Asks
<1>8. ASSUME NEW e, AskedAfter(q, e), ~AskedAfter(r, e)
      PROVE  e \in q[1].payload /\ Asks(r)
  <2>1. PICK k \in 1 .. Len(q) : /\ q[k].kind = "StateRequest"
                                 /\ \E l \in 1 .. k - 1 : e \in q[l].payload
    BY <1>8 DEF AskedAfter
  <2>2. PICK l \in 1 .. k - 1 : e \in q[l].payload
    BY <2>1
  <2>3. k - 1 \in 1 .. Len(r) /\ r[k - 1] = q[k] /\ l \in 1 .. Len(q)
    BY <1>1, <1>3, <2>2
  <2>4. l = 1
    <3>1. ASSUME l # 1 PROVE l - 1 \in 1 .. (k - 1) - 1 /\ r[l - 1] = q[l]
      BY <1>3, <2>2, <2>3, <3>1
    <3> QED
      BY <1>8, <2>1, <2>2, <2>3, <3>1 DEF AskedAfter
  <2> QED
    BY <2>1, <2>2, <2>3, <2>4 DEF Asks
<1> QED
  BY <1>1, <1>6, <1>7, <1>8 DEF r

(* A publish adds its message to what its sender has yet to send. *)
LEMMA PublishBrings ==
  ASSUME NEW i \in Instances, NEW m \in Message, publishers = Instances,
         outbox \in [Instances -> Seq(Message)], Publish(i, m)
  PROVE  /\ \A k \in Instances \ {i} : outbox'[k] = outbox[k]
         /\ Brought(outbox'[i]) = Brought(outbox[i]) \cup m.payload
         /\ Asks(outbox'[i]) <=> Asks(outbox[i]) \/ m.kind = "StateRequest"
<1>1. outbox' = [outbox EXCEPT ![i] = Append(@, m)]
  BY DEF Publish
<1> QED
  BY <1>1, AppendBrings

LEMMA RequestIsMessage ==
  /\ StateRequest \in Message /\ StateRequest.payload = {} /\ StateRequest.kind = "StateRequest"
  /\ \A m \in Message : m.kind = "StateRequest" => m.payload = {}
  BY DEF Message, StateRequest, Update

LEMMA UpdateIsMessage ==
  ASSUME NEW u \in SUBSET Edits
  PROVE  Update(u) \in Message /\ Update(u).payload = u /\ Update(u).kind # "StateRequest"
  BY DEF Message, Update

----------------------------------------------------------------------------
(* While the broker works, an update that is neither orphaned nor adrift is in every
   open room, on its way there, or with a room that is still to answer: each action
   keeps it so. *)

LEMMA InitConvergence == ASSUME Init PROVE ConvergenceInv
<1>1. RoomsAreSound
  BY DEF Init, RoomsAreSound, Connected, OpenRooms
<1>2. ASSUME NEW e \in Edits PROVE Followed(e)
  BY NoMessages DEF Init, Followed, SentIsHeld, CaughtIsHeld, Unsent
<1> QED
  BY <1>1, <1>2 DEF ConvergenceInv

(* A room begins to open. *)
LEMMA OpenConvergence ==
  ASSUME ClusterInv, ConvergenceInv, NEW i \in Instances, Open(i)
  PROVE  ConvergenceInv'
<1>1. /\ stage[i] = "closed" /\ stage' = [stage EXCEPT ![i] = "reading"]
      /\ UNCHANGED <<read, doc, unwritten, closing, saved, up, publishers, channel>>
      /\ UNCHANGED <<outbox, inbox, orphaned, parted, recorded, ahead, crashed>>
  BY DEF Open, relay
<1>2. stage \in [Instances -> Stages]
  BY DEF ClusterInv, TypeOK
<1>3. \A k \in Instances : /\ stage'[k] = "open" <=> stage[k] = "open"
                           /\ stage'[k] = "subscribing" <=> stage[k] = "subscribing"
  BY <1>1, <1>2
<1>4. OpenRooms' = OpenRooms
  BY <1>3 DEF OpenRooms
<1>5. ASSUME ~parted PROVE RoomsAreSound'
  BY <1>1, <1>3, <1>4, <1>5 DEF ConvergenceInv, RoomsAreSound, Connected
<1>6. ASSUME ~parted, NEW e \in Edits \ orphaned PROVE Followed(e)'
  <2>1. Followed(e)
    BY <1>6 DEF ConvergenceInv
  <2>2. Holders(e)' = Holders(e)
    BY <1>1, <1>4 DEF Holders
  <2>3. SentIsHeld(e)' /\ CaughtIsHeld(e)'
    BY <1>1, <1>3, <2>1, <2>2 DEF Followed, SentIsHeld, CaughtIsHeld, Unsent
  <2>4. ASSUME e \notin Adrift', NEW j \in Instances, stage'[j] \in {"subscribing", "open"}
        PROVE  ComesToHave(j, e)'
    <3>1. ComesToHave(j, e)
      BY <1>1, <1>3, <2>1, <2>4 DEF Followed, Adrift
    <3> QED
      BY <1>1, <1>3, <2>2, <3>1 DEF ComesToHave, Has, WillBeAnswered, IsForgotten, Unsent
  <2> QED
    BY <2>3, <2>4 DEF Followed
<1> QED
  BY <1>1, <1>5, <1>6 DEF ConvergenceInv

(* A room has read the store: it has what is saved, and asks for what another
   room has. *)
LEMMA LoadReadConvergence ==
  ASSUME ClusterInv, ConvergenceInv, NEW i \in Instances, LoadRead(i)
  PROVE  ConvergenceInv'
<1>1. /\ stage[i] = "reading" /\ stage' = [stage EXCEPT ![i] = "subscribing"]
      /\ read' = [read EXCEPT ![i] = saved]
      /\ UNCHANGED <<doc, unwritten, closing, saved, up, publishers, channel>>
      /\ UNCHANGED <<outbox, inbox, orphaned, parted, recorded, ahead, crashed>>
  BY DEF LoadRead, relay, history
<1>2. /\ stage \in [Instances -> Stages] /\ read \in [Instances -> SUBSET Edits]
      /\ i \notin channel /\ inbox[i] = <<>> /\ doc[i] = {}
  BY <1>1 DEF ClusterInv, TypeOK
<1>3. \A k \in Instances : /\ stage'[k] = "open" <=> stage[k] = "open"
                           /\ stage'[k] = "subscribing" <=> stage[k] = "subscribing" \/ k = i
                           /\ read'[k] = IF k = i THEN saved ELSE read[k]
  BY <1>1, <1>2
<1>4. OpenRooms' = OpenRooms
  BY <1>3 DEF OpenRooms
<1>5. ASSUME ~parted PROVE RoomsAreSound'
  BY <1>1, <1>3, <1>4, <1>5 DEF ConvergenceInv, RoomsAreSound, Connected
<1>6. ASSUME ~parted, NEW e \in Edits \ orphaned PROVE Followed(e)'
  <2>1. Followed(e)
    BY <1>6 DEF ConvergenceInv
  <2>2. Holders(e)' = Holders(e)
    BY <1>1, <1>4 DEF Holders
  <2>3. SentIsHeld(e)'
    BY <1>1, <1>3, <2>1 DEF Followed, SentIsHeld, Unsent
  <2>4. CaughtIsHeld(e)'
    <3>1. e \notin doc[i] \cup Brought(inbox[i])
      BY <1>2, NoMessages
    <3> QED
      BY <1>1, <1>3, <2>1, <2>2, <3>1 DEF Followed, CaughtIsHeld
  <2>5. ASSUME e \notin Adrift', NEW j \in Instances, stage'[j] \in {"subscribing", "open"}
        PROVE  ComesToHave(j, e)'
    <3>1. CASE j = i
      <4>1. CASE e \in saved
        BY <1>3, <3>1, <4>1 DEF ComesToHave, Has
      <4>2. CASE e \notin saved /\ Holders(e) = {}
        BY <1>1, <1>3, <2>2, <3>1, <4>2 DEF ComesToHave, IsForgotten
      <4>3. CASE Holders(e) # {}
        <5>1. i \notin Holders(e)
          BY <1>1 DEF Holders, OpenRooms
        <5> QED
          BY <1>3, <2>2, <3>1, <4>3, <5>1 DEF ComesToHave, WillBeAnswered
      <4> QED
        BY <4>1, <4>2, <4>3
    <3>2. CASE j # i
      <4>1. ComesToHave(j, e)
        BY <1>1, <1>3, <2>1, <2>5, <3>2 DEF Followed, Adrift
      <4> QED
        BY <1>1, <1>3, <2>2, <3>2, <4>1 DEF ComesToHave, Has, WillBeAnswered, IsForgotten, Unsent
    <3> QED
      BY <3>1, <3>2
  <2> QED
    BY <2>3, <2>4, <2>5 DEF Followed
<1> QED
  BY <1>1, <1>5, <1>6 DEF ConvergenceInv

(* The broker subscribes a room, which then receives what the others send. *)
LEMMA SubscribesConvergence ==
  ASSUME ClusterInv, ConvergenceInv, NEW i \in Instances, BrokerSubscribes(i)
  PROVE  ConvergenceInv'
<1>1. /\ channel' = channel \cup {i}
      /\ UNCHANGED <<stage, read, doc, unwritten, closing, saved, up, publishers>>
      /\ UNCHANGED <<outbox, inbox, orphaned, parted, recorded, ahead, crashed>>
  BY DEF BrokerSubscribes, rooms, history
<1>2. OpenRooms' = OpenRooms
  BY <1>1 DEF OpenRooms
<1>3. ASSUME ~parted PROVE RoomsAreSound'
  BY <1>1, <1>2, <1>3 DEF ConvergenceInv, RoomsAreSound, Connected
<1>4. ASSUME ~parted, NEW e \in Edits \ orphaned PROVE Followed(e)'
  <2>1. Followed(e)
    BY <1>4 DEF ConvergenceInv
  <2>2. Holders(e)' = Holders(e)
    BY <1>1, <1>2 DEF Holders
  <2>3. SentIsHeld(e)' /\ CaughtIsHeld(e)'
    BY <1>1, <2>1, <2>2 DEF Followed, SentIsHeld, CaughtIsHeld, Unsent
  <2>4. \A j \in Instances : ComesToHave(j, e) => ComesToHave(j, e)'
    BY <1>1, <2>2 DEF ComesToHave, Has, WillBeAnswered, IsForgotten, Unsent
  <2> QED
    BY <1>1, <2>1, <2>3, <2>4 DEF Followed, Adrift
<1> QED
  BY <1>1, <1>3, <1>4 DEF ConvergenceInv

(* A room opens and asks the others: what it received while it was opening is
   saved, or with a room that is open. *)
LEMMA OpenedConvergence ==
  ASSUME ClusterInv, ConvergenceInv, NEW i \in Instances, Opened(i)
  PROVE  ConvergenceInv'
<1>1. /\ stage[i] = "subscribing" /\ stage' = [stage EXCEPT ![i] = "open"]
      /\ doc' = [doc EXCEPT ![i] = @ \cup read[i]] /\ read' = [read EXCEPT ![i] = {}]
      /\ i \in channel \/ ~up
      /\ Publish(i, StateRequest)
      /\ UNCHANGED <<unwritten, closing, saved, up, publishers, channel>>
      /\ UNCHANGED <<inbox, orphaned, parted, recorded, ahead, crashed>>
  BY DEF Opened
<1>2. /\ stage \in [Instances -> Stages] /\ read \in [Instances -> SUBSET Edits]
      /\ doc \in [Instances -> SUBSET Edits] /\ outbox \in [Instances -> Seq(Message)]
  BY DEF ClusterInv, TypeOK
<1>3. \A k \in Instances :
        /\ stage'[k] = IF k = i THEN "open" ELSE stage[k]
        /\ read'[k] = IF k = i THEN {} ELSE read[k]
        /\ doc'[k] = IF k = i THEN doc[i] \cup read[i] ELSE doc[k]
  BY <1>1, <1>2
<1>4. OpenRooms' = OpenRooms \cup {i}
  BY <1>3 DEF OpenRooms
<1> SUFFICES ASSUME ~parted PROVE ConvergenceInv'
  BY <1>1 DEF ConvergenceInv
<1>5. RoomsAreSound /\ up /\ publishers = Instances /\ i \in channel
  BY <1>1 DEF ConvergenceInv, RoomsAreSound, Connected
<1>6. RoomsAreSound'
  BY <1>1, <1>3, <1>4, <1>5 DEF RoomsAreSound, Connected
<1>7. \A k \in Instances : Brought(outbox'[k]) = Brought(outbox[k])
  BY <1>1, <1>2, <1>5, PublishBrings, RequestIsMessage
<1>8. \A k \in Instances : Asks(outbox'[k]) <=> Asks(outbox[k]) \/ k = i
  BY <1>1, <1>2, <1>5, PublishBrings, RequestIsMessage
<1>9. ASSUME NEW e \in Edits \ orphaned PROVE Followed(e)'
  <2>1. Followed(e)
    BY DEF ConvergenceInv
  <2>2. /\ Holders(e) \subseteq Holders(e)' /\ Holders(e)' \subseteq Holders(e) \cup {i}
        /\ i \in Holders(e)' <=> e \in doc[i] \cup read[i]
    <3>1. \A k \in Instances : k \in Holders(e)' <=>
              k \in Holders(e) \/ (k = i /\ e \in doc[i] \cup read[i])
      BY <1>3, <1>4 DEF Holders, OpenRooms
    <3>2. Holders(e) \subseteq Instances /\ Holders(e)' \subseteq Instances
      BY DEF Holders, OpenRooms
    <3>3. i \notin Holders(e)
      BY <1>1 DEF Holders, OpenRooms
    <3> QED
      BY <3>1, <3>2, <3>3
  <2>3. SentIsHeld(e)'
    BY <1>1, <1>3, <1>7, <2>1 DEF Followed, SentIsHeld, Unsent
  <2>4. CaughtIsHeld(e)'
    BY <1>1, <1>3, <2>1, <2>2 DEF Followed, CaughtIsHeld
  <2>5. e \in doc[i] \cup read[i] => e \in saved \/ Holders(e) # {}
    BY <1>1, <1>5, <2>1 DEF Followed, CaughtIsHeld, RoomsAreSound
  <2>6. ASSUME e \notin Adrift', NEW j \in Instances, stage'[j] \in {"subscribing", "open"}
        PROVE  ComesToHave(j, e)'
    <3>1. ComesToHave(j, e)
      BY <1>1, <1>3, <2>1, <2>6 DEF Followed, Adrift
    <3>2. CASE Has(j, e)
      <4>1. Has(j, e)'
        BY <1>1, <1>3, <1>7, <3>2 DEF Has, Unsent
      <4> QED
        BY <4>1 DEF ComesToHave
    <3>3. CASE WillBeAnswered(j, e)
      <4>1. WillBeAnswered(j, e)'
        BY <1>1, <1>3, <1>8, <2>2, <3>3 DEF WillBeAnswered
      <4> QED
        BY <4>1 DEF ComesToHave
    <3>4. CASE IsForgotten(j, e)
      <4>1. Holders(e)' = {}
        BY <2>2, <2>5, <3>4 DEF IsForgotten
      <4>2. IsForgotten(j, e)'
        BY <1>1, <1>3, <1>8, <3>4, <4>1 DEF IsForgotten
      <4> QED
        BY <4>2 DEF ComesToHave
    <3> QED
      BY <3>1, <3>2, <3>3, <3>4 DEF ComesToHave
  <2> QED
    BY <2>3, <2>4, <2>6 DEF Followed
<1> QED
  BY <1>1, <1>6, <1>9 DEF ConvergenceInv

(* What a client's frame lets the room show is sent to every room that is subscribed,
   and any other room asks for it when it opens.  What the room keeps aside concerns
   nobody else: it is adrift, or stored, or another room has it. *)
LEMMA HandleSyncConvergence ==
  ASSUME ClusterInv, ConvergenceInv,
         NEW i \in Instances, NEW u \in SUBSET Edits, HandleSync(i, u)
  PROVE  ConvergenceInv'
<1> DEFINE new == Shows(doc[i], u)
<1>1. /\ stage[i] = "open"
      /\ doc' = [doc EXCEPT ![i] = @ \cup u]
      /\ unwritten' = [unwritten EXCEPT ![i] = @ \cup new]
      /\ recorded' = recorded \cup new /\ crashed' = crashed \ new
      /\ ahead' = ahead \cup (u \ Visible(doc[i] \cup u))
      /\ (new = {} /\ outbox' = outbox) \/ (new # {} /\ Publish(i, Update(new)))
      /\ UNCHANGED <<stage, read, closing, saved, up, publishers, channel, inbox>>
      /\ UNCHANGED <<orphaned, parted>>
  BY DEF HandleSync, Record, PublishNew
<1>2. /\ new \subseteq doc[i] \cup u
      /\ \A e \in u : e \in doc[i] \/ e \in new \/ e \in ahead'
  BY <1>1, VisibleGrows DEF Shows
<1> HIDE DEF new
<1>3. /\ doc \in [Instances -> SUBSET Edits] /\ unwritten \in [Instances -> SUBSET Edits]
      /\ outbox \in [Instances -> Seq(Message)] /\ new \in SUBSET Edits
  <2>1. doc \in [Instances -> SUBSET Edits]
    BY DEF ClusterInv, TypeOK
  <2>2. new \in SUBSET Edits
    BY <1>2, <2>1
  <2> QED
    BY <2>1, <2>2 DEF ClusterInv, TypeOK
<1>4. \A k \in Instances :
        /\ doc'[k] = IF k = i THEN doc[i] \cup u ELSE doc[k]
        /\ unwritten'[k] = IF k = i THEN unwritten[i] \cup new ELSE unwritten[k]
  BY <1>1, <1>3
<1>5. OpenRooms' = OpenRooms /\ i \in OpenRooms
  BY <1>1 DEF OpenRooms
<1> SUFFICES ASSUME ~parted PROVE ConvergenceInv'
  BY <1>1 DEF ConvergenceInv
<1>6. RoomsAreSound /\ publishers = Instances /\ OpenRooms \subseteq channel
  BY DEF ConvergenceInv, RoomsAreSound, Connected
<1>7. RoomsAreSound'
  <2>1. unwritten'[i] \subseteq doc'[i]
    BY <1>1, <1>2, <1>4, <1>6 DEF RoomsAreSound
  <2> QED
    BY <1>1, <1>4, <1>5, <1>6, <2>1 DEF RoomsAreSound, Connected
<1>8. \A k \in Instances :
        /\ Brought(outbox'[k]) = IF k = i THEN Brought(outbox[i]) \cup new ELSE Brought(outbox[k])
        /\ Asks(outbox'[k]) <=> Asks(outbox[k])
  <2>1. CASE new = {} /\ outbox' = outbox
    BY <2>1
  <2>2. CASE Publish(i, Update(new))
    <3>1. /\ Update(new) \in Message /\ Update(new).payload = new
          /\ Update(new).kind # "StateRequest"
      BY <1>3, UpdateIsMessage
    <3> QED
      BY <1>3, <1>6, <2>2, <3>1, PublishBrings
  <2> QED
    BY <1>1, <2>1, <2>2
<1>9. ASSUME NEW e \in Edits \ orphaned PROVE Followed(e)'
  <2>1. Followed(e)
    BY DEF ConvergenceInv
  <2>2. \A k \in Instances : k \in Holders(e)' <=> k \in Holders(e) \/ (k = i /\ e \in u)
    BY <1>4, <1>5 DEF Holders
  <2>3. Holders(e) \subseteq Instances /\ Holders(e)' \subseteq Instances
    BY DEF Holders, OpenRooms
  <2>4. SentIsHeld(e)'
    BY <1>1, <1>2, <1>4, <1>8, <2>1 DEF Followed, SentIsHeld, Unsent
  <2>5. CaughtIsHeld(e)'
    BY <1>1, <1>4, <2>1, <2>2, <2>3 DEF Followed, CaughtIsHeld
  <2>6. ASSUME e \notin Adrift', NEW j \in Instances, stage'[j] \in {"subscribing", "open"}
        PROVE  ComesToHave(j, e)'
    <3>1. CASE e \in new
      <4>1. i \in Holders(e)'
        BY <1>2, <1>4, <1>5, <3>1 DEF Holders
      <4>2. CASE j = i
        BY <1>2, <1>4, <3>1, <4>2 DEF ComesToHave, Has
      <4>3. CASE j # i /\ stage[j] = "open"
        <5>1. j \in channel'
          BY <1>1, <1>6, <4>3 DEF OpenRooms
        <5>2. e \in Unsent(i)'
          BY <1>8, <3>1 DEF Unsent
        <5> QED
          BY <4>3, <5>1, <5>2 DEF ComesToHave, Has
      <4>4. CASE j # i /\ stage[j] = "subscribing"
        BY <1>1, <4>1, <4>4 DEF ComesToHave, WillBeAnswered
      <4> QED
        BY <1>1, <2>6, <4>2, <4>3, <4>4
    <3>2. CASE e \notin new
      <4>1. e \in recorded' \ crashed' => e \in recorded \ crashed
        BY <1>1, <3>2
      <4>2. ComesToHave(j, e)
        <5>1. e \notin Adrift
          BY <1>1, <2>6, <4>1 DEF Adrift
        <5> QED
          BY <1>1, <2>1, <2>6, <5>1 DEF Followed
      <4>3. CASE Has(j, e)
        BY <1>1, <1>4, <1>8, <4>3 DEF ComesToHave, Has, Unsent
      <4>4. CASE WillBeAnswered(j, e)
        BY <1>1, <1>8, <2>2, <2>3, <4>4 DEF ComesToHave, WillBeAnswered
      <4>5. CASE IsForgotten(j, e)
        <5>1. e \notin saved /\ Holders(e) = {}
          BY <4>5 DEF IsForgotten
        <5>2. Holders(e)' = {}
          <6>1. SUFFICES ASSUME e \in u PROVE FALSE
            BY <2>2, <2>3, <5>1
          <6>2. e \in recorded \ crashed
            <7>1. e \notin doc[i]
              BY <1>5, <5>1 DEF Holders
            <7>2. e \in ahead'
              BY <1>2, <3>2, <6>1, <7>1
            <7> QED
              BY <2>6, <4>1, <7>2 DEF Adrift
          <6>3. PICK k \in Instances : e \in unwritten[k] \cup closing[k]
            BY <5>1, <6>2 DEF ClusterInv, RecordedIsKept, Buffered
          <6>4. e \notin closing[k]
            BY <1>6 DEF RoomsAreSound
          <6>5. k \in Holders(e)
            BY <1>6, <6>3, <6>4 DEF RoomsAreSound, Holders, OpenRooms
          <6> QED
            BY <5>1, <6>5
        <5> QED
          BY <1>1, <1>8, <4>5, <5>1, <5>2 DEF ComesToHave, IsForgotten
      <4> QED
        BY <4>2, <4>3, <4>4, <4>5 DEF ComesToHave
    <3> QED
      BY <3>1, <3>2
  <2> QED
    BY <2>4, <2>5, <2>6 DEF Followed
<1> QED
  BY <1>1, <1>7, <1>9 DEF ConvergenceInv

(* The broker passes a message on to every room that is subscribed: an update
   that it brings is held, and a request comes after what the rooms have yet to
   receive. *)
LEMMA RelayConvergence ==
  ASSUME ClusterInv, ConvergenceInv, NEW i \in Instances, Relay(i)
  PROVE  ConvergenceInv'
<1> DEFINE m == Head(outbox[i])
<1>1. /\ outbox[i] # <<>> /\ outbox' = [outbox EXCEPT ![i] = Tail(@)]
      /\ inbox' = [j \in Instances |->
             IF j \in channel \ {i} THEN Append(inbox[j], m) ELSE inbox[j]]
      /\ UNCHANGED <<stage, read, doc, unwritten, closing, saved, up, publishers, channel>>
      /\ UNCHANGED <<orphaned, parted, recorded, ahead, crashed>>
  BY DEF Relay, rooms, history
<1>2. outbox \in [Instances -> Seq(Message)] /\ inbox \in [Instances -> Seq(Message)]
  BY DEF ClusterInv, TypeOK
<1>3. /\ m \in Message /\ Brought(outbox[i]) = m.payload \cup Brought(outbox'[i])
      /\ Asks(outbox[i]) <=> m.kind = "StateRequest" \/ Asks(outbox'[i])
      /\ \A k \in Instances \ {i} : outbox'[k] = outbox[k]
  BY <1>1, <1>2, TailBrings
<1> HIDE DEF m
<1>4. \A k \in Instances :
        /\ Brought(inbox'[k]) = IF k \in channel \ {i} THEN Brought(inbox[k]) \cup m.payload
                                                       ELSE Brought(inbox[k])
        /\ Asks(inbox[k]) => Asks(inbox'[k])
        /\ k \in channel \ {i} /\ m.kind = "StateRequest" => Asks(inbox'[k])
        /\ \A e : AskedAfter(inbox[k], e) => AskedAfter(inbox'[k], e)
        /\ \A e : /\ k \in channel \ {i} /\ m.kind = "StateRequest" /\ e \in Brought(inbox[k])
                  => AskedAfter(inbox'[k], e)
  BY <1>1, <1>2, <1>3, AppendBrings
<1>5. OpenRooms' = OpenRooms
  BY <1>1 DEF OpenRooms
<1> SUFFICES ASSUME ~parted PROVE ConvergenceInv'
  BY <1>1 DEF ConvergenceInv
<1>6. RoomsAreSound /\ OpenRooms \subseteq channel
  BY DEF ConvergenceInv, RoomsAreSound, Connected
<1>7. RoomsAreSound'
  BY <1>1, <1>5, <1>6 DEF RoomsAreSound, Connected
<1>8. ASSUME NEW e \in Edits \ orphaned PROVE Followed(e)'
  <2>1. Followed(e)
    BY DEF ConvergenceInv
  <2>2. Holders(e)' = Holders(e)
    BY <1>1, <1>5 DEF Holders
  <2>3. \A k \in Instances : e \in Brought(outbox'[k]) => e \in Brought(outbox[k])
    BY <1>3
  <2>4. SentIsHeld(e)'
    BY <1>1, <2>1, <2>3 DEF Followed, SentIsHeld, Unsent
  <2>5. \A k \in Instances : e \in Unsent(k) => e \in saved \/ Holders(e) # {}
    BY <2>1 DEF Followed, SentIsHeld, Holders, OpenRooms
  <2>6. e \in m.payload => e \in saved \/ Holders(e) # {}
    BY <1>3, <2>5 DEF Unsent
  <2>7. CaughtIsHeld(e)'
    BY <1>1, <1>4, <2>1, <2>2, <2>6 DEF Followed, CaughtIsHeld
  <2>8. ASSUME e \notin Adrift', NEW j \in Instances, stage'[j] \in {"subscribing", "open"}
        PROVE  ComesToHave(j, e)'
    <3>1. ComesToHave(j, e)
      BY <1>1, <2>1, <2>8 DEF Followed, Adrift
    <3>2. CASE Has(j, e)
      <4>1. CASE e \in doc[j] \cup read[j] \cup Brought(inbox[j])
        BY <1>1, <1>4, <4>1 DEF ComesToHave, Has
      <4>2. ASSUME j \in channel, NEW k \in Instances \ {j}, e \in Unsent(k)
            PROVE  Has(j, e)'
        <5>1. CASE e \in Brought(outbox'[k])
          BY <1>1, <4>2, <5>1 DEF Has, Unsent
        <5>2. CASE e \notin Brought(outbox'[k])
          <6>1. k = i /\ e \in m.payload
            BY <1>3, <4>2, <5>2 DEF Unsent
          <6> QED
            BY <1>4, <4>2, <6>1 DEF Has
        <5> QED
          BY <5>1, <5>2
      <4> QED
        BY <3>2, <4>1, <4>2 DEF ComesToHave, Has
    <3>3. CASE WillBeAnswered(j, e)
      <4>1. PICK a \in Holders(e) \ {j} :
                \/ stage[j] = "subscribing" \/ Asks(outbox[j]) \/ Asks(inbox[a])
        BY <3>3 DEF WillBeAnswered
      <4>2. a \in Instances /\ a \in channel
        BY <1>6 DEF Holders, OpenRooms
      <4>3. Asks(outbox[j]) => Asks(outbox'[j]) \/ Asks(inbox'[a])
        BY <1>3, <1>4, <4>1, <4>2
      <4> QED
        BY <1>1, <1>4, <2>2, <4>1, <4>2, <4>3 DEF ComesToHave, WillBeAnswered
    <3>4. CASE IsForgotten(j, e) /\ ~Has(j, e)
      <4>1. e \notin saved /\ Holders(e) = {} /\ e \notin m.payload
        BY <2>6, <3>4 DEF IsForgotten
      <4>2. \A k \in Instances : e \in Brought(inbox'[k]) <=> e \in Brought(inbox[k])
        BY <1>4, <4>1
      <4>3. CASE stage[j] = "subscribing" \/ Asks(outbox'[j])
        BY <1>1, <2>2, <4>1, <4>3 DEF ComesToHave, IsForgotten
      <4>4. CASE Asks(outbox[j]) /\ ~Asks(outbox'[j])
        <5>1. j = i /\ m.kind = "StateRequest"
          BY <1>3, <4>4
        <5>2. ASSUME NEW k \in Instances, e \in Brought(inbox[k])
              PROVE  k \in channel \ {i}
          <6>1. k # i
            BY <3>4, <5>1, <5>2 DEF Has
          <6>2. inbox[k] # <<>>
            BY <5>2, NoMessages
          <6>3. stage[k] \in {"subscribing", "open"}
            BY <6>2 DEF ClusterInv, TypeOK, Stages
          <6>4. stage[k] # "subscribing"
            BY <2>1, <4>1, <5>2 DEF Followed, CaughtIsHeld
          <6> QED
            BY <1>6, <6>1, <6>3, <6>4 DEF OpenRooms
        <5>3. \A k \in Instances : e \in Brought(inbox'[k]) => AskedAfter(inbox'[k], e)
          BY <1>4, <4>2, <5>1, <5>2
        <5> QED
          BY <1>1, <2>2, <4>1, <5>3 DEF ComesToHave, IsForgotten
      <4>5. CASE \A k \in Instances : e \in Brought(inbox[k]) => AskedAfter(inbox[k], e)
        <5>1. \A k \in Instances : e \in Brought(inbox'[k]) => AskedAfter(inbox'[k], e)
          BY <1>4, <4>2, <4>5
        <5> QED
          BY <1>1, <2>2, <4>1, <5>1 DEF ComesToHave, IsForgotten
      <4> QED
        BY <3>4, <4>3, <4>4, <4>5 DEF IsForgotten
    <3> QED
      BY <3>1, <3>2, <3>3, <3>4 DEF ComesToHave
  <2> QED
    BY <2>4, <2>7, <2>8 DEF Followed
<1> QED
  BY <1>1, <1>7, <1>8 DEF ConvergenceInv

(* A room receives an update, or a request, which it answers with its document if
   it is open. *)
LEMMA ReceiveConvergence ==
  ASSUME ClusterInv, ConvergenceInv, NEW i \in Instances, Receive(i)
  PROVE  ConvergenceInv'
<1> DEFINE m == Head(inbox[i])
           u == IF m.kind = "Update" THEN m.payload ELSE {}
           s == IF m.kind = "StateRequest" /\ stage[i] = "open" THEN doc[i] ELSE {}
<1>1. /\ inbox[i] # <<>> /\ inbox' = [inbox EXCEPT ![i] = Tail(@)]
      /\ UNCHANGED <<stage, read, unwritten, closing, saved, up, publishers, channel>>
      /\ UNCHANGED <<orphaned, parted, recorded, ahead, crashed>>
  BY DEF Receive, ApplyRemote, Answer, history
<1>2. /\ outbox \in [Instances -> Seq(Message)] /\ inbox \in [Instances -> Seq(Message)]
      /\ doc \in [Instances -> SUBSET Edits] /\ stage \in [Instances -> Stages]
      /\ stage[i] \in {"subscribing", "open"}
  BY <1>1 DEF ClusterInv, TypeOK, Stages
<1>3. /\ m \in Message
      /\ Brought(inbox[i]) = m.payload \cup Brought(inbox'[i])
      /\ Asks(inbox[i]) <=> m.kind = "StateRequest" \/ Asks(inbox'[i])
      /\ \A e : AskedAfter(inbox[i], e) =>
             AskedAfter(inbox'[i], e) \/ (e \in m.payload /\ Asks(inbox'[i]))
      /\ inbox'[i] \in Seq(Message)
      /\ \A k \in Instances \ {i} : inbox'[k] = inbox[k]
  BY <1>1, <1>2, TailBrings
<1>4. /\ m.kind = "StateRequest" <=> m.kind # "Update"
      /\ m.kind = "StateRequest" => m.payload = {}
  BY <1>3 DEF Message, Update, StateRequest
<1> SUFFICES ASSUME ~parted PROVE ConvergenceInv'
  BY <1>1 DEF ConvergenceInv
<1>5. RoomsAreSound /\ publishers = Instances /\ OpenRooms \subseteq channel
  BY DEF ConvergenceInv, RoomsAreSound, Connected
<1>6. \A k \in Instances : doc'[k] = IF k = i THEN doc[i] \cup u ELSE doc[k]
  <2>1. CASE m.kind = "Update"
    BY <1>2, <2>1 DEF Receive, ApplyRemote
  <2>2. CASE m.kind # "Update"
    BY <1>2, <2>2 DEF Receive
  <2> QED
    BY <2>1, <2>2
<1>7. \A k \in Instances :
        /\ Brought(outbox'[k]) = IF k = i THEN Brought(outbox[i]) \cup s ELSE Brought(outbox[k])
        /\ Asks(outbox'[k]) <=> Asks(outbox[k])
  <2>1. CASE m.kind = "StateRequest" /\ stage[i] = "open"
    <3>1. Publish(i, Update(doc[i]))
      BY <1>4, <2>1 DEF Receive, Answer
    <3>2. /\ Update(doc[i]) \in Message /\ Update(doc[i]).payload = doc[i]
          /\ Update(doc[i]).kind # "StateRequest"
      BY <1>2, UpdateIsMessage
    <3> QED
      BY <1>2, <1>5, <2>1, <3>1, <3>2, PublishBrings
  <2>2. CASE ~(m.kind = "StateRequest" /\ stage[i] = "open")
    <3>1. outbox' = outbox
      BY <1>4, <2>2 DEF Receive, Answer
    <3> QED
      BY <2>2, <3>1
  <2> QED
    BY <2>1, <2>2
<1>8. OpenRooms' = OpenRooms /\ \A k \in Instances : k \in OpenRooms <=> stage[k] = "open"
  BY <1>1 DEF OpenRooms
<1>9. RoomsAreSound'
  BY <1>1, <1>5, <1>6, <1>8 DEF RoomsAreSound, Connected
<1>10. u \subseteq m.payload /\ (m.payload # {} => u = m.payload /\ s = {}) /\ s \subseteq doc[i]
  BY <1>4
<1>11. s = {} \/ (s = doc[i] /\ i \in OpenRooms)
  BY <1>8
<1>12. m.kind = "StateRequest" /\ i \in OpenRooms => s = doc[i]
  BY <1>8
<1> HIDE DEF m, u, s
<1>13. ASSUME NEW e \in Edits \ orphaned PROVE Followed(e)'
  <2>1. Followed(e)
    BY DEF ConvergenceInv
  <2>2. \A k \in Instances : k \in Holders(e)' <=> k \in Holders(e) \/ (k = i /\ i \in OpenRooms /\ e \in u)
    BY <1>6, <1>8 DEF Holders
  <2>3. Holders(e) \subseteq Instances /\ Holders(e)' \subseteq Instances
    BY DEF Holders, OpenRooms
  <2>4. SentIsHeld(e)'
    BY <1>1, <1>6, <1>7, <1>8, <1>11, <2>1 DEF Followed, SentIsHeld, Unsent
  <2>5. \A k \in Instances : e \in doc'[k] \cup Brought(inbox'[k])
                             <=> e \in doc[k] \cup Brought(inbox[k])
    BY <1>3, <1>6, <1>10
  <2>6. CaughtIsHeld(e)'
    BY <1>1, <2>1, <2>2, <2>3, <2>5 DEF Followed, CaughtIsHeld
  <2>7. \A j \in Instances : Has(j, e) => Has(j, e)'
    BY <1>1, <1>7, <2>5 DEF Has, Unsent
  <2>8. ASSUME e \notin Adrift', NEW j \in Instances, stage'[j] \in {"subscribing", "open"}
        PROVE  ComesToHave(j, e)'
    <3>1. ComesToHave(j, e)
      BY <1>1, <2>1, <2>8 DEF Followed, Adrift
    <3>2. CASE Has(j, e)
      BY <2>7, <3>2 DEF ComesToHave
    <3>3. CASE WillBeAnswered(j, e)
      <4>1. PICK a \in Holders(e) \ {j} :
                \/ stage[j] = "subscribing" \/ Asks(outbox[j]) \/ Asks(inbox[a])
        BY <3>3 DEF WillBeAnswered
      <4>2. a \in Instances /\ a \in Holders(e)' /\ a \in OpenRooms /\ e \in doc[a]
        BY <2>2, <2>3, <4>1 DEF Holders
      <4>3. CASE stage[j] = "subscribing" \/ Asks(outbox[j]) \/ Asks(inbox'[a])
        BY <1>1, <1>7, <4>1, <4>2, <4>3 DEF ComesToHave, WillBeAnswered
      <4>4. CASE stage[j] # "subscribing" /\ Asks(inbox[a]) /\ ~Asks(inbox'[a])
        <5>1. a = i /\ m.kind = "StateRequest"
          BY <1>3, <4>2, <4>4
        <5>2. e \in Unsent(i)'
          BY <1>7, <1>12, <4>2, <5>1 DEF Unsent
        <5>3. j \in channel /\ j # i
          BY <1>1, <1>5, <1>8, <2>8, <4>1, <4>4, <5>1
        <5> QED
          BY <1>1, <5>2, <5>3 DEF ComesToHave, Has
      <4> QED
        BY <4>1, <4>3, <4>4
    <3>4. CASE IsForgotten(j, e)
      <4>1. e \notin saved /\ Holders(e) = {}
        BY <3>4 DEF IsForgotten
      <4>2. CASE i \in Holders(e)'
        <5>1. e \in Brought(inbox[i])
          BY <1>3, <1>10, <2>2, <4>1, <4>2
        <5>2. CASE j = i
          BY <2>7, <5>1, <5>2 DEF ComesToHave, Has
        <5>3. CASE j # i /\ (stage[j] = "subscribing" \/ Asks(outbox[j]))
          BY <1>1, <1>7, <4>2, <5>3 DEF ComesToHave, WillBeAnswered
        <5>4. CASE j # i /\ AskedAfter(inbox[i], e)
          <6>1. Asks(inbox'[i])
            BY <1>3, <5>4, NoMessages
          <6> QED
            BY <4>2, <5>4, <6>1 DEF ComesToHave, WillBeAnswered
        <5> QED
          BY <3>4, <5>1, <5>2, <5>3, <5>4 DEF IsForgotten
      <4>3. CASE i \notin Holders(e)'
        <5>1. Holders(e)' = {}
          BY <2>2, <2>3, <4>1, <4>3
        <5>2. e \notin m.payload
          <6>1. SUFFICES ASSUME e \in m.payload PROVE FALSE
            OBVIOUS
          <6>2. e \in u /\ e \in Brought(inbox[i])
            BY <1>3, <1>10, <6>1
          <6>3. stage[i] # "open"
            BY <1>8, <2>2, <4>3, <6>2
          <6> QED
            BY <1>2, <2>1, <4>1, <6>2, <6>3 DEF Followed, CaughtIsHeld
        <5>3. \A k \in Instances : /\ e \in Brought(inbox'[k]) => e \in Brought(inbox[k])
                                   /\ AskedAfter(inbox[k], e) => AskedAfter(inbox'[k], e)
          BY <1>3, <5>2
        <5> QED
          BY <1>1, <1>7, <3>4, <4>1, <5>1, <5>3 DEF ComesToHave, IsForgotten
      <4> QED
        BY <4>2, <4>3
    <3> QED
      BY <3>1, <3>2, <3>3, <3>4 DEF ComesToHave
  <2> QED
    BY <2>4, <2>6, <2>8 DEF Followed
<1> QED
  BY <1>1, <1>9, <1>13 DEF ConvergenceInv

(* A batch is stored: what an open room wrote it holds, and what a closed one
   wrote is orphaned. *)
LEMMA WriteConvergence ==
  ASSUME ClusterInv, ConvergenceInv, NEW i \in Instances, Write(i) \/ FlushClosed(i)
  PROVE  ConvergenceInv'
<1>1. /\ UNCHANGED <<stage, read, doc, up, publishers, channel, outbox, inbox>>
      /\ UNCHANGED <<orphaned, parted, recorded, ahead, crashed>>
      /\ \/ /\ saved' = saved \cup unwritten[i] /\ closing' = closing
            /\ unwritten' = [unwritten EXCEPT ![i] = {}]
         \/ /\ saved' = saved \cup closing[i] /\ unwritten' = unwritten
            /\ closing' = [closing EXCEPT ![i] = {}]
  BY DEF Write, FlushClosed, relay, history
<1>2. /\ unwritten \in [Instances -> SUBSET Edits] /\ closing \in [Instances -> SUBSET Edits]
  BY DEF ClusterInv, TypeOK
<1>3. \A k \in Instances : unwritten'[k] \subseteq unwritten[k] /\ closing'[k] \subseteq closing[k]
  BY <1>1, <1>2
<1>4. OpenRooms' = OpenRooms
  BY <1>1 DEF OpenRooms
<1> SUFFICES ASSUME ~parted PROVE ConvergenceInv'
  BY <1>1 DEF ConvergenceInv
<1>5. RoomsAreSound
  BY DEF ConvergenceInv
<1>6. RoomsAreSound'
  BY <1>1, <1>3, <1>4, <1>5 DEF RoomsAreSound, Connected
<1>7. ASSUME NEW e \in Edits \ orphaned PROVE Followed(e)'
  <2>1. Followed(e)
    BY DEF ConvergenceInv
  <2>2. Holders(e)' = Holders(e)
    BY <1>1, <1>4 DEF Holders
  <2>3. (e \in saved => e \in saved') /\ (e \in saved' /\ e \notin saved => Holders(e) # {})
    BY <1>1, <1>5 DEF RoomsAreSound, Holders, OpenRooms
  <2>4. SentIsHeld(e)' /\ CaughtIsHeld(e)'
    BY <1>1, <2>1, <2>2, <2>3 DEF Followed, SentIsHeld, CaughtIsHeld, Unsent
  <2>5. \A j \in Instances : ComesToHave(j, e) => ComesToHave(j, e)'
    BY <1>1, <2>2, <2>3 DEF ComesToHave, Has, WillBeAnswered, IsForgotten, Unsent
  <2> QED
    BY <1>1, <2>1, <2>4, <2>5 DEF Followed, Adrift
<1> QED
  BY <1>1, <1>6, <1>7 DEF ConvergenceInv

(* A room ends, with its instance or not: of what it has and has not sent, no
   update that is not orphaned is one that another room is still to have from it. *)
LEMMA EndConvergence ==
  ASSUME ClusterInv, ConvergenceInv, NEW i \in Instances, Close(i) \/ Crash(i)
  PROVE  ConvergenceInv'
<1>1. /\ UNCHANGED <<saved, up, publishers, parted, recorded, ahead>> /\ crashed \subseteq crashed'
      /\ stage' = [stage EXCEPT ![i] = "closed"]
      /\ doc' = [doc EXCEPT ![i] = {}] /\ unwritten' = [unwritten EXCEPT ![i] = {}]
      /\ channel' = channel \ {i}
      /\ inbox' = [inbox EXCEPT ![i] = <<>>]
      /\ read' = read \/ read' = [read EXCEPT ![i] = {}]
      /\ outbox' = outbox \/ outbox' = [outbox EXCEPT ![i] = <<>>]
      /\ orphaned \subseteq orphaned'
      /\ (\E j \in Instances \ {i} : Catching(j)) => doc[i] \subseteq orphaned'
  BY DEF Close, Crash
<1>2. /\ stage \in [Instances -> Stages] /\ doc \in [Instances -> SUBSET Edits]
      /\ unwritten \in [Instances -> SUBSET Edits] /\ read \in [Instances -> SUBSET Edits]
      /\ inbox \in [Instances -> Seq(Message)] /\ outbox \in [Instances -> Seq(Message)]
      /\ closing \in [Instances -> SUBSET Edits]
  BY DEF ClusterInv, TypeOK
<1>3. \A k \in Instances :
        /\ stage'[k] = IF k = i THEN "closed" ELSE stage[k]
        /\ doc'[k] = IF k = i THEN {} ELSE doc[k]
        /\ unwritten'[k] = IF k = i THEN {} ELSE unwritten[k]
        /\ inbox'[k] = IF k = i THEN <<>> ELSE inbox[k]
        /\ k # i => read'[k] = read[k] /\ outbox'[k] = outbox[k]
        /\ read'[k] \subseteq read[k]
  BY <1>1, <1>2
<1>4. OpenRooms' = OpenRooms \ {i}
  BY <1>3 DEF OpenRooms
<1>5. \A k \in Instances : closing[k] \subseteq orphaned => closing'[k] \subseteq orphaned'
  <2>1. \A k \in Instances :
          closing'[k] \subseteq closing[k] \cup IF Close(i) THEN unwritten[i] ELSE {}
    <3>1. CASE Close(i)
      BY <1>2, <3>1 DEF Close
    <3>2. CASE Crash(i) /\ ~Close(i)
      BY <1>2, <3>2 DEF Crash
    <3> QED
      BY <3>1, <3>2
  <2>2. Close(i) => unwritten[i] \subseteq orphaned'
    BY DEF Close
  <2> QED
    BY <1>1, <2>1, <2>2
<1> SUFFICES ASSUME ~parted PROVE ConvergenceInv'
  BY <1>1 DEF ConvergenceInv
<1>6. RoomsAreSound
  BY DEF ConvergenceInv
<1>7. RoomsAreSound'
  BY <1>1, <1>3, <1>4, <1>5, <1>6 DEF RoomsAreSound, Connected
<1>8. ASSUME NEW e \in Edits \ orphaned' PROVE Followed(e)'
  <2>1. Followed(e)
    BY <1>1 DEF ConvergenceInv
  <2>2. /\ e \in Unsent(i)' => e \in saved
        /\ e \in Unsent(i) => e \in Unsent(i)'
    <3>1. CASE Close(i)
      BY <3>1 DEF Close, Unsent
    <3>2. CASE Crash(i)
      <4>1. e \notin Unsent(i)
        BY <3>2 DEF Crash
      <4>2. outbox'[i] = <<>>
        BY <1>2, <3>2 DEF Crash
      <4> QED
        BY <4>1, <4>2, NoMessages DEF Unsent
    <3> QED
      BY <3>1, <3>2
  <2>3. ASSUME e \in doc[i], NEW j \in Instances \ {i}
        PROVE  /\ stage[j] # "subscribing" /\ ~Asks(outbox[j])
               /\ \A k \in Instances : ~Asks(inbox[k])
    <3>1. ~Catching(j)
      BY <1>1, <2>3
    <3> QED
      BY <3>1 DEF Catching
  <2>4. Holders(e)' = Holders(e) \ {i}
    BY <1>3, <1>4 DEF Holders, OpenRooms
  <2>5. i \in Holders(e) => e \in doc[i]
    BY DEF Holders
  <2>6. SentIsHeld(e)'
    BY <1>1, <1>3, <2>1, <2>2 DEF Followed, SentIsHeld, Unsent
  <2>7. CaughtIsHeld(e)'
    <3>1. SUFFICES ASSUME NEW j \in Instances, stage'[j] = "subscribing",
                          e \in doc'[j] \cup Brought(inbox'[j])
                   PROVE  e \in saved' \/ Holders(e)' # {}
      BY DEF CaughtIsHeld
    <3>2. j # i
      BY <1>3, <3>1
    <3>3. e \in saved \/ Holders(e) # {}
      BY <1>3, <2>1, <3>1, <3>2 DEF Followed, CaughtIsHeld
    <3>4. i \notin Holders(e)
      BY <1>3, <2>3, <2>5, <3>1, <3>2
    <3> QED
      BY <1>1, <2>4, <3>3, <3>4
  <2>8. ASSUME e \notin Adrift', NEW j \in Instances, stage'[j] \in {"subscribing", "open"}
        PROVE  ComesToHave(j, e)'
    <3>1. j # i /\ ComesToHave(j, e)
      BY <1>1, <1>3, <2>1, <2>8 DEF Followed, Adrift
    <3>2. CASE Has(j, e)
      <4>1. CASE e \in doc[j] \cup read[j] \cup Brought(inbox[j])
        BY <1>3, <3>1, <4>1 DEF ComesToHave, Has
      <4>2. ASSUME j \in channel, NEW k \in Instances \ {j}, e \in Unsent(k)
            PROVE  Has(j, e)'
        <5>1. e \in Unsent(k)'
          BY <1>3, <2>2, <4>2 DEF Unsent
        <5> QED
          BY <1>1, <3>1, <4>2, <5>1 DEF Has
      <4> QED
        BY <3>2, <4>1, <4>2 DEF ComesToHave, Has
    <3>3. CASE WillBeAnswered(j, e)
      <4>1. PICK a \in Holders(e) \ {j} :
                \/ stage[j] = "subscribing" \/ Asks(outbox[j]) \/ Asks(inbox[a])
        BY <3>3 DEF WillBeAnswered
      <4>2. a \in Instances /\ a # i
        BY <2>3, <2>5, <3>1, <4>1 DEF Holders, OpenRooms
      <4> QED
        BY <1>3, <2>4, <3>1, <4>1, <4>2 DEF ComesToHave, WillBeAnswered
    <3>4. CASE IsForgotten(j, e)
      <4>1. e \notin Brought(inbox'[i])
        BY <1>3, NoMessages
      <4> QED
        BY <1>1, <1>3, <2>4, <3>1, <3>4, <4>1 DEF ComesToHave, IsForgotten
    <3> QED
      BY <3>1, <3>2, <3>3, <3>4 DEF ComesToHave
  <2> QED
    BY <2>6, <2>7, <2>8 DEF Followed
<1> QED
  BY <1>1, <1>7, <1>8 DEF ConvergenceInv

(* Every step keeps it, unless the broker fails; nothing returns before it has. *)
LEMMA NextConvergence == ClusterInv /\ ConvergenceInv /\ [Next]_vars => ConvergenceInv'
<1> SUFFICES ASSUME ClusterInv, ConvergenceInv, [Next]_vars PROVE ConvergenceInv'
  OBVIOUS
<1>1. ASSUME NEW i \in Instances,
             \/ Open(i) \/ OpenStep(i) \/ BusStep(i)
             \/ \E u \in SUBSET Edits : HandleSync(i, u)
             \/ Write(i) \/ FlushClosed(i) \/ Close(i) \/ Crash(i)
      PROVE  ConvergenceInv'
  BY <1>1, OpenConvergence, LoadReadConvergence, SubscribesConvergence, OpenedConvergence,
     HandleSyncConvergence, RelayConvergence, ReceiveConvergence, WriteConvergence, EndConvergence
     DEF OpenStep, BusStep
<1>2. CASE BrokerFails
  BY <1>2 DEF BrokerFails, ConvergenceInv
<1>3. CASE BrokerReturns \/ \E i \in Instances : PublisherReady(i)
  <2>1. parted' = parted
    BY <1>3 DEF BrokerReturns, PublisherReady, history
  <2>2. ~parted => up /\ publishers = Instances
    BY DEF ConvergenceInv, RoomsAreSound, Connected
  <2>3. parted
    BY <1>3, <2>2 DEF BrokerReturns, PublisherReady
  <2> QED
    BY <2>1, <2>3 DEF ConvergenceInv
<1>4. CASE UNCHANGED vars
  <2>1. /\ UNCHANGED <<stage, read, doc, unwritten, closing, saved, up, publishers, channel>>
        /\ UNCHANGED <<outbox, inbox, orphaned, parted, recorded, ahead, crashed>>
    BY <1>4 DEF vars, rooms, relay, history
  <2>2. OpenRooms' = OpenRooms
    BY <2>1 DEF OpenRooms
  <2>3. RoomsAreSound => RoomsAreSound'
    BY <2>1, <2>2 DEF RoomsAreSound, Connected
  <2>4. ASSUME NEW e \in Edits, Followed(e) PROVE Followed(e)'
    <3>1. Holders(e)' = Holders(e)
      BY <2>1, <2>2 DEF Holders
    <3>2. SentIsHeld(e)' /\ CaughtIsHeld(e)'
      BY <2>1, <2>4, <3>1 DEF Followed, SentIsHeld, CaughtIsHeld, Unsent
    <3>3. \A j \in Instances : ComesToHave(j, e) => ComesToHave(j, e)'
      BY <2>1, <3>1 DEF ComesToHave, Has, WillBeAnswered, IsForgotten, Unsent
    <3> QED
      BY <2>1, <2>4, <3>2, <3>3 DEF Followed, Adrift
  <2> QED
    BY <2>1, <2>3, <2>4 DEF ConvergenceInv
<1> QED
  BY <1>1, <1>2, <1>3, <1>4 DEF Next

(* ConvergenceInv holds in every reachable state, for any number of instances. *)
THEOREM ConvergenceInvariant == Spec => []ConvergenceInv
<1>1. Init => ConvergenceInv
  BY InitConvergence
<1>2. ClusterInv /\ ConvergenceInv /\ [Next]_vars => ConvergenceInv'
  BY NextConvergence
<1> QED
  BY <1>1, <1>2, ClusterInvariant, PTL DEF Spec

(* As long as the broker works, whenever the relay is quiet open rooms differ by
   nothing but updates whose room ended before it had written or sent them, or
   while another was opening, and updates that are adrift: no order of frames,
   requests, answers, closings and crashes leaves two rooms apart otherwise. *)
THEOREM RoomsConverge == Spec => []ConvergedUnlessOrphaned
<1>1. TypeOK /\ ConvergenceInv => ConvergedUnlessOrphaned
  <2> SUFFICES ASSUME TypeOK, ConvergenceInv, Quiet, ~parted,
                      NEW i \in OpenRooms, NEW j \in OpenRooms,
                      NEW e \in doc[i] \ (orphaned \cup Adrift)
               PROVE  e \in doc[j]
    BY DEF ConvergedUnlessOrphaned, Agree
  <2>1. i \in Instances /\ j \in Instances /\ stage[j] = "open" /\ e \in Edits /\ i \in Holders(e)
    BY DEF OpenRooms, Holders, TypeOK
  <2>2. \A k \in Instances : /\ Brought(inbox[k]) = {} /\ ~Asks(inbox[k])
                             /\ Brought(outbox[k]) = {} /\ ~Asks(outbox[k])
    BY NoMessages DEF Quiet
  <2>3. ComesToHave(j, e)
    BY <2>1 DEF ConvergenceInv, Followed
  <2>4. ~WillBeAnswered(j, e)
    BY <2>1, <2>2 DEF WillBeAnswered, Holders, OpenRooms
  <2>5. ~IsForgotten(j, e)
    BY <2>1 DEF IsForgotten
  <2>6. read[j] = {}
    BY <2>1 DEF TypeOK
  <2> QED
    BY <2>1, <2>2, <2>3, <2>4, <2>5, <2>6 DEF ComesToHave, Has, Unsent
<1> QED
  BY <1>1, TypeCorrect, ConvergenceInvariant, PTL

=============================================================================
