--------------------------- MODULE PresenceProofs ---------------------------
(***************************************************************************)
(* Proofs about Presence for any clients, instances and bounds: no clock,  *)
(* in a view or under way, is ahead of the client it belongs to, who has   *)
(* announced itself is shown to all who were there, and who has gone is    *)
(* shown to nobody.                                                        *)
(***************************************************************************)
EXTENDS Presence, TLAPS

Clocks == [Nodes -> [Clients -> Nat]]

(* Clients only move forward in their own eyes. *)
Forward(k, l) == \A c \in Clients : k[c][c] <= l[c][c]
Ahead(k) == \A n \in Nodes, c \in Clients : k[n][c] <= k[c][c]

LEMMA NodesOfBoth == Clients \subseteq Nodes /\ Instances \subseteq Nodes /\ Clients \cap Instances = {}
BY PresenceAssumption DEF Nodes

(* Queues: what is added at the end or left when the first is taken. *)
LEMMA QueueAppend ==
  ASSUME NEW k, NEW q \in Queue, NEW u \in Frame, AllBehind(k, q), Behind(k, u)
  PROVE  Append(q, u) \in Queue /\ AllBehind(k, Append(q, u))
<1>1. Append(q, u) \in Queue /\ Len(Append(q, u)) = Len(q) + 1 /\ Len(q) \in Nat
  BY DEF Queue
<1>2. \A j \in 1 .. Len(q) : Append(q, u)[j] = q[j]
  BY DEF Queue
<1>3. Append(q, u)[Len(q) + 1] = u
  BY DEF Queue
<1> QED
  BY <1>1, <1>2, <1>3 DEF AllBehind

LEMMA QueueTail ==
  ASSUME NEW k, NEW q \in Queue, q # <<>>, AllBehind(k, q)
  PROVE  /\ Head(q) \in Frame /\ Behind(k, Head(q))
         /\ Tail(q) \in Queue /\ AllBehind(k, Tail(q))
<1>1. Len(q) \in Nat /\ Len(q) >= 1 /\ Head(q) = q[1] /\ Head(q) \in Frame /\ Tail(q) \in Queue
  BY DEF Queue
<1>2. Len(Tail(q)) = Len(q) - 1 /\ \A j \in 1 .. Len(Tail(q)) : Tail(q)[j] = q[j + 1]
  BY DEF Queue
<1> QED
  BY <1>1, <1>2 DEF AllBehind

LEMMA QueueEmpty == \A k : <<>> \in Queue /\ AllBehind(k, <<>>)
BY DEF Queue, AllBehind

(* What was behind stays so while clients move forward. *)
LEMMA QueueForward ==
  ASSUME NEW k \in Clocks, NEW l \in Clocks, Forward(k, l), NEW q \in Queue, AllBehind(k, q)
  PROVE  AllBehind(l, q)
<1>1. ASSUME NEW j \in 1 .. Len(q), NEW e \in q[j]
      PROVE  e.clock <= l[e.id][e.id]
  <2>1. q[j] \in Frame
    BY DEF Queue
  <2>2. e.id \in Clients /\ e.clock \in Nat
    BY <2>1 DEF Frame, Entry
  <2>3. k[e.id][e.id] \in Nat /\ l[e.id][e.id] \in Nat /\ k[e.id][e.id] <= l[e.id][e.id]
    BY <2>2, NodesOfBoth DEF Clocks, Forward
  <2>4. e.clock <= k[e.id][e.id]
    BY DEF AllBehind, Behind
  <2> QED
    BY <2>2, <2>3, <2>4
<1> QED
  BY <1>1 DEF AllBehind, Behind

(* Nobody shows a client that never announced itself, and a client has. *)
Positive(k, z) == \A n \in Nodes : \A c \in z[n] \cup ({n} \cap Clients) : k[n][c] # 0

(* What a node encodes is behind the owners if the node is. *)
LEMMA EncodedBehind ==
  ASSUME clock \in Clocks, Ahead(clock), Positive(clock, shown), shown \in [Nodes -> SUBSET Clients],
         NEW n \in Nodes, NEW ids \in SUBSET shown[n]
  PROVE  /\ Encode(n, ids) \in Frame /\ Behind(clock, Encode(n, ids))
         /\ Removal(n, ids) \in Frame /\ Behind(clock, Removal(n, ids))
<1>1. ASSUME NEW c \in ids
      PROVE  c \in Clients /\ clock[n][c] \in Nat \ {0} /\ clock[n][c] <= clock[c][c]
  BY NodesOfBoth DEF Clocks, Ahead, Positive
<1>2. ASSUME NEW c \in ids
      PROVE  /\ [id |-> c, clock |-> clock[n][c], here |-> c \in shown[n]] \in Entry
             /\ [id |-> c, clock |-> clock[n][c], here |-> FALSE] \in Entry
  BY <1>1 DEF Entry
<1>3. Encode(n, ids) \in Frame /\ Removal(n, ids) \in Frame
  <2> DEFINE full(c) == [id |-> c, clock |-> clock[n][c], here |-> c \in shown[n]]
             gone(c) == [id |-> c, clock |-> clock[n][c], here |-> FALSE]
  <2>1. \A c \in ids : full(c) \in Entry /\ full(c).id = c /\ gone(c) \in Entry /\ gone(c).id = c
    BY <1>2
  <2>2. Encode(n, ids) = {full(c) : c \in ids} /\ Removal(n, ids) = {gone(c) : c \in ids}
    BY DEF Encode, Removal
  <2> HIDE DEF full, gone
  <2> QED
    BY <2>1, <2>2 DEF Frame
<1>4. Behind(clock, Encode(n, ids)) /\ Behind(clock, Removal(n, ids))
  BY <1>1 DEF Encode, Removal, Behind
<1> QED
  BY <1>3, <1>4

LEMMA FrameOne ==
  ASSUME NEW u \in Frame
  PROVE  /\ \A e \in u : /\ e \in Entry /\ e.id \in Clients /\ e.clock \in Nat \ {0}
                         /\ e.here \in BOOLEAN
         /\ \A d, e \in u : d.id = e.id => d = e
BY DEF Frame, Entry

(* applyAwarenessUpdate(), for one client: nothing is news, or one entry is. *)
LEMMA MergeNothing ==
  ASSUME NEW n \in Nodes, NEW u \in Frame, NEW c \in Clients, c \notin Ids(News(n, u))
  PROVE  /\ MergedClock(n, u)[c] = clock[n][c]
         /\ c \in MergedShown(n, u) <=> c \in shown[n]
         /\ \A x \in Relayed(n, u) : x.id # c
         /\ c \notin Added(n, u) /\ c \notin Removed(n, u)
<1>1. MergedClock(n, u)[c] = clock[n][c]
  BY DEF MergedClock
<1>2. c \in MergedShown(n, u) <=> c \in shown[n]
  BY DEF MergedShown
<1>3. c \notin Added(n, u) /\ c \notin Removed(n, u)
  BY DEF Added, Removed, Ids
<1>4. \A x \in Relayed(n, u) : x.id # c
  BY DEF Relayed, Ids
<1> QED
  BY <1>1, <1>2, <1>3, <1>4

LEMMA MergeNews ==
  ASSUME NEW n \in Nodes, NEW u \in Frame, NEW e \in News(n, u)
  PROVE  /\ e \in u /\ e.id \in Ids(News(n, u))
         /\ MergedClock(n, u)[e.id] = IF ~e.here /\ IsOwn(n, e.id) THEN e.clock + 1 ELSE e.clock
         /\ e.id \in MergedShown(n, u) <=> (IF IsOwn(n, e.id) THEN e.id \in shown[n] ELSE e.here)
         /\ e.id \in Added(n, u) <=> e.here /\ clock[n][e.id] = 0
         /\ e.id \in Removed(n, u) <=> ~e.here /\ clock[n][e.id] # 0
         /\ \A x : x \in Relayed(n, u) /\ x.id = e.id <=>
                (e.here \/ clock[n][e.id] # 0) /\
                x = [id |-> e.id, clock |-> MergedClock(n, u)[e.id], here |-> e.id \in MergedShown(n, u)]
<1> DEFINE c == e.id
<1>1. e \in u /\ c \in Clients /\ \A d \in News(n, u) : d.id = c => d = e
  BY FrameOne DEF News
<1>2. c \in Ids(News(n, u))
  BY DEF Ids
<1>3. (CHOOSE x \in News(n, u) : x.id = c) = e
  BY <1>1
<1>4. MergedClock(n, u)[c] = IF ~e.here /\ IsOwn(n, c) THEN e.clock + 1 ELSE e.clock
  BY <1>1, <1>2, <1>3 DEF MergedClock
<1>5. c \in MergedShown(n, u) <=> (IF IsOwn(n, c) THEN c \in shown[n] ELSE e.here)
  BY <1>1, <1>2 DEF MergedShown
<1>6. c \in Added(n, u) <=> e.here /\ clock[n][c] = 0
  BY <1>1 DEF Added
<1>7. c \in Removed(n, u) <=> ~e.here /\ clock[n][c] # 0
  BY <1>1 DEF Removed
<1>8. \A x : x \in Relayed(n, u) /\ x.id = c <=>
                (e.here \/ clock[n][c] # 0) /\
                x = [id |-> c, clock |-> MergedClock(n, u)[c], here |-> c \in MergedShown(n, u)]
  <2> DEFINE ids == {y.id : y \in {x \in News(n, u) : x.here \/ clock[n][x.id] # 0}}
             tells(d) == [id |-> d, clock |-> MergedClock(n, u)[d], here |-> d \in MergedShown(n, u)]
  <2>1. Relayed(n, u) = {tells(d) : d \in ids}
    BY DEF Relayed
  <2>2. c \in ids <=> (e.here \/ clock[n][c] # 0)
    BY <1>1
  <2>3. \A d : tells(d).id = d
    OBVIOUS
  <2> HIDE DEF ids, tells
  <2>4. \A x : x \in Relayed(n, u) /\ x.id = c <=> c \in ids /\ x = tells(c)
    BY <2>1, <2>3
  <2> QED
    BY <2>2, <2>4 DEF tells
<1> QED
  BY <1>1, <1>2, <1>4, <1>5, <1>6, <1>7, <1>8

(* The receiver stays behind the others, and as an owner moves forward; what it
   tells about it is behind, too. *)
LEMMA MergeBehind ==
  ASSUME clock \in Clocks, shown \in [Nodes -> SUBSET Clients], Ahead(clock), Positive(clock, shown),
         NEW n \in Nodes, NEW u \in Frame, Behind(clock, u), Merge(n, u)
  PROVE  /\ clock' \in Clocks /\ shown' \in [Nodes -> SUBSET Clients]
         /\ Ahead(clock') /\ Positive(clock', shown') /\ Forward(clock, clock')
         /\ Relayed(n, u) \in Frame /\ Behind(clock', Relayed(n, u))
         /\ Added(n, u) \subseteq Clients
<1> DEFINE m == MergedClock(n, u)
           z == MergedShown(n, u)
<1>0. \A x \in News(n, u) : /\ x \in u /\ x.id \in Clients /\ x.clock \in Nat \ {0}
                            /\ x.clock <= clock[x.id][x.id] /\ x.clock >= clock[n][x.id]
  BY FrameOne DEF News, Behind, Clocks
<1>1. ASSUME NEW c \in Clients
      PROVE  /\ m[c] \in Nat /\ (m[c] # 0 \/ (m[c] = clock[n][c] /\ (c \in z => c \in shown[n])))
             /\ n # c => m[c] <= clock[c][c]
             /\ n = c => m[c] >= clock[c][c]
             /\ c \in Ids(News(n, u)) => m[c] # 0
  <2>1. CASE c \notin Ids(News(n, u))
    BY <2>1, MergeNothing, NodesOfBoth DEF Clocks, Ahead
  <2>2. CASE c \in Ids(News(n, u))
    <3>1. PICK e \in News(n, u) : e.id = c
      BY <2>2 DEF Ids
    <3>2. m[c] = IF ~e.here /\ IsOwn(n, c) THEN e.clock + 1 ELSE e.clock
      BY <3>1, MergeNews
    <3> HIDE DEF m
    <3>3. e.clock \in Nat \ {0} /\ e.clock <= clock[c][c] /\ e.clock >= clock[n][c] /\ clock[c][c] \in Nat
      BY <1>0, <3>1, NodesOfBoth DEF Clocks
    <3>4. n # c => ~IsOwn(n, c)
      BY DEF IsOwn
    <3> QED
      BY <3>2, <3>3, <3>4
  <2> QED
    BY <2>1, <2>2
<1>2. m \in [Clients -> Nat]
  BY <1>1 DEF MergedClock
<1>3. clock' = [clock EXCEPT ![n] = m] /\ shown' = [shown EXCEPT ![n] = z]
  BY DEF Merge
<1>4. z \in SUBSET Clients
  BY DEF MergedShown
<1> HIDE DEF m, z
<1>5. clock' \in Clocks /\ shown' \in [Nodes -> SUBSET Clients]
  BY <1>2, <1>3, <1>4 DEF Clocks
<1>6. ASSUME NEW c \in Clients
      PROVE  /\ clock[c][c] <= clock'[c][c] /\ clock[c][c] \in Nat /\ clock'[c][c] \in Nat
             /\ m[c] <= clock'[c][c]
  BY <1>1, <1>3, <1>5, NodesOfBoth DEF Clocks
<1>7. Forward(clock, clock')
  BY <1>6 DEF Forward
<1>8. ASSUME NEW x \in Nodes, NEW c \in Clients
      PROVE  clock'[x][c] <= clock'[c][c]
  <2>1. CASE x = n
    BY <1>3, <1>6, <2>1 DEF Clocks
  <2>2. CASE x # n
    <3>1. clock'[x][c] = clock[x][c] /\ clock[x][c] <= clock[c][c] /\ clock[x][c] \in Nat
      BY <1>3, <2>2 DEF Clocks, Ahead
    <3> QED
      BY <1>6, <3>1
  <2> QED
    BY <2>1, <2>2
<1>9. Positive(clock', shown')
  <2>1. ASSUME NEW x \in Nodes, NEW c \in shown'[x] \cup ({x} \cap Clients)
        PROVE  clock'[x][c] # 0
    <3>1. c \in Clients
      BY <1>5, <2>1
    <3>2. CASE x # n
      BY <1>3, <2>1, <3>2 DEF Clocks, Positive
    <3>3. CASE x = n
      <4>1. clock'[x][c] = m[c] /\ (c \in z \/ c = n)
        BY <1>3, <2>1, <3>3 DEF Clocks
      <4>2. c \in shown[n] \cup ({n} \cap Clients) => clock[n][c] # 0
        BY DEF Positive
      <4> QED
        BY <1>1, <3>1, <4>1, <4>2
    <3> QED
      BY <3>2, <3>3
  <2> QED
    BY <2>1 DEF Positive
<1>10. Relayed(n, u) \in Frame /\ Behind(clock', Relayed(n, u))
  <2> DEFINE ids == {e.id : e \in {x \in News(n, u) : x.here \/ clock[n][x.id] # 0}}
             tells(c) == [id |-> c, clock |-> m[c], here |-> c \in MergedShown(n, u)]
  <2>1. ASSUME NEW c \in ids
        PROVE  c \in Clients /\ c \in Ids(News(n, u))
    BY <1>0 DEF Ids
  <2>2. Relayed(n, u) = {tells(c) : c \in ids}
    BY DEF Relayed, m
  <2>3. ASSUME NEW c \in ids
        PROVE  /\ tells(c) \in Entry /\ tells(c).clock <= clock'[tells(c).id][tells(c).id]
               /\ tells(c).id = c
    BY <1>1, <1>6, <2>1 DEF Entry
  <2> HIDE DEF ids, tells
  <2> QED
    BY <2>2, <2>3 DEF Behind, Frame
<1>11. Ahead(clock')
  BY <1>8 DEF Ahead
<1>12. Added(n, u) \subseteq Clients
  BY <1>0 DEF Added
<1> QED
  BY <1>5, <1>7, <1>9, <1>10, <1>11, <1>12

----------------------------------------------------------------------------
(* The parts of the invariant that the actions disturb. *)
Mail(k, q, D) == q \in [D -> Queue] /\ \A x \in D : AllBehind(k, q[x])
AllMail(k, q, r, b) == Mail(k, q, Sockets) /\ Mail(k, r, Sockets) /\ Mail(k, b, Instances)
Views(k, z) == k \in Clocks /\ Ahead(k) /\ z \in [Nodes -> SUBSET Clients] /\ Positive(k, z)
Places(a, k, g) ==
    /\ a \in [Sockets -> Instances \cup {None}]
    /\ k \in [Sockets -> {"none", "queued", "joined", "gone"}]
    /\ \A s \in Sockets : k[s] \in {"queued", "joined"} => a[s] \in Instances
    /\ g \in [Sockets -> SUBSET Clients]
Sides(h, l, n) ==
    /\ h \subseteq Clients /\ l \subseteq Clients
    /\ n \in [Clients -> 0 .. MaxSockets]
    /\ \A c \in l : n[c] # 0

LEMMA InvParts ==
  /\ PresenceInv <=> /\ Views(clock, shown) /\ AllMail(clock, up, down, bus)
                     /\ Places(at, conn, controlled) /\ Sides(here, linked, last)
  /\ PresenceInv' <=> /\ Views(clock', shown') /\ AllMail(clock', up', down', bus')
                      /\ Places(at', conn', controlled') /\ Sides(here', linked', last')
BY DEF PresenceInv, PresenceTypeOK, OwnerAhead, QueuesBehind, Views, AllMail, Mail, Places, Sides,
       Clocks, Ahead, Positive

(* A message more, or one less, and time going on, leave the mail behind. *)
LEMMA MailAppend ==
  ASSUME NEW k, NEW D, NEW q, Mail(k, q, D), NEW x \in D, NEW u \in Frame, Behind(k, u)
  PROVE  Mail(k, [q EXCEPT ![x] = Append(@, u)], D)
<1>1. q[x] \in Queue /\ AllBehind(k, q[x])
  BY DEF Mail
<1>2. Append(q[x], u) \in Queue /\ AllBehind(k, Append(q[x], u))
  BY <1>1, QueueAppend
<1> QED
  BY <1>2 DEF Mail

LEMMA MailTail ==
  ASSUME NEW k, NEW D, NEW q, Mail(k, q, D), NEW x \in D, q[x] # <<>>
  PROVE  /\ Mail(k, [q EXCEPT ![x] = Tail(@)], D)
         /\ Head(q[x]) \in Frame /\ Behind(k, Head(q[x]))
<1>1. q[x] \in Queue /\ AllBehind(k, q[x])
  BY DEF Mail
<1>2. /\ Tail(q[x]) \in Queue /\ AllBehind(k, Tail(q[x]))
      /\ Head(q[x]) \in Frame /\ Behind(k, Head(q[x]))
  BY <1>1, QueueTail
<1> QED
  BY <1>2 DEF Mail

LEMMA MailEmptied ==
  ASSUME NEW k, NEW D, NEW q, NEW r, Mail(k, q, D), r \in [D -> Queue],
         \A x \in D : r[x] \in {q[x], <<>>}
  PROVE  Mail(k, r, D)
BY QueueEmpty DEF Mail

LEMMA MailForward ==
  ASSUME NEW k \in Clocks, NEW l \in Clocks, Forward(k, l), NEW D, NEW q, Mail(k, q, D)
  PROVE  Mail(l, q, D)
BY QueueForward DEF Mail

LEMMA MailSent ==
  ASSUME NEW k, Mail(k, down, Sockets), NEW i, NEW origin, NEW u \in Frame, Behind(k, u)
  PROVE  Mail(k, Sent(i, u, origin), Sockets)
<1>1. ASSUME NEW s \in Sockets
      PROVE  Sent(i, u, origin)[s] \in Queue /\ AllBehind(k, Sent(i, u, origin)[s])
  <2>1. down[s] \in Queue /\ AllBehind(k, down[s])
    BY DEF Mail
  <2>2. Append(down[s], u) \in Queue /\ AllBehind(k, Append(down[s], u))
    BY <2>1, QueueAppend
  <2> QED
    BY <2>1, <2>2 DEF Sent
<1> QED
  BY <1>1 DEF Mail, Sent

LEMMA MailPublished ==
  ASSUME NEW k, NEW b, Mail(k, b, Instances), NEW i, NEW u \in Frame, Behind(k, u)
  PROVE  Mail(k, Published(b, i, u), Instances)
<1>1. ASSUME NEW j \in Instances
      PROVE  Published(b, i, u)[j] \in Queue /\ AllBehind(k, Published(b, i, u)[j])
  <2>1. b[j] \in Queue /\ AllBehind(k, b[j])
    BY DEF Mail
  <2>2. Append(b[j], u) \in Queue /\ AllBehind(k, Append(b[j], u))
    BY <2>1, QueueAppend
  <2> QED
    BY <2>1, <2>2 DEF Published
<1> QED
  BY <1>1 DEF Mail, Published

LEMMA MailSpread ==
  ASSUME NEW k, Mail(k, down, Sockets), Mail(k, bus, Instances), NEW i, NEW origin,
         NEW u \in Frame, Behind(k, u), Spread(i, u, origin)
  PROVE  Mail(k, down', Sockets) /\ Mail(k, bus', Instances)
<1>1. Mail(k, Sent(i, u, origin), Sockets) /\ Mail(k, Published(bus, i, u), Instances)
  BY MailSent, MailPublished
<1> QED
  BY <1>1 DEF Spread

(* Removing others leaves the clocks alone; a node that starts over knows nothing
   of others. *)
LEMMA ForgetViews ==
  ASSUME Views(clock, shown), NEW n, NEW ids, Forget(n, ids)
  PROVE  Views(clock', shown') /\ clock' = clock
BY DEF Views, Forget, Positive

LEMMA RestartViews ==
  ASSUME Views(clock, shown), NEW i \in Instances,
         shown' = [shown EXCEPT ![i] = {}], clock' = [clock EXCEPT ![i] = NoClocks]
  PROVE  Views(clock', shown') /\ Forward(clock, clock')
<1>1. NoClocks \in [Clients -> Nat] /\ \A c \in Clients : NoClocks[c] = 0
  BY DEF NoClocks
<1>2. clock' \in Clocks /\ shown' \in [Nodes -> SUBSET Clients]
  BY <1>1 DEF Views, Clocks
<1>3. \A c \in Clients : c # i /\ clock'[c][c] = clock[c][c] /\ clock[c][c] \in Nat
  BY NodesOfBoth DEF Views, Clocks
<1>4. ASSUME NEW n \in Nodes, NEW c \in Clients
      PROVE  clock'[n][c] <= clock'[c][c]
  <2>1. CASE n = i
    BY <1>1, <1>3, <2>1 DEF Views, Clocks
  <2>2. CASE n # i
    BY <1>3, <2>2 DEF Views, Clocks, Ahead
  <2> QED
    BY <2>1, <2>2
<1>5. Positive(clock', shown')
  BY <1>2, NodesOfBoth DEF Views, Clocks, Positive
<1> QED
  BY <1>2, <1>3, <1>4, <1>5 DEF Views, Forward, Ahead

(* A client that announces itself, or leaves, moves forward. *)
LEMMA OwnViews ==
  ASSUME clock \in Clocks, Ahead(clock), Positive(clock, shown),
         NEW c \in Clients, NEW m \in [Clients -> Nat],
         m[c] >= clock[c][c], \A d \in Clients \ {c} : m[d] <= clock[c][d],
         NEW z, \A n \in Nodes : z[n] \subseteq shown[n],
         \A d \in z[c] \ {c} : m[d] = clock[c][d]
  PROVE  /\ [clock EXCEPT ![c] = m] \in Clocks /\ Positive([clock EXCEPT ![c] = m], z)
         /\ Ahead([clock EXCEPT ![c] = m]) /\ Forward(clock, [clock EXCEPT ![c] = m])
<1> DEFINE l == [clock EXCEPT ![c] = m]
<1>1. l \in Clocks /\ c \in Nodes
  BY NodesOfBoth DEF Clocks
<1>2. l[c] = m /\ \A n \in Nodes \ {c} : l[n] = clock[n]
  BY <1>1 DEF Clocks
<1> HIDE DEF l
<1>3. ASSUME NEW n \in Nodes, NEW d \in Clients
      PROVE  /\ l[n][d] \in Nat /\ clock[n][d] \in Nat
             /\ clock[n][d] <= clock[d][d] /\ clock[d][d] \in Nat
  BY <1>1, NodesOfBoth DEF Clocks, Ahead
<1>4. ASSUME NEW d \in Clients
      PROVE  clock[d][d] <= l[d][d] /\ l[d][d] \in Nat
  BY <1>2, <1>3, NodesOfBoth
<1>5. ASSUME NEW n \in Nodes, NEW d \in Clients
      PROVE  l[n][d] <= l[d][d]
  <2>1. CASE n # c
    BY <1>2, <1>3, <1>4, <2>1
  <2>2. CASE n = c /\ d # c
    <3>1. l[n][d] <= clock[c][d]
      BY <1>2, <2>2
    <3> QED
      BY <1>1, <1>3, <1>4, <2>2, <3>1
  <2>3. CASE n = c /\ d = c
    BY <1>4, <2>3
  <2> QED
    BY <2>1, <2>2, <2>3
<1>6. Ahead(l) /\ Forward(clock, l)
  BY <1>4, <1>5 DEF Ahead, Forward
<1>7. Positive(l, z)
  <2>1. ASSUME NEW n \in Nodes, NEW d \in z[n] \cup ({n} \cap Clients)
        PROVE  l[n][d] # 0
    <3>1. clock[n][d] # 0
      BY DEF Positive
    <3>2. CASE n # c
      BY <1>2, <3>1, <3>2
    <3>3. CASE n = c /\ d # c
      BY <1>2, <2>1, <3>1, <3>3
    <3>4. CASE n = c /\ d = c
      <4>1. m[c] \in Nat /\ clock[c][c] \in Nat /\ clock[c][c] # 0
        BY <1>1, <3>1, <3>4 DEF Clocks
      <4> QED
        BY <1>2, <3>4, <4>1
    <3> QED
      BY <3>2, <3>3, <3>4
  <2> QED
    BY <2>1 DEF Positive
<1> QED
  BY <1>1, <1>6, <1>7 DEF l

LEMMA OwnFrame ==
  ASSUME NEW c \in Clients, NEW t \in Nat \ {0}, NEW h \in BOOLEAN
  PROVE  Own(c, t, h) \in Frame
<1>1. [id |-> c, clock |-> t, here |-> h] \in Entry
  BY DEF Entry
<1>2. Own(c, t, h) \in SUBSET Entry /\ \A d, e \in Own(c, t, h) : d = e
  BY <1>1 DEF Own
<1> QED
  BY <1>2 DEF Frame

LEMMA OwnBehind ==
  ASSUME NEW k \in Clocks, NEW c \in Clients, NEW t \in Nat \ {0}, t <= k[c][c]
  PROVE  /\ Own(c, t, TRUE) \in Frame /\ Behind(k, Own(c, t, TRUE))
         /\ Own(c, t, FALSE) \in Frame /\ Behind(k, Own(c, t, FALSE))
<1>1. \A h \in BOOLEAN : \A e \in Own(c, t, h) : e.clock = t /\ e.id = c
  BY DEF Own
<1> QED
  BY <1>1, OwnFrame DEF Behind

LEMMA MailSentUp ==
  ASSUME NEW k, Mail(k, up, Sockets), NEW c \in Clients, NEW u \in Frame, Behind(k, u),
         Sides(here, linked, last)
  PROVE  Mail(k, SentUp(c, u), Sockets)
<1>1. CASE c \in Online
  <2>1. Current(c) \in Sockets
    BY <1>1 DEF Online, Current, Sockets, Sides
  <2> QED
    BY <1>1, <2>1, MailAppend DEF SentUp
<1>2. CASE c \notin Online
  BY <1>2 DEF SentUp
<1> QED
  BY <1>1, <1>2

----------------------------------------------------------------------------
LEMMA InvInit == Init => PresenceInv
<1> SUFFICES ASSUME Init PROVE PresenceInv
  OBVIOUS
<1>1. Views(clock, shown)
  <2>1. clock = [n \in Nodes |-> [c \in Clients |-> IF n = c THEN 1 ELSE 0]]
    BY DEF Init
  <2>2. clock \in Clocks
    BY <2>1 DEF Clocks
  <2>3. Ahead(clock)
    BY <2>1, NodesOfBoth DEF Ahead
  <2>4. shown \in [Nodes -> SUBSET Clients]
    BY DEF Init
  <2>5. Positive(clock, shown)
    <3>1. ASSUME NEW n \in Nodes, NEW c \in shown[n] \cup ({n} \cap Clients)
          PROVE  clock[n][c] # 0
      <4>1. c = n /\ c \in Clients
        BY DEF Init
      <4> QED
        BY <2>1, <4>1
    <3> QED
      BY <3>1 DEF Positive
  <2> QED
    BY <2>2, <2>3, <2>4, <2>5 DEF Views
<1>2. AllMail(clock, up, down, bus)
  BY QueueEmpty DEF Init, AllMail, Mail
<1>3. Places(at, conn, controlled)
  BY DEF Init, Places
<1>4. Sides(here, linked, last)
  BY PresenceAssumption DEF Init, Sides
<1> QED
  BY <1>1, <1>2, <1>3, <1>4, InvParts

(* Every step keeps every view and every message behind the client it is about. *)
LEMMA InvStep == PresenceInv /\ [Next]_vars => PresenceInv'
<1> SUFFICES ASSUME PresenceInv, [Next]_vars PROVE PresenceInv'
  OBVIOUS
<1>0. /\ Views(clock, shown) /\ clock \in Clocks /\ Ahead(clock)
      /\ shown \in [Nodes -> SUBSET Clients] /\ Positive(clock, shown)
      /\ Mail(clock, up, Sockets) /\ Mail(clock, down, Sockets) /\ Mail(clock, bus, Instances)
      /\ Places(at, conn, controlled) /\ Sides(here, linked, last)
  BY InvParts DEF Views, AllMail
<1>1. ASSUME NEW c \in Clients, NEW i \in Instances, Open(c, i)
      PROVE  PresenceInv'
  <2> DEFINE s == Current(c)'
             u == Own(c, clock[c][c], TRUE)
  <2>1. s = <<c, last[c] + 1>> /\ s \in Sockets /\ last' = [last EXCEPT ![c] = last[c] + 1]
    BY <1>0, <1>1, PresenceAssumption DEF Open, Current, Sockets, Sides
  <2>2. Sides(here', linked', last')
    BY <1>0, <1>1, <2>1, PresenceAssumption DEF Open, Sides
  <2>3. /\ at' = [at EXCEPT ![s] = i] /\ conn' = [conn EXCEPT ![s] = "queued"]
        /\ controlled' = controlled /\ up' = [up EXCEPT ![s] = <<u>>]
        /\ down' = down /\ bus' = bus /\ clock' = clock /\ shown' = shown
    BY <1>1 DEF Open, awareness
  <2> HIDE DEF s
  <2>4. Places(at', conn', controlled')
    BY <1>0, <2>1, <2>3 DEF Places
  <2>5. u \in Frame /\ Behind(clock, u)
    <3>1. clock[c][c] \in Nat \ {0} /\ clock[c][c] <= clock[c][c]
      BY <1>0, NodesOfBoth DEF Clocks, Positive
    <3> QED
      BY <1>0, <3>1, OwnBehind
  <2>6. <<u>> \in Queue /\ AllBehind(clock, <<u>>)
    <3>1. <<u>> = Append(<<>>, u)
      OBVIOUS
    <3> QED
      BY <2>5, <3>1, QueueEmpty, QueueAppend
  <2>7. Mail(clock, up', Sockets)
    BY <1>0, <2>1, <2>3, <2>6 DEF Mail
  <2> QED
    BY <1>0, <2>2, <2>3, <2>4, <2>7, InvParts DEF AllMail
<1>2. ASSUME NEW c \in Clients, Announce(c)
      PROVE  PresenceInv'
  <2> DEFINE m == [clock[c] EXCEPT ![c] = clock[c][c] + 1]
             u == Own(c, clock[c][c] + 1, TRUE)
  <2>1. clock[c] \in [Clients -> Nat] /\ clock[c][c] \in Nat /\ c \in Nodes
    BY <1>0, NodesOfBoth DEF Clocks
  <2>2. m \in [Clients -> Nat] /\ m[c] = clock[c][c] + 1 /\ \A d \in Clients \ {c} : m[d] = clock[c][d]
    BY <2>1
  <2>3. clock' = [clock EXCEPT ![c] = m]
    BY <1>2 DEF Announce
  <2> HIDE DEF m
  <2>4. clock' \in Clocks /\ Ahead(clock') /\ Forward(clock, clock') /\ Positive(clock', shown)
    <3>1. m[c] >= clock[c][c] /\ \A d \in Clients \ {c} : m[d] <= clock[c][d]
      BY <2>1, <2>2
    <3>2. \A d \in shown[c] \ {c} : m[d] = clock[c][d]
      BY <1>0, <2>1, <2>2
    <3> QED
      BY <1>0, <2>2, <2>3, <3>1, <3>2, OwnViews
  <2>5. clock'[c][c] = clock[c][c] + 1
    BY <1>0, <2>1, <2>2, <2>3 DEF Clocks
  <2>6. u \in Frame /\ Behind(clock', u)
    <3>1. clock[c][c] + 1 \in Nat \ {0} /\ clock[c][c] + 1 <= clock'[c][c]
      BY <2>1, <2>5
    <3> QED
      BY <2>4, <3>1, OwnBehind
  <2>7. Mail(clock', up, Sockets) /\ Mail(clock', down, Sockets) /\ Mail(clock', bus, Instances)
    BY <1>0, <2>4, MailForward
  <2>8. Mail(clock', SentUp(c, u), Sockets)
    BY <1>0, <2>6, <2>7, MailSentUp
  <2>9. /\ up' = SentUp(c, u) /\ down' = down /\ bus' = bus /\ shown' = shown
        /\ at' = at /\ conn' = conn /\ controlled' = controlled
        /\ here' = here /\ linked' = linked /\ last' = last
    BY <1>2 DEF Announce, server
  <2>10. Views(clock', shown')
    BY <1>0, <2>4, <2>9 DEF Views
  <2> QED
    BY <1>0, <2>7, <2>8, <2>9, <2>10, InvParts DEF AllMail
<1>3. ASSUME NEW c \in Clients, Receive(c)
      PROVE  PresenceInv'
  <2> DEFINE s == Current(c)
  <2>1. s \in Sockets /\ down[s] # <<>> /\ c \in Nodes
    BY <1>0, <1>3, NodesOfBoth DEF Receive, Current, Sockets, Sides
  <2>2. /\ Merge(c, Head(down[s])) /\ down' = [down EXCEPT ![s] = Tail(@)]
        /\ up' = up /\ bus' = bus /\ UNCHANGED <<here, linked, last, at, conn, controlled>>
    BY <1>3 DEF Receive, provider, server
  <2> HIDE DEF s
  <2>3. /\ Head(down[s]) \in Frame /\ Behind(clock, Head(down[s]))
        /\ Mail(clock, down', Sockets)
    BY <1>0, <2>1, <2>2, MailTail
  <2>4. Views(clock', shown') /\ clock' \in Clocks /\ Forward(clock, clock')
    BY <1>0, <2>1, <2>2, <2>3, MergeBehind DEF Views
  <2>5. Mail(clock', up, Sockets) /\ Mail(clock', down', Sockets) /\ Mail(clock', bus, Instances)
    BY <1>0, <2>3, <2>4, MailForward
  <2> QED
    BY <1>0, <2>2, <2>4, <2>5, InvParts DEF AllMail
<1>4. ASSUME NEW c \in Clients, Lost(c)
      PROVE  PresenceInv'
  <2>1. /\ Forget(c, Clients \ {c})
        /\ linked' = linked \ {c} /\ here' = here /\ last' = last
        /\ UNCHANGED <<at, conn, controlled, up, down, bus>>
    BY <1>4 DEF Lost, server
  <2>2. Views(clock', shown') /\ clock' = clock
    BY <1>0, <2>1, ForgetViews
  <2>3. Sides(here', linked', last')
    BY <1>0, <2>1 DEF Sides
  <2> QED
    BY <1>0, <2>1, <2>2, <2>3, InvParts DEF AllMail
<1>5. ASSUME NEW c \in Clients, NEW says \in BOOLEAN, Leave(c, says)
      PROVE  PresenceInv'
  <2> DEFINE k == IF says THEN clock[c][c] + 1 ELSE clock[c][c]
             m == Only(c, k)
             u == Own(c, clock[c][c] + 1, FALSE)
  <2>1. clock[c] \in [Clients -> Nat] /\ clock[c][c] \in Nat /\ c \in Nodes
    BY <1>0, NodesOfBoth DEF Clocks
  <2>2. k \in Nat /\ k >= clock[c][c] /\ (says => k = clock[c][c] + 1)
    BY <2>1
  <2>3. clock' = [clock EXCEPT ![c] = m]
    BY <1>0, <1>5, <2>1 DEF Leave, Clocks
  <2> HIDE DEF k
  <2>4. m \in [Clients -> Nat] /\ m[c] = k /\ \A d \in Clients \ {c} : m[d] = 0
    BY <2>2 DEF Only, NoClocks
  <2> HIDE DEF m
  <2>5. clock' \in Clocks /\ Ahead(clock') /\ Forward(clock, clock') /\ Positive(clock', shown')
    <3>1. m[c] >= clock[c][c] /\ \A d \in Clients \ {c} : m[d] <= clock[c][d]
      BY <2>1, <2>2, <2>4
    <3>2. shown' = [shown EXCEPT ![c] = {}]
      BY <1>5 DEF Leave
    <3>3. shown'[c] = {} /\ \A n \in Nodes : shown'[n] \subseteq shown[n]
      BY <1>0, <2>1, <3>2
    <3> QED
      BY <1>0, <2>3, <2>4, <3>1, <3>3, OwnViews
  <2>6. Mail(clock', up, Sockets) /\ Mail(clock', down, Sockets) /\ Mail(clock', bus, Instances)
    BY <1>0, <2>5, MailForward
  <2>7. Mail(clock', up', Sockets)
    <3>1. CASE says
      <4>1. clock'[c][c] = clock[c][c] + 1
        BY <1>0, <2>1, <2>2, <2>3, <2>4, <3>1 DEF Clocks
      <4>2. u \in Frame /\ Behind(clock', u)
        <5>1. clock[c][c] + 1 \in Nat \ {0} /\ clock[c][c] + 1 <= clock'[c][c]
          BY <2>1, <4>1
        <5> QED
          BY <2>5, <5>1, OwnBehind
      <4>3. Mail(clock', SentUp(c, u), Sockets)
        BY <1>0, <2>6, <4>2, MailSentUp
      <4> QED
        BY <1>5, <3>1, <4>3 DEF Leave
    <3>2. CASE ~says
      BY <1>5, <2>6, <3>2 DEF Leave
    <3> QED
      BY <3>1, <3>2
  <2>8. Mail(clock', down', Sockets)
    <3>1. down' = [s \in Sockets |-> IF s[1] = c THEN <<>> ELSE down[s]]
      BY <1>5 DEF Leave
    <3>2. down' \in [Sockets -> Queue] /\ \A s \in Sockets : down'[s] \in {down[s], <<>>}
      BY <2>6, <3>1, QueueEmpty DEF Mail
    <3> QED
      BY <2>6, <3>2, MailEmptied
  <2>9. /\ shown' = [shown EXCEPT ![c] = {}] /\ bus' = bus
        /\ here' = here \ {c} /\ linked' = linked \ {c} /\ last' = last
        /\ at' = at /\ conn' = conn /\ controlled' = controlled
    BY <1>5 DEF Leave, server
  <2>10. Views(clock', shown') /\ Sides(here', linked', last')
    BY <1>0, <2>5, <2>9 DEF Views, Sides
  <2> QED
    BY <1>0, <2>6, <2>7, <2>8, <2>9, <2>10, InvParts DEF AllMail
<1>6. ASSUME NEW n \in Nodes, NEW c \in Clients, Expire(n, c)
      PROVE  PresenceInv'
  <2>1. Forget(n, {c}) /\ UNCHANGED <<here, linked, last, at, conn, controlled>>
    BY <1>6 DEF Expire, provider, server
  <2>2. Views(clock', shown') /\ clock' = clock
    BY <1>0, <2>1, ForgetViews
  <2>3. Removal(n, {c}) \in Frame /\ Behind(clock, Removal(n, {c}))
    <3>1. {c} \in SUBSET shown[n]
      BY <1>6 DEF Expire
    <3> QED
      BY <1>0, <3>1, EncodedBehind
  <2>4. CASE n \in Clients
    <3>1. up' = SentUp(n, Removal(n, {c})) /\ down' = down /\ bus' = bus
      BY <1>6, <2>4 DEF Expire
    <3>2. Mail(clock, up', Sockets)
      BY <1>0, <2>3, <2>4, <3>1, MailSentUp
    <3> QED
      BY <1>0, <2>1, <2>2, <3>1, <3>2, InvParts DEF AllMail
  <2>5. CASE n \notin Clients
    <3>1. Spread(n, Removal(n, {c}), {}) /\ up' = up
      BY <1>6, <2>5 DEF Expire
    <3>2. Mail(clock, down', Sockets) /\ Mail(clock, bus', Instances)
      BY <1>0, <2>3, <3>1, MailSpread
    <3> QED
      BY <1>0, <2>1, <2>2, <3>1, <3>2, InvParts DEF AllMail
  <2> QED
    BY <2>4, <2>5
<1>7. ASSUME NEW s \in Sockets, Join(s)
      PROVE  PresenceInv'
  <2> DEFINE i == at[s]
             u == Encode(i, shown[i])
  <2>1. i \in Instances /\ i \in Nodes /\ shown[i] \in SUBSET Clients
    BY <1>0, <1>7, NodesOfBoth DEF Join, Places
  <2>2. u \in Frame /\ Behind(clock, u) /\ Request \in Frame /\ Behind(clock, Request)
    <3>1. Request \in Frame /\ Behind(clock, Request)
      BY DEF Request, Behind, Frame
    <3> QED
      BY <1>0, <2>1, <3>1, EncodedBehind
  <2>3. /\ conn' = [conn EXCEPT ![s] = "joined"]
        /\ down' = IF Reader(s) /\ u # {} THEN [down EXCEPT ![s] = Append(@, u)] ELSE down
        /\ bus' = IF IsRoom(i) THEN bus ELSE Published(bus, i, Request)
        /\ UNCHANGED <<clock, shown, here, linked, last, at, controlled, up>>
    BY <1>7 DEF Join, awareness, provider
  <2>4. Mail(clock, [down EXCEPT ![s] = Append(@, u)], Sockets)
    BY <1>0, <2>2, MailAppend
  <2>5. Mail(clock, Published(bus, i, Request), Instances)
    BY <1>0, <2>2, MailPublished
  <2>6. Mail(clock, down', Sockets) /\ Mail(clock, bus', Instances)
    BY <1>0, <2>3, <2>4, <2>5
  <2>7. Places(at', conn', controlled')
    BY <1>0, <1>7, <2>1, <2>3 DEF Places
  <2> QED
    BY <1>0, <2>3, <2>6, <2>7, InvParts DEF AllMail
<1>8. ASSUME NEW s \in Sockets, HandleAwareness(s)
      PROVE  PresenceInv'
  <2> DEFINE i == at[s]
             u == Head(up[s])
  <2>1. i \in Instances /\ i \in Nodes /\ up[s] # <<>>
    BY <1>0, <1>8, NodesOfBoth DEF HandleAwareness, Places
  <2>2. /\ up' = [up EXCEPT ![s] = Tail(@)] /\ Merge(i, u)
        /\ controlled' = [controlled EXCEPT ![s] = (@ \cup Added(i, u)) \ Removed(i, u)]
        /\ Spread(i, Relayed(i, u), {s})
        /\ UNCHANGED <<here, linked, last, at, conn>>
    BY <1>8 DEF HandleAwareness, provider
  <2>3. u \in Frame /\ Behind(clock, u) /\ Mail(clock, up', Sockets)
    BY <1>0, <2>1, <2>2, MailTail
  <2> HIDE DEF i, u
  <2>4. /\ Views(clock', shown') /\ clock' \in Clocks /\ Forward(clock, clock')
        /\ Relayed(i, u) \in Frame /\ Behind(clock', Relayed(i, u))
        /\ Added(i, u) \subseteq Clients
    BY <1>0, <2>1, <2>2, <2>3, MergeBehind DEF Views
  <2>5. Mail(clock', up', Sockets) /\ Mail(clock', down, Sockets) /\ Mail(clock', bus, Instances)
    BY <1>0, <2>3, <2>4, MailForward
  <2>6. Mail(clock', down', Sockets) /\ Mail(clock', bus', Instances)
    BY <2>2, <2>4, <2>5, MailSpread
  <2>7. Places(at', conn', controlled')
    BY <1>0, <2>2, <2>4 DEF Places
  <2> QED
    BY <1>0, <2>2, <2>4, <2>5, <2>6, <2>7, InvParts DEF AllMail
<1>9. ASSUME NEW s \in Sockets, SocketClosed(s)
      PROVE  PresenceInv'
  <2> DEFINE i == at[s]
             gone == Removal(i, controlled[s] \cap shown[i])
  <2>1. i \in Instances /\ i \in Nodes /\ controlled[s] \in SUBSET Clients
    BY <1>0, <1>9, NodesOfBoth DEF SocketClosed, Places
  <2>2. gone \in Frame /\ Behind(clock, gone)
    BY <1>0, <2>1, EncodedBehind
  <2>3. /\ conn' = [conn EXCEPT ![s] = "gone"] /\ at' = [at EXCEPT ![s] = None]
        /\ controlled' = [controlled EXCEPT ![s] = {}]
        /\ UNCHANGED <<here, linked, last, up>>
    BY <1>9 DEF SocketClosed, provider
  <2>4. Places(at', conn', controlled')
    BY <1>0, <2>3 DEF Places
  <2>5. CASE Members(i) \ {s} # {}
    <3>1. Spread(i, gone, {s}) /\ Forget(i, Ids(gone))
      BY <1>9, <2>5 DEF SocketClosed
    <3>2. Mail(clock, down', Sockets) /\ Mail(clock, bus', Instances)
      BY <1>0, <2>2, <3>1, MailSpread
    <3>3. Views(clock', shown') /\ clock' = clock
      BY <1>0, <3>1, ForgetViews
    <3> QED
      BY <1>0, <2>3, <2>4, <3>2, <3>3, InvParts DEF AllMail
  <2>6. CASE Members(i) \ {s} = {}
    <3> DEFINE b == IF gone = {} THEN bus ELSE Published(bus, i, gone)
    <3>1. /\ bus' = [b EXCEPT ![i] = <<>>] /\ down' = down
          /\ shown' = [shown EXCEPT ![i] = {}] /\ clock' = [clock EXCEPT ![i] = NoClocks]
      BY <1>9, <2>6 DEF SocketClosed
    <3>2. Mail(clock, b, Instances)
      BY <1>0, <2>2, MailPublished
    <3> HIDE DEF b
    <3>3. Views(clock', shown') /\ Forward(clock, clock')
      BY <1>0, <2>1, <3>1, RestartViews
    <3>4. Mail(clock, bus', Instances)
      BY <2>1, <3>1, <3>2, QueueEmpty DEF Mail
    <3>5. Mail(clock', up, Sockets) /\ Mail(clock', down, Sockets) /\ Mail(clock', bus', Instances)
      BY <1>0, <3>3, <3>4, MailForward DEF Views
    <3> QED
      BY <1>0, <2>3, <2>4, <3>1, <3>3, <3>5, InvParts DEF AllMail
  <2> QED
    BY <2>5, <2>6
<1>10. ASSUME NEW i \in Instances, ReceiveBus(i)
       PROVE  PresenceInv'
  <2> DEFINE u == Head(bus[i])
             rest == [bus EXCEPT ![i] = Tail(@)]
  <2>1. bus[i] # <<>> /\ i \in Nodes /\ shown[i] \in SUBSET Clients
    BY <1>0, <1>10, NodesOfBoth DEF ReceiveBus
  <2>2. u \in Frame /\ Behind(clock, u) /\ Mail(clock, rest, Instances)
    BY <1>0, <2>1, MailTail
  <2>3. UNCHANGED <<here, linked, last, at, conn, controlled, up>>
    BY <1>10 DEF ReceiveBus, provider, server
  <2>4. CASE u = Request
    <3>1. /\ bus' = IF shown[i] = {} THEN rest ELSE Published(rest, i, Encode(i, shown[i]))
          /\ clock' = clock /\ shown' = shown /\ down' = down
      BY <1>10, <2>4 DEF ReceiveBus, awareness
    <3>2. Encode(i, shown[i]) \in Frame /\ Behind(clock, Encode(i, shown[i]))
      BY <1>0, <2>1, EncodedBehind
    <3>3. Mail(clock, Published(rest, i, Encode(i, shown[i])), Instances)
      BY <2>2, <3>2, MailPublished
    <3>4. Mail(clock, bus', Instances)
      BY <2>2, <3>1, <3>3
    <3> QED
      BY <1>0, <2>3, <3>1, <3>4, InvParts DEF AllMail
  <2>5. CASE u # Request
    <3>1. Merge(i, u) /\ down' = Sent(i, Relayed(i, u), {}) /\ bus' = rest
      BY <1>10, <2>5 DEF ReceiveBus
    <3> HIDE DEF u, rest
    <3>2. /\ Views(clock', shown') /\ clock' \in Clocks /\ Forward(clock, clock')
          /\ Relayed(i, u) \in Frame /\ Behind(clock', Relayed(i, u))
      BY <1>0, <2>1, <2>2, <3>1, MergeBehind DEF Views
    <3>3. Mail(clock', up, Sockets) /\ Mail(clock', down, Sockets) /\ Mail(clock', rest, Instances)
      BY <1>0, <2>2, <3>2, MailForward
    <3>4. Mail(clock', down', Sockets)
      BY <3>1, <3>2, <3>3, MailSent
    <3> QED
      BY <1>0, <2>3, <3>1, <3>2, <3>3, <3>4, InvParts DEF AllMail
  <2> QED
    BY <2>4, <2>5
<1>11. ASSUME NEW c \in Clients, Break(c)
       PROVE  PresenceInv'
  <2> DEFINE s == Current(c)
  <2>1. /\ up' = [up EXCEPT ![s] = <<>>] /\ down' = [down EXCEPT ![s] = <<>>]
        /\ UNCHANGED <<clock, shown, here, linked, last, at, conn, controlled, bus>>
    BY <1>11 DEF Break, awareness, provider, server
  <2> HIDE DEF s
  <2>2. /\ up' \in [Sockets -> Queue] /\ \A x \in Sockets : up'[x] \in {up[x], <<>>}
        /\ down' \in [Sockets -> Queue] /\ \A x \in Sockets : down'[x] \in {down[x], <<>>}
    BY <1>0, <2>1, QueueEmpty DEF Mail
  <2>3. Mail(clock, up', Sockets) /\ Mail(clock, down', Sockets)
    BY <1>0, <2>2, MailEmptied
  <2> QED
    BY <1>0, <2>1, <2>3, InvParts DEF AllMail
<1>12. ASSUME NEW s \in Sockets, Drop(s)
       PROVE  PresenceInv'
  <2>1. UNCHANGED <<clock, shown, here, linked, last, at, conn, controlled, bus>>
    BY <1>12 DEF Drop, awareness, provider, server
  <2>2. Mail(clock, up', Sockets) /\ Mail(clock, down', Sockets)
    <3>1. CASE up[s] # <<>> /\ up' = [up EXCEPT ![s] = Tail(@)] /\ down' = down
      BY <1>0, <3>1, MailTail
    <3>2. CASE down[s] # <<>> /\ down' = [down EXCEPT ![s] = Tail(@)] /\ up' = up
      BY <1>0, <3>2, MailTail
    <3> QED
      BY <1>12, <3>1, <3>2 DEF Drop
  <2> QED
    BY <1>0, <2>1, <2>2, InvParts DEF AllMail
<1>13. ASSUME NEW i \in Instances, Crash(i)
       PROVE  PresenceInv'
  <2> DEFINE dead == {s \in Sockets : at[s] = i /\ conn[s] \in {"queued", "joined"}}
  <2>1. /\ conn' = [s \in Sockets |-> IF s \in dead THEN "gone" ELSE conn[s]]
        /\ at' = [s \in Sockets |-> IF s \in dead THEN None ELSE at[s]]
        /\ controlled' = [s \in Sockets |-> IF s \in dead THEN {} ELSE controlled[s]]
        /\ up' = [s \in Sockets |-> IF s \in dead THEN <<>> ELSE up[s]]
        /\ down' = [s \in Sockets |-> IF s \in dead THEN <<>> ELSE down[s]]
        /\ bus' = [bus EXCEPT ![i] = <<>>]
        /\ shown' = [shown EXCEPT ![i] = {}] /\ clock' = [clock EXCEPT ![i] = NoClocks]
        /\ here' = here /\ linked' = linked /\ last' = last
    BY <1>13 DEF Crash, provider
  <2> HIDE DEF dead
  <2>2. Places(at', conn', controlled')
    BY <1>0, <2>1 DEF Places
  <2>3. Views(clock', shown') /\ Forward(clock, clock') /\ clock' \in Clocks
    BY <1>0, <2>1, RestartViews DEF Views
  <2>4. /\ up' \in [Sockets -> Queue] /\ \A x \in Sockets : up'[x] \in {up[x], <<>>}
        /\ down' \in [Sockets -> Queue] /\ \A x \in Sockets : down'[x] \in {down[x], <<>>}
        /\ bus' \in [Instances -> Queue] /\ \A x \in Instances : bus'[x] \in {bus[x], <<>>}
    BY <1>0, <2>1, QueueEmpty DEF Mail
  <2>5. Mail(clock, up', Sockets) /\ Mail(clock, down', Sockets) /\ Mail(clock, bus', Instances)
    BY <1>0, <2>4, MailEmptied
  <2>6. Mail(clock', up', Sockets) /\ Mail(clock', down', Sockets) /\ Mail(clock', bus', Instances)
    BY <1>0, <2>3, <2>5, MailForward
  <2> QED
    BY <1>0, <2>1, <2>2, <2>3, <2>6, InvParts DEF AllMail
<1>14. CASE UNCHANGED vars
  <2>1. UNCHANGED <<clock, shown, here, linked, last, at, conn, controlled, up, down, bus>>
    BY <1>14 DEF vars, awareness, provider, server
  <2> QED
    BY <1>0, <2>1, InvParts DEF AllMail
<1> QED
  BY <1>1, <1>2, <1>3, <1>4, <1>5, <1>6, <1>7, <1>8, <1>9, <1>10, <1>11, <1>12, <1>13, <1>14
  DEF Next

(* The inductive invariant holds always: types, views and messages. *)
THEOREM PresenceInvariant == Spec => []PresenceInv
BY InvInit, InvStep, PTL DEF Spec

(* No room and no other client ever knows a later clock of a client than the client
   itself, whatever is dropped, cut off or restarted: what the client announces next
   is news to all of them (room.ts, provider.ts). *)
THEOREM OwnersAreAhead == Spec => []OwnerAhead
<1>1. PresenceInv => OwnerAhead
  BY DEF PresenceInv
<1> QED
  BY <1>1, PresenceInvariant, PTL

----------------------------------------------------------------------------
(* Who is shown again.  The invariant behind PresenceReturns: a client that has
   announced itself to others is either going to hear that it was removed, and
   moves its clock, or nobody removes it and each of the others has the
   announcement, or it is still on its way to it. *)

(* The sockets of a client, and a room that has no members. *)
SocketIs(s) ==
    /\ conn[s] = "none" <=> s[2] > last[s[1]]
    /\ up[s] # <<>> => /\ conn[s] \in {"queued", "joined"} /\ s = Current(s[1])
                       /\ s[1] \notin here \/ s[1] \in Online
    /\ down[s] # <<>> => Reader(s) /\ conn[s] = "joined"
    /\ controlled[s] \subseteq {s[1]}
    /\ \A e \in Entries(up[s]) : IF e.here THEN e.id = s[1] ELSE e.id = s[1] => s[1] \notin here
ClientIs(c) ==
    /\ c \in Online => conn[Current(c)] \in {"queued", "joined"}
    /\ c \in here => c \in shown[c]
    /\ shown[c] \subseteq {c} \/ (c \in linked /\ conn[Current(c)] # "queued")
RoomIs(i) == ~IsRoom(i) => bus[i] = <<>> /\ shown[i] = {} /\ clock[i] = NoClocks

SocketsInv ==
    /\ linked \subseteq here /\ cut \subseteq {Current(c) : c \in linked}
    /\ \A s \in Sockets : SocketIs(s)
    /\ \A c \in Clients : ClientIs(c)
    /\ \A i \in Instances : RoomIs(i)

(* The entries of a queue. *)
LEMMA EntriesEmpty == Entries(<<>>) = {}
BY DEF Entries

LEMMA EntriesAppend ==
  ASSUME NEW q \in Queue, NEW u \in Frame
  PROVE  Entries(Append(q, u)) = Entries(q) \cup u
<1>1. Len(Append(q, u)) = Len(q) + 1 /\ Len(q) \in Nat /\ Append(q, u)[Len(q) + 1] = u
  BY DEF Queue
<1>2. \A j \in 1 .. Len(q) : Append(q, u)[j] = q[j]
  BY DEF Queue
<1>3. 1 .. Len(Append(q, u)) = (1 .. Len(q)) \cup {Len(q) + 1}
  BY <1>1
<1>4. ASSUME NEW e
      PROVE  e \in Entries(Append(q, u)) <=> e \in Entries(q) \cup u
  BY <1>1, <1>2, <1>3 DEF Entries
<1> QED
  BY <1>4

LEMMA EntriesTail ==
  ASSUME NEW q \in Queue, q # <<>>
  PROVE  /\ Entries(q) = Head(q) \cup Entries(Tail(q)) /\ Head(q) \in Frame
         /\ Entries(q) \in SUBSET Entry
<1>1. Len(q) \in Nat /\ Len(q) >= 1 /\ Head(q) = q[1] /\ Head(q) \in Frame
  BY DEF Queue
<1>2. Len(Tail(q)) = Len(q) - 1 /\ \A j \in 1 .. Len(Tail(q)) : Tail(q)[j] = q[j + 1]
  BY DEF Queue
<1>3. \A j \in 1 .. Len(q) : j = 1 \/ (j - 1 \in 1 .. Len(Tail(q)) /\ q[j] = Tail(q)[j - 1])
  BY <1>1, <1>2
<1>4. \A j \in 1 .. Len(Tail(q)) : j + 1 \in 1 .. Len(q) /\ q[j + 1] = Tail(q)[j]
  BY <1>1, <1>2
<1>5. ASSUME NEW e
      PROVE  e \in Entries(q) <=> e \in Head(q) \cup Entries(Tail(q))
  <2>1. e \in Entries(q) => e \in Head(q) \cup Entries(Tail(q))
    BY <1>1, <1>3 DEF Entries
  <2>2. e \in Head(q) => e \in Entries(q)
    BY <1>1 DEF Entries
  <2>3. e \in Entries(Tail(q)) => e \in Entries(q)
    BY <1>4 DEF Entries
  <2> QED
    BY <2>1, <2>2, <2>3
<1>6. Entries(q) \in SUBSET Entry
  BY DEF Entries, Queue, Frame
<1> QED
  BY <1>1, <1>5, <1>6

LEMMA EntriesSent ==
  ASSUME down \in [Sockets -> Queue], NEW i, NEW origin, NEW u \in Frame, NEW s \in Sockets
  PROVE  IF s \in Members(i) \ origin /\ Reader(s)
         THEN Entries(Sent(i, u, origin)[s]) = Entries(down[s]) \cup u
         ELSE Sent(i, u, origin)[s] = down[s]
<1>1. Entries(Append(down[s], u)) = Entries(down[s]) \cup u
  BY EntriesAppend
<1> QED
  BY <1>1 DEF Sent

LEMMA EntriesPublished ==
  ASSUME NEW b \in [Instances -> Queue], NEW i, NEW u \in Frame, NEW j \in Instances
  PROVE  IF j # i /\ IsRoom(j)
         THEN Entries(Published(b, i, u)[j]) = Entries(b[j]) \cup u
         ELSE Published(b, i, u)[j] = b[j]
<1>1. Entries(Append(b[j], u)) = Entries(b[j]) \cup u
  BY EntriesAppend
<1> QED
  BY <1>1 DEF Published

LEMMA EntriesSpread ==
  ASSUME down \in [Sockets -> Queue], bus \in [Instances -> Queue],
         NEW i, NEW origin, NEW u \in Frame, Spread(i, u, origin)
  PROVE  /\ \A s \in Sockets :
                IF s \in Members(i) \ origin /\ Reader(s)
                THEN Entries(down'[s]) = Entries(down[s]) \cup u
                ELSE down'[s] = down[s]
         /\ \A j \in Instances :
                IF j # i /\ IsRoom(j)
                THEN Entries(bus'[j]) = Entries(bus[j]) \cup u
                ELSE bus'[j] = bus[j]
<1>1. down' = Sent(i, u, origin) /\ bus' = IF u = {} THEN bus ELSE Published(bus, i, u)
  BY DEF Spread
<1>2. ASSUME NEW s \in Sockets
      PROVE  IF s \in Members(i) \ origin /\ Reader(s)
             THEN Entries(down'[s]) = Entries(down[s]) \cup u
             ELSE down'[s] = down[s]
  BY <1>1, EntriesSent
<1>3. ASSUME NEW j \in Instances
      PROVE  IF j # i /\ IsRoom(j)
             THEN Entries(bus'[j]) = Entries(bus[j]) \cup u
             ELSE bus'[j] = bus[j]
  BY <1>1, EntriesPublished
<1> QED
  BY <1>2, <1>3

LEMMA TypeFacts ==
  ASSUME PresenceInv
  PROVE  /\ clock \in Clocks /\ shown \in [Nodes -> SUBSET Clients] /\ Positive(clock, shown)
         /\ Ahead(clock) /\ here \subseteq Clients /\ linked \subseteq Clients
         /\ last \in [Clients -> 0 .. MaxSockets] /\ \A c \in linked : last[c] # 0
         /\ conn \in [Sockets -> {"none", "queued", "joined", "gone"}]
         /\ at \in [Sockets -> Instances \cup {None}]
         /\ \A s \in Sockets : conn[s] \in {"queued", "joined"} => at[s] \in Instances
         /\ controlled \in [Sockets -> SUBSET Clients]
         /\ up \in [Sockets -> Queue] /\ down \in [Sockets -> Queue]
         /\ bus \in [Instances -> Queue]
         /\ MaxSockets \in Nat /\ Online \subseteq linked
         /\ \A s \in Sockets : AllBehind(clock, up[s]) /\ AllBehind(clock, down[s])
         /\ \A i \in Instances : AllBehind(clock, bus[i])
BY PresenceAssumption
DEF PresenceInv, PresenceTypeOK, Positive, Clocks, Online, OwnerAhead, Ahead, QueuesBehind

LEMMA CurrentSockets ==
  ASSUME PresenceInv
  PROVE  /\ \A c \in Clients : Current(c)[1] = c /\ Current(c)[2] = last[c]
         /\ \A c \in Clients : last[c] # 0 => Current(c) \in Sockets
         /\ \A c \in linked : Current(c) \in Sockets
         /\ \A s \in Sockets : s[1] \in Clients /\ s[2] \in 1 .. MaxSockets /\ s = <<s[1], s[2]>>
<1>1. last \in [Clients -> 0 .. MaxSockets] /\ MaxSockets \in Nat /\ \A c \in linked : last[c] # 0 /\ c \in Clients
  BY TypeFacts
<1>2. \A c \in Clients : last[c] \in 0 .. MaxSockets
  BY <1>1
<1>3. \A c \in Clients : Current(c)[1] = c /\ Current(c)[2] = last[c]
  BY DEF Current
<1>4. \A c \in Clients : last[c] # 0 => Current(c) \in Sockets
  BY <1>1, <1>2 DEF Current, Sockets
<1>5. \A s \in Sockets : s[1] \in Clients /\ s[2] \in 1 .. MaxSockets /\ s = <<s[1], s[2]>>
  BY DEF Sockets
<1> QED
  BY <1>1, <1>3, <1>4, <1>5

(* What no step but those of the clients and the network changes. *)
LEMMA ReadersStay ==
  ASSUME UNCHANGED <<linked, last, cut>>
  PROVE  /\ Online' = Online /\ \A s : Reader(s)' = Reader(s) /\ \A c : Current(c)' = Current(c)
BY DEF Online, Reader, Current

LEMMA SocketsInit == Init => SocketsInv
<1> SUFFICES ASSUME Init PROVE SocketsInv
  OBVIOUS
<1>1. \A s \in Sockets : SocketIs(s)
  BY EntriesEmpty DEF Init, SocketIs, Sockets
<1>2. \A c \in Clients : ClientIs(c)
  BY NodesOfBoth DEF Init, ClientIs, Online
<1>3. \A i \in Instances : RoomIs(i)
  BY NodesOfBoth DEF Init, RoomIs, NoClocks
<1> QED
  BY <1>1, <1>2, <1>3 DEF Init, SocketsInv

(* A step of an instance, or of a client that stays: the sockets it writes to have
   readers. *)
LEMMA SocketsKept ==
  ASSUME PresenceInv, SocketsInv, UNCHANGED <<here, linked, last, cut>>,
         \A s \in Sockets :
             /\ conn'[s] = "none" <=> conn[s] = "none"
             /\ conn'[s] = "queued" => conn[s] = "queued"
             /\ up'[s] # <<>> => /\ conn'[s] \in {"queued", "joined"}
                                 /\ up[s] # <<>> \/ (s[1] \in Online /\ s = Current(s[1]))
             /\ down'[s] # <<>> => Reader(s) /\ conn'[s] = "joined"
             /\ controlled'[s] \subseteq {s[1]}
             /\ \A e \in Entries(up'[s]) : e \in Entries(up[s]) \/ (~e.here /\ e.id # s[1])
             /\ Reader(s) /\ conn[s] \in {"queued", "joined"} => conn'[s] \in {"queued", "joined"},
         \A c \in Clients : \/ shown'[c] \subseteq shown[c]
                            \/ c \in linked /\ conn[Current(c)] = "joined",
         \A c \in here : c \in shown[c] => c \in shown'[c],
         \A i \in Instances : RoomIs(i)'
  PROVE  SocketsInv'
<1>0. Online' = Online /\ (\A s : Reader(s)' = Reader(s)) /\ \A c : Current(c)' = Current(c)
  BY ReadersStay
<1>1. ASSUME NEW s \in Sockets
      PROVE  SocketIs(s)'
  <2>1. SocketIs(s)
    BY DEF SocketsInv
  <2>2. (conn'[s] = "none" <=> s[2] > last'[s[1]])
    BY <2>1 DEF SocketIs
  <2>3. up'[s] # <<>> => /\ conn'[s] \in {"queued", "joined"} /\ s = Current(s[1])'
                         /\ s[1] \notin here' \/ s[1] \in Online'
    BY <1>0, <2>1 DEF SocketIs
  <2>4. down'[s] # <<>> => Reader(s)' /\ conn'[s] = "joined"
    BY <1>0
  <2>5. \A e \in Entries(up'[s]) : IF e.here THEN e.id = s[1] ELSE e.id = s[1] => s[1] \notin here'
    BY <2>1 DEF SocketIs
  <2> QED
    BY <2>2, <2>3, <2>4, <2>5 DEF SocketIs
<1>2. ASSUME NEW c \in Clients
      PROVE  ClientIs(c)'
  <2>1. ClientIs(c)
    BY DEF SocketsInv
  <2>2. c \in Online => Reader(Current(c)) /\ Current(c) \in Sockets
    BY CurrentSockets, TypeFacts DEF Online, Reader
  <2>3. c \in Online' => conn'[Current(c)'] \in {"queued", "joined"}
    BY <1>0, <2>1, <2>2 DEF ClientIs
  <2>4. c \in linked => (conn'[Current(c)] = "queued" => conn[Current(c)] = "queued")
    BY CurrentSockets
  <2>5. shown'[c] \subseteq {c} \/ (c \in linked' /\ conn'[Current(c)'] # "queued")
    BY <1>0, <2>1, <2>4 DEF ClientIs
  <2>6. c \in here' => c \in shown'[c]
    BY <2>1 DEF ClientIs
  <2> QED
    BY <2>3, <2>5, <2>6 DEF ClientIs
<1>3. linked' \subseteq here' /\ cut' \subseteq {Current(c)' : c \in linked'}
  BY <1>0 DEF SocketsInv
<1> QED
  BY <1>1, <1>2, <1>3 DEF SocketsInv

(* Rooms whose members stay keep what they are. *)
LEMMA RoomsAreRooms ==
  ASSUME \A s \in Sockets : conn[s] = "joined" => conn'[s] = "joined" /\ at'[s] = at[s],
         NEW i \in Instances
  PROVE  IsRoom(i) => IsRoom(i)'
BY DEF IsRoom, Members

LEMMA SocketsStep == PresenceInv /\ SocketsInv /\ [Next]_vars => SocketsInv'
<1> SUFFICES ASSUME PresenceInv, SocketsInv, [Next]_vars PROVE SocketsInv'
  OBVIOUS
<1>0. /\ clock \in Clocks /\ shown \in [Nodes -> SUBSET Clients]
      /\ here \subseteq Clients /\ linked \subseteq Clients
      /\ last \in [Clients -> 0 .. MaxSockets] /\ \A c \in linked : last[c] # 0
      /\ conn \in [Sockets -> {"none", "queued", "joined", "gone"}]
      /\ at \in [Sockets -> Instances \cup {None}]
      /\ \A s \in Sockets : conn[s] \in {"queued", "joined"} => at[s] \in Instances
      /\ controlled \in [Sockets -> SUBSET Clients]
      /\ up \in [Sockets -> Queue] /\ down \in [Sockets -> Queue] /\ bus \in [Instances -> Queue]
      /\ MaxSockets \in Nat /\ Online \subseteq linked
  BY TypeFacts
<1>a. /\ linked \subseteq here /\ cut \subseteq {Current(c) : c \in linked}
      /\ \A s \in Sockets :
          /\ conn[s] = "none" <=> s[2] > last[s[1]]
          /\ up[s] # <<>> => /\ conn[s] \in {"queued", "joined"} /\ s = Current(s[1])
                             /\ s[1] \notin here \/ s[1] \in Online
          /\ down[s] # <<>> => Reader(s) /\ conn[s] = "joined"
          /\ controlled[s] \subseteq {s[1]}
          /\ \A e \in Entries(up[s]) : IF e.here THEN e.id = s[1] ELSE e.id = s[1] => s[1] \notin here
      /\ \A c \in Clients :
          /\ c \in Online => conn[Current(c)] \in {"queued", "joined"}
          /\ c \in here => c \in shown[c]
          /\ shown[c] \subseteq {c} \/ (c \in linked /\ conn[Current(c)] # "queued")
      /\ \A i \in Instances : ~IsRoom(i) => bus[i] = <<>> /\ shown[i] = {} /\ clock[i] = NoClocks
  BY DEF SocketsInv, SocketIs, ClientIs, RoomIs
<1>b. \A s \in Sockets : conn[s] # "joined" => up[s] = <<>> \/ conn[s] = "queued"
  BY <1>a
<1>1. ASSUME NEW c \in Clients, NEW i \in Instances, Open(c, i)
      PROVE  SocketsInv'
  <2> DEFINE s == Current(c)'
  <2>1. /\ c \in here \ linked /\ last[c] < MaxSockets
        /\ last' = [last EXCEPT ![c] = last[c] + 1] /\ linked' = linked \cup {c}
        /\ conn' = [conn EXCEPT ![s] = "queued"] /\ at' = [at EXCEPT ![s] = i]
        /\ up' = [up EXCEPT ![s] = <<Own(c, clock[c][c], TRUE)>>]
        /\ UNCHANGED <<clock, shown, here, controlled, cut, down, bus>>
    BY <1>1 DEF Open, awareness
  <2>2. s = <<c, last[c] + 1>> /\ s \in Sockets /\ \A d \in Clients \ {c} : Current(d)' = Current(d)
    BY <1>0, <2>1 DEF Current, Sockets
  <2>c. s = Current(c)'
    OBVIOUS
  <2> HIDE DEF s
  <2>3. s[1] = c /\ s[2] = last[c] + 1 /\ s # Current(c) /\ last[c] \in Nat
    BY <1>0, <2>2 DEF Current
  <2>4. conn[s] = "none" /\ up[s] = <<>> /\ down[s] = <<>>
    <3>1. conn[s] = "none"
      BY <1>a, <2>2, <2>3
    <3> QED
      BY <1>a, <2>2, <3>1
  <2>5. s \notin cut /\ \A d \in linked : d # c
    BY <1>0, <1>a, <2>1, <2>3, CurrentSockets
  <2>6. Online' = Online \cup {c}
    <3>1. \A d \in linked : d # c /\ Current(d)' = Current(d)
      BY <1>0, <2>2, <2>5
    <3>2. \A d : d \in Online' <=> d \in linked' /\ Current(d)' \notin cut
      BY <2>1 DEF Online
    <3>3. c \in Online'
      BY <2>1, <2>c, <2>5, <3>2
    <3> QED
      BY <2>1, <3>1, <3>2, <3>3 DEF Online
  <2>7. ASSUME NEW x \in Sockets
        PROVE  SocketIs(x)'
    <3>1. CASE x = s
      <4>1. conn'[x] = "queued" /\ down'[x] = <<>> /\ controlled'[x] \subseteq {x[1]}
            /\ up'[x] = <<Own(c, clock[c][c], TRUE)>> /\ x[1] = c /\ x = Current(x[1])'
        <5>1. x[1] = c /\ x = <<x[1], last'[x[1]]>>
          BY <1>0, <2>1, <2>2, <2>3, <3>1
        <5>2. conn'[x] = "queued" /\ up'[x] = <<Own(c, clock[c][c], TRUE)>>
          BY <1>0, <2>1, <2>2, <3>1
        <5>3. down'[x] = <<>> /\ controlled'[x] \subseteq {x[1]}
          BY <1>a, <2>1, <2>4, <3>1
        <5> QED
          BY <5>1, <5>2, <5>3 DEF Current
      <4>2. last'[x[1]] = last[c] + 1 /\ x[2] = last[c] + 1
        BY <1>0, <2>1, <2>3, <3>1
      <4>3. \A e \in Entries(up'[x]) : e.id = c /\ e.here
        BY <4>1 DEF Entries, Own
      <4>4. ~(x[2] > last'[x[1]])
        BY <2>3, <4>2
      <4> QED
        BY <2>6, <4>1, <4>3, <4>4 DEF SocketIs
    <3>2. CASE x # s
      <4>1. /\ conn'[x] = conn[x] /\ up'[x] = up[x] /\ down'[x] = down[x]
            /\ controlled'[x] = controlled[x] /\ x[1] \in Clients /\ x = <<x[1], x[2]>>
        BY <1>0, <2>1, <3>2, CurrentSockets
      <4>2. x[1] = c => last'[x[1]] = last[c] + 1 /\ x[2] # last[c] + 1 /\ x[2] \in Nat
        BY <1>0, <2>1, <2>2, <3>2, <4>1, CurrentSockets
      <4>3. x[1] # c => last'[x[1]] = last[x[1]] /\ Current(x[1])' = Current(x[1])
        BY <1>0, <2>1, <2>2, <4>1
      <4>4. (conn'[x] = "none" <=> x[2] > last'[x[1]])
        <5>1. conn[x] = "none" <=> x[2] > last[x[1]]
          BY <1>a
        <5> QED
          BY <2>3, <4>1, <4>2, <4>3, <5>1
      <4>5. x[1] = c => up[x] = <<>> /\ down[x] = <<>>
        BY <1>0, <1>a, <2>1 DEF Reader
      <4>6. Reader(x) /\ x[1] # c => Reader(x)'
        BY <2>1, <4>3 DEF Reader
      <4>7. up'[x] # <<>> => /\ conn'[x] \in {"queued", "joined"} /\ x = Current(x[1])'
                             /\ x[1] \notin here' \/ x[1] \in Online'
        BY <1>a, <2>1, <2>6, <4>1, <4>3, <4>5
      <4>8. down'[x] # <<>> => Reader(x)' /\ conn'[x] = "joined"
        BY <1>a, <4>1, <4>5, <4>6
      <4> QED
        BY <1>a, <2>1, <4>1, <4>4, <4>7, <4>8 DEF SocketIs
    <3> QED
      BY <3>1, <3>2
  <2>8. ASSUME NEW d \in Clients
        PROVE  ClientIs(d)'
    <3>1. CASE d = c
      <4>1. conn'[Current(c)'] = "queued"
        BY <1>0, <2>1, <2>2, <2>c
      <4>2. shown'[c] \subseteq {c} /\ c \in shown'[c]
        BY <1>a, <2>1
      <4> QED
        BY <3>1, <4>1, <4>2 DEF ClientIs
    <3>2. CASE d # c
      <4>1. Current(d)' = Current(d) /\ conn'[Current(d)] = conn[Current(d)]
        <5>1. Current(d) # s
          BY <2>3, <3>2, CurrentSockets
        <5> QED
          BY <1>0, <2>1, <2>2, <3>2, <5>1
      <4> QED
        BY <1>a, <2>1, <2>6, <3>2, <4>1 DEF ClientIs
    <3> QED
      BY <3>1, <3>2
  <2>9. ASSUME NEW j \in Instances
        PROVE  RoomIs(j)'
    <3>1. \A x \in Sockets : conn[x] = "joined" => conn'[x] = "joined" /\ at'[x] = at[x]
      BY <1>0, <2>1, <2>4
    <3>2. IsRoom(j) => IsRoom(j)'
      BY <3>1, RoomsAreRooms
    <3> QED
      BY <1>a, <2>1, <3>2 DEF RoomIs
  <2>10. linked' \subseteq here' /\ cut' \subseteq {Current(d)' : d \in linked'}
    BY <1>0, <1>a, <2>1, <2>2, <2>5
  <2> QED
    BY <2>7, <2>8, <2>9, <2>10 DEF SocketsInv
<1>2. ASSUME NEW c \in Clients, Announce(c)
      PROVE  SocketsInv'
  <2>1. /\ up' = SentUp(c, Own(c, clock[c][c] + 1, TRUE))
        /\ UNCHANGED <<shown, here, linked, last, conn, at, controlled, cut, down, bus>>
        /\ clock' = [clock EXCEPT ![c][c] = @ + 1]
    BY <1>2 DEF Announce, server
  <2>2. Online' = Online /\ (\A s : Reader(s)' = Reader(s)) /\ \A d : Current(d)' = Current(d)
    BY <2>1, ReadersStay
  <2>3. ASSUME NEW s \in Sockets
        PROVE  SocketIs(s)'
    <3>1. CASE up'[s] = up[s]
      BY <1>a, <2>1, <2>2, <3>1 DEF SocketIs
    <3>2. CASE up'[s] # up[s]
      <4>1. c \in Online /\ s = Current(c) /\ up'[s] = Append(up[s], Own(c, clock[c][c] + 1, TRUE))
        BY <1>0, <2>1, <3>2 DEF SentUp
      <4>2. s[1] = c /\ conn[s] \in {"queued", "joined"}
        BY <1>a, <4>1, CurrentSockets
      <4>3. Own(c, clock[c][c] + 1, TRUE) \in Frame
        <5>1. clock[c][c] \in Nat
          BY <1>0, NodesOfBoth DEF Clocks
        <5>2. clock[c][c] + 1 \in Nat \ {0}
          BY <5>1
        <5> QED
          BY <5>2, OwnFrame
      <4>4. Entries(up'[s]) = Entries(up[s]) \cup Own(c, clock[c][c] + 1, TRUE)
        BY <1>0, <4>1, <4>3, EntriesAppend
      <4>5. \A e \in Entries(up'[s]) : IF e.here THEN e.id = s[1] ELSE e.id = s[1] => s[1] \notin here
        BY <1>a, <4>2, <4>4 DEF Own
      <4> QED
        BY <1>a, <2>1, <2>2, <4>1, <4>2, <4>5 DEF SocketIs
    <3> QED
      BY <3>1, <3>2
  <2>4. \A d \in Clients : ClientIs(d)'
    BY <1>a, <2>1, <2>2 DEF ClientIs
  <2>5. \A i \in Instances : RoomIs(i)'
    <3>1. \A i \in Instances : clock'[i] = clock[i]
      BY <1>0, <2>1, NodesOfBoth DEF Clocks
    <3> QED
      BY <1>a, <2>1, <3>1 DEF RoomIs, IsRoom, Members
  <2> QED
    BY <1>a, <2>1, <2>2, <2>3, <2>4, <2>5 DEF SocketsInv
<1>3. ASSUME NEW c \in Clients, Receive(c)
      PROVE  SocketsInv'
  <2> DEFINE s == Current(c)
  <2>1. /\ c \in linked /\ down[s] # <<>> /\ Merge(c, Head(down[s]))
        /\ down' = [down EXCEPT ![s] = Tail(@)]
        /\ UNCHANGED <<here, linked, last, conn, at, controlled, cut, up, bus>>
    BY <1>3 DEF Receive, provider, server
  <2>2. s \in Sockets /\ conn[s] = "joined" /\ Reader(s)
    BY <1>a, <2>1, CurrentSockets
  <2>3. ASSUME NEW x \in Sockets
        PROVE  down'[x] # <<>> => Reader(x) /\ conn'[x] = "joined"
    BY <1>0, <1>a, <2>1, <2>2
  <2>4. \A d \in Clients \ {c} : shown'[d] = shown[d]
    BY <1>0, <2>1, NodesOfBoth DEF Merge
  <2>5. c \in shown[c] => c \in shown'[c]
    <3>1. c \in shown[c] => IsOwn(c, c)
      BY DEF IsOwn
    <3>2. shown'[c] = MergedShown(c, Head(down[s]))
      BY <1>0, <2>1, NodesOfBoth DEF Merge
    <3> QED
      BY <3>1, <3>2 DEF MergedShown
  <2>6. \A i \in Instances : RoomIs(i)'
    <3>1. \A i \in Instances : clock'[i] = clock[i] /\ shown'[i] = shown[i]
      BY <1>0, <2>1, NodesOfBoth DEF Merge, Clocks
    <3> QED
      BY <1>a, <2>1, <3>1 DEF RoomIs, IsRoom, Members
  <2>7. /\ \A d \in Clients : shown'[d] \subseteq shown[d] \/ (d \in linked /\ conn[Current(d)] = "joined")
        /\ \A d \in here : d \in shown[d] => d \in shown'[d]
    BY <1>0, <2>1, <2>2, <2>4, <2>5
  <2>8. \A x \in Sockets :
           /\ conn'[x] = "none" <=> conn[x] = "none"
           /\ conn'[x] = "queued" => conn[x] = "queued"
           /\ up'[x] # <<>> => conn'[x] \in {"queued", "joined"} /\ up[x] # <<>>
           /\ controlled'[x] \subseteq {x[1]} /\ Entries(up'[x]) = Entries(up[x])
           /\ Reader(x) /\ conn[x] \in {"queued", "joined"} => conn'[x] \in {"queued", "joined"}
    BY <1>a, <2>1
  <2> QED
    BY <2>1, <2>3, <2>6, <2>7, <2>8, SocketsKept
<1>4. ASSUME NEW c \in Clients, Lost(c)
      PROVE  SocketsInv'
  <2>1. /\ c \in linked \ Online /\ Forget(c, Clients \ {c})
        /\ linked' = linked \ {c} /\ cut' = cut \ {Current(c)}
        /\ UNCHANGED <<here, last, conn, at, controlled, up, down, bus>>
    BY <1>4 DEF Lost, server
  <2>2. \A d : Current(d)' = Current(d)
    BY <2>1 DEF Current
  <2>3. \A d \in Clients \ {c} : Current(d) # Current(c)
    BY CurrentSockets
  <2>4. Online' = Online
    BY <1>0, <2>1, <2>2, <2>3 DEF Online
  <2>5. ~Reader(Current(c)) /\ \A s \in Sockets : Reader(s) => Reader(s)'
    <3>1. ~Reader(Current(c))
      BY <2>1, CurrentSockets DEF Online, Reader
    <3>2. ASSUME NEW s \in Sockets, Reader(s)
          PROVE  Reader(s)'
      <4>1. s[1] # c
        BY <3>1, <3>2 DEF Reader
      <4> QED
        BY <2>1, <2>2, <3>2, <4>1 DEF Reader
    <3> QED
      BY <3>1, <3>2
  <2>6. \A s \in Sockets : SocketIs(s)'
    BY <1>a, <2>1, <2>2, <2>4, <2>5 DEF SocketIs
  <2>7. ASSUME NEW d \in Clients
        PROVE  ClientIs(d)'
    <3>1. CASE d = c
      <4>1. shown'[c] = shown[c] \ (Clients \ {c})
        BY <1>0, <2>1, NodesOfBoth DEF Forget
      <4>2. shown'[c] = shown[c] \cap {c}
        BY <1>0, <4>1, NodesOfBoth
      <4> QED
        BY <1>a, <2>1, <2>2, <2>4, <3>1, <4>2 DEF ClientIs
    <3>2. CASE d # c
      <4>1. shown'[d] = shown[d]
        BY <1>0, <2>1, <3>2, NodesOfBoth DEF Forget
      <4> QED
        BY <1>a, <2>1, <2>2, <2>4, <3>2, <4>1 DEF ClientIs
    <3> QED
      BY <3>1, <3>2
  <2>8. \A i \in Instances : RoomIs(i)'
    <3>1. \A i \in Instances : clock'[i] = clock[i] /\ shown'[i] = shown[i]
      BY <1>0, <2>1, NodesOfBoth DEF Forget, Clocks
    <3> QED
      BY <1>a, <2>1, <3>1 DEF RoomIs, IsRoom, Members
  <2>9. linked' \subseteq here' /\ cut' \subseteq {Current(d)' : d \in linked'}
    BY <1>a, <2>1, <2>2
  <2> QED
    BY <2>6, <2>7, <2>8, <2>9 DEF SocketsInv
<1>5. ASSUME NEW c \in Clients, NEW says \in BOOLEAN, Leave(c, says)
      PROVE  SocketsInv'
  <2> DEFINE u == Own(c, clock[c][c] + 1, FALSE)
  <2>1. /\ c \in here /\ here' = here \ {c} /\ linked' = linked \ {c}
        /\ cut' = cut \ {Current(c)} /\ shown' = [shown EXCEPT ![c] = {}]
        /\ up' = IF says THEN SentUp(c, u) ELSE up
        /\ down' = [s \in Sockets |-> IF s[1] = c THEN <<>> ELSE down[s]]
        /\ UNCHANGED <<last, conn, at, controlled, bus>>
        /\ \A i \in Instances : clock'[i] = clock[i]
    BY <1>0, <1>5, NodesOfBoth DEF Leave, server, Clocks
  <2>2. \A d : Current(d)' = Current(d)
    BY <2>1 DEF Current
  <2>3. \A d \in Clients \ {c} : Current(d) # Current(c)
    BY CurrentSockets
  <2>4. Online' = Online \ {c}
    BY <1>0, <2>1, <2>2, <2>3 DEF Online
  <2>5. \A s \in Sockets : Reader(s) /\ s[1] # c => Reader(s)'
    BY <2>1, <2>2 DEF Reader
  <2>6. ASSUME NEW s \in Sockets
        PROVE  SocketIs(s)'
    <3>1. down'[s] # <<>> => Reader(s)' /\ conn'[s] = "joined"
      BY <1>a, <2>1, <2>5
    <3>2. CASE up'[s] = up[s]
      BY <1>a, <2>1, <2>2, <2>4, <3>1, <3>2 DEF SocketIs
    <3>3. CASE up'[s] # up[s]
      <4>1. c \in Online /\ s = Current(c) /\ up'[s] = Append(up[s], u)
        BY <1>0, <2>1, <3>3 DEF SentUp
      <4>2. s[1] = c /\ conn[s] \in {"queued", "joined"}
        BY <1>a, <4>1, CurrentSockets
      <4>3. u \in Frame
        <5>1. clock[c][c] \in Nat
          BY <1>0, NodesOfBoth DEF Clocks
        <5>2. clock[c][c] + 1 \in Nat \ {0}
          BY <5>1
        <5> QED
          BY <5>2, OwnFrame
      <4>4. Entries(up'[s]) = Entries(up[s]) \cup u
        BY <1>0, <4>1, <4>3, EntriesAppend
      <4>5. \A e \in Entries(up'[s]) : IF e.here THEN e.id = s[1] ELSE e.id = s[1] => s[1] \notin here'
        <5>1. \A e \in u : ~e.here
          BY DEF Own
        <5> HIDE DEF u
        <5>2. s[1] \notin here'
          BY <2>1, <4>2
        <5> QED
          BY <1>a, <4>4, <5>1, <5>2
      <4> QED
        BY <1>a, <2>1, <2>2, <2>4, <3>1, <4>1, <4>2, <4>5 DEF SocketIs
    <3> QED
      BY <3>2, <3>3
  <2>7. ASSUME NEW d \in Clients
        PROVE  ClientIs(d)'
    <3>1. shown'[d] = IF d = c THEN {} ELSE shown[d]
      BY <1>0, <2>1, NodesOfBoth
    <3> QED
      BY <1>a, <2>1, <2>2, <2>4, <3>1 DEF ClientIs
  <2>8. \A i \in Instances : RoomIs(i)'
    <3>1. \A i \in Instances : shown'[i] = shown[i]
      BY <1>0, <2>1, NodesOfBoth
    <3> QED
      BY <1>a, <2>1, <3>1 DEF RoomIs, IsRoom, Members
  <2>9. linked' \subseteq here' /\ cut' \subseteq {Current(d)' : d \in linked'}
    BY <1>a, <2>1, <2>2
  <2> QED
    BY <2>6, <2>7, <2>8, <2>9 DEF SocketsInv
<1>6. ASSUME NEW n \in Nodes, NEW c \in Clients, Expire(n, c)
      PROVE  SocketsInv'
  <2> DEFINE u == Removal(n, {c})
  <2>1. /\ c \in shown[n] \ {n} /\ Forget(n, {c})
        /\ UNCHANGED <<here, linked, last, conn, at, controlled, cut>>
        /\ IF n \in Clients THEN up' = SentUp(n, u) /\ UNCHANGED <<down, bus>>
                            ELSE Spread(n, u, {}) /\ UNCHANGED up
    BY <1>6 DEF Expire, provider, server
  <2>2. u \in Frame /\ \A e \in u : e.id = c /\ ~e.here
    <3>1. {c} \in SUBSET shown[n]
      BY <2>1
    <3>2. u \in Frame
      BY <1>0, <3>1, TypeFacts, EncodedBehind
    <3> QED
      BY <3>2 DEF Removal
  <2>3. shown' = [shown EXCEPT ![n] = shown[n] \ {c}] /\ clock' = clock
    BY <2>1 DEF Forget
  <2> HIDE DEF u
  <2>4. ASSUME NEW s \in Sockets
        PROVE  /\ up'[s] # <<>> => /\ conn'[s] \in {"queued", "joined"}
                                   /\ up[s] # <<>> \/ (s[1] \in Online /\ s = Current(s[1]))
               /\ \A e \in Entries(up'[s]) : e \in Entries(up[s]) \/ (~e.here /\ e.id # s[1])
    <3>1. CASE up'[s] = up[s]
      BY <1>a, <2>1, <3>1
    <3>2. CASE up'[s] # up[s]
      <4>1. n \in Clients /\ n \in Online /\ s = Current(n) /\ up'[s] = Append(up[s], u)
        BY <1>0, <2>1, <3>2 DEF SentUp
      <4>2. s[1] = n /\ conn[s] \in {"queued", "joined"} /\ c # n
        BY <1>a, <2>1, <4>1, CurrentSockets
      <4>3. Entries(up'[s]) = Entries(up[s]) \cup u
        BY <1>0, <2>2, <4>1, EntriesAppend
      <4>4. \A e \in Entries(up'[s]) : e \in Entries(up[s]) \/ (~e.here /\ e.id # s[1])
        BY <2>2, <4>2, <4>3
      <4> QED
        BY <2>1, <4>1, <4>2, <4>4
    <3> QED
      BY <3>1, <3>2
  <2>5. /\ \A s \in Sockets : down'[s] # <<>> => Reader(s) /\ conn'[s] = "joined"
        /\ \A i \in Instances : ~IsRoom(i) => bus'[i] = bus[i]
    <3>1. CASE n \in Clients
      BY <1>a, <2>1, <3>1
    <3>2. CASE n \notin Clients
      <4>1. \A s \in Sockets : down'[s] # <<>> => down[s] # <<>> \/ (s \in Members(n) \ {} /\ Reader(s))
        BY <1>0, <2>1, <2>2, <3>2, EntriesSpread
      <4>2. \A i \in Instances : ~IsRoom(i) => bus'[i] = bus[i]
        BY <1>0, <2>1, <2>2, <3>2, EntriesSpread
      <4> QED
        BY <1>a, <2>1, <4>1, <4>2 DEF Members
    <3> QED
      BY <3>1, <3>2
  <2>6. \A i \in Instances : RoomIs(i)'
    <3>1. ASSUME NEW i \in Instances
          PROVE  shown'[i] \subseteq shown[i] /\ clock'[i] = clock[i]
      BY <1>0, <2>3, NodesOfBoth
    <3> QED
      BY <1>a, <2>1, <2>5, <3>1 DEF RoomIs, IsRoom, Members
  <2>7. /\ \A d \in Clients : shown'[d] \subseteq shown[d]
        /\ \A d \in here : d \in shown[d] => d \in shown'[d]
    BY <1>0, <2>1, <2>3, NodesOfBoth
  <2>8. \A s \in Sockets :
           /\ conn'[s] = "none" <=> conn[s] = "none"
           /\ conn'[s] = "queued" => conn[s] = "queued"
           /\ controlled'[s] \subseteq {s[1]}
           /\ Reader(s) /\ conn[s] \in {"queued", "joined"} => conn'[s] \in {"queued", "joined"}
    BY <1>a, <2>1
  <2> QED
    BY <2>1, <2>4, <2>5, <2>6, <2>7, <2>8, SocketsKept
<1>7. ASSUME NEW s \in Sockets, Join(s)
      PROVE  SocketsInv'
  <2> DEFINE i == at[s]
             u == Encode(i, shown[i])
  <2>1. /\ conn[s] = "queued" /\ conn' = [conn EXCEPT ![s] = "joined"]
        /\ down' = IF Reader(s) /\ u # {} THEN [down EXCEPT ![s] = Append(@, u)] ELSE down
        /\ bus' = IF IsRoom(i) THEN bus ELSE Published(bus, i, Request)
        /\ UNCHANGED <<clock, shown, here, linked, last, at, controlled, cut, up>>
    BY <1>7 DEF Join, awareness, provider
  <2> HIDE DEF u
  <2>2. ASSUME NEW x \in Sockets
        PROVE  /\ conn'[x] = "none" <=> conn[x] = "none"
               /\ conn'[x] = "queued" => conn[x] = "queued"
               /\ up'[x] # <<>> => conn'[x] \in {"queued", "joined"} /\ up[x] # <<>>
               /\ down'[x] # <<>> => Reader(x) /\ conn'[x] = "joined"
               /\ controlled'[x] \subseteq {x[1]} /\ Entries(up'[x]) = Entries(up[x])
               /\ Reader(x) /\ conn[x] \in {"queued", "joined"} => conn'[x] \in {"queued", "joined"}
    <3>1. conn'[x] = IF x = s THEN "joined" ELSE conn[x]
      BY <1>0, <2>1
    <3>2. down'[x] # <<>> => Reader(x) /\ conn'[x] = "joined"
      BY <1>0, <1>a, <2>1, <3>1
    <3> QED
      BY <1>a, <2>1, <3>1, <3>2
  <2>3. ASSUME NEW j \in Instances
        PROVE  RoomIs(j)'
    <3>1. \A x \in Sockets : conn[x] = "joined" => conn'[x] = "joined" /\ at'[x] = at[x]
      BY <1>0, <2>1
    <3>2. IsRoom(j) => IsRoom(j)'
      BY <3>1, RoomsAreRooms
    <3>3. ~IsRoom(j) => bus'[j] = bus[j]
      <4>1. Request \in Frame
        BY DEF Request, Frame
      <4> QED
        BY <1>0, <2>1, <4>1, EntriesPublished
    <3> QED
      BY <1>a, <2>1, <3>2, <3>3 DEF RoomIs
  <2> QED
    BY <2>1, <2>2, <2>3, SocketsKept
<1>8. ASSUME NEW s \in Sockets, HandleAwareness(s)
      PROVE  SocketsInv'
  <2> DEFINE i == at[s]
             u == Head(up[s])
  <2>1. /\ conn[s] = "joined" /\ up[s] # <<>> /\ up' = [up EXCEPT ![s] = Tail(@)] /\ Merge(i, u)
        /\ controlled' = [controlled EXCEPT ![s] = (@ \cup Added(i, u)) \ Removed(i, u)]
        /\ Spread(i, Relayed(i, u), {s})
        /\ UNCHANGED <<here, linked, last, conn, at, cut>>
    BY <1>8 DEF HandleAwareness, provider
  <2>2. i \in Instances /\ i \in Nodes /\ IsRoom(i)
    BY <1>0, <2>1, NodesOfBoth DEF IsRoom, Members
  <2>3. u \in Frame /\ Behind(clock, u) /\ Entries(up[s]) = u \cup Entries(Tail(up[s]))
    BY <1>0, <2>1, TypeFacts, EntriesTail, QueueTail
  <2> HIDE DEF u
  <2>4. Relayed(i, u) \in Frame
    BY <2>1, <2>2, <2>3, TypeFacts, MergeBehind
  <2>5. /\ \A x \in Sockets : down'[x] # <<>> =>
               down[x] # <<>> \/ (x \in Members(i) \ {s} /\ Reader(x))
        /\ \A j \in Instances : ~IsRoom(j) => bus'[j] = bus[j]
    BY <1>0, <2>1, <2>4, EntriesSpread
  <2>6. Added(i, u) \subseteq {s[1]}
    <3>1. \A e \in u : e.here => e.id = s[1]
      BY <1>a, <2>3
    <3> QED
      BY <3>1 DEF Added, News
  <2>7. ASSUME NEW x \in Sockets
        PROVE  /\ conn'[x] = "none" <=> conn[x] = "none"
               /\ conn'[x] = "queued" => conn[x] = "queued"
               /\ up'[x] # <<>> => conn'[x] \in {"queued", "joined"} /\ up[x] # <<>>
               /\ down'[x] # <<>> => Reader(x) /\ conn'[x] = "joined"
               /\ controlled'[x] \subseteq {x[1]} /\ Entries(up'[x]) \subseteq Entries(up[x])
               /\ Reader(x) /\ conn[x] \in {"queued", "joined"} => conn'[x] \in {"queued", "joined"}
    <3>1. down'[x] # <<>> => Reader(x) /\ conn'[x] = "joined"
      BY <1>a, <2>1, <2>5 DEF Members
    <3>2. controlled'[x] \subseteq {x[1]}
      BY <1>0, <1>a, <2>1, <2>6
    <3>3. Entries(up'[x]) \subseteq Entries(up[x])
      BY <1>0, <2>1, <2>3
    <3> QED
      BY <1>0, <1>a, <2>1, <3>1, <3>2, <3>3
  <2>8. \A j \in Instances : RoomIs(j)'
    <3>1. \A j \in Instances : j # i => shown'[j] = shown[j] /\ clock'[j] = clock[j]
      BY <1>0, <2>1, <2>2, NodesOfBoth DEF Merge, Clocks
    <3>2. \A j \in Instances : IsRoom(j)' <=> IsRoom(j)
      BY <2>1 DEF IsRoom, Members
    <3> QED
      BY <1>a, <2>1, <2>2, <2>5, <3>1, <3>2 DEF RoomIs
  <2>9. \A d \in Clients : shown'[d] = shown[d]
    BY <1>0, <2>1, <2>2, NodesOfBoth DEF Merge
  <2>10. /\ \A d \in Clients : shown'[d] \subseteq shown[d]
         /\ \A d \in here : d \in shown[d] => d \in shown'[d]
    BY <1>0, <2>9
  <2> QED
    BY <2>1, <2>7, <2>8, <2>10, SocketsKept
<1>9. ASSUME NEW s \in Sockets, SocketClosed(s)
      PROVE  SocketsInv'
  <2> DEFINE i == at[s]
             gone == Removal(i, controlled[s] \cap shown[i])
  <2>1. /\ conn[s] \in {"queued", "joined"} /\ ~Reader(s) /\ up[s] = <<>>
        /\ conn' = [conn EXCEPT ![s] = "gone"] /\ at' = [at EXCEPT ![s] = None]
        /\ controlled' = [controlled EXCEPT ![s] = {}]
        /\ UNCHANGED <<here, linked, last, cut, up>>
    BY <1>9 DEF SocketClosed, provider
  <2>2. i \in Instances /\ i \in Nodes
    BY <1>0, <2>1, NodesOfBoth
  <2>3. gone \in Frame
    BY <2>2, TypeFacts, EncodedBehind
  <2> HIDE DEF gone
  <2>4. ASSUME NEW x \in Sockets
        PROVE  down'[x] # <<>> => Reader(x) /\ conn'[x] = "joined"
    <3>1. down'[x] # <<>> => down[x] # <<>> \/ (x \in Members(i) \ {s} /\ Reader(x))
      <4>1. CASE Members(i) \ {s} # {}
        <5>1. Spread(i, gone, {s})
          BY <1>9, <4>1 DEF SocketClosed, gone
        <5> QED
          BY <1>0, <2>3, <5>1, EntriesSpread
      <4>2. CASE Members(i) \ {s} = {}
        <5>1. down' = down
          BY <1>9, <4>2 DEF SocketClosed
        <5> QED
          BY <5>1
      <4> QED
        BY <4>1, <4>2
    <3>2. down[x] # <<>> => Reader(x) /\ conn[x] = "joined"
      BY <1>a
    <3>3. x # s => conn'[x] = conn[x]
      BY <1>0, <2>1
    <3> QED
      BY <2>1, <3>1, <3>2, <3>3 DEF Members
  <2>5. ASSUME NEW x \in Sockets
        PROVE  /\ conn'[x] = "none" <=> conn[x] = "none"
               /\ conn'[x] = "queued" => conn[x] = "queued"
               /\ up'[x] # <<>> => conn'[x] \in {"queued", "joined"} /\ up[x] # <<>>
               /\ controlled'[x] \subseteq {x[1]} /\ Entries(up'[x]) = Entries(up[x])
               /\ Reader(x) /\ conn[x] \in {"queued", "joined"} => conn'[x] \in {"queued", "joined"}
    BY <1>0, <1>a, <2>1
  <2>6. \A d \in Clients : shown'[d] = shown[d]
    BY <1>0, <1>9, <2>2, NodesOfBoth DEF SocketClosed, Forget
  <2>7. /\ \A d \in Clients : shown'[d] \subseteq shown[d]
        /\ \A d \in here : d \in shown[d] => d \in shown'[d]
    BY <1>0, <2>6
  <2>8. ASSUME NEW j \in Instances
        PROVE  RoomIs(j)'
    <3>1. Members(j)' = Members(j) \ {s}
      BY <1>0, <2>1 DEF Members
    <3>2. CASE Members(i) \ {s} # {}
      <4>1. Spread(i, gone, {s}) /\ Forget(i, Ids(gone))
        BY <1>9, <3>2 DEF SocketClosed, gone
      <4>2. ~IsRoom(j) => bus'[j] = bus[j]
        BY <1>0, <2>3, <4>1, EntriesSpread
      <4>3. clock'[j] = clock[j] /\ shown'[j] \subseteq shown[j]
        BY <1>0, <4>1, NodesOfBoth DEF Forget
      <4>4. IsRoom(j) => IsRoom(j)'
        <5>1. CASE j = i
          BY <3>1, <3>2, <5>1 DEF IsRoom
        <5>2. CASE j # i
          BY <3>1, <5>2 DEF IsRoom, Members
        <5> QED
          BY <5>1, <5>2
      <4> QED
        BY <1>a, <4>2, <4>3, <4>4 DEF RoomIs
    <3>3. CASE Members(i) \ {s} = {}
      <4>1. /\ bus' = [IF gone = {} THEN bus ELSE Published(bus, i, gone) EXCEPT ![i] = <<>>]
            /\ shown' = [shown EXCEPT ![i] = {}] /\ clock' = [clock EXCEPT ![i] = NoClocks]
        BY <1>9, <3>3 DEF SocketClosed, gone
      <4>2. CASE j = i
        <5>1. i \in DOMAIN (IF gone = {} THEN bus ELSE Published(bus, i, gone))
          BY <1>0, <2>2 DEF Published
        <5> QED
          BY <1>0, <2>2, <4>1, <4>2, <5>1, NodesOfBoth DEF RoomIs, Clocks
      <4>3. CASE j # i
        <5>1. clock'[j] = clock[j] /\ shown'[j] = shown[j]
          BY <1>0, <4>1, <4>3, NodesOfBoth DEF Clocks
        <5>2. ASSUME ~IsRoom(j)
              PROVE  bus'[j] = bus[j]
          <6>1. Published(bus, i, gone)[j] = bus[j]
            BY <1>0, <2>3, <5>2, EntriesPublished
          <6>2. bus \in [Instances -> Queue] /\ Published(bus, i, gone) = [x \in Instances |-> Published(bus, i, gone)[x]]
            BY <1>0 DEF Published
          <6> QED
            BY <4>1, <4>3, <6>1, <6>2
        <5>3. IsRoom(j) => IsRoom(j)'
          BY <3>1, <4>3 DEF IsRoom, Members
        <5> QED
          BY <1>a, <5>1, <5>2, <5>3 DEF RoomIs
      <4> QED
        BY <4>2, <4>3
    <3> QED
      BY <3>2, <3>3
  <2> QED
    BY <2>1, <2>4, <2>5, <2>7, <2>8, SocketsKept
<1>10. ASSUME NEW i \in Instances, ReceiveBus(i)
       PROVE  SocketsInv'
  <2> DEFINE u == Head(bus[i])
             rest == [bus EXCEPT ![i] = Tail(@)]
  <2>1. bus[i] # <<>> /\ i \in Nodes /\ IsRoom(i)
    BY <1>a, <1>10, NodesOfBoth DEF ReceiveBus
  <2>2. UNCHANGED <<here, linked, last, at, conn, controlled, cut, up>>
    BY <1>10 DEF ReceiveBus, provider, server
  <2>3. u \in Frame /\ Behind(clock, u) /\ rest \in [Instances -> Queue]
    BY <1>0, <2>1, TypeFacts, QueueTail
  <2>4. \A j \in Instances : j # i => rest[j] = bus[j]
    BY <1>0
  <2> HIDE DEF u, rest
  <2>5. /\ \A x \in Sockets : down'[x] # <<>> => down[x] # <<>> \/ (x \in Members(i) /\ Reader(x))
        /\ \A j \in Instances : ~IsRoom(j) => bus'[j] = bus[j]
        /\ \A j \in Nodes : j # i => shown'[j] = shown[j] /\ clock'[j] = clock[j]
    <3>1. CASE u = Request
      <4>1. /\ bus' = IF shown[i] = {} THEN rest ELSE Published(rest, i, Encode(i, shown[i]))
            /\ UNCHANGED <<clock, shown, down>>
        BY <1>10, <3>1 DEF ReceiveBus, awareness, u, rest
      <4>2. Encode(i, shown[i]) \in Frame
        BY <1>0, <2>1, TypeFacts, EncodedBehind
      <4>3. \A j \in Instances : ~IsRoom(j) => bus'[j] = bus[j]
        BY <2>1, <2>3, <2>4, <4>1, <4>2, EntriesPublished
      <4> QED
        BY <4>1, <4>3
    <3>2. CASE u # Request
      <4>1. Merge(i, u) /\ down' = Sent(i, Relayed(i, u), {}) /\ bus' = rest
        BY <1>10, <3>2 DEF ReceiveBus, u, rest
      <4>2. Relayed(i, u) \in Frame
        BY <2>1, <2>3, <4>1, TypeFacts, MergeBehind
      <4>3. \A x \in Sockets : down'[x] # <<>> => down[x] # <<>> \/ (x \in Members(i) \ {} /\ Reader(x))
        BY <1>0, <4>1, <4>2, EntriesSent
      <4>4. \A j \in Nodes : j # i => shown'[j] = shown[j] /\ clock'[j] = clock[j]
        BY <1>0, <2>1, <4>1 DEF Merge, Clocks
      <4> QED
        BY <2>1, <2>4, <4>1, <4>3, <4>4
    <3> QED
      BY <3>1, <3>2
  <2>6. ASSUME NEW x \in Sockets
        PROVE  /\ conn'[x] = "none" <=> conn[x] = "none"
               /\ conn'[x] = "queued" => conn[x] = "queued"
               /\ up'[x] # <<>> => conn'[x] \in {"queued", "joined"} /\ up[x] # <<>>
               /\ down'[x] # <<>> => Reader(x) /\ conn'[x] = "joined"
               /\ controlled'[x] \subseteq {x[1]} /\ Entries(up'[x]) = Entries(up[x])
               /\ Reader(x) /\ conn[x] \in {"queued", "joined"} => conn'[x] \in {"queued", "joined"}
    BY <1>a, <2>2, <2>5 DEF Members
  <2>7. \A j \in Instances : RoomIs(j)'
    <3>1. \A j \in Instances : IsRoom(j)' <=> IsRoom(j)
      BY <2>2 DEF IsRoom, Members
    <3> QED
      BY <1>a, <2>1, <2>5, <3>1, NodesOfBoth DEF RoomIs
  <2>8. /\ \A d \in Clients : shown'[d] \subseteq shown[d]
        /\ \A d \in here : d \in shown[d] => d \in shown'[d]
    BY <1>0, <2>1, <2>5, NodesOfBoth
  <2> QED
    BY <2>2, <2>6, <2>7, <2>8, SocketsKept
<1>11. ASSUME NEW c \in Clients, Break(c)
       PROVE  SocketsInv'
  <2>1. /\ c \in Online /\ cut' = cut \cup {Current(c)}
        /\ up' = [up EXCEPT ![Current(c)] = <<>>] /\ down' = [down EXCEPT ![Current(c)] = <<>>]
        /\ UNCHANGED <<clock, shown, here, linked, last, at, conn, controlled, bus>>
    BY <1>11 DEF Break, awareness, provider, server
  <2>2. (\A d : Current(d)' = Current(d)) /\ \A d \in Clients \ {c} : Current(d) # Current(c)
    BY <2>1, CurrentSockets DEF Current
  <2>3. Online' = Online \ {c}
    BY <1>0, <2>1, <2>2 DEF Online
  <2>4. ASSUME NEW s \in Sockets
        PROVE  SocketIs(s)'
    <3>1. CASE s = Current(c)
      <4>1. up'[s] = <<>> /\ down'[s] = <<>>
        BY <1>0, <2>1, <3>1
      <4> QED
        BY <1>a, <2>1, <4>1, EntriesEmpty DEF SocketIs
    <3>2. CASE s # Current(c)
      <4>1. up'[s] = up[s] /\ down'[s] = down[s] /\ (Reader(s) => Reader(s)')
        BY <1>0, <2>1, <2>2, <3>2 DEF Reader
      <4>2. s[1] \in Clients /\ (s = Current(s[1]) => s[1] # c)
        BY <3>2, CurrentSockets
      <4>3. up'[s] # <<>> => /\ conn'[s] \in {"queued", "joined"} /\ s = Current(s[1])'
                             /\ s[1] \notin here' \/ s[1] \in Online'
        BY <1>a, <2>1, <2>2, <2>3, <4>1, <4>2
      <4> QED
        BY <1>a, <2>1, <4>1, <4>3 DEF SocketIs
    <3> QED
      BY <3>1, <3>2
  <2>5. \A d \in Clients : ClientIs(d)'
    BY <1>a, <2>1, <2>2, <2>3 DEF ClientIs
  <2>6. \A i \in Instances : RoomIs(i)'
    BY <1>a, <2>1 DEF RoomIs, IsRoom, Members
  <2>7. linked' \subseteq here' /\ cut' \subseteq {Current(d)' : d \in linked'}
    BY <1>0, <1>a, <2>1, <2>2
  <2> QED
    BY <2>4, <2>5, <2>6, <2>7 DEF SocketsInv
<1>12. ASSUME NEW s \in Sockets, Drop(s)
       PROVE  SocketsInv'
  <2>1. UNCHANGED <<clock, shown, here, linked, last, at, conn, controlled, cut, bus>>
    BY <1>12 DEF Drop, awareness, provider, server
  <2>2. ASSUME NEW x \in Sockets
        PROVE  /\ up'[x] # <<>> => up[x] # <<>>
               /\ down'[x] # <<>> => down[x] # <<>>
               /\ Entries(up'[x]) \subseteq Entries(up[x])
    <3>1. up'[x] = up[x] \/ (up[x] # <<>> /\ up'[x] = Tail(up[x]))
      BY <1>0, <1>12 DEF Drop
    <3>2. down'[x] = down[x] \/ down[x] # <<>>
      BY <1>0, <1>12 DEF Drop
    <3> QED
      BY <1>0, <3>1, <3>2, EntriesTail
  <2>3. \A x \in Sockets :
           /\ conn'[x] = "none" <=> conn[x] = "none"
           /\ conn'[x] = "queued" => conn[x] = "queued"
           /\ up'[x] # <<>> => conn'[x] \in {"queued", "joined"} /\ up[x] # <<>>
           /\ down'[x] # <<>> => Reader(x) /\ conn'[x] = "joined"
           /\ controlled'[x] \subseteq {x[1]} /\ Entries(up'[x]) \subseteq Entries(up[x])
           /\ Reader(x) /\ conn[x] \in {"queued", "joined"} => conn'[x] \in {"queued", "joined"}
    BY <1>a, <2>1, <2>2
  <2>4. /\ \A j \in Instances : RoomIs(j)'
        /\ \A d \in Clients : shown'[d] \subseteq shown[d]
        /\ \A d \in here : d \in shown[d] => d \in shown'[d]
    BY <1>a, <2>1 DEF RoomIs, IsRoom, Members
  <2> QED
    BY <2>1, <2>3, <2>4, SocketsKept
<1>13. ASSUME NEW i \in Instances, Crash(i)
       PROVE  SocketsInv'
  <2> DEFINE dead == {s \in Sockets : at[s] = i /\ conn[s] \in {"queued", "joined"}}
  <2>1. /\ conn' = [s \in Sockets |-> IF s \in dead THEN "gone" ELSE conn[s]]
        /\ at' = [s \in Sockets |-> IF s \in dead THEN None ELSE at[s]]
        /\ controlled' = [s \in Sockets |-> IF s \in dead THEN {} ELSE controlled[s]]
        /\ cut' = cut \cup {s \in dead : Reader(s)}
        /\ up' = [s \in Sockets |-> IF s \in dead THEN <<>> ELSE up[s]]
        /\ down' = [s \in Sockets |-> IF s \in dead THEN <<>> ELSE down[s]]
        /\ bus' = [bus EXCEPT ![i] = <<>>]
        /\ shown' = [shown EXCEPT ![i] = {}] /\ clock' = [clock EXCEPT ![i] = NoClocks]
        /\ here' = here /\ linked' = linked /\ last' = last
    BY <1>13 DEF Crash, provider
  <2>2. \A s \in Sockets : s \in dead <=> at[s] = i /\ conn[s] \in {"queued", "joined"}
    OBVIOUS
  <2> HIDE DEF dead
  <2>3. \A d : Current(d)' = Current(d)
    BY <2>1 DEF Current
  <2>4. \A d \in Clients : d \in Online' <=> d \in Online /\ Current(d) \notin dead
    <3>1. ASSUME NEW d \in linked
          PROVE  Reader(Current(d)) <=> Current(d) \notin cut
      BY <1>0, <3>1, CurrentSockets DEF Reader
    <3> QED
      BY <2>1, <2>3, <3>1 DEF Online
  <2>5. ASSUME NEW s \in Sockets
        PROVE  SocketIs(s)'
    <3>1. CASE s \in dead
      <4>1. up'[s] = <<>> /\ down'[s] = <<>> /\ conn'[s] = "gone" /\ controlled'[s] = {} /\ conn[s] # "none"
        BY <2>1, <2>2, <3>1
      <4> QED
        BY <1>a, <2>1, <4>1, EntriesEmpty DEF SocketIs
    <3>2. CASE s \notin dead
      <4>1. up'[s] = up[s] /\ down'[s] = down[s] /\ conn'[s] = conn[s] /\ controlled'[s] = controlled[s]
        BY <2>1, <3>2
      <4>2. s[1] \in Clients /\ (Reader(s) => Reader(s)')
        BY <2>1, <2>3, <3>2, CurrentSockets DEF Reader
      <4>3. up'[s] # <<>> => /\ conn'[s] \in {"queued", "joined"} /\ s = Current(s[1])'
                             /\ s[1] \notin here' \/ s[1] \in Online'
        BY <1>a, <2>1, <2>3, <2>4, <3>2, <4>1, <4>2
      <4> QED
        BY <1>a, <2>1, <4>1, <4>2, <4>3 DEF SocketIs
    <3> QED
      BY <3>1, <3>2
  <2>6. ASSUME NEW d \in Clients
        PROVE  ClientIs(d)'
    <3>1. shown'[d] = shown[d]
      BY <1>0, <2>1, NodesOfBoth
    <3>2. d \in linked => conn'[Current(d)] = IF Current(d) \in dead THEN "gone" ELSE conn[Current(d)]
      BY <2>1, CurrentSockets
    <3> QED
      BY <1>a, <1>0, <2>1, <2>3, <2>4, <3>1, <3>2 DEF ClientIs
  <2>7. ASSUME NEW j \in Instances
        PROVE  RoomIs(j)'
    <3>1. CASE j = i
      BY <1>0, <2>1, <3>1, NodesOfBoth DEF RoomIs, Clocks
    <3>2. CASE j # i
      <4>1. clock'[j] = clock[j] /\ shown'[j] = shown[j] /\ bus'[j] = bus[j]
        BY <1>0, <2>1, <3>2, NodesOfBoth DEF Clocks
      <4>2. \A s \in Members(j) : s \notin dead
        BY <2>2, <3>2 DEF Members
      <4>3. IsRoom(j) => IsRoom(j)'
        BY <2>1, <4>2 DEF IsRoom, Members
      <4> QED
        BY <1>a, <4>1, <4>3 DEF RoomIs
    <3> QED
      BY <3>1, <3>2
  <2>8. linked' \subseteq here' /\ cut' \subseteq {Current(d)' : d \in linked'}
    BY <1>a, <2>1, <2>3 DEF Reader
  <2> QED
    BY <2>5, <2>6, <2>7, <2>8 DEF SocketsInv
<1>14. CASE UNCHANGED vars
  <2>1. UNCHANGED <<clock, shown, here, linked, last, at, conn, controlled, cut, up, down, bus>>
    BY <1>14 DEF vars, awareness, provider, server
  <2>2. \A s \in Sockets : SocketIs(s)'
    BY <1>a, <2>1 DEF SocketIs, Online, Current, Reader
  <2>3. \A c \in Clients : ClientIs(c)'
    BY <1>a, <2>1 DEF ClientIs, Online, Current
  <2>4. \A i \in Instances : RoomIs(i)'
    BY <1>a, <2>1 DEF RoomIs, IsRoom, Members
  <2> QED
    BY <1>a, <2>1, <2>2, <2>3, <2>4 DEF SocketsInv, Current
<1> QED
  BY <1>1, <1>2, <1>3, <1>4, <1>5, <1>6, <1>7, <1>8, <1>9, <1>10, <1>11, <1>12, <1>13, <1>14
  DEF Next

(* The entries u say that client c is here, with clock k. *)
Tells(u, c, k) == \E e \in u : e.id = c /\ e.here /\ e.clock = k
Room(c) == at[Current(c)]
Joined(c) == conn[Current(c)] = "joined"

(* A removal of client c with its present clock is on its way to it. *)
WillMove(c) ==
    /\ Joined(c)
    /\ \/ Removes(Entries(down[Current(c)]), c, clock[c][c])
       \/ /\ Removes(Entries(bus[Room(c)]), c, clock[c][c])
          /\ c \in shown[Room(c)] /\ clock[Room(c)][c] = clock[c][c]

(* There is no such removal anywhere. *)
NotRemoved(c) ==
    /\ \A s \in Sockets : ~Removes(Entries(down[s]), c, clock[c][c])
    /\ \A i \in Instances : /\ ~Removes(Entries(bus[i]), c, clock[c][c])
                            /\ clock[i][c] = clock[c][c] => c \in shown[i]

(* Its announcement has reached its room. *)
Known(c) ==
    \/ \E n \in Nodes \ {c} : clock[n][c] = clock[c][c]
    \/ \E s \in Sockets : Tells(Entries(down[s]), c, clock[c][c])
    \/ \E i \in Instances : Tells(Entries(bus[i]), c, clock[c][c])

(* It has not, and is on its way; or it has, and is with d, or on its way there. *)
Unheard(c) == Tells(Entries(up[Current(c)]), c, clock[c][c]) /\ ~Known(c)
HeardBy(c, d) ==
    /\ clock[d][c] = clock[c][c] => c \in shown[d]
    /\ \/ clock[d][c] = clock[c][c]
       \/ Tells(Entries(down[Current(d)]), c, clock[c][c])
       \/ clock[Room(d)][c] # clock[c][c] /\ Tells(Entries(bus[Room(d)]), c, clock[c][c])
Heard(c) ==
    /\ Joined(c) /\ clock[Room(c)][c] = clock[c][c]
    /\ \A d \in (told[c] \cap Online) \ {c} : HeardBy(c, d)

IsTold(c) ==
    /\ c \in linked \cap announced /\ told[c] \subseteq linked
    /\ \A d \in told[c] \cap Online : Joined(d)
    /\ c \in Online =>
        /\ \A s \in Sockets : ~Removes(Entries(up[s]), c, clock[c][c])
        /\ WillMove(c) \/ (NotRemoved(c) /\ (Unheard(c) \/ Heard(c)))

ToldInv ==
    /\ told \in [Clients -> SUBSET Clients]
    /\ ~faulty => \A c \in Clients : told[c] # {} => IsTold(c)

LEMMA SaysUnion ==
  ASSUME NEW u, NEW v, NEW c, NEW k
  PROVE  /\ Tells(u \cup v, c, k) <=> Tells(u, c, k) \/ Tells(v, c, k)
         /\ Removes(u \cup v, c, k) <=> Removes(u, c, k) \/ Removes(v, c, k)
         /\ ~Tells({}, c, k) /\ ~Removes({}, c, k)
BY DEF Tells, Removes

LEMMA SaysSame ==
  ASSUME NEW u, NEW v, NEW w, NEW c, NEW k, w = u \/ w = u \cup v,
         ~Tells(v, c, k), ~Removes(v, c, k)
  PROVE  (Tells(w, c, k) <=> Tells(u, c, k)) /\ (Removes(w, c, k) <=> Removes(u, c, k))
BY DEF Tells, Removes

LEMMA SaysNothing ==
  ASSUME NEW u, NEW c, NEW k, \A e \in u : e.id # c
  PROVE  ~Tells(u, c, k) /\ ~Removes(u, c, k)
BY DEF Tells, Removes

(* What is under way is not ahead. *)
LEMMA SaysBehind ==
  ASSUME PresenceInv
  PROVE  /\ \A s \in Sockets : Behind(clock, Entries(up[s])) /\ Behind(clock, Entries(down[s]))
         /\ \A i \in Instances : Behind(clock, Entries(bus[i]))
BY TypeFacts DEF AllBehind, Behind, Entries

(* applyAwarenessUpdate() at a node that is not the client: how the frame u, that is not
   ahead, changes what the node knows of client c, and what others are told of it. *)
LEMMA MergeOther ==
  ASSUME PresenceInv, NEW n \in Nodes, NEW c \in Clients \ {n}, NEW u \in Frame, Merge(n, u)
  PROVE  \/ /\ clock'[n][c] = clock[n][c] /\ (c \in shown'[n] <=> c \in shown[n])
            /\ \A x \in Relayed(n, u) : x.id # c
            /\ c \notin Added(n, u) /\ c \notin Removed(n, u)
            /\ \A e \in u : e.id = c => /\ e.clock <= clock[n][c]
                                        /\ e.clock = clock[n][c] => e.here \/ c \notin shown[n]
         \/ \E e \in u :
              /\ e.id = c /\ e.clock >= clock[n][c]
              /\ e.clock = clock[n][c] => ~e.here /\ c \in shown[n]
              /\ clock'[n][c] = e.clock /\ (c \in shown'[n] <=> e.here)
              /\ \A x \in u : x.id = c => x = e
              /\ \A x : x \in Relayed(n, u) /\ x.id = c <=>
                     (e.here \/ clock[n][c] # 0) /\ x = [id |-> c, clock |-> e.clock, here |-> e.here]
              /\ c \in Added(n, u) <=> e.here /\ clock[n][c] = 0
              /\ c \in Removed(n, u) <=> ~e.here /\ clock[n][c] # 0
<1>1. clock \in Clocks /\ shown \in [Nodes -> SUBSET Clients]
  BY TypeFacts
<1>2. clock'[n][c] = MergedClock(n, u)[c] /\ shown'[n] = MergedShown(n, u)
  BY <1>1 DEF Merge, Clocks
<1>3. ~IsOwn(n, c)
  BY DEF IsOwn
<1>4. CASE c \notin Ids(News(n, u))
  <2>1. \A e \in u : e.id = c => e \notin News(n, u)
    BY <1>4 DEF Ids
  <2>2. \A e \in u : e.id = c => /\ ~(e.clock > clock[n][c])
                                 /\ ~(e.clock = clock[n][c] /\ ~e.here /\ c \in shown[n])
    BY <2>1 DEF News
  <2>3. \A e \in u : e.id = c => e.clock \in Nat /\ clock[n][c] \in Nat
    BY <1>1, FrameOne DEF Clocks
  <2>4. \A e \in u : e.id = c => /\ e.clock <= clock[n][c]
                                 /\ e.clock = clock[n][c] => e.here \/ c \notin shown[n]
    BY <2>2, <2>3
  <2> QED
    BY <1>2, <1>4, <2>4, MergeNothing
<1>5. CASE c \in Ids(News(n, u))
  <2>1. PICK e \in News(n, u) : e.id = c
    BY <1>5 DEF Ids
  <2>2. /\ e \in u
        /\ MergedClock(n, u)[c] = e.clock /\ (c \in MergedShown(n, u) <=> e.here)
        /\ c \in Added(n, u) <=> e.here /\ clock[n][c] = 0
        /\ c \in Removed(n, u) <=> ~e.here /\ clock[n][c] # 0
        /\ \A x : x \in Relayed(n, u) /\ x.id = c <=>
              (e.here \/ clock[n][c] # 0) /\
              x = [id |-> c, clock |-> MergedClock(n, u)[c], here |-> c \in MergedShown(n, u)]
    BY <1>3, <2>1, MergeNews
  <2>3. e.here \in BOOLEAN /\ e.clock \in Nat /\ clock[n][c] \in Nat
    BY <1>1, <2>2, FrameOne DEF Clocks
  <2>4. (c \in MergedShown(n, u)) = e.here
    BY <2>2, <2>3
  <2>5. \A x : x \in Relayed(n, u) /\ x.id = c <=>
           (e.here \/ clock[n][c] # 0) /\ x = [id |-> c, clock |-> e.clock, here |-> e.here]
    BY <2>2, <2>4
  <2>6. e.clock > clock[n][c] \/ (e.clock = clock[n][c] /\ ~e.here /\ c \in shown[n])
    BY <2>1 DEF News
  <2>7. e.clock >= clock[n][c] /\ (e.clock = clock[n][c] => ~e.here /\ c \in shown[n])
    BY <2>3, <2>6
  <2>8. \A x \in u : x.id = c => x = e
    BY <2>1, <2>2, FrameOne
  <2> QED
    BY <1>2, <2>1, <2>2, <2>5, <2>7, <2>8
<1> QED
  BY <1>4, <1>5

(* What a frame makes a node that is not the client know of the client's present clock,
   and tell. *)
LEMMA MergeAbout ==
  ASSUME PresenceInv, NEW n \in Nodes, NEW c \in Clients \ {n}, NEW u \in Frame, Behind(clock, u),
         Merge(n, u), NEW k, k = clock[c][c]
  PROVE  /\ Removes(Relayed(n, u), c, k) => Removes(u, c, k)
         /\ Tells(Relayed(n, u), c, k) => Tells(u, c, k)
         /\ clock'[n][c] = k =>
                \/ clock[n][c] = k /\ (c \in shown'[n] <=> c \in shown[n])
                \/ Tells(u, c, k) /\ Tells(Relayed(n, u), c, k) /\ c \in shown'[n]
                \/ Removes(u, c, k)
         /\ clock[n][c] = k => clock'[n][c] = k /\ ((c \in shown'[n] <=> c \in shown[n]) \/ Removes(u, c, k))
         /\ Tells(u, c, k) /\ clock[n][c] # k =>
                clock'[n][c] = k /\ c \in shown'[n] /\ Tells(Relayed(n, u), c, k)
         /\ Removes(u, c, k) /\ clock[n][c] = k /\ c \in shown[n] => Removes(Relayed(n, u), c, k)
<1> DEFINE r == Relayed(n, u)
<1>1. k \in Nat \ {0} /\ clock[n][c] \in Nat /\ clock[n][c] <= k
  BY TypeFacts, NodesOfBoth DEF Clocks, Positive, Ahead
<1>2. \A e \in u : e.id = c => e.clock \in Nat \ {0} /\ e.clock <= k /\ e.here \in BOOLEAN
  BY FrameOne DEF Behind
<1>3. CASE /\ clock'[n][c] = clock[n][c] /\ (c \in shown'[n] <=> c \in shown[n])
           /\ \A x \in r : x.id # c
           /\ \A e \in u : e.id = c => /\ e.clock <= clock[n][c]
                                       /\ e.clock = clock[n][c] => e.here \/ c \notin shown[n]
  <2> HIDE DEF r
  <2>1. ~Removes(r, c, k) /\ ~Tells(r, c, k)
    BY <1>3, SaysNothing
  <2>2. Tells(u, c, k) => clock[n][c] = k
    BY <1>1, <1>2, <1>3 DEF Tells
  <2>3. Removes(u, c, k) /\ c \in shown[n] => clock[n][c] # k
    BY <1>1, <1>2, <1>3 DEF Removes
  <2> QED
    BY <1>3, <2>1, <2>2, <2>3 DEF r
<1>4. CASE \E e \in u :
              /\ e.id = c /\ e.clock >= clock[n][c]
              /\ e.clock = clock[n][c] => ~e.here /\ c \in shown[n]
              /\ clock'[n][c] = e.clock /\ (c \in shown'[n] <=> e.here)
              /\ \A x \in u : x.id = c => x = e
              /\ \A x : x \in r /\ x.id = c <=>
                     (e.here \/ clock[n][c] # 0) /\ x = [id |-> c, clock |-> e.clock, here |-> e.here]
  <2>1. PICK e \in u :
              /\ e.id = c /\ e.clock >= clock[n][c]
              /\ e.clock = clock[n][c] => ~e.here /\ c \in shown[n]
              /\ clock'[n][c] = e.clock /\ (c \in shown'[n] <=> e.here)
              /\ \A x \in u : x.id = c => x = e
              /\ \A x : x \in r /\ x.id = c <=>
                     (e.here \/ clock[n][c] # 0) /\ x = [id |-> c, clock |-> e.clock, here |-> e.here]
    BY <1>4
  <2> HIDE DEF r
  <2>2. e.clock \in Nat \ {0} /\ e.clock <= k /\ e.here \in BOOLEAN
    BY <1>2, <2>1
  <2>3. (Tells(u, c, k) <=> e.here /\ e.clock = k) /\ (Removes(u, c, k) <=> ~e.here /\ e.clock = k)
    BY <1>1, <2>1, <2>2 DEF Tells, Removes
  <2>4. \A x \in r : x.id = c => x.clock = e.clock /\ x.here = e.here
    BY <2>1
  <2>5. Tells(r, c, k) => e.here /\ e.clock = k
    BY <2>4 DEF Tells
  <2>6. Removes(r, c, k) => ~e.here /\ e.clock = k
    BY <1>1, <2>2, <2>4 DEF Removes
  <2>7. ASSUME e.here \/ clock[n][c] # 0, e.clock = k
        PROVE  IF e.here THEN Tells(r, c, k) ELSE Removes(r, c, k)
    <3>1. [id |-> c, clock |-> e.clock, here |-> e.here] \in r
      BY <2>1, <2>7
    <3> QED
      BY <1>1, <2>2, <2>7, <3>1 DEF Tells, Removes
  <2> QED
    BY <1>1, <2>1, <2>2, <2>3, <2>5, <2>6, <2>7 DEF r
<1> QED
  BY <1>3, <1>4, MergeOther

(* A step that brings nothing of client c's present clock to anyone. *)
NothingOf(c) ==
    LET k == clock[c][c] IN
    /\ clock'[c][c] = k
    /\ \A s \in Sockets :
        /\ Removes(Entries(up'[s]), c, k) => Removes(Entries(up[s]), c, k)
        /\ Removes(Entries(down'[s]), c, k) => Removes(Entries(down[s]), c, k)
        /\ Tells(Entries(down'[s]), c, k) => Known(c)
    /\ \A i \in Instances :
        /\ Removes(Entries(bus'[i]), c, k) => Removes(Entries(bus[i]), c, k)
        /\ Tells(Entries(bus'[i]), c, k) => Known(c)
        /\ clock'[i][c] = k => clock[i][c] = k /\ (c \in shown[i] => c \in shown'[i])
    /\ \A n \in Nodes \ {c} : clock'[n][c] = k => Known(c) \/ ~NotRemoved(c)

(* What keeps client d in its room, and the room with client c. *)
StaysWith(d, c) ==
    LET k == clock[c][c]
        i == Room(d)
    IN
    /\ d \in Online /\ Current(d)' = Current(d)
    /\ Joined(d) =>
        /\ Joined(d)' /\ Room(d)' = i
        /\ clock'[i][c] = k <=> clock[i][c] = k
        /\ clock[i][c] = k => (c \in shown'[i] <=> c \in shown[i])
        /\ clock[i][c] # k /\ Tells(Entries(bus[i]), c, k) => Tells(Entries(bus'[i]), c, k)
        /\ clock[i][c] = k /\ c \in shown[i] /\ Removes(Entries(bus[i]), c, k)
               => Removes(Entries(bus'[i]), c, k)

LEMMA HeardStays ==
  ASSUME NEW c \in Clients, NEW d \in Clients, clock'[c][c] = clock[c][c],
         StaysWith(d, c), Joined(d), HeardBy(c, d),
         clock'[d][c] = clock[d][c], c \in shown[d] => c \in shown'[d],
         Tells(Entries(down[Current(d)]), c, clock[c][c])
             => Tells(Entries(down'[Current(d)]), c, clock[c][c])
  PROVE  HeardBy(c, d)'
<1>1. Current(d)' = Current(d) /\ Room(d)' = Room(d)
  BY DEF StaysWith
<1>2. clock'[d][c] = clock'[c][c] => c \in shown'[d]
  BY DEF HeardBy
<1>3. \/ clock'[d][c] = clock'[c][c]
      \/ Tells(Entries(down'[Current(d)]), c, clock'[c][c])
      \/ clock'[Room(d)][c] # clock'[c][c] /\ Tells(Entries(bus'[Room(d)]), c, clock'[c][c])
  BY DEF HeardBy, StaysWith
<1> QED
  BY <1>1, <1>2, <1>3 DEF HeardBy

LEMMA ToldAside ==
  ASSUME PresenceInv, NEW c \in Clients, IsTold(c), NothingOf(c),
         c \in linked' \cap announced', told'[c] \subseteq told[c] \cap linked',
         c \in Online' =>
             /\ StaysWith(c, c)
             /\ Removes(Entries(down[Current(c)]), c, clock[c][c])
                    => Removes(Entries(down'[Current(c)]), c, clock[c][c])
             /\ Tells(Entries(up[Current(c)]), c, clock[c][c]) /\ ~Known(c)
                    => Tells(Entries(up'[Current(c)]), c, clock[c][c]),
         \A d \in (told'[c] \cap Online') \ {c} :
             /\ d \in Online /\ (Joined(d) => Joined(d)')
             /\ c \in Online /\ NotRemoved(c) /\ HeardBy(c, d) => HeardBy(c, d)'
  PROVE  IsTold(c)'
<1>1. \A d \in told'[c] \cap Online' : Joined(d)'
  <2>1. ASSUME NEW d \in told'[c] \cap Online'
        PROVE  Joined(d)'
    <3>1. CASE d = c
      BY <2>1, <3>1 DEF IsTold, StaysWith
    <3>2. CASE d # c
      BY <2>1, <3>2 DEF IsTold
    <3> QED
      BY <3>1, <3>2
  <2> QED
    BY <2>1
<1>2. ASSUME c \in Online'
      PROVE  /\ \A s \in Sockets : ~Removes(Entries(up'[s]), c, clock'[c][c])
             /\ WillMove(c)' \/ (NotRemoved(c)' /\ (Unheard(c)' \/ Heard(c)'))
  <2>1. /\ c \in Online /\ Current(c)' = Current(c) /\ clock'[c][c] = clock[c][c]
        /\ Joined(c) => Joined(c)' /\ Room(c)' = Room(c)
    BY <1>2 DEF StaysWith, NothingOf
  <2>2. \A s \in Sockets : ~Removes(Entries(up'[s]), c, clock'[c][c])
    BY <2>1 DEF IsTold, NothingOf
  <2>3. CASE WillMove(c)
    <3>1. Joined(c)
      BY <2>3 DEF WillMove
    <3>2. \/ Removes(Entries(down'[Current(c)]), c, clock[c][c])
          \/ /\ Removes(Entries(bus'[Room(c)]), c, clock[c][c])
             /\ c \in shown'[Room(c)] /\ clock'[Room(c)][c] = clock[c][c]
      BY <1>2, <2>3, <3>1 DEF WillMove, StaysWith
    <3>3. WillMove(c)'
      BY <2>1, <3>1, <3>2 DEF WillMove
    <3> QED
      BY <2>2, <3>3
  <2>4. CASE NotRemoved(c)
    <3>1. NotRemoved(c)'
      BY <2>1, <2>4 DEF NotRemoved, NothingOf
    <3>2. CASE Unheard(c)
      <4>1. ~Known(c) /\ Tells(Entries(up'[Current(c)]), c, clock[c][c])
        BY <1>2, <3>2 DEF Unheard
      <4>2. ~Known(c)'
        BY <2>1, <2>4, <4>1 DEF Known, NothingOf
      <4> QED
        BY <2>1, <2>2, <3>1, <4>1, <4>2 DEF Unheard
    <3>3. CASE Heard(c)
      <4>1. Joined(c)' /\ Room(c)' = Room(c) /\ clock'[Room(c)][c] = clock[c][c]
        BY <1>2, <3>3 DEF Heard, StaysWith
      <4>2. \A d \in (told'[c] \cap Online') \ {c} : HeardBy(c, d)'
        BY <2>1, <2>4, <3>3 DEF Heard
      <4> QED
        BY <2>1, <2>2, <3>1, <4>1, <4>2 DEF Heard
    <3> QED
      BY <2>1, <2>3, <3>2, <3>3 DEF IsTold, WillMove, NotRemoved, Unheard, Heard
  <2> QED
    BY <2>1, <2>3, <2>4 DEF IsTold
<1> QED
  BY <1>1, <1>2 DEF IsTold

LEMMA EntriesTyped ==
  ASSUME NEW q \in Queue
  PROVE  Entries(q) \in SUBSET Entry
BY DEF Entries, Queue, Frame

(* Nothing under way has a clock that the client has yet to reach. *)
LEMMA SaysLater ==
  ASSUME PresenceInv, NEW c \in Clients, NEW q \in Queue, AllBehind(clock, q)
  PROVE  /\ \A e \in Entries(q) : e.id = c => e.clock \in Nat \ {0} /\ e.clock <= clock[c][c]
         /\ ~Removes(Entries(q), c, clock[c][c] + 1) /\ ~Tells(Entries(q), c, clock[c][c] + 1)
<1>1. clock[c][c] \in Nat
  BY TypeFacts, NodesOfBoth DEF Clocks
<1>2. ASSUME NEW e \in Entries(q), e.id = c
      PROVE  e.clock \in Nat \ {0} /\ e.clock <= clock[c][c]
  BY <1>2, EntriesTyped DEF Entry, Entries, AllBehind, Behind
<1> QED
  BY <1>1, <1>2 DEF Removes, Tells

LEMMA ToldSame ==
  ASSUME PresenceInv, NEW c \in Clients, IsTold(c), NothingOf(c),
         c \in linked' \cap announced', told'[c] \subseteq told[c] \cap linked',
         \A d \in told'[c] \cup {c} : d \in Online' =>
             /\ StaysWith(d, c)
             /\ Tells(Entries(down[Current(d)]), c, clock[c][c])
                    => Tells(Entries(down'[Current(d)]), c, clock[c][c])
             /\ Removes(Entries(down[Current(d)]), c, clock[c][c])
                    => Removes(Entries(down'[Current(d)]), c, clock[c][c])
             /\ d # c => clock'[d][c] = clock[d][c] /\ (c \in shown[d] => c \in shown'[d]),
         c \in Online' => (Tells(Entries(up[Current(c)]), c, clock[c][c]) /\ ~Known(c)
                               => Tells(Entries(up'[Current(c)]), c, clock[c][c]))
  PROVE  IsTold(c)'
<1>1. ASSUME NEW d \in (told'[c] \cap Online') \ {c}
      PROVE  /\ d \in Online /\ (Joined(d) => Joined(d)')
             /\ c \in Online /\ NotRemoved(c) /\ HeardBy(c, d) => HeardBy(c, d)'
  <2>1. d \in Online /\ Joined(d) /\ StaysWith(d, c) /\ d \in Clients /\ clock'[c][c] = clock[c][c]
    BY TypeFacts DEF IsTold, StaysWith, NothingOf
  <2>2. Joined(d)'
    BY <2>1 DEF StaysWith
  <2>3. HeardBy(c, d) => HeardBy(c, d)'
    BY <2>1, HeardStays
  <2> QED
    BY <2>1, <2>2, <2>3
<1> QED
  BY <1>1, ToldAside

LEMMA ToldAway ==
  ASSUME NEW c \in Clients, IsTold(c), c \notin Online',
         c \in linked' \cap announced', told'[c] \subseteq told[c] \cap linked',
         \A d \in told'[c] \cap Online' : d \in Online /\ (Joined(d) => Joined(d)')
  PROVE  IsTold(c)'
BY DEF IsTold

(* What removeAwarenessStates() tells others. *)
LEMMA RemovalSays ==
  ASSUME NEW n, NEW ids
  PROVE  /\ Ids(Removal(n, ids)) = ids
         /\ \A c, k : /\ ~Tells(Removal(n, ids), c, k)
                      /\ Removes(Removal(n, ids), c, k) <=> c \in ids /\ clock[n][c] >= k
<1> DEFINE u == Removal(n, ids)
<1>1. \A e \in u : e.id \in ids /\ ~e.here /\ e.clock = clock[n][e.id]
  BY DEF Removal
<1>2. ASSUME NEW c \in ids
      PROVE  \E e \in u : e.id = c
  <2>1. [id |-> c, clock |-> clock[n][c], here |-> FALSE] \in u
    BY DEF Removal
  <2> QED
    BY <2>1
<1> HIDE DEF u
<1>3. \A c : c \in Ids(u) <=> c \in ids
  BY <1>1, <1>2 DEF Ids
<1>4. \A c, k : ~Tells(u, c, k)
  BY <1>1 DEF Tells
<1>5. ASSUME NEW c, NEW k
      PROVE  Removes(u, c, k) <=> c \in ids /\ clock[n][c] >= k
  BY <1>1, <1>2 DEF Removes
<1> QED
  BY <1>3, <1>4, <1>5 DEF u

LEMMA ToldStep ==
  ASSUME PresenceInv, SocketsInv, ToldInv, Next
  PROVE  ToldInv'
<1>0. /\ clock \in Clocks /\ shown \in [Nodes -> SUBSET Clients]
      /\ here \subseteq Clients /\ linked \subseteq Clients
      /\ last \in [Clients -> 0 .. MaxSockets] /\ \A c \in linked : last[c] # 0
      /\ conn \in [Sockets -> {"none", "queued", "joined", "gone"}]
      /\ at \in [Sockets -> Instances \cup {None}]
      /\ \A s \in Sockets : conn[s] \in {"queued", "joined"} => at[s] \in Instances
      /\ controlled \in [Sockets -> SUBSET Clients]
      /\ up \in [Sockets -> Queue] /\ down \in [Sockets -> Queue] /\ bus \in [Instances -> Queue]
      /\ MaxSockets \in Nat /\ Online \subseteq linked
  BY TypeFacts
<1>a. /\ linked \subseteq here /\ cut \subseteq {Current(c) : c \in linked}
      /\ \A s \in Sockets :
          /\ conn[s] = "none" <=> s[2] > last[s[1]]
          /\ up[s] # <<>> => /\ conn[s] \in {"queued", "joined"} /\ s = Current(s[1])
                             /\ s[1] \notin here \/ s[1] \in Online
          /\ down[s] # <<>> => Reader(s) /\ conn[s] = "joined"
          /\ controlled[s] \subseteq {s[1]}
          /\ \A e \in Entries(up[s]) : IF e.here THEN e.id = s[1] ELSE e.id = s[1] => s[1] \notin here
      /\ \A c \in Clients :
          /\ c \in Online => conn[Current(c)] \in {"queued", "joined"}
          /\ c \in here => c \in shown[c]
  BY DEF SocketsInv, SocketIs, ClientIs
<1>b. told \in [Clients -> SUBSET Clients]
  BY DEF ToldInv
<1>c. ASSUME NEW c \in Clients, told[c] # {}, ~faulty
      PROVE  IsTold(c) /\ c \in linked /\ c \in announced /\ told[c] \subseteq linked
  BY <1>c DEF ToldInv, IsTold
<1>d. \A c \in Clients : clock[c][c] \in Nat \ {0} /\ \A n \in Nodes : clock[n][c] \in Nat /\ clock[n][c] <= clock[c][c]
  BY <1>0, TypeFacts, NodesOfBoth DEF Clocks, Positive, Ahead
<1>e. \A d \in Online : Current(d) \in Sockets /\ Reader(Current(d)) /\ Current(d)[1] = d
  BY <1>0, CurrentSockets DEF Online, Reader
<1>f. \A n \in Nodes, c \in Clients : clock'[n][c] \in Nat
  <2>1. clock' \in Clocks
    BY InvStep, InvParts DEF Views
  <2> QED
    BY <2>1 DEF Clocks
<1>1. ASSUME NEW d \in Clients, NEW i \in Instances, Open(d, i)
      PROVE  ToldInv'
  <2> SUFFICES ASSUME NEW c \in Clients, told'[c] # {}, ~faulty'
               PROVE  IsTold(c)'
    BY <1>1, <1>b DEF Open, ToldInv
  <2> DEFINE s == Current(d)'
  <2>1. /\ d \in here \ linked /\ last[d] < MaxSockets
        /\ last' = [last EXCEPT ![d] = last[d] + 1] /\ linked' = linked \cup {d}
        /\ conn' = [conn EXCEPT ![s] = "queued"] /\ at' = [at EXCEPT ![s] = i]
        /\ up' = [up EXCEPT ![s] = <<Own(d, clock[d][d], TRUE)>>]
        /\ UNCHANGED <<clock, shown, controlled, cut, down, bus, told, announced, faulty>>
    BY <1>1 DEF Open, awareness
  <2>2. s = <<d, last[d] + 1>> /\ s \in Sockets /\ \A e \in Clients \ {d} : Current(e)' = Current(e)
    BY <1>0, <2>1 DEF Current, Sockets
  <2> HIDE DEF s
  <2>3. s[1] = d /\ \A e \in Clients \ {d} : Current(e) # s
    BY <2>2, CurrentSockets
  <2>4. IsTold(c) /\ c \in linked /\ c \in announced /\ told[c] \subseteq linked /\ c # d /\ d \notin told[c]
    BY <1>c, <2>1
  <2>5. \A e \in linked : e \in Online' => e \in Online
    BY <1>0, <2>1, <2>2 DEF Online
  <2>6. ASSUME NEW x \in Sockets
        PROVE  Removes(Entries(up'[x]), c, clock[c][c]) => Removes(Entries(up[x]), c, clock[c][c])
    <3>1. CASE x = s
      <4>1. up'[x] = <<Own(d, clock[d][d], TRUE)>>
        BY <1>0, <2>1, <2>2, <3>1
      <4>2. \A e \in Entries(up'[x]) : e.id # c
        BY <2>4, <4>1 DEF Entries, Own
      <4> QED
        BY <4>2, SaysNothing
    <3>2. CASE x # s
      BY <1>0, <2>1, <3>2
    <3> QED
      BY <3>1, <3>2
  <2>7. NothingOf(c)
    BY <2>1, <2>6 DEF NothingOf, Known
  <2>8. \A e \in linked : e \in Online' => StaysWith(e, c)
    <3>1. ASSUME NEW e \in linked, e \in Online'
          PROVE  StaysWith(e, c)
      <4>1. e \in Online /\ Current(e)' = Current(e) /\ Current(e) \in Sockets /\ Current(e) # s
        BY <1>0, <1>e, <2>1, <2>2, <2>3, <2>5, <3>1
      <4>2. conn'[Current(e)] = conn[Current(e)] /\ at'[Current(e)] = at[Current(e)]
        BY <1>0, <2>1, <4>1
      <4> QED
        BY <2>1, <4>1, <4>2 DEF StaysWith, Joined, Room
    <3> QED
      BY <3>1
  <2>9. up'[Current(c)] = up[Current(c)]
    BY <1>0, <2>1, <2>3, <2>4, CurrentSockets
  <2> QED
    BY <2>1, <2>4, <2>7, <2>8, <2>9, ToldSame
<1>2. ASSUME NEW d \in Clients, Announce(d)
      PROVE  ToldInv'
  <2> SUFFICES ASSUME NEW c \in Clients, told'[c] # {}, ~faulty'
               PROVE  IsTold(c)'
    <3>1. told' \in [Clients -> SUBSET Clients]
      BY <1>0, <1>2, <1>b DEF Announce, InSession
    <3> QED
      BY <3>1 DEF ToldInv
  <2> DEFINE u == Own(d, clock[d][d] + 1, TRUE)
  <2>1. /\ clock' = [clock EXCEPT ![d][d] = @ + 1] /\ up' = SentUp(d, u)
        /\ announced' = announced \cup ({d} \cap linked)
        /\ told' = IF d \in linked THEN [told EXCEPT ![d] = InSession] ELSE told
        /\ UNCHANGED <<shown, linked, last, conn, at, controlled, cut, down, bus, faulty>>
    BY <1>2 DEF Announce, server
  <2>2. Online' = Online /\ (\A s : Reader(s)' = Reader(s)) /\ \A e : Current(e)' = Current(e)
    BY <2>1, ReadersStay
  <2>3. clock'[d][d] = clock[d][d] + 1 /\ \A n \in Nodes, e \in Clients : n # d \/ e # d => clock'[n][e] = clock[n][e]
    BY <1>0, <2>1, NodesOfBoth DEF Clocks
  <2>4. u \in Frame
    <3>1. clock[d][d] + 1 \in Nat \ {0}
      BY <1>d
    <3> QED
      BY <3>1, OwnFrame
  <2>5. \A s \in Sockets : Entries(up'[s]) = Entries(up[s]) \cup IF d \in Online /\ s = Current(d) THEN u ELSE {}
    BY <1>0, <1>e, <2>1, <2>4, EntriesAppend DEF SentUp
  <2>6. CASE c = d
    <3>1. c \in linked /\ told'[c] = InSession
      BY <1>b, <1>c, <2>1, <2>6
    <3>2. c \in linked' \cap announced' /\ told'[c] \subseteq linked'
      BY <2>1, <2>6, <3>1 DEF InSession
    <3>3. \A e \in told'[c] \cap Online' : Joined(e)'
      BY <2>1, <2>2, <3>1 DEF InSession, Joined
    <3>4. ASSUME c \in Online'
          PROVE  (\A s \in Sockets : ~Removes(Entries(up'[s]), c, clock'[c][c])) /\ NotRemoved(c)' /\ Unheard(c)'
      <4> DEFINE k == clock[c][c] + 1
      <4>1. clock'[c][c] = k /\ c \in Online
        BY <2>2, <2>3, <2>6, <3>4
      <4>2. \A s \in Sockets : /\ ~Removes(Entries(up[s]), c, k) /\ ~Tells(Entries(up[s]), c, k)
                               /\ ~Removes(Entries(down[s]), c, k) /\ ~Tells(Entries(down[s]), c, k)
        BY <1>0, TypeFacts, SaysLater
      <4>3. \A i \in Instances : ~Removes(Entries(bus[i]), c, k) /\ ~Tells(Entries(bus[i]), c, k)
        BY <1>0, TypeFacts, SaysLater
      <4>4. \A n \in Nodes \ {c} : clock'[n][c] # k
        BY <1>d, <2>3, <2>6
      <4>5. Tells(u, c, k) /\ ~Removes(u, c, k)
        BY <2>6 DEF Own, Tells, Removes
      <4> HIDE DEF k, u
      <4>6. ASSUME NEW s \in Sockets
            PROVE  ~Removes(Entries(up'[s]), c, k)
        <5>1. Entries(up'[s]) = Entries(up[s]) \cup u \/ Entries(up'[s]) = Entries(up[s]) \cup {}
          BY <2>5
        <5>2. ~Removes(Entries(up[s]), c, k)
          BY <4>2
        <5> QED
          BY <4>5, <5>1, <5>2, SaysUnion
      <4>7. Tells(Entries(up'[Current(c)]), c, k)
        BY <1>e, <2>5, <2>6, <4>1, <4>5, SaysUnion
      <4>8. NotRemoved(c)'
        BY <2>1, <4>1, <4>2, <4>3, <4>4, NodesOfBoth DEF NotRemoved
      <4>9. Unheard(c)'
        BY <2>1, <2>2, <4>1, <4>2, <4>3, <4>4, <4>7 DEF Unheard, Known
      <4> QED
        BY <4>1, <4>6, <4>8, <4>9
    <3> QED
      BY <3>2, <3>3, <3>4 DEF IsTold
  <2>7. CASE c # d
    <3>1. told'[c] = told[c] /\ IsTold(c) /\ c \in linked' \cap announced' /\ told[c] \subseteq linked'
      BY <1>b, <1>c, <2>1, <2>7
    <3>2. ~Tells(u, c, clock[c][c]) /\ ~Removes(u, c, clock[c][c])
      BY <2>7, SaysNothing DEF Own
    <3>3. \A n \in Nodes : clock'[n][c] = clock[n][c]
      BY <2>3, <2>7
    <3> HIDE DEF u
    <3>4. \A s \in Sockets : /\ Removes(Entries(up'[s]), c, clock[c][c]) <=> Removes(Entries(up[s]), c, clock[c][c])
                             /\ Tells(Entries(up'[s]), c, clock[c][c]) <=> Tells(Entries(up[s]), c, clock[c][c])
      BY <2>5, <3>2, SaysUnion
    <3>5. NothingOf(c)
      BY <2>1, <3>3, <3>4, NodesOfBoth DEF NothingOf, Known
    <3>6. \A e \in Online : StaysWith(e, c)
      <4>1. \A e \in Online : Joined(e) => Room(e) \in Nodes
        BY <1>0, <1>e, NodesOfBoth DEF Joined, Room
      <4> QED
        BY <2>1, <2>2, <3>3, <4>1 DEF StaysWith, Joined, Room
    <3>7. \A e \in Clients : clock'[e][c] = clock[e][c]
      BY <3>3, NodesOfBoth
    <3> QED
      BY <1>0, <1>e, <2>1, <2>2, <3>1, <3>4, <3>5, <3>6, <3>7, ToldSame
  <2> QED
    BY <2>6, <2>7
<1>3. ASSUME NEW d \in Clients, Receive(d)
      PROVE  ToldInv'
  <2> DEFINE s == Current(d)
             u == Head(down[s])
  <2>0. /\ d \in linked /\ down[s] # <<>> /\ Merge(d, u)
        /\ down' = [down EXCEPT ![s] = Tail(@)]
        /\ told' = IF clock'[d][d] # clock[d][d] THEN [told EXCEPT ![d] = {}] ELSE told
        /\ UNCHANGED <<linked, last, announced, conn, at, controlled, cut, up, bus, faulty>>
    BY <1>3 DEF Receive, provider, server
  <2> SUFFICES ASSUME NEW c \in Clients, told'[c] # {}, ~faulty'
               PROVE  IsTold(c)'
    <3>1. told' \in [Clients -> SUBSET Clients]
      BY <1>b, <2>0
    <3> QED
      BY <3>1 DEF ToldInv
  <2>1. Online' = Online /\ (\A x : Reader(x)' = Reader(x)) /\ \A e : Current(e)' = Current(e)
    BY <2>0, ReadersStay
  <2>2. s \in Sockets /\ d \in Nodes /\ u \in Frame /\ Entries(down[s]) = u \cup Entries(Tail(down[s]))
    BY <1>0, <2>0, CurrentSockets, EntriesTail, NodesOfBoth
  <2>3. \A x \in Sockets : Entries(down'[x]) = IF x = s THEN Entries(Tail(down[s])) ELSE Entries(down[x])
    BY <1>0, <2>0, <2>2
  <2>4. \A n \in Nodes \ {d} : clock'[n] = clock[n] /\ shown'[n] = shown[n]
    BY <1>0, <2>0, <2>2 DEF Merge, Clocks
  <2>5. told'[c] = told[c] /\ IsTold(c) /\ c \in linked' \cap announced' /\ told[c] \subseteq linked'
    BY <1>b, <1>c, <2>0
  <2> DEFINE k == clock[c][c]
  <2> HIDE DEF s, u
  <2>p. /\ Removes(Entries(down[s]), c, k) <=> Removes(u, c, k) \/ Removes(Entries(Tail(down[s])), c, k)
        /\ Tells(Entries(down[s]), c, k) <=> Tells(u, c, k) \/ Tells(Entries(Tail(down[s])), c, k)
    BY <2>2, SaysUnion
  <2>6. \A x \in Sockets : /\ Removes(Entries(down'[x]), c, k) => Removes(Entries(down[x]), c, k)
                           /\ Tells(Entries(down'[x]), c, k) => Tells(Entries(down[x]), c, k)
    BY <2>3, <2>p
  <2>7. \A e \in Online \ {d} : Current(e) # s
    BY <1>0, <2>0, <2>2, CurrentSockets DEF s
  <2>8. \A e \in Online : StaysWith(e, c)
    <3>1. \A e \in Online : Joined(e) => Room(e) \in Nodes \ {d}
      BY <1>0, <1>e, NodesOfBoth DEF Joined, Room
    <3> QED
      BY <2>0, <2>1, <2>4, <3>1 DEF StaysWith, Joined, Room
  <2>9. CASE c = d
    <3>1. clock'[c][c] = k
      BY <1>b, <2>0, <2>9 DEF k
    <3>2. NothingOf(c)
      BY <2>0, <2>4, <2>6, <2>9, <3>1, NodesOfBoth DEF NothingOf, Known, k
    <3>3. c \in Online => (Removes(Entries(down[s]), c, k) => Removes(Entries(down'[s]), c, k))
      <4> SUFFICES ASSUME c \in Online, Removes(u, c, k)
                   PROVE  FALSE
        BY <2>2, <2>3, <2>p
      <4>1. PICK e \in u : e.id = c /\ ~e.here /\ e.clock >= k
        BY DEF Removes
      <4>2. e.clock = k
        <5>1. e \in Entries(down[s])
          BY <2>2
        <5>2. e.clock \in Nat /\ e.clock <= k
          BY <1>0, <2>2, <4>1, <5>1, TypeFacts, SaysLater DEF k
        <5>3. k \in Nat
          BY <1>d DEF k
        <5> QED
          BY <4>1, <5>2, <5>3
      <4>3. c \in shown[c] /\ IsOwn(d, c)
        BY <1>0, <1>a, <2>9 DEF IsOwn
      <4>4. e \in News(d, u)
        BY <2>9, <4>1, <4>2, <4>3 DEF News, k
      <4>5. clock'[c][c] = MergedClock(d, u)[c]
        BY <1>0, <2>0, <2>2, <2>9 DEF Merge, Clocks, s, u
      <4>6. clock'[c][c] = k + 1
        BY <2>2, <4>1, <4>2, <4>3, <4>4, <4>5, MergeNews
      <4> QED
        BY <1>d, <3>1, <4>6 DEF k
    <3>4. ASSUME NEW e \in (told'[c] \cap Online') \ {c}
          PROVE  /\ e \in Online /\ (Joined(e) => Joined(e)')
                 /\ c \in Online /\ NotRemoved(c) /\ HeardBy(c, e) => HeardBy(c, e)'
      <4>1. e \in Online \ {d} /\ e \in Clients /\ Joined(e) /\ StaysWith(e, c)
        BY <1>0, <2>1, <2>5, <2>8, <2>9 DEF IsTold
      <4>2. Entries(down'[Current(e)]) = Entries(down[Current(e)])
        BY <1>e, <2>3, <2>7, <4>1
      <4>3. clock'[e][c] = clock[e][c] /\ shown'[e] = shown[e]
        BY <2>4, <4>1, NodesOfBoth
      <4>4. HeardBy(c, e) => HeardBy(c, e)'
        BY <3>1, <4>1, <4>2, <4>3, HeardStays DEF k
      <4> QED
        BY <4>1, <4>4 DEF StaysWith
    <3> QED
      BY <2>0, <2>1, <2>5, <2>8, <2>9, <3>2, <3>3, <3>4, ToldAside DEF k, s
  <2>10. CASE c # d
    <3>1. clock'[c][c] = k
      BY <2>4, <2>10, NodesOfBoth DEF k
    <3>2. \A e \in u : e.id = c => e.clock \in Nat /\ e.clock <= k /\ e \in Entries(down[s]) /\ k \in Nat
      BY <1>0, <1>d, <2>2, TypeFacts, SaysLater DEF k
    <3>3. Merge(d, u)
      BY <2>0 DEF s, u
    <3>4. clock'[d][c] = k => \/ clock[d][c] = k /\ (c \in shown[d] /\ ~Removes(u, c, k) => c \in shown'[d])
                              \/ Tells(u, c, k) /\ c \in shown'[d]
                              \/ Removes(u, c, k)
      <4>1. k <= k
        BY <1>d DEF k
      <4>2. CASE clock'[d][c] = clock[d][c] /\ (c \in shown'[d] <=> c \in shown[d])
        BY <4>2
      <4>3. CASE \E e \in u : e.id = c /\ clock'[d][c] = e.clock /\ (c \in shown'[d] <=> e.here)
        BY <4>1, <4>3 DEF Tells, Removes
      <4> QED
        BY <2>2, <2>10, <3>3, <4>2, <4>3, MergeOther
    <3>5. NothingOf(c)
      <4>1. \A x \in Sockets : Tells(Entries(down[x]), c, k) => Known(c)
        BY DEF Known, k
      <4>2. \A n \in Nodes \ {c} : clock[n][c] = k => Known(c)
        BY DEF Known, k
      <4>3. clock'[d][c] = k => Known(c) \/ ~NotRemoved(c)
        <5>1. Removes(u, c, k) => ~NotRemoved(c)
          BY <2>2, <2>p DEF NotRemoved, k
        <5>2. Tells(u, c, k) => Known(c)
          BY <2>2, <2>p, <4>1
        <5>3. clock[d][c] = k => Known(c)
          BY <2>2, <2>10, <4>2
        <5> QED
          BY <3>4, <5>1, <5>2, <5>3
      <4> QED
        BY <2>0, <2>4, <2>6, <2>10, <3>1, <4>1, <4>2, <4>3, NodesOfBoth DEF NothingOf, Known, k
    <3>6. ASSUME d \in Online, NotRemoved(c), HeardBy(c, d), Joined(d)
          PROVE  HeardBy(c, d)'
      <4>1. ~Removes(u, c, k)
        BY <2>2, <2>p, <3>6 DEF NotRemoved, k
      <4>2. clock'[d][c] = k => c \in shown'[d]
        BY <3>4, <3>6, <4>1 DEF HeardBy, k
      <4>3. Tells(Entries(down[s]), c, k) => clock'[d][c] = k \/ Tells(Entries(down'[s]), c, k)
        <5>1. Tells(u, c, k) => clock'[d][c] = k
          <6>1. CASE clock'[d][c] = clock[d][c] /\ \A e \in u : e.id = c => e.clock <= clock[d][c]
            BY <1>d, <2>2, <6>1 DEF Tells, k
          <6>2. CASE \E e \in u : clock'[d][c] = e.clock /\ \A x \in u : x.id = c => x = e
            BY <6>2 DEF Tells
          <6> QED
            BY <2>2, <2>10, <3>3, <6>1, <6>2, MergeOther
        <5> QED
          BY <2>2, <2>3, <2>p, <5>1
      <4>4. clock[d][c] = k => clock'[d][c] = k
        <5>1. clock'[d][c] >= clock[d][c] /\ clock'[d][c] <= k
          <6>1. CASE clock'[d][c] = clock[d][c]
            BY <1>d, <2>2, <6>1 DEF k
          <6>2. CASE \E e \in u : e.id = c /\ clock'[d][c] = e.clock /\ e.clock >= clock[d][c]
            BY <3>2, <6>2
          <6> QED
            BY <2>2, <2>10, <3>3, <6>1, <6>2, MergeOther
        <5>2. clock'[d][c] \in Nat /\ k \in Nat
          BY <1>d, <1>f, <2>2 DEF k
        <5> QED
          BY <5>1, <5>2
      <4>5. /\ Current(d)' = s /\ Room(d)' = Room(d)
            /\ clock'[Room(d)][c] = k <=> clock[Room(d)][c] = k
            /\ clock[Room(d)][c] # k /\ Tells(Entries(bus[Room(d)]), c, k)
                   => Tells(Entries(bus'[Room(d)]), c, k)
        BY <2>8, <3>6 DEF StaysWith, k, s
      <4>6. \/ clock[d][c] = k \/ Tells(Entries(down[s]), c, k)
            \/ clock[Room(d)][c] # k /\ Tells(Entries(bus[Room(d)]), c, k)
        BY <3>6 DEF HeardBy, k, s
      <4> HIDE DEF k
      <4> QED
        BY <3>1, <4>2, <4>3, <4>4, <4>5, <4>6 DEF HeardBy
    <3>7. ASSUME NEW e \in (told'[c] \cap Online') \ {c}
          PROVE  /\ e \in Online /\ (Joined(e) => Joined(e)')
                 /\ c \in Online /\ NotRemoved(c) /\ HeardBy(c, e) => HeardBy(c, e)'
      <4>1. e \in Online /\ e \in Clients /\ Joined(e) /\ StaysWith(e, c)
        BY <1>0, <2>1, <2>5, <2>8 DEF IsTold
      <4>2. CASE e = d
        BY <3>6, <4>1, <4>2 DEF StaysWith
      <4>3. CASE e # d
        <5>1. Entries(down'[Current(e)]) = Entries(down[Current(e)])
          BY <1>e, <2>3, <2>7, <4>1, <4>3
        <5>2. clock'[e][c] = clock[e][c] /\ shown'[e] = shown[e]
          BY <2>4, <4>1, <4>3, NodesOfBoth
        <5>3. HeardBy(c, e) => HeardBy(c, e)'
          BY <3>1, <4>1, <5>1, <5>2, HeardStays DEF k
        <5> QED
          BY <4>1, <5>3 DEF StaysWith
      <4> QED
        BY <4>2, <4>3
    <3>8. c \in Online => Entries(down'[Current(c)]) = Entries(down[Current(c)])
      BY <1>e, <2>3, <2>7, <2>10
    <3> QED
      BY <2>0, <2>1, <2>5, <2>8, <3>5, <3>7, <3>8, ToldAside
  <2> QED
    BY <2>9, <2>10
<1>4. ASSUME NEW d \in Clients, Lost(d)
      PROVE  ToldInv'
  <2>0. /\ d \in linked \ Online /\ Forget(d, Clients \ {d})
        /\ linked' = linked \ {d} /\ announced' = announced \ {d} /\ cut' = cut \ {Current(d)}
        /\ told' = OutOfSession(d)
        /\ UNCHANGED <<last, conn, at, controlled, up, down, bus, faulty>>
    BY <1>4 DEF Lost, server
  <2> SUFFICES ASSUME NEW c \in Clients, told'[c] # {}, ~faulty'
               PROVE  IsTold(c)'
    <3>1. told' \in [Clients -> SUBSET Clients]
      BY <1>b, <2>0 DEF OutOfSession
    <3> QED
      BY <3>1 DEF ToldInv
  <2>1. c # d /\ told'[c] = told[c] \ {d}
    BY <2>0 DEF OutOfSession
  <2>2. IsTold(c) /\ c \in linked' \cap announced' /\ told'[c] \subseteq told[c] \cap linked'
    BY <1>c, <2>0, <2>1
  <2>3. \A e : Current(e)' = Current(e)
    BY <2>0 DEF Current
  <2>4. \A e \in linked \ {d} : e \in Online' => e \in Online
    BY <1>0, <2>0, <2>3, CurrentSockets DEF Online
  <2>5. clock' = clock /\ \A n \in Nodes \ {d} : shown'[n] = shown[n]
    BY <1>0, <2>0 DEF Forget
  <2>6. NothingOf(c)
    BY <2>0, <2>5, NodesOfBoth DEF NothingOf, Known
  <2>7. ASSUME NEW e \in linked \ {d}, e \in Online'
        PROVE  StaysWith(e, c)
    <3>1. e \in Online /\ (Joined(e) => Room(e) \in Nodes \ {d})
      BY <1>0, <1>e, <2>4, <2>7, NodesOfBoth DEF Joined, Room
    <3> QED
      BY <2>0, <2>3, <2>5, <3>1 DEF StaysWith, Joined, Room
  <2>8. \A e \in Clients \ {d} : clock'[e][c] = clock[e][c] /\ shown'[e] = shown[e]
    BY <2>5, NodesOfBoth
  <2> QED
    BY <1>0, <2>0, <2>1, <2>2, <2>6, <2>7, <2>8, ToldSame
<1>5. ASSUME NEW d \in Clients, NEW says \in BOOLEAN, Leave(d, says)
      PROVE  ToldInv'
  <2> DEFINE u == Own(d, clock[d][d] + 1, FALSE)
  <2>0. /\ linked' = linked \ {d} /\ announced' = announced \ {d} /\ cut' = cut \ {Current(d)}
        /\ clock' = [clock EXCEPT ![d] = Only(d, IF says THEN clock[d][d] + 1 ELSE clock[d][d])]
        /\ shown' = [shown EXCEPT ![d] = {}]
        /\ up' = IF says THEN SentUp(d, u) ELSE up
        /\ down' = [s \in Sockets |-> IF s[1] = d THEN <<>> ELSE down[s]]
        /\ told' = OutOfSession(d)
        /\ UNCHANGED <<last, conn, at, controlled, bus, faulty>>
    BY <1>0, <1>5, NodesOfBoth DEF Leave, server, Clocks
  <2> SUFFICES ASSUME NEW c \in Clients, told'[c] # {}, ~faulty'
               PROVE  IsTold(c)'
    <3>1. told' \in [Clients -> SUBSET Clients]
      BY <1>b, <2>0 DEF OutOfSession
    <3> QED
      BY <3>1 DEF ToldInv
  <2>1. c # d /\ told'[c] = told[c] \ {d}
    BY <2>0 DEF OutOfSession
  <2>2. IsTold(c) /\ c \in linked' \cap announced' /\ told'[c] \subseteq told[c] \cap linked'
    BY <1>c, <2>0, <2>1
  <2>3. \A e : Current(e)' = Current(e)
    BY <2>0 DEF Current
  <2>4. \A e \in linked \ {d} : e \in Online' => e \in Online
    BY <1>0, <2>0, <2>3, CurrentSockets DEF Online
  <2>5. \A n \in Nodes \ {d} : clock'[n] = clock[n] /\ shown'[n] = shown[n]
    BY <1>0, <2>0 DEF Clocks
  <2>6. clock'[d][c] = 0
    BY <1>0, <2>0, <2>1, NodesOfBoth DEF Clocks, Only, NoClocks
  <2>7. u \in Frame
    <3>1. clock[d][d] + 1 \in Nat \ {0}
      BY <1>d
    <3> QED
      BY <3>1, OwnFrame
  <2>8. ~Tells(u, c, clock[c][c]) /\ ~Removes(u, c, clock[c][c])
    BY <2>1, SaysNothing DEF Own
  <2> HIDE DEF u
  <2>9. ASSUME NEW s \in Sockets
        PROVE  Removes(Entries(up'[s]), c, clock[c][c]) => Removes(Entries(up[s]), c, clock[c][c])
    <3>1. up'[s] = up[s] \/ up'[s] = Append(up[s], u)
      BY <1>0, <1>e, <2>0 DEF SentUp
    <3>2. Entries(Append(up[s], u)) = Entries(up[s]) \cup u
      BY <1>0, <2>7, EntriesAppend
    <3>3. Entries(up'[s]) = Entries(up[s]) \/ Entries(up'[s]) = Entries(up[s]) \cup u
      BY <3>1, <3>2
    <3> QED
      BY <2>8, <3>3, SaysSame
  <2>10. \A s \in Sockets : Entries(down'[s]) = IF s[1] = d THEN {} ELSE Entries(down[s])
    BY <2>0, EntriesEmpty
  <2>11. NothingOf(c)
    <3>1. \A s \in Sockets : /\ Removes(Entries(down'[s]), c, clock[c][c]) => Removes(Entries(down[s]), c, clock[c][c])
                             /\ Tells(Entries(down'[s]), c, clock[c][c]) => Tells(Entries(down[s]), c, clock[c][c])
      BY <2>10, SaysUnion
    <3>2. clock'[c][c] = clock[c][c] /\ clock'[d][c] # clock[c][c]
      BY <1>d, <2>1, <2>5, <2>6, NodesOfBoth
    <3>3. \A i \in Instances : clock'[i] = clock[i] /\ shown'[i] = shown[i]
      BY <2>5, NodesOfBoth
    <3> QED
      BY <2>0, <2>5, <2>9, <3>1, <3>2, <3>3 DEF NothingOf, Known
  <2>12. ASSUME NEW e \in linked \ {d}, e \in Online'
         PROVE  StaysWith(e, c)
    <3>1. e \in Online /\ (Joined(e) => Room(e) \in Nodes \ {d})
      BY <1>0, <1>e, <2>4, <2>12, NodesOfBoth DEF Joined, Room
    <3>2. clock'[c][c] = clock[c][c]
      BY <2>1, <2>5, NodesOfBoth
    <3> QED
      BY <2>0, <2>3, <2>5, <3>1, <3>2 DEF StaysWith, Joined, Room
  <2>13. \A e \in Clients \ {d} : clock'[e][c] = clock[e][c] /\ shown'[e] = shown[e]
    BY <2>5, NodesOfBoth
  <2>14. \A e \in linked \ {d} : Entries(down'[Current(e)]) = Entries(down[Current(e)])
    BY <1>0, <2>10, CurrentSockets
  <2>15. up'[Current(c)] = up[Current(c)]
    <3>1. Current(c) \in Sockets /\ Current(c) # Current(d)
      BY <2>0, <2>1, <2>2, CurrentSockets
    <3> QED
      BY <1>0, <2>0, <3>1 DEF SentUp
  <2> QED
    BY <1>0, <2>0, <2>1, <2>2, <2>11, <2>12, <2>13, <2>14, <2>15, ToldSame
<1>6. ASSUME NEW n \in Nodes, NEW d \in Clients, Expire(n, d)
      PROVE  ToldInv'
  <2> DEFINE u == Removal(n, {d})
  <2>0. /\ d \in shown[n] \ {n} /\ (d \notin Online \/ d \notin announced) /\ Forget(n, {d})
        /\ UNCHANGED <<linked, announced, last, conn, at, controlled, cut, told, faulty>>
        /\ IF n \in Clients THEN up' = SentUp(n, u) /\ UNCHANGED <<down, bus>>
                            ELSE Spread(n, u, {}) /\ UNCHANGED up
    BY <1>6 DEF Expire, provider, server
  <2> SUFFICES ASSUME NEW c \in Clients, told'[c] # {}, ~faulty'
               PROVE  IsTold(c)'
    BY <1>b, <2>0 DEF ToldInv
  <2>1. Online' = Online /\ (\A x : Reader(x)' = Reader(x)) /\ \A e : Current(e)' = Current(e)
    BY <2>0, ReadersStay
  <2>2. /\ IsTold(c) /\ c \in linked' \cap announced' /\ told'[c] = told[c]
        /\ told'[c] \subseteq told[c] \cap linked'
    BY <1>c, <2>0
  <2>3. \A e \in Online : Joined(e) => Joined(e)'
    BY <2>0, <2>1 DEF Joined
  <2>4. CASE c = d
    BY <2>0, <2>1, <2>2, <2>3, <2>4, ToldAway
  <2>5. CASE c # d
    <3>1. u \in Frame
      <4>1. {d} \in SUBSET shown[n]
        BY <2>0
      <4> QED
        BY <1>0, <4>1, TypeFacts, EncodedBehind
    <3>2. ~Tells(u, c, clock[c][c]) /\ ~Removes(u, c, clock[c][c])
      BY <2>5, SaysNothing DEF Removal
    <3>3. clock' = clock /\ \A m \in Nodes : c \in shown'[m] <=> c \in shown[m]
      BY <1>0, <2>0, <2>5 DEF Forget
    <3> HIDE DEF u
    <3>4. ASSUME NEW s \in Sockets
          PROVE  /\ Removes(Entries(up'[s]), c, clock[c][c]) <=> Removes(Entries(up[s]), c, clock[c][c])
                 /\ Tells(Entries(up'[s]), c, clock[c][c]) <=> Tells(Entries(up[s]), c, clock[c][c])
      <4>1. up'[s] = up[s] \/ up'[s] = Append(up[s], u)
        BY <1>0, <1>e, <2>0 DEF SentUp
      <4>2. Entries(Append(up[s], u)) = Entries(up[s]) \cup u
        BY <1>0, <3>1, EntriesAppend
      <4>3. Entries(up'[s]) = Entries(up[s]) \/ Entries(up'[s]) = Entries(up[s]) \cup u
        BY <4>1, <4>2
      <4> QED
        BY <3>2, <4>3, SaysSame
    <3>5. ASSUME NEW s \in Sockets
          PROVE  /\ Removes(Entries(down'[s]), c, clock[c][c]) <=> Removes(Entries(down[s]), c, clock[c][c])
                 /\ Tells(Entries(down'[s]), c, clock[c][c]) <=> Tells(Entries(down[s]), c, clock[c][c])
      <4>1. Entries(down'[s]) = Entries(down[s]) \/ Entries(down'[s]) = Entries(down[s]) \cup u
        BY <1>0, <2>0, <3>1, EntriesSpread
      <4> QED
        BY <3>2, <4>1, SaysSame
    <3>6. ASSUME NEW j \in Instances
          PROVE  /\ Removes(Entries(bus'[j]), c, clock[c][c]) <=> Removes(Entries(bus[j]), c, clock[c][c])
                 /\ Tells(Entries(bus'[j]), c, clock[c][c]) <=> Tells(Entries(bus[j]), c, clock[c][c])
      <4>1. Entries(bus'[j]) = Entries(bus[j]) \/ Entries(bus'[j]) = Entries(bus[j]) \cup u
        BY <1>0, <2>0, <3>1, EntriesSpread
      <4> QED
        BY <3>2, <4>1, SaysSame
    <3>7. NothingOf(c)
      BY <3>3, <3>4, <3>5, <3>6, NodesOfBoth DEF NothingOf, Known
    <3>8. ASSUME NEW e \in Online
          PROVE  StaysWith(e, c)
      <4>1. Joined(e) => Room(e) \in Nodes /\ Room(e) \in Instances
        BY <1>0, <1>e, NodesOfBoth DEF Joined, Room
      <4>2. Joined(e)' = Joined(e) /\ Room(e)' = Room(e)
        BY <2>0, <2>1 DEF Joined, Room
      <4> QED
        BY <2>1, <3>3, <3>6, <4>1, <4>2 DEF StaysWith
    <3>9. \A e \in Clients : clock'[e][c] = clock[e][c] /\ (c \in shown[e] => c \in shown'[e])
      BY <3>3, NodesOfBoth
    <3> QED
      BY <1>0, <1>e, <2>1, <2>2, <3>4, <3>5, <3>7, <3>8, <3>9, ToldSame
  <2> QED
    BY <2>4, <2>5
<1>7. ASSUME NEW s \in Sockets, Join(s)
      PROVE  ToldInv'
  <2> DEFINE i == at[s]
             u == Encode(i, shown[i])
  <2>0. /\ conn[s] = "queued" /\ conn' = [conn EXCEPT ![s] = "joined"]
        /\ down' = IF Reader(s) /\ u # {} THEN [down EXCEPT ![s] = Append(@, u)] ELSE down
        /\ bus' = IF IsRoom(i) THEN bus ELSE Published(bus, i, Request)
        /\ UNCHANGED <<clock, shown, linked, announced, last, at, controlled, cut, up, told, faulty>>
    BY <1>7 DEF Join, awareness, provider
  <2> SUFFICES ASSUME NEW c \in Clients, told'[c] # {}, ~faulty'
               PROVE  IsTold(c)'
    BY <1>b, <2>0 DEF ToldInv
  <2>1. Online' = Online /\ (\A x : Reader(x)' = Reader(x)) /\ \A e : Current(e)' = Current(e)
    BY <2>0, ReadersStay
  <2>2. /\ IsTold(c) /\ c \in linked' \cap announced' /\ told'[c] = told[c]
        /\ told'[c] \subseteq told[c] \cap linked'
    BY <1>c, <2>0
  <2>3. i \in Instances /\ i \in Nodes
    BY <1>0, <2>0, NodesOfBoth
  <2>4. u \in Frame
    BY <1>0, <2>3, TypeFacts, EncodedBehind
  <2>5. /\ ~Removes(u, c, clock[c][c])
        /\ Tells(u, c, clock[c][c]) => clock[i][c] = clock[c][c]
    <3>1. \A e \in u : e.here = (e.id \in shown[i]) /\ e.id \in shown[i] /\ e.clock = clock[i][e.id]
      BY DEF Encode
    <3> HIDE DEF u
    <3>2. \A e \in u : e.here /\ e.clock = clock[i][e.id]
      BY <3>1
    <3> QED
      BY <3>2 DEF Removes, Tells
  <2> HIDE DEF u
  <2>6. \A j \in Instances : Entries(bus'[j]) = Entries(bus[j])
    <3>1. Request \in Frame
      BY DEF Request, Frame
    <3>2. \A j \in Instances : IF j # i /\ IsRoom(j)
                                THEN Entries(Published(bus, i, Request)[j]) = Entries(bus[j]) \cup {}
                                ELSE Published(bus, i, Request)[j] = bus[j]
      BY <1>0, <3>1, EntriesPublished DEF Request
    <3>3. \A j \in Instances : Entries(bus[j]) \cup {} = Entries(bus[j])
      OBVIOUS
    <3> QED
      BY <2>0, <3>2, <3>3
  <2>7. ASSUME NEW x \in Sockets
        PROVE  Entries(down'[x]) = Entries(down[x]) \/ Entries(down'[x]) = Entries(down[x]) \cup u
    BY <1>0, <2>0, <2>4, EntriesAppend
  <2>8. \A x \in Sockets :
            /\ Removes(Entries(down'[x]), c, clock[c][c]) <=> Removes(Entries(down[x]), c, clock[c][c])
            /\ Tells(Entries(down'[x]), c, clock[c][c]) => \/ Tells(Entries(down[x]), c, clock[c][c])
                                                           \/ clock[i][c] = clock[c][c]
            /\ Tells(Entries(down[x]), c, clock[c][c]) => Tells(Entries(down'[x]), c, clock[c][c])
    BY <2>5, <2>7, SaysUnion
  <2>9. NothingOf(c)
    <3>1. i \in Nodes \ {c}
      BY <2>3, NodesOfBoth
    <3>2. clock[i][c] = clock[c][c] => Known(c)
      BY <3>1 DEF Known
    <3>3. \A x \in Sockets : Tells(Entries(down'[x]), c, clock[c][c]) => Known(c)
      BY <2>8, <3>2 DEF Known
    <3> QED
      BY <2>0, <2>6, <2>8, <3>3 DEF NothingOf, Known
  <2>10. ASSUME NEW e \in Online
         PROVE  StaysWith(e, c)
    <3>1. Joined(e) => Room(e) \in Instances
      BY <1>0, <1>e DEF Joined, Room
    <3>2. (Joined(e) => Joined(e)') /\ Room(e)' = Room(e)
      BY <1>0, <1>e, <2>0, <2>1 DEF Joined, Room
    <3> QED
      BY <2>0, <2>1, <2>6, <3>1, <3>2 DEF StaysWith
  <2> QED
    BY <1>0, <1>e, <2>0, <2>1, <2>2, <2>8, <2>9, <2>10, ToldSame
<1>8. ASSUME NEW s \in Sockets, HandleAwareness(s)
      PROVE  ToldInv'
  <2> DEFINE i == at[s]
             u == Head(up[s])
             r == Relayed(i, u)
  <2>0. /\ conn[s] = "joined" /\ up[s] # <<>> /\ up' = [up EXCEPT ![s] = Tail(@)] /\ Merge(i, u)
        /\ Spread(i, r, {s})
        /\ UNCHANGED <<linked, announced, last, conn, at, cut, told, faulty>>
    BY <1>8 DEF HandleAwareness, provider
  <2> SUFFICES ASSUME NEW c \in Clients, told'[c] # {}, ~faulty'
               PROVE  IsTold(c)'
    BY <1>b, <2>0 DEF ToldInv
  <2> DEFINE k == clock[c][c]
  <2>1. Online' = Online /\ (\A x : Reader(x)' = Reader(x)) /\ \A e : Current(e)' = Current(e)
    BY <2>0, ReadersStay
  <2>2. /\ IsTold(c) /\ c \in linked' \cap announced' /\ told'[c] = told[c]
        /\ told'[c] \subseteq told[c] \cap linked'
    BY <1>c, <2>0
  <2>3. \A e \in Online : (Joined(e)' <=> Joined(e)) /\ Room(e)' = Room(e)
    BY <2>0, <2>1 DEF Joined, Room
  <2>4. CASE c \notin Online
    BY <2>0, <2>1, <2>2, <2>3, <2>4, ToldAway
  <2>5. CASE c \in Online
    <3>1. i \in Instances /\ i \in Nodes /\ i # c /\ c \in Clients \ {i} /\ i \notin Clients
      BY <1>0, <2>0, NodesOfBoth
    <3>2. u \in Frame /\ Behind(clock, u) /\ Entries(up[s]) = u \cup Entries(Tail(up[s]))
      BY <1>0, <2>0, TypeFacts, EntriesTail, QueueTail
    <3> HIDE DEF u
    <3>3. r \in Frame
      BY <2>0, <3>1, <3>2, TypeFacts, MergeBehind
    <3>4. /\ Removes(r, c, k) => Removes(u, c, k)
          /\ Tells(r, c, k) => Tells(u, c, k)
          /\ clock'[i][c] = k =>
                 \/ clock[i][c] = k /\ (c \in shown'[i] <=> c \in shown[i])
                 \/ Tells(u, c, k) /\ Tells(r, c, k) /\ c \in shown'[i]
                 \/ Removes(u, c, k)
          /\ clock[i][c] = k => clock'[i][c] = k /\ ((c \in shown'[i] <=> c \in shown[i]) \/ Removes(u, c, k))
          /\ Tells(u, c, k) /\ clock[i][c] # k =>
                 clock'[i][c] = k /\ c \in shown'[i] /\ Tells(r, c, k)
      BY <2>0, <3>1, <3>2, MergeAbout
    <3>5. /\ Removes(Entries(up[s]), c, k) <=> Removes(u, c, k) \/ Removes(Entries(Tail(up[s])), c, k)
          /\ Tells(Entries(up[s]), c, k) <=> Tells(u, c, k) \/ Tells(Entries(Tail(up[s])), c, k)
      BY <3>2, SaysUnion
    <3>6. ~Removes(u, c, k) /\ ~Removes(r, c, k)
      BY <2>2, <2>5, <3>4, <3>5 DEF IsTold
    <3>7. \A x \in Sockets : Entries(up'[x]) = IF x = s THEN Entries(Tail(up[s])) ELSE Entries(up[x])
      BY <1>0, <2>0, <3>2 DEF u
    <3>8. \A n \in Nodes \ {i} : clock'[n] = clock[n] /\ shown'[n] = shown[n]
      BY <1>0, <2>0, <3>1 DEF Merge, Clocks
    <3>9. clock'[c][c] = k
      BY <3>1, <3>8, NodesOfBoth
    <3> HIDE DEF r, k
    <3>10. ASSUME NEW x \in Sockets
           PROVE  /\ Removes(Entries(down'[x]), c, k) <=> Removes(Entries(down[x]), c, k)
                  /\ Tells(Entries(down'[x]), c, k) <=>
                         \/ Tells(Entries(down[x]), c, k)
                         \/ x \in Members(i) \ {s} /\ Reader(x) /\ Tells(r, c, k)
      <4>1. IF x \in Members(i) \ {s} /\ Reader(x) THEN Entries(down'[x]) = Entries(down[x]) \cup r
                                                   ELSE down'[x] = down[x]
        BY <1>0, <2>0, <3>3, EntriesSpread
      <4> QED
        BY <3>6, <4>1, SaysUnion
    <3>11. ASSUME NEW j \in Instances
           PROVE  /\ Removes(Entries(bus'[j]), c, k) <=> Removes(Entries(bus[j]), c, k)
                  /\ Tells(Entries(bus'[j]), c, k) <=>
                         \/ Tells(Entries(bus[j]), c, k)
                         \/ j # i /\ IsRoom(j) /\ Tells(r, c, k)
      <4>1. IF j # i /\ IsRoom(j) THEN Entries(bus'[j]) = Entries(bus[j]) \cup r ELSE bus'[j] = bus[j]
        BY <1>0, <2>0, <3>3, EntriesSpread
      <4>2. CASE j # i /\ IsRoom(j)
        BY <3>6, <4>1, <4>2, SaysUnion
      <4>3. CASE ~(j # i /\ IsRoom(j))
        BY <4>1, <4>3
      <4> QED
        BY <4>2, <4>3
    <3>12. \A e \in Online : Joined(e) => Room(e) \in Instances
      BY <1>0, <1>e DEF Joined, Room
    <3>13. CASE ~(Tells(u, c, k) /\ clock[i][c] # k)
      <4>1. clock[i][c] = k => Known(c)
        BY <3>1 DEF Known, k
      <4>2. Tells(r, c, k) => Known(c)
        BY <3>4, <3>13, <4>1
      <4>3. /\ clock'[i][c] = k <=> clock[i][c] = k
            /\ clock[i][c] = k => (c \in shown'[i] <=> c \in shown[i])
        BY <3>4, <3>6, <3>13
      <4>4. NothingOf(c)
        <5>1. \A x \in Sockets : Removes(Entries(up'[x]), c, k) => Removes(Entries(up[x]), c, k)
          BY <3>5, <3>7
        <5>2. \A x \in Sockets : Tells(Entries(down'[x]), c, k) => Known(c)
          BY <3>10, <4>2 DEF Known, k
        <5>3. \A j \in Instances : Tells(Entries(bus'[j]), c, k) => Known(c)
          BY <3>11, <4>2 DEF Known, k
        <5>4. \A n \in Nodes \ {c} : clock'[n][c] = k => Known(c)
          BY <3>8, <4>1, <4>3 DEF Known, k
        <5>5. \A j \in Instances : clock'[j][c] = k => clock[j][c] = k /\ (c \in shown[j] => c \in shown'[j])
          BY <3>8, <4>3, NodesOfBoth
        <5> QED
          BY <3>9, <3>10, <3>11, <5>1, <5>2, <5>3, <5>4, <5>5 DEF NothingOf, k
      <4>5. ASSUME NEW e \in Online
            PROVE  StaysWith(e, c)
        <5>1. Joined(e) => /\ clock'[Room(e)][c] = k <=> clock[Room(e)][c] = k
                           /\ clock[Room(e)][c] = k => (c \in shown'[Room(e)] <=> c \in shown[Room(e)])
          BY <3>8, <3>12, <4>3, NodesOfBoth
        <5> QED
          BY <2>1, <2>3, <3>11, <3>12, <5>1 DEF StaysWith, k
      <4>6. \A e \in Clients : clock'[e][c] = clock[e][c] /\ shown'[e] = shown[e]
        BY <3>1, <3>8, NodesOfBoth
      <4>7. Tells(Entries(up[Current(c)]), c, k) /\ ~Known(c) => Tells(Entries(up'[Current(c)]), c, k)
        BY <1>e, <2>5, <3>5, <3>7, <3>13, <4>1
      <4> QED
        BY <1>0, <1>e, <2>0, <2>1, <2>2, <3>10, <4>4, <4>5, <4>6, <4>7, ToldSame DEF k
    <3>14. CASE Tells(u, c, k) /\ clock[i][c] # k
      <4>1. s = Current(c) /\ i = Room(c) /\ Joined(c)
        <5>1. PICK e \in u : e.id = c /\ e.here
          BY <3>14 DEF Tells
        <5>2. s[1] = c /\ s = Current(s[1])
          BY <1>a, <2>0, <3>2, <5>1
        <5> QED
          BY <2>0, <5>2 DEF Room, Joined
      <4>2. clock'[i][c] = k /\ c \in shown'[i] /\ Tells(r, c, k)
        BY <3>4, <3>14
      <4>3. \A x \in Sockets : ~Removes(Entries(up'[x]), c, k)
        BY <2>2, <2>5, <3>5, <3>7 DEF IsTold, k
      <4>4. \A d \in told'[c] \cap Online' : Joined(d)'
        BY <2>1, <2>2, <2>3 DEF IsTold
      <4>5. CASE WillMove(c)
        <5>1. Removes(Entries(down[Current(c)]), c, k)
          BY <3>14, <4>1, <4>5 DEF WillMove, k
        <5>2. Removes(Entries(down'[Current(c)]), c, k)
          BY <1>e, <2>5, <3>10, <5>1
        <5>3. WillMove(c)'
          BY <2>1, <2>3, <2>5, <3>9, <4>1, <5>2 DEF WillMove
        <5> QED
          BY <2>1, <2>2, <3>9, <4>3, <4>4, <5>3 DEF IsTold
      <4>6. CASE NotRemoved(c) /\ ~Known(c)
        <5>1. NotRemoved(c)'
          <6>1. \A j \in Instances : clock'[j][c] = k => c \in shown'[j]
            BY <3>8, <4>2, <4>6, NodesOfBoth DEF NotRemoved, k
          <6> QED
            BY <3>9, <3>10, <3>11, <4>6, <6>1 DEF NotRemoved, k
        <5>2. ASSUME NEW d \in (told'[c] \cap Online') \ {c}
              PROVE  HeardBy(c, d)'
          <6>1. d \in Online /\ d \in Clients /\ Joined(d) /\ Current(d) \in Sockets /\ Current(d) # s
            BY <1>0, <1>e, <2>1, <2>2, <2>5, <4>1 DEF IsTold
          <6>2. clock'[d][c] # k
            BY <3>1, <3>8, <4>6, <6>1, NodesOfBoth DEF Known, k
          <6>3. CASE Room(d) = i
            <7>1. Current(d) \in Members(i) \ {s} /\ Reader(Current(d))
              BY <1>e, <6>1, <6>3 DEF Members, Room, Joined
            <7>2. Tells(Entries(down'[Current(d)]), c, k)
              BY <3>10, <4>2, <6>1, <7>1
            <7> QED
              BY <2>1, <3>9, <6>1, <6>2, <7>2 DEF HeardBy
          <6>4. CASE Room(d) # i
            <7>1. Room(d) \in Instances /\ IsRoom(Room(d))
              BY <3>12, <6>1 DEF IsRoom, Members, Room, Joined
            <7>2. Tells(Entries(bus'[Room(d)]), c, k)
              BY <3>11, <4>2, <6>4, <7>1
            <7>3. clock'[Room(d)][c] # k
              BY <3>8, <4>6, <6>4, <7>1, NodesOfBoth DEF Known, k
            <7> QED
              BY <2>1, <2>3, <3>9, <6>1, <6>2, <7>2, <7>3 DEF HeardBy
          <6> QED
            BY <6>3, <6>4
        <5>3. Heard(c)'
          BY <2>3, <2>5, <3>9, <4>1, <4>2, <5>2 DEF Heard
        <5> QED
          BY <2>1, <2>2, <3>9, <4>3, <4>4, <5>1, <5>3 DEF IsTold
      <4>7. ~Heard(c)
        BY <3>14, <4>1 DEF Heard, k
      <4> QED
        BY <2>2, <2>5, <4>5, <4>6, <4>7 DEF IsTold, Unheard
    <3> QED
      BY <3>13, <3>14
  <2> QED
    BY <2>4, <2>5
<1>9. ASSUME NEW s \in Sockets, SocketClosed(s)
      PROVE  ToldInv'
  <2> DEFINE i == at[s]
             gone == Removal(i, controlled[s] \cap shown[i])
             stays == Members(i) \ {s} # {}
  <2>0. /\ conn[s] \in {"queued", "joined"} /\ ~Reader(s)
        /\ conn' = [conn EXCEPT ![s] = "gone"] /\ at' = [at EXCEPT ![s] = None]
        /\ UNCHANGED <<linked, announced, last, cut, up, told, faulty>>
    BY <1>9 DEF SocketClosed, provider
  <2> SUFFICES ASSUME NEW c \in Clients, told'[c] # {}, ~faulty'
               PROVE  IsTold(c)'
    BY <1>b, <2>0 DEF ToldInv
  <2> DEFINE k == clock[c][c]
  <2>1. Online' = Online /\ (\A x : Reader(x)' = Reader(x)) /\ \A e : Current(e)' = Current(e)
    BY <2>0, ReadersStay
  <2>2. /\ IsTold(c) /\ c \in linked' \cap announced' /\ told'[c] = told[c]
        /\ told'[c] \subseteq told[c] \cap linked'
    BY <1>c, <2>0
  <2>3. \A e \in Online : /\ Current(e) # s /\ (Joined(e)' <=> Joined(e)) /\ Room(e)' = Room(e)
                          /\ Joined(e) => /\ Room(e) \in Instances /\ IsRoom(Room(e))
                                          /\ Room(e) = i => Current(e) \in Members(i) \ {s} /\ stays
    <3>1. \A e \in Online : Current(e) # s
      BY <1>e, <2>0
    <3>2. \A e \in Online : (Joined(e)' <=> Joined(e)) /\ Room(e)' = Room(e)
      BY <1>0, <1>e, <2>0, <2>1, <3>1 DEF Joined, Room
    <3>3. \A e \in Online : Joined(e) => Room(e) \in Instances /\ Current(e) \in Members(Room(e))
      BY <1>0, <1>e DEF Joined, Room, Members
    <3> QED
      BY <3>1, <3>2, <3>3 DEF IsRoom
  <2>4. CASE c \notin Online
    BY <2>0, <2>1, <2>2, <2>3, <2>4, ToldAway
  <2>5. CASE c \in Online
    <3>1. i \in Instances /\ i \in Nodes /\ i # c /\ i \notin Clients
      BY <1>0, <2>0, NodesOfBoth
    <3>2. gone \in Frame
      BY <3>1, TypeFacts, EncodedBehind
    <3>3. /\ ~Tells(gone, c, k)
          /\ Removes(gone, c, k) <=> c \in controlled[s] \cap shown[i] /\ clock[i][c] = k
      <4>1. k \in Nat /\ clock[i][c] \in Nat /\ clock[i][c] <= k
        BY <1>d, <3>1
      <4>2. clock[i][c] >= k <=> clock[i][c] = k
        BY <4>1
      <4> QED
        BY <4>2, RemovalSays
    <3>4. IF stays THEN Spread(i, gone, {s}) /\ Forget(i, Ids(gone))
          ELSE /\ bus' = [IF gone = {} THEN bus ELSE Published(bus, i, gone) EXCEPT ![i] = <<>>]
               /\ shown' = [shown EXCEPT ![i] = {}] /\ clock' = [clock EXCEPT ![i] = NoClocks]
               /\ UNCHANGED down
      BY <1>9 DEF SocketClosed
    <3>5. Ids(gone) = controlled[s] \cap shown[i]
      BY RemovalSays
    <3> HIDE DEF gone, k
    <3>6. ASSUME NEW n \in Nodes \ {i}
          PROVE  clock'[n] = clock[n] /\ shown'[n] = shown[n]
      BY <1>0, <3>4 DEF Forget, Clocks
    <3>7. clock'[c][c] = k
      BY <3>1, <3>6, NodesOfBoth DEF k
    <3>8. IF stays THEN clock'[i] = clock[i] /\ shown'[i] = shown[i] \ Ids(gone)
                   ELSE clock'[i][c] = 0
      BY <1>0, <3>1, <3>4 DEF Forget, Clocks, NoClocks
    <3>9. ASSUME NEW x \in Sockets
          PROVE  /\ Removes(Entries(down[x]), c, k) => Removes(Entries(down'[x]), c, k)
                 /\ Removes(Entries(down'[x]), c, k) => Removes(Entries(down[x]), c, k) \/ Removes(gone, c, k)
                 /\ Tells(Entries(down'[x]), c, k) <=> Tells(Entries(down[x]), c, k)
                 /\ x \in Members(i) \ {s} /\ Reader(x) /\ Removes(gone, c, k)
                        => Removes(Entries(down'[x]), c, k)
      <4>1. CASE stays /\ x \in Members(i) \ {s} /\ Reader(x)
        <5>1. Entries(down'[x]) = Entries(down[x]) \cup gone
          BY <1>0, <3>2, <3>4, <4>1, EntriesSpread
        <5> QED
          BY <3>3, <5>1, SaysUnion
      <4>2. CASE ~(stays /\ x \in Members(i) \ {s} /\ Reader(x))
        <5>1. down'[x] = down[x]
          BY <1>0, <3>2, <3>4, <4>2, EntriesSpread
        <5> QED
          BY <4>2, <5>1
      <4> QED
        BY <4>1, <4>2
    <3>10. ASSUME NEW j \in Instances \ {i}
           PROVE  /\ Removes(Entries(bus[j]), c, k) => Removes(Entries(bus'[j]), c, k)
                  /\ Removes(Entries(bus'[j]), c, k) => Removes(Entries(bus[j]), c, k) \/ Removes(gone, c, k)
                  /\ Tells(Entries(bus'[j]), c, k) <=> Tells(Entries(bus[j]), c, k)
                  /\ IsRoom(j) /\ Removes(gone, c, k) => Removes(Entries(bus'[j]), c, k)
      <4>1. IF IsRoom(j) THEN Entries(bus'[j]) = Entries(bus[j]) \cup gone ELSE bus'[j] = bus[j]
        <5>1. CASE stays
          BY <1>0, <3>2, <3>4, <5>1, EntriesSpread
        <5>2. CASE ~stays /\ gone = {}
          BY <1>0, <3>4, <5>2
        <5>3. CASE ~stays /\ gone # {}
          <6>1. bus'[j] = Published(bus, i, gone)[j]
            BY <3>4, <5>3 DEF Published
          <6> QED
            BY <1>0, <3>2, <6>1, EntriesPublished
        <5> QED
          BY <5>1, <5>2, <5>3
      <4>2. CASE IsRoom(j)
        BY <3>3, <4>1, <4>2, SaysUnion
      <4>3. CASE ~IsRoom(j)
        BY <4>1, <4>3
      <4> QED
        BY <4>2, <4>3
    <3>11. IF stays THEN bus'[i] = bus[i] ELSE bus'[i] = <<>>
      <4>1. CASE stays
        BY <1>0, <3>1, <3>2, <3>4, <4>1, EntriesSpread
      <4>2. CASE ~stays
        <5>1. i \in DOMAIN (IF gone = {} THEN bus ELSE Published(bus, i, gone))
          BY <1>0, <3>1 DEF Published
        <5> QED
          BY <3>4, <4>2, <5>1
      <4> QED
        BY <4>1, <4>2
    <3>12. \A j \in Instances : /\ Removes(Entries(bus'[j]), c, k) => Removes(Entries(bus[j]), c, k) \/ Removes(gone, c, k)
                                /\ Tells(Entries(bus'[j]), c, k) => Tells(Entries(bus[j]), c, k)
      BY <3>10, <3>11, EntriesEmpty, SaysUnion
    <3>13. CASE ~Removes(gone, c, k)
      <4>1. k # 0 /\ (clock[i][c] = k => c \notin Ids(gone))
        BY <1>d, <3>3, <3>5, <3>13 DEF k
      <4>2. clock'[i][c] = k => clock[i][c] = k /\ (c \in shown[i] => c \in shown'[i])
        BY <3>8, <4>1
      <4>3. NothingOf(c)
        <5>1. \A n \in Nodes \ {c} : clock'[n][c] = k => Known(c)
          BY <3>6, <4>2 DEF Known, k
        <5>2. \A j \in Instances : clock'[j][c] = k => clock[j][c] = k /\ (c \in shown[j] => c \in shown'[j])
          BY <3>6, <4>2, NodesOfBoth
        <5>3. \A x \in Sockets : Tells(Entries(down'[x]), c, k) => Known(c)
          BY <3>9 DEF Known, k
        <5>4. \A j \in Instances : Tells(Entries(bus'[j]), c, k) => Known(c)
          BY <3>12 DEF Known, k
        <5> QED
          BY <2>0, <3>7, <3>9, <3>12, <3>13, <5>1, <5>2, <5>3, <5>4 DEF NothingOf, k
      <4>4. ASSUME NEW e \in Online
            PROVE  StaysWith(e, c)
        <5>1. ASSUME Joined(e), Room(e) = i
              PROVE  /\ clock'[i] = clock[i] /\ bus'[i] = bus[i]
                     /\ clock[i][c] = k => (c \in shown'[i] <=> c \in shown[i])
          BY <2>3, <3>8, <3>11, <4>1, <5>1
        <5>2. ASSUME Joined(e), Room(e) # i
              PROVE  /\ clock'[Room(e)] = clock[Room(e)] /\ shown'[Room(e)] = shown[Room(e)]
                     /\ Removes(Entries(bus[Room(e)]), c, k) => Removes(Entries(bus'[Room(e)]), c, k)
                     /\ Tells(Entries(bus[Room(e)]), c, k) => Tells(Entries(bus'[Room(e)]), c, k)
          BY <2>3, <3>6, <3>10, <5>2, NodesOfBoth
        <5>3. CASE Joined(e) /\ Room(e) = i
          BY <2>1, <2>3, <5>1, <5>3 DEF StaysWith, k
        <5>4. CASE ~(Joined(e) /\ Room(e) = i)
          BY <2>1, <2>3, <5>2, <5>4 DEF StaysWith, k
        <5> QED
          BY <5>3, <5>4
      <4>5. \A e \in Clients : clock'[e][c] = clock[e][c] /\ shown'[e] = shown[e]
        BY <3>1, <3>6, NodesOfBoth
      <4> QED
        BY <1>0, <1>e, <2>0, <2>1, <2>2, <3>9, <4>3, <4>4, <4>5, ToldSame DEF k
    <3>14. CASE Removes(gone, c, k)
      <4> DEFINE j == Room(c)
      <4>1. clock[i][c] = k /\ Known(c)
        BY <3>1, <3>3, <3>14 DEF Known, k
      <4>2. /\ Joined(c)
            /\ \/ Removes(Entries(down[Current(c)]), c, k)
               \/ c \in shown[j] /\ clock[j][c] = k
        <5>1. CASE WillMove(c)
          BY <5>1 DEF WillMove, k
        <5>2. CASE NotRemoved(c) /\ Heard(c)
          <6>1. Joined(c) /\ clock[j][c] = k
            BY <5>2 DEF Heard, k
          <6>2. j \in Instances
            BY <2>3, <2>5, <6>1
          <6> QED
            BY <5>2, <6>1, <6>2 DEF NotRemoved, k
        <5> QED
          BY <2>2, <2>5, <4>1, <5>1, <5>2 DEF IsTold, Unheard
      <4>3. ASSUME Removes(Entries(down'[Current(c)]), c, k)
            PROVE  WillMove(c)'
        BY <2>1, <2>3, <2>5, <3>7, <4>2, <4>3 DEF WillMove
      <4>4. ASSUME ~Removes(Entries(down'[Current(c)]), c, k)
            PROVE  WillMove(c)'
        <5>1. c \in shown[j] /\ clock[j][c] = k
          BY <1>e, <2>5, <3>9, <4>2, <4>4
        <5>2. j # i
          BY <1>e, <2>3, <2>5, <3>9, <3>14, <4>2, <4>4
        <5>3. /\ Removes(Entries(bus'[j]), c, k) /\ clock'[j] = clock[j] /\ shown'[j] = shown[j]
          BY <2>3, <2>5, <3>6, <3>10, <3>14, <4>2, <5>2, NodesOfBoth
        <5> QED
          BY <2>3, <2>5, <3>7, <4>2, <5>1, <5>3 DEF WillMove
      <4>5. WillMove(c)'
        BY <4>3, <4>4
      <4>6. \A d \in told'[c] \cap Online' : Joined(d)'
        BY <2>1, <2>2, <2>3 DEF IsTold
      <4>7. \A x \in Sockets : ~Removes(Entries(up'[x]), c, clock'[c][c])
        BY <2>0, <2>2, <2>5, <3>7 DEF IsTold, k
      <4> QED
        BY <2>1, <2>2, <4>5, <4>6, <4>7 DEF IsTold
    <3> QED
      BY <3>13, <3>14
  <2> QED
    BY <2>4, <2>5
<1>10. ASSUME NEW i \in Instances, ReceiveBus(i)
       PROVE  ToldInv'
  <2> DEFINE u == Head(bus[i])
             rest == [bus EXCEPT ![i] = Tail(@)]
             r == Relayed(i, u)
  <2>0. bus[i] # <<>> /\ UNCHANGED <<linked, announced, last, conn, at, cut, up, told, faulty>>
    BY <1>10 DEF ReceiveBus, provider, server
  <2> SUFFICES ASSUME NEW c \in Clients, told'[c] # {}, ~faulty'
               PROVE  IsTold(c)'
    BY <1>b, <2>0 DEF ToldInv
  <2> DEFINE k == clock[c][c]
  <2>1. Online' = Online /\ (\A x : Reader(x)' = Reader(x)) /\ \A e : Current(e)' = Current(e)
    BY <2>0, ReadersStay
  <2>2. /\ IsTold(c) /\ c \in linked' \cap announced' /\ told'[c] = told[c]
        /\ told'[c] \subseteq told[c] \cap linked'
    BY <1>c, <2>0
  <2>3. \A e \in Online : /\ (Joined(e)' <=> Joined(e)) /\ Room(e)' = Room(e)
                          /\ Joined(e) => Room(e) \in Instances /\ Current(e) \in Members(Room(e))
    BY <1>0, <1>e, <2>0, <2>1 DEF Joined, Room, Members
  <2>4. u \in Frame /\ Behind(clock, u) /\ Entries(bus[i]) = u \cup Entries(Tail(bus[i]))
    BY <1>0, <2>0, TypeFacts, QueueTail, EntriesTail
  <2>5. i \in Nodes /\ i # c /\ i \notin Clients
    BY NodesOfBoth
  <2>6. rest \in [Instances -> Queue] /\ \A j \in Instances : rest[j] = IF j = i THEN Tail(bus[i]) ELSE bus[j]
    <3>1. Tail(bus[i]) \in Queue
      BY <1>0, <2>0, TypeFacts, QueueTail
    <3> QED
      BY <1>0, <3>1
  <2> HIDE DEF u, rest
  <2>7. CASE u = Request
    <3> DEFINE m == Encode(i, shown[i])
    <3>1. /\ bus' = IF shown[i] = {} THEN rest ELSE Published(rest, i, m)
          /\ UNCHANGED <<clock, shown, down>>
      BY <1>10, <2>7 DEF ReceiveBus, awareness, u, rest
    <3>2. m \in Frame
      BY <1>0, <2>5, TypeFacts, EncodedBehind
    <3>3. /\ ~Removes(m, c, k)
          /\ Tells(m, c, k) => clock[i][c] = k
      <4>1. \A e \in m : e.here = (e.id \in shown[i]) /\ e.id \in shown[i] /\ e.clock = clock[i][e.id]
        BY DEF Encode
      <4> HIDE DEF m, k
      <4>2. \A e \in m : e.here /\ e.clock = clock[i][e.id]
        BY <4>1
      <4> QED
        BY <4>2 DEF Removes, Tells
    <3> HIDE DEF m, k
    <3>4. \A j \in Instances : Entries(rest[j]) = Entries(bus[j])
      <4>1. Entries(Tail(bus[i])) = Entries(bus[i])
        BY <2>4, <2>7 DEF Request
      <4> QED
        BY <2>6, <4>1
    <3>5. ASSUME NEW j \in Instances
          PROVE  /\ Removes(Entries(bus'[j]), c, k) <=> Removes(Entries(bus[j]), c, k)
                 /\ Tells(Entries(bus[j]), c, k) => Tells(Entries(bus'[j]), c, k)
                 /\ Tells(Entries(bus'[j]), c, k) => Tells(Entries(bus[j]), c, k) \/ clock[i][c] = k
      <4>1. bus'[j] = rest[j] \/ Entries(bus'[j]) = Entries(rest[j]) \cup m
        BY <2>6, <3>1, <3>2, EntriesPublished
      <4>2. CASE bus'[j] = rest[j]
        BY <3>4, <4>2
      <4>3. CASE Entries(bus'[j]) = Entries(bus[j]) \cup m
        BY <3>3, <4>3, SaysUnion
      <4> QED
        BY <3>4, <4>1, <4>2, <4>3
    <3>6. clock[i][c] = k => Known(c)
      BY <2>5 DEF Known, k
    <3>7. NothingOf(c)
      <4>1. \A j \in Instances : Tells(Entries(bus'[j]), c, k) => Known(c)
        BY <3>5, <3>6 DEF Known, k
      <4> QED
        BY <2>0, <3>1, <3>5, <4>1 DEF NothingOf, Known, k
    <3>8. \A e \in Online : StaysWith(e, c)
      BY <2>1, <2>3, <3>1, <3>5 DEF StaysWith, k
    <3> QED
      BY <1>0, <1>e, <2>0, <2>1, <2>2, <3>1, <3>7, <3>8, ToldSame
  <2>8. CASE u # Request /\ c \notin Online
    BY <2>0, <2>1, <2>2, <2>3, <2>8, ToldAway
  <2>9. CASE u # Request /\ c \in Online
    <3>1. Merge(i, u) /\ down' = Sent(i, r, {}) /\ bus' = rest
      BY <1>10, <2>9 DEF ReceiveBus, u, rest
    <3>2. r \in Frame
      BY <2>4, <2>5, <3>1, TypeFacts, MergeBehind
    <3>3. /\ Removes(r, c, k) => Removes(u, c, k)
          /\ Tells(r, c, k) => Tells(u, c, k)
          /\ clock'[i][c] = k =>
                 \/ clock[i][c] = k /\ (c \in shown'[i] <=> c \in shown[i])
                 \/ Tells(u, c, k) /\ Tells(r, c, k) /\ c \in shown'[i]
                 \/ Removes(u, c, k)
          /\ clock[i][c] = k => clock'[i][c] = k /\ ((c \in shown'[i] <=> c \in shown[i]) \/ Removes(u, c, k))
          /\ Tells(u, c, k) /\ clock[i][c] # k =>
                 clock'[i][c] = k /\ c \in shown'[i] /\ Tells(r, c, k)
          /\ Removes(u, c, k) /\ clock[i][c] = k /\ c \in shown[i] => Removes(r, c, k)
      BY <2>4, <2>5, <3>1, MergeAbout
    <3>4. /\ Removes(Entries(bus[i]), c, k) <=> Removes(u, c, k) \/ Removes(Entries(bus'[i]), c, k)
          /\ Tells(Entries(bus[i]), c, k) <=> Tells(u, c, k) \/ Tells(Entries(bus'[i]), c, k)
      <4>1. Entries(bus[i]) = u \cup Entries(bus'[i])
        BY <2>4, <2>6, <3>1
      <4> QED
        BY <4>1, SaysUnion
    <3>5. \A j \in Instances : j # i => bus'[j] = bus[j]
      BY <2>6, <3>1
    <3>6. \A n \in Nodes \ {i} : clock'[n] = clock[n] /\ shown'[n] = shown[n]
      BY <1>0, <2>5, <3>1 DEF Merge, Clocks
    <3>7. clock'[c][c] = k
      BY <2>5, <3>6, NodesOfBoth
    <3> HIDE DEF r, k
    <3>8. ASSUME NEW x \in Sockets
          PROVE  /\ Removes(Entries(down'[x]), c, k) <=>
                        \/ Removes(Entries(down[x]), c, k)
                        \/ x \in Members(i) /\ Reader(x) /\ Removes(r, c, k)
                 /\ Tells(Entries(down'[x]), c, k) <=>
                        \/ Tells(Entries(down[x]), c, k)
                        \/ x \in Members(i) /\ Reader(x) /\ Tells(r, c, k)
      <4>1. IF x \in Members(i) \ {} /\ Reader(x) THEN Entries(down'[x]) = Entries(down[x]) \cup r
                                                  ELSE down'[x] = down[x]
        BY <1>0, <3>1, <3>2, EntriesSent
      <4>2. CASE x \in Members(i) /\ Reader(x)
        BY <4>1, <4>2, SaysUnion
      <4>3. CASE ~(x \in Members(i) /\ Reader(x))
        BY <4>1, <4>3
      <4> QED
        BY <4>2, <4>3
    <3>9. \A d \in told'[c] \cap Online' : Joined(d)'
      BY <2>1, <2>2, <2>3 DEF IsTold
    <3>10. \A x \in Sockets : ~Removes(Entries(up'[x]), c, clock'[c][c])
      BY <2>0, <2>2, <2>9, <3>7 DEF IsTold, k
    <3>11. ASSUME WillMove(c), Removes(u, c, k) \/ (Tells(u, c, k) /\ clock[i][c] # k)
           PROVE  IsTold(c)'
      <4> DEFINE j == Room(c)
      <4>1. /\ Joined(c) /\ j \in Instances /\ Current(c) \in Members(j) /\ Current(c) \in Sockets
            /\ Reader(Current(c))
        BY <1>e, <2>3, <2>9, <3>11 DEF WillMove
      <4>2. Removes(Entries(down[Current(c)]), c, k) => Removes(Entries(down'[Current(c)]), c, k)
        BY <3>8, <4>1
      <4>3. ASSUME Removes(Entries(bus[j]), c, k), c \in shown[j], clock[j][c] = k
            PROVE  \/ Removes(Entries(down'[Current(c)]), c, k)
                   \/ Removes(Entries(bus'[j]), c, k) /\ c \in shown'[j] /\ clock'[j][c] = k
        <5>1. CASE j = i
          BY <3>3, <3>8, <3>11, <4>1, <4>3, <5>1
        <5>2. CASE j # i
          BY <3>5, <3>6, <4>1, <4>3, <5>2, NodesOfBoth
        <5> QED
          BY <5>1, <5>2
      <4>4. WillMove(c)'
        BY <2>1, <2>3, <2>9, <3>7, <3>11, <4>2, <4>3 DEF WillMove, k
      <4> QED
        BY <2>1, <2>2, <3>9, <3>10, <4>4 DEF IsTold
    <3>12. CASE Removes(u, c, k)
      <4>1. ~NotRemoved(c)
        BY <3>4, <3>12 DEF NotRemoved, k
      <4> QED
        BY <2>2, <2>9, <3>11, <3>12, <4>1 DEF IsTold
    <3>13. CASE ~Removes(u, c, k) /\ Tells(u, c, k) /\ clock[i][c] # k
      <4>1. Known(c)
        BY <3>4, <3>13 DEF Known, k
      <4>2. clock'[i][c] = k /\ c \in shown'[i] /\ Tells(r, c, k) /\ ~Removes(r, c, k)
        BY <3>3, <3>13
      <4>3. ASSUME NotRemoved(c), Heard(c)
            PROVE  IsTold(c)'
        <5>1. Joined(c) /\ Room(c) # i /\ Room(c) \in Instances
          BY <2>3, <2>9, <3>13, <4>3 DEF Heard, k
        <5>2. NotRemoved(c)'
          <6>1. ASSUME NEW j \in Instances
                PROVE  /\ ~Removes(Entries(bus'[j]), c, k)
                       /\ clock'[j][c] = k => c \in shown'[j]
            <7>1. CASE j = i
              BY <3>4, <4>2, <4>3, <7>1 DEF NotRemoved, k
            <7>2. CASE j # i
              BY <3>5, <3>6, <4>3, <7>2, NodesOfBoth DEF NotRemoved, k
            <7> QED
              BY <7>1, <7>2
          <6> QED
            BY <3>7, <3>8, <4>2, <4>3, <6>1 DEF NotRemoved, k
        <5>3. ASSUME NEW d \in (told'[c] \cap Online') \ {c}
              PROVE  HeardBy(c, d)'
          <6>1. d \in Online /\ d \in Clients /\ Joined(d) /\ Current(d) \in Sockets /\ HeardBy(c, d)
            BY <1>0, <1>e, <2>1, <2>2, <2>9, <4>3 DEF IsTold, Heard
          <6>2. clock'[d] = clock[d] /\ shown'[d] = shown[d]
            BY <2>5, <3>6, <6>1, NodesOfBoth
          <6>3. CASE Room(d) = i
            <7>1. Tells(Entries(down'[Current(d)]), c, k)
              BY <1>e, <2>3, <3>8, <4>2, <6>1, <6>3
            <7> QED
              BY <2>1, <3>7, <6>1, <6>2, <7>1 DEF HeardBy, k
          <6>4. CASE Room(d) # i
            <7>1. clock'[Room(d)] = clock[Room(d)] /\ bus'[Room(d)] = bus[Room(d)]
              BY <2>3, <3>5, <3>6, <6>1, <6>4, NodesOfBoth
            <7>2. Tells(Entries(down[Current(d)]), c, k) => Tells(Entries(down'[Current(d)]), c, k)
              BY <3>8, <6>1
            <7>3. Current(d)' = Current(d) /\ Room(d)' = Room(d)
              BY <2>1, <2>3, <6>1
            <7> QED
              BY <3>7, <6>1, <6>2, <7>1, <7>2, <7>3 DEF HeardBy, k
          <6> QED
            BY <6>3, <6>4
        <5>4. Heard(c)'
          <6>1. clock'[Room(c)][c] = k
            BY <3>6, <4>3, <5>1, NodesOfBoth DEF Heard, k
          <6> QED
            BY <2>3, <2>9, <3>7, <5>1, <5>3, <6>1 DEF Heard
        <5> QED
          BY <2>1, <2>2, <3>9, <3>10, <5>2, <5>4 DEF IsTold
      <4> QED
        BY <2>2, <2>9, <3>11, <3>13, <4>1, <4>3 DEF IsTold, Unheard
    <3>14. CASE ~Removes(u, c, k) /\ ~(Tells(u, c, k) /\ clock[i][c] # k)
      <4>1. ~Removes(r, c, k)
        BY <3>3, <3>14
      <4>2. Tells(u, c, k) => Known(c)
        BY <3>4 DEF Known, k
      <4>3. /\ clock'[i][c] = k <=> clock[i][c] = k
            /\ clock[i][c] = k => (c \in shown'[i] <=> c \in shown[i])
        BY <3>3, <3>14
      <4>4. NothingOf(c)
        <5>1. \A x \in Sockets : Tells(Entries(down'[x]), c, k) => Known(c)
          BY <3>3, <3>8, <4>2 DEF Known, k
        <5>2. \A j \in Instances : /\ Removes(Entries(bus'[j]), c, k) => Removes(Entries(bus[j]), c, k)
                                   /\ Tells(Entries(bus'[j]), c, k) => Tells(Entries(bus[j]), c, k)
          BY <3>4, <3>5
        <5>3. \A j \in Instances : Tells(Entries(bus'[j]), c, k) => Known(c)
          BY <5>2 DEF Known, k
        <5>4. \A n \in Nodes \ {c} : clock'[n][c] = k => Known(c)
          BY <3>6, <4>3 DEF Known, k
        <5>5. \A j \in Instances : clock'[j][c] = k => clock[j][c] = k /\ (c \in shown[j] => c \in shown'[j])
          BY <3>6, <4>3, NodesOfBoth
        <5> QED
          BY <2>0, <3>7, <3>8, <4>1, <5>1, <5>2, <5>3, <5>4, <5>5 DEF NothingOf, k
      <4>5. ASSUME NEW e \in Online
            PROVE  StaysWith(e, c)
        <5>1. ASSUME Joined(e), Room(e) = i
              PROVE  StaysWith(e, c)
          BY <2>1, <2>3, <3>4, <3>14, <4>3, <5>1 DEF StaysWith, k
        <5>2. ASSUME Joined(e), Room(e) # i
              PROVE  StaysWith(e, c)
          <6>1. /\ clock'[Room(e)] = clock[Room(e)] /\ shown'[Room(e)] = shown[Room(e)]
                /\ bus'[Room(e)] = bus[Room(e)]
            BY <2>3, <3>5, <3>6, <5>2, NodesOfBoth
          <6> QED
            BY <2>1, <2>3, <6>1 DEF StaysWith
        <5> QED
          BY <2>1, <5>1, <5>2 DEF StaysWith
      <4>6. \A e \in Clients : clock'[e][c] = clock[e][c] /\ shown'[e] = shown[e]
        BY <2>5, <3>6, NodesOfBoth
      <4> QED
        BY <1>0, <1>e, <2>0, <2>1, <2>2, <3>8, <4>1, <4>4, <4>5, <4>6, ToldSame DEF k
    <3> QED
      BY <3>12, <3>13, <3>14
  <2> QED
    BY <2>7, <2>8, <2>9
<1>11. ASSUME NEW d \in Clients, Break(d)
       PROVE  ToldInv'
  <2> DEFINE s == Current(d)
  <2>0. /\ d \in Online /\ cut' = cut \cup {s}
        /\ up' = [up EXCEPT ![s] = <<>>] /\ down' = [down EXCEPT ![s] = <<>>]
        /\ UNCHANGED <<clock, shown, linked, announced, last, at, conn, bus, told, faulty>>
    BY <1>11 DEF Break, awareness, provider, server
  <2> SUFFICES ASSUME NEW c \in Clients, told'[c] # {}, ~faulty'
               PROVE  IsTold(c)'
    BY <1>b, <2>0 DEF ToldInv
  <2>1. \A e : Current(e)' = Current(e)
    BY <2>0 DEF Current
  <2>2. /\ IsTold(c) /\ c \in linked' \cap announced' /\ told'[c] = told[c]
        /\ told'[c] \subseteq told[c] \cap linked'
    BY <1>c, <2>0
  <2>3. Online' \subseteq Online \ {d}
    BY <2>0, <2>1 DEF Online
  <2>4. \A e \in Online \ {d} : Current(e) \in Sockets /\ Current(e) # s
    BY <1>0, <1>e, <2>0, CurrentSockets
  <2>5. \A e \in Online : (Joined(e)' <=> Joined(e)) /\ Room(e)' = Room(e)
    BY <2>0, <2>1 DEF Joined, Room
  <2>6. CASE c = d
    <3>1. c \notin Online'
      BY <2>3, <2>6
    <3>2. \A e \in told'[c] \cap Online' : Joined(e)'
      BY <2>2, <2>3, <2>5 DEF IsTold
    <3> QED
      BY <2>2, <3>1, <3>2 DEF IsTold
  <2>7. CASE c # d
    <3>1. \A x \in Sockets : /\ Entries(up'[x]) = IF x = s THEN {} ELSE Entries(up[x])
                             /\ Entries(down'[x]) = IF x = s THEN {} ELSE Entries(down[x])
      BY <1>0, <2>0, EntriesEmpty
    <3>2. NothingOf(c)
      <4>1. \A x \in Sockets :
              /\ Removes(Entries(up'[x]), c, clock[c][c]) => Removes(Entries(up[x]), c, clock[c][c])
              /\ Removes(Entries(down'[x]), c, clock[c][c]) => Removes(Entries(down[x]), c, clock[c][c])
              /\ Tells(Entries(down'[x]), c, clock[c][c]) => Tells(Entries(down[x]), c, clock[c][c])
        BY <3>1, SaysUnion
      <4> QED
        BY <2>0, <4>1 DEF NothingOf, Known
    <3>3. \A e \in Online' : StaysWith(e, c)
      BY <2>0, <2>1, <2>3, <2>5 DEF StaysWith
    <3>4. \A e \in Online' : /\ Entries(up'[Current(e)]) = Entries(up[Current(e)])
                             /\ Entries(down'[Current(e)]) = Entries(down[Current(e)])
      BY <2>3, <2>4, <3>1
    <3> QED
      BY <2>0, <2>1, <2>2, <3>2, <3>3, <3>4, ToldSame
  <2> QED
    BY <2>6, <2>7
<1>12. ASSUME NEW s \in Sockets, Drop(s)
       PROVE  ToldInv'
  BY <1>b, <1>12 DEF Drop, ToldInv
<1>13. ASSUME NEW i \in Instances, Crash(i)
       PROVE  ToldInv'
  BY <1>b, <1>13 DEF Crash, ToldInv
<1> QED
  BY <1>1, <1>2, <1>3, <1>4, <1>5, <1>6, <1>7, <1>8, <1>9, <1>10, <1>11, <1>12, <1>13 DEF Next

LEMMA ToldInit == Init => ToldInv
<1> SUFFICES ASSUME Init PROVE ToldInv
  OBVIOUS
<1>1. told = [c \in Clients |-> {}]
  BY DEF Init
<1> QED
  BY <1>1 DEF ToldInv

LEMMA ToldKept == PresenceInv /\ SocketsInv /\ ToldInv /\ [Next]_vars => ToldInv'
<1> SUFFICES ASSUME PresenceInv, SocketsInv, ToldInv, [Next]_vars PROVE ToldInv'
  OBVIOUS
<1>1. CASE Next
  BY <1>1, ToldStep
<1>2. CASE UNCHANGED vars
  <2>1. UNCHANGED <<clock, shown, linked, last, announced, conn, at, cut, up, down, bus, faulty, told>>
    BY <1>2 DEF vars, awareness, provider, server
  <2>2. Online' = Online /\ \A c : Current(c)' = Current(c)
    BY <2>1, ReadersStay
  <2>3. ASSUME NEW c \in Clients, IsTold(c)
        PROVE  IsTold(c)'
    <3>1. /\ WillMove(c)' <=> WillMove(c)
          /\ NotRemoved(c)' <=> NotRemoved(c)
          /\ Known(c)' <=> Known(c)
      BY <2>1, <2>2 DEF WillMove, NotRemoved, Known, Joined, Room
    <3>2. Unheard(c)' <=> Unheard(c)
      BY <2>1, <2>2, <3>1 DEF Unheard
    <3>3. Heard(c)' <=> Heard(c)
      BY <2>1, <2>2 DEF Heard, HeardBy, Joined, Room
    <3> QED
      BY <2>1, <2>2, <2>3, <3>1, <3>2, <3>3 DEF IsTold, Joined
  <2> QED
    BY <2>1, <2>3 DEF ToldInv
<1> QED
  BY <1>1, <1>2

(* The sockets, and what is under way to whom. *)
LEMMA SocketsInvariant == Spec => []SocketsInv
<1>1. PresenceInv /\ SocketsInv /\ [Next]_vars => SocketsInv'
  BY SocketsStep
<1> QED
  BY <1>1, SocketsInit, PresenceInvariant, PTL DEF Spec

LEMMA ToldInvariant == Spec => []ToldInv
<1> QED
  BY ToldKept, ToldInit, SocketsInvariant, PresenceInvariant, PTL DEF Spec

(* Once things are quiet a client is shown to all who have been in the session since it
   last announced itself: what removed it in between was overtaken by a later clock of
   its own, or never was (room.ts, provider.ts). *)
THEOREM PresenceComesBack == Spec => []PresenceReturns
<1>1. PresenceInv /\ SocketsInv /\ ToldInv => PresenceReturns
  <2> SUFFICES ASSUME PresenceInv, SocketsInv, ToldInv, Quiet, ~faulty,
                      NEW c \in linked, NEW d \in told[c]
               PROVE  c \in shown[d]
    BY DEF PresenceReturns
  <2>1. /\ c \in Clients /\ d \in Clients /\ IsTold(c) /\ c \in Online /\ d \in Online
        /\ Current(c) \in Sockets /\ Current(d) \in Sockets
    BY TypeFacts, CurrentSockets DEF ToldInv, IsTold, Quiet
  <2>2. /\ \A s \in Sockets : Entries(down[s]) = {}
        /\ conn[Current(c)] = "joined" => Entries(up[Current(c)]) = {}
        /\ \A i \in Instances : Entries(bus[i]) = {}
    BY <2>1, EntriesEmpty DEF Quiet, Still
  <2>3. conn[Current(c)] = "joined" /\ at[Current(c)] \in Instances
        /\ conn[Current(d)] = "joined" /\ at[Current(d)] \in Instances
    <3>1. \A e \in {c, d} : conn[Current(e)] \in {"queued", "joined"}
      BY <2>1 DEF SocketsInv, ClientIs
    <3> QED
      BY <2>1, <3>1, TypeFacts DEF Quiet
  <2>4. ~WillMove(c)
    BY <2>1, <2>2, <2>3 DEF WillMove, Room, Removes
  <2>5. ~Unheard(c)
    BY <2>2, <2>3, SaysUnion DEF Unheard
  <2>6. Heard(c)
    BY <2>1, <2>4, <2>5 DEF IsTold
  <2>7. CASE d = c
    BY <2>1, <2>7 DEF SocketsInv, ClientIs
  <2>8. CASE d # c
    <3>1. HeardBy(c, d)
      BY <2>1, <2>6, <2>8 DEF Heard
    <3>2. clock[d][c] = clock[c][c]
      BY <2>1, <2>2, <2>3, <3>1, SaysUnion, SMTT(30) DEF HeardBy, Room
    <3> QED
      BY <3>1, <3>2 DEF HeardBy
  <2> QED
    BY <2>7, <2>8
<1> QED
  BY <1>1, ToldInvariant, SocketsInvariant, PresenceInvariant, PTL

----------------------------------------------------------------------------
(* Who is still shown.  The invariant behind GhostsHaveReturned: what a client shows of
   another its room shows or has removed, and what a room shows of a client on its first
   socket that client's room shows, or the first is going to remove.  The connection
   controls the client, so that the room removes it with the socket. *)

(* A node with the clients z and the clock m of client c, that has yet to get the entries
   u, shows c with clock k, or will. *)
Claim(z, m, u, c, k) ==
    \/ c \in z /\ k = m
    \/ Tells(u, c, k) /\ k > m
Shows(z, m, c, k) == c \in z /\ k <= m

ClientClaims(d, c, k) == Claim(shown[d], clock[d][c], Entries(down[Current(d)]), c, k)
RoomClaims(i, c, k) == Claim(shown[i], clock[i][c], Entries(bus[i]), c, k)
RoomShows(i, c, k) == Shows(shown[i], clock[i][c], c, k)

(* What a client in the session shows of client c its room shows, or removes. *)
ClientFollows(d, c) ==
    \A k \in Nat : ClientClaims(d, c, k) =>
        RoomShows(Room(d), c, k) \/ Removes(Entries(down[Current(d)]), c, k)
(* What it has removed itself it shows no more, or with a later clock. *)
OldRemovals(d, c) ==
    \A e \in Entries(up[Current(d)]) : e.id = c /\ ~e.here =>
        e.clock <= clock[d][c] /\ (c \in shown[d] => e.clock < clock[d][c])
ClientsFollow ==
    \A d \in Online : \A c \in Clients \ {d} :
        OldRemovals(d, c) /\ (Joined(d) => ClientFollows(d, c))

(* A client on its first socket is known through the room it is in. *)
First(c) == last[c] = 1 /\ Joined(c)
Highest(c) == IF First(c) THEN clock[Room(c)][c] ELSE 0
UpTo(u, c, k) == \A e \in u : e.id = c => e.clock <= k
HomeKnows(c) ==
    /\ \A n \in Nodes \ {c} : clock[n][c] <= Highest(c)
    /\ \A s \in Sockets : /\ UpTo(Entries(down[s]), c, Highest(c))
                          /\ s # Current(c) => UpTo(Entries(up[s]), c, Highest(c))
    /\ \A i \in Instances : UpTo(Entries(bus[i]), c, Highest(c))
Fresh(c) == last[c] <= 1 /\ (last[c] = 0 \/ conn[Current(c)] # "gone")

(* Its connection controls it, unless it has left and said so, which is then the last that
   its socket says. *)
OwnRemovalLast(s) ==
    \A e, x \in Entries(up[s]) :
        e.id = s[1] /\ x.id = s[1] /\ ~e.here /\ x.here => x.clock <= e.clock
HomeControls(c) ==
    \/ clock[Room(c)][c] = 0
    \/ c \in controlled[Current(c)]
    \/ /\ c \notin here /\ c \notin shown[Room(c)]
       /\ \A x \in Entries(up[Current(c)]) : x.id = c /\ x.here => x.clock <= clock[Room(c)][c]

(* What a room shows the client's room shows, or the first removes; and what the client's
   room has yet to remove others have, or have yet to. *)
RoomFollows(i, c) ==
    \A k \in Nat : RoomClaims(i, c, k) =>
        (First(c) /\ RoomShows(Room(c), c, k)) \/ Removes(Entries(bus[i]), c, k)
HomeHearsLast(i, c) ==
    \A k \in Nat : RoomClaims(i, c, k) /\ Removes(Entries(bus[Room(c)]), c, k)
                       => Removes(Entries(bus[i]), c, k)

KnownInv == \A c \in Clients : Fresh(c) => HomeKnows(c)
ControlsInv ==
    /\ \A s \in Sockets : OwnRemovalLast(s)
    /\ \A c \in Clients : First(c) => HomeControls(c)
Followed(c) ==
    \A i \in Instances : /\ RoomFollows(i, c)
                         /\ First(c) /\ i # Room(c) => HomeHearsLast(i, c)
FollowInv == \A c \in Clients : last[c] <= 1 /\ c \notin late => Followed(c)

GhostInv == ~faulty => ClientsFollow /\ KnownInv /\ ControlsInv /\ FollowInv

(* applyAwarenessUpdate() once more: a frame takes from a node only what it removes, there
   and for those who are told, and they are told only what the node shows. *)
LEMMA MergeShows ==
  ASSUME PresenceInv, NEW n \in Nodes, NEW c \in Clients \ {n}, NEW u \in Frame, Merge(n, u),
         NEW k \in Nat
  PROVE  /\ clock'[n][c] \in Nat /\ clock[n][c] \in Nat /\ clock'[n][c] >= clock[n][c]
         /\ Shows(shown[n], clock[n][c], c, k) =>
                \/ Shows(shown'[n], clock'[n][c], c, k)
                \/ Removes(u, c, k) /\ Removes(Relayed(n, u), c, k)
         /\ Tells(Relayed(n, u), c, k) =>
                /\ Tells(u, c, k) /\ k > clock[n][c]
                /\ k = clock'[n][c] /\ c \in shown'[n]
         /\ Removes(Relayed(n, u), c, k) => /\ c \notin shown'[n] /\ clock'[n][c] >= k
                                            /\ Removes(u, c, k)
         /\ \A x \in Relayed(n, u) : x.id = c => x.clock = clock'[n][c]
<1> DEFINE r == Relayed(n, u)
<1>1. clock[n][c] \in Nat /\ (c \in shown[n] => clock[n][c] # 0)
  BY TypeFacts DEF Clocks, Positive
<1>2. \A e \in u : e.id = c => e.clock \in Nat \ {0} /\ e.here \in BOOLEAN
  BY FrameOne
<1>3. CASE /\ clock'[n][c] = clock[n][c] /\ (c \in shown'[n] <=> c \in shown[n])
           /\ \A x \in r : x.id # c
  <2> HIDE DEF r
  <2>1. ~Removes(r, c, k) /\ ~Tells(r, c, k)
    BY <1>3, SaysNothing
  <2> QED
    BY <1>1, <1>3, <2>1 DEF r, Shows
<1>4. CASE \E e \in u :
              /\ e.id = c /\ e.clock >= clock[n][c]
              /\ e.clock = clock[n][c] => ~e.here /\ c \in shown[n]
              /\ clock'[n][c] = e.clock /\ (c \in shown'[n] <=> e.here)
              /\ \A x \in u : x.id = c => x = e
              /\ \A x : x \in r /\ x.id = c <=>
                     (e.here \/ clock[n][c] # 0) /\ x = [id |-> c, clock |-> e.clock, here |-> e.here]
  <2>1. PICK e \in u :
              /\ e.id = c /\ e.clock >= clock[n][c]
              /\ e.clock = clock[n][c] => ~e.here /\ c \in shown[n]
              /\ clock'[n][c] = e.clock /\ (c \in shown'[n] <=> e.here)
              /\ \A x \in u : x.id = c => x = e
              /\ \A x : x \in r /\ x.id = c <=>
                     (e.here \/ clock[n][c] # 0) /\ x = [id |-> c, clock |-> e.clock, here |-> e.here]
    BY <1>4
  <2> HIDE DEF r
  <2>2. e.clock \in Nat \ {0} /\ e.here \in BOOLEAN
    BY <1>2, <2>1
  <2>3. \A x \in r : x.id = c => x.clock = e.clock /\ x.here = e.here
    BY <2>1
  <2>4. (e.here => Tells(u, c, e.clock)) /\ (~e.here /\ k <= e.clock => Removes(u, c, k))
    BY <2>1 DEF Tells, Removes
  <2>5. Tells(r, c, k) => e.here /\ e.clock = k
    BY <2>3 DEF Tells
  <2>6. Removes(r, c, k) => ~e.here /\ e.clock >= k
    BY <2>3 DEF Removes
  <2>7. ~e.here /\ clock[n][c] # 0 /\ k <= e.clock => Removes(r, c, k)
    <3>1. ~e.here /\ clock[n][c] # 0 => [id |-> c, clock |-> e.clock, here |-> e.here] \in r
      BY <2>1
    <3> QED
      BY <3>1 DEF Removes
  <2>8. Shows(shown[n], clock[n][c], c, k) => k <= e.clock /\ clock[n][c] # 0
    BY <1>1, <2>1, <2>2 DEF Shows
  <2>9. e.here => e.clock > clock[n][c]
    BY <1>1, <2>1, <2>2
  <2>10. Shows(shown[n], clock[n][c], c, k) =>
                \/ Shows(shown'[n], clock'[n][c], c, k)
                \/ Removes(u, c, k) /\ Removes(r, c, k)
    <3>1. CASE e.here
      BY <2>1, <2>8, <3>1 DEF Shows
    <3>2. CASE ~e.here
      BY <2>4, <2>7, <2>8, <3>2
    <3> QED
      BY <3>1, <3>2
  <2>11. Tells(r, c, k) => /\ Tells(u, c, k) /\ k > clock[n][c]
                           /\ k = clock'[n][c] /\ c \in shown'[n]
    BY <2>1, <2>4, <2>5, <2>9
  <2>12. Removes(r, c, k) => /\ c \notin shown'[n] /\ clock'[n][c] >= k /\ Removes(u, c, k)
    BY <2>1, <2>2, <2>4, <2>6
  <2> QED
    BY <1>1, <2>1, <2>2, <2>3, <2>10, <2>11, <2>12 DEF r
<1> QED
  BY <1>3, <1>4, MergeOther

(* What a node claims when it has taken in the frame u it had claimed, and the rest w
   removes what both removed. *)
LEMMA MergeClaims ==
  ASSUME PresenceInv, NEW n \in Nodes, NEW c \in Clients \ {n}, NEW u \in Frame, Merge(n, u),
         NEW k \in Nat, NEW w, Claim(shown'[n], clock'[n][c], w, c, k)
  PROVE  /\ Claim(shown[n], clock[n][c], u \cup w, c, k)
         /\ Removes(u \cup w, c, k) => Removes(w, c, k)
         /\ (\A e \in u : e.id = c => ~e.here) => Claim(shown[n], clock[n][c], w, c, k)
<1>1. clock[n][c] \in Nat
  BY TypeFacts DEF Clocks
<1>2. \A e \in u : e.id = c => e.clock \in Nat \ {0} /\ e.here \in BOOLEAN
  BY FrameOne
<1>3. /\ Tells(u \cup w, c, k) <=> Tells(u, c, k) \/ Tells(w, c, k)
      /\ Removes(u \cup w, c, k) <=> Removes(u, c, k) \/ Removes(w, c, k)
  BY SaysUnion
<1>4. (\A e \in u : e.id = c => ~e.here) => ~Tells(u, c, k)
  BY DEF Tells
<1>5. CASE /\ clock'[n][c] = clock[n][c] /\ (c \in shown'[n] <=> c \in shown[n])
           /\ \A e \in u : e.id = c => /\ e.clock <= clock[n][c]
                                       /\ e.clock = clock[n][c] => e.here \/ c \notin shown[n]
  <2>1. ~Removes(u, c, k)
    <3> SUFFICES ASSUME NEW e \in u, e.id = c, ~e.here, e.clock >= k
                 PROVE  FALSE
      BY DEF Removes
    <3>1. e.clock <= clock[n][c] /\ e.clock \in Nat /\ (e.clock = clock[n][c] => c \notin shown[n])
      BY <1>2, <1>5
    <3>2. k >= clock[n][c] /\ (k = clock[n][c] => c \in shown[n])
      BY <1>1, <1>5 DEF Claim
    <3> QED
      BY <1>1, <3>1, <3>2
  <2> QED
    BY <1>3, <1>5, <2>1 DEF Claim
<1>6. CASE \E e \in u :
              /\ e.id = c /\ e.clock >= clock[n][c]
              /\ e.clock = clock[n][c] => ~e.here /\ c \in shown[n]
              /\ clock'[n][c] = e.clock /\ (c \in shown'[n] <=> e.here)
              /\ \A x \in u : x.id = c => x = e
  <2>1. PICK e \in u :
              /\ e.id = c /\ e.clock >= clock[n][c]
              /\ e.clock = clock[n][c] => ~e.here /\ c \in shown[n]
              /\ clock'[n][c] = e.clock /\ (c \in shown'[n] <=> e.here)
              /\ \A x \in u : x.id = c => x = e
    BY <1>6
  <2>2. e.clock \in Nat /\ e.here \in BOOLEAN
    BY <1>2, <2>1
  <2>3. Removes(u, c, k) => ~e.here /\ e.clock >= k
    BY <2>1 DEF Removes
  <2>4. (e.here => Tells(u, c, e.clock) /\ e.clock > clock[n][c])
    BY <1>1, <2>1, <2>2 DEF Tells
  <2>5. CASE c \in shown'[n] /\ k = clock'[n][c]
    BY <1>3, <1>4, <2>1, <2>3, <2>4, <2>5 DEF Claim
  <2>6. CASE Tells(w, c, k) /\ k > clock'[n][c]
    <3>1. k > e.clock /\ k > clock[n][c]
      BY <1>1, <2>1, <2>2, <2>6
    <3>2. ~Removes(u, c, k)
      BY <2>2, <2>3, <3>1
    <3> QED
      BY <1>3, <2>6, <3>1, <3>2 DEF Claim
  <2> QED
    BY <2>5, <2>6 DEF Claim
<1> QED
  BY <1>5, <1>6, MergeOther

(* What a step of instance i changes: the frame u goes to the sockets X, the message m to
   the instances J, and no other node hears of it yet. *)
Sends(X, u) ==
    \A x \in Sockets : Entries(down'[x]) = IF x \in X THEN Entries(down[x]) \cup u ELSE Entries(down[x])
Publishes(i, J, m) ==
    \A j \in Instances \ {i} :
        Entries(bus'[j]) = IF j \in J THEN Entries(bus[j]) \cup m ELSE Entries(bus[j])
Leaves(i) == \A n \in Nodes \ {i} : clock'[n] = clock[n] /\ shown'[n] = shown[n]
Rooms == {j \in Instances : IsRoom(j)}
Readers(X) == {x \in X : Reader(x)}
Alone == UNCHANGED <<here, linked, last, cut, faulty>>

(* A room that has a state or is sent something has members. *)
LEMMA ClaimsOfRooms ==
  ASSUME SocketsInv, NEW i \in Instances, NEW c, NEW k, RoomClaims(i, c, k)
  PROVE  i \in Rooms
<1>1. CASE ~IsRoom(i)
  <2>1. shown[i] = {} /\ Entries(bus[i]) = {}
    BY <1>1, EntriesEmpty DEF SocketsInv, RoomIs
  <2>2. ~Tells(Entries(bus[i]), c, k)
    BY <2>1, SaysUnion
  <2> QED
    BY <2>1, <2>2 DEF RoomClaims, Claim
<1> QED
  BY <1>1 DEF Rooms

LEMMA SpreadDoes ==
  ASSUME PresenceInv, NEW i \in Instances, NEW origin, NEW u \in Frame, Spread(i, u, origin)
  PROVE  /\ Sends(Readers(Members(i) \ origin), u) /\ Publishes(i, Rooms, u)
         /\ bus'[i] = bus[i]
<1>1. down \in [Sockets -> Queue] /\ bus \in [Instances -> Queue]
  BY TypeFacts
<1>2. /\ \A s \in Sockets :
                IF s \in Members(i) \ origin /\ Reader(s)
                THEN Entries(down'[s]) = Entries(down[s]) \cup u
                ELSE down'[s] = down[s]
      /\ \A j \in Instances :
                IF j # i /\ IsRoom(j)
                THEN Entries(bus'[j]) = Entries(bus[j]) \cup u
                ELSE bus'[j] = bus[j]
  BY <1>1, EntriesSpread
<1>3. Sends(Readers(Members(i) \ origin), u)
  BY <1>2 DEF Sends, Readers
<1>4. Publishes(i, Rooms, u) /\ bus'[i] = bus[i]
  BY <1>2 DEF Publishes, Rooms
<1> QED
  BY <1>3, <1>4

(* What encodeAwarenessUpdate() says of what is shown. *)
LEMMA EncodedSays ==
  ASSUME NEW n, NEW c, NEW k
  PROVE  /\ Tells(Encode(n, shown[n]), c, k) <=> c \in shown[n] /\ k = clock[n][c]
         /\ ~Removes(Encode(n, shown[n]), c, k)
         /\ \A x \in Encode(n, shown[n]) : x.clock = clock[n][x.id]
<1> DEFINE u == Encode(n, shown[n])
<1>1. \A e \in u : e.here = (e.id \in shown[n]) /\ e.id \in shown[n] /\ e.clock = clock[n][e.id]
  BY DEF Encode
<1>2. ASSUME c \in shown[n]
      PROVE  \E e \in u : e.id = c
  <2>1. [id |-> c, clock |-> clock[n][c], here |-> c \in shown[n]] \in u
    BY <1>2 DEF Encode
  <2> QED
    BY <2>1
<1> HIDE DEF u
<1>3. \A e \in u : e.here /\ e.id \in shown[n] /\ e.clock = clock[n][e.id]
  BY <1>1
<1>4. Tells(u, c, k) <=> c \in shown[n] /\ k = clock[n][c]
  BY <1>2, <1>3 DEF Tells
<1>5. ~Removes(u, c, k)
  BY <1>3 DEF Removes
<1> QED
  BY <1>3, <1>4, <1>5 DEF u

LEMMA JoinDoes ==
  ASSUME PresenceInv, NEW s \in Sockets, Join(s), NEW i, i = at[s]
  PROVE  /\ i \in Instances /\ conn[s] = "queued" /\ conn' = [conn EXCEPT ![s] = "joined"]
         /\ Alone /\ UNCHANGED <<clock, shown, at, controlled, up, late>>
         /\ Sends(Readers({s}), Encode(i, shown[i]))
         /\ \A j \in Instances : Entries(bus'[j]) = Entries(bus[j])
<1> DEFINE u == Encode(i, shown[i])
<1>1. /\ conn[s] = "queued" /\ conn' = [conn EXCEPT ![s] = "joined"]
      /\ down' = IF Reader(s) /\ u # {} THEN [down EXCEPT ![s] = Append(@, u)] ELSE down
      /\ bus' = IF IsRoom(i) THEN bus ELSE Published(bus, i, Request)
      /\ Alone /\ UNCHANGED <<clock, shown, at, controlled, up, late>>
  BY DEF Join, awareness, provider, Alone
<1>2. i \in Instances /\ i \in Nodes /\ down \in [Sockets -> Queue] /\ bus \in [Instances -> Queue]
  BY <1>1, TypeFacts, NodesOfBoth
<1>3. u \in Frame
  BY <1>2, TypeFacts, EncodedBehind
<1> HIDE DEF u
<1>4. ASSUME NEW j \in Instances
      PROVE  Entries(bus'[j]) = Entries(bus[j])
  <2>1. Request \in Frame
    BY DEF Request, Frame
  <2>2. \A x \in Instances : IF x # i /\ IsRoom(x)
                              THEN Entries(Published(bus, i, Request)[x]) = Entries(bus[x]) \cup Request
                              ELSE Published(bus, i, Request)[x] = bus[x]
    BY <1>2, <2>1, EntriesPublished
  <2>3. Entries(bus[j]) \cup Request = Entries(bus[j])
    BY DEF Request
  <2> QED
    BY <1>1, <2>2, <2>3
<1>5. ASSUME NEW x \in Sockets
      PROVE  Entries(down'[x]) = IF x \in Readers({s}) THEN Entries(down[x]) \cup u ELSE Entries(down[x])
  <2>1. CASE x = s /\ Reader(s) /\ u # {}
    <3>1. down'[x] = Append(down[x], u)
      BY <1>1, <1>2, <2>1
    <3>2. Entries(down'[x]) = Entries(down[x]) \cup u
      BY <1>2, <1>3, <3>1, EntriesAppend
    <3> QED
      BY <2>1, <3>2 DEF Readers
  <2>2. CASE u = {}
    BY <1>1, <2>2
  <2>3. CASE x # s \/ ~Reader(s)
    <3>1. down'[x] = down[x] /\ x \notin Readers({s})
      BY <1>1, <1>2, <2>3 DEF Readers
    <3> QED
      BY <3>1
  <2> QED
    BY <2>1, <2>2, <2>3
<1> QED
  BY <1>1, <1>2, <1>4, <1>5 DEF Sends, u

LEMMA HandleDoes ==
  ASSUME PresenceInv, SocketsInv, NEW s \in Sockets, HandleAwareness(s),
         NEW i, i = at[s], NEW u, u = Head(up[s])
  PROVE  /\ i \in Instances /\ i \in Nodes /\ conn[s] = "joined" /\ up[s] # <<>>
         /\ Alone /\ UNCHANGED <<conn, at, late>>
         /\ controlled' = [controlled EXCEPT ![s] = (@ \cup Added(i, u)) \ Removed(i, u)]
         /\ u \in Frame /\ Entries(up[s]) = u \cup Entries(up'[s])
         /\ \A x \in Sockets \ {s} : up'[x] = up[x]
         /\ Merge(i, u) /\ Leaves(i)
         /\ Sends(Readers(Members(i) \ {s}), Relayed(i, u))
         /\ Publishes(i, Rooms, Relayed(i, u)) /\ bus'[i] = bus[i]
<1>1. /\ conn[s] = "joined" /\ up[s] # <<>> /\ up' = [up EXCEPT ![s] = Tail(@)] /\ Merge(i, u)
      /\ controlled' = [controlled EXCEPT ![s] = (@ \cup Added(i, u)) \ Removed(i, u)]
      /\ Spread(i, Relayed(i, u), {s})
      /\ Alone /\ UNCHANGED <<conn, at, late>>
  BY DEF HandleAwareness, provider, Alone
<1>2. /\ i \in Instances /\ i \in Nodes /\ up \in [Sockets -> Queue]
      /\ clock \in Clocks /\ shown \in [Nodes -> SUBSET Clients]
  BY <1>1, TypeFacts, NodesOfBoth
<1>3. u \in Frame /\ Behind(clock, u) /\ Entries(up[s]) = u \cup Entries(Tail(up[s]))
  BY <1>1, <1>2, TypeFacts, EntriesTail, QueueTail
<1>4. Relayed(i, u) \in Frame
  BY <1>1, <1>2, <1>3, TypeFacts, MergeBehind
<1>5. Entries(up[s]) = u \cup Entries(up'[s]) /\ \A x \in Sockets \ {s} : up'[x] = up[x]
  BY <1>1, <1>2, <1>3
<1>6. Leaves(i)
  BY <1>1, <1>2 DEF Merge, Clocks, Leaves
<1> QED
  BY <1>1, <1>2, <1>3, <1>4, <1>5, <1>6, SpreadDoes

(* What is shown at an instance after a step that removes clients from it. *)
LEMMA ForgetDoes ==
  ASSUME PresenceInv, NEW i \in Nodes, NEW ids, Forget(i, ids)
  PROVE  clock' = clock /\ shown'[i] = shown[i] \ ids /\ Leaves(i)
BY TypeFacts DEF Forget, Leaves

(* The room of instance i when the connection s has gone. *)
Remains(i, s) == Members(i) \ {s} # {}
Closes(s, i, ids) ==
    /\ i \in Instances /\ i \in Nodes /\ conn[s] \in {"queued", "joined"} /\ ~Reader(s)
    /\ Alone /\ UNCHANGED <<up, late>>
    /\ conn' = [conn EXCEPT ![s] = "gone"] /\ at' = [at EXCEPT ![s] = None]
    /\ controlled' = [controlled EXCEPT ![s] = {}]
    /\ Leaves(i) /\ Sends(Readers(Members(i) \ {s}), Removal(i, ids))
    /\ Publishes(i, Rooms, Removal(i, ids))
    /\ IF Remains(i, s)
       THEN bus'[i] = bus[i] /\ clock'[i] = clock[i] /\ shown'[i] = shown[i] \ ids
       ELSE bus'[i] = <<>> /\ clock'[i] = NoClocks /\ shown'[i] = {}

LEMMA CloseDoes ==
  ASSUME PresenceInv, NEW s \in Sockets, SocketClosed(s), NEW i, i = at[s],
         NEW ids, ids = controlled[s] \cap shown[i]
  PROVE  Closes(s, i, ids)
<1> DEFINE gone == Removal(i, ids)
<1>1. /\ conn[s] \in {"queued", "joined"} /\ ~Reader(s)
      /\ conn' = [conn EXCEPT ![s] = "gone"] /\ at' = [at EXCEPT ![s] = None]
      /\ controlled' = [controlled EXCEPT ![s] = {}]
      /\ Alone /\ UNCHANGED <<up, late>>
      /\ IF Remains(i, s)
         THEN Spread(i, gone, {s}) /\ Forget(i, Ids(gone))
         ELSE /\ bus' = [IF gone = {} THEN bus ELSE Published(bus, i, gone) EXCEPT ![i] = <<>>]
              /\ shown' = [shown EXCEPT ![i] = {}]
              /\ clock' = [clock EXCEPT ![i] = NoClocks]
              /\ UNCHANGED down
  BY DEF SocketClosed, provider, Alone, Remains
<1>2. /\ i \in Instances /\ i \in Nodes /\ bus \in [Instances -> Queue]
      /\ clock \in Clocks /\ shown \in [Nodes -> SUBSET Clients]
  BY <1>1, TypeFacts, NodesOfBoth
<1>3. gone \in Frame /\ Ids(gone) = ids
  <2>1. gone \in Frame
    BY <1>2, TypeFacts, EncodedBehind
  <2> QED
    BY <2>1, RemovalSays
<1> HIDE DEF gone
<1>4. CASE Remains(i, s)
  <2>1. /\ Sends(Readers(Members(i) \ {s}), gone) /\ Publishes(i, Rooms, gone) /\ bus'[i] = bus[i]
    BY <1>1, <1>2, <1>3, <1>4, SpreadDoes
  <2>2. clock' = clock /\ shown'[i] = shown[i] \ ids /\ Leaves(i)
    BY <1>1, <1>2, <1>3, <1>4, ForgetDoes
  <2> QED
    BY <1>1, <1>2, <1>4, <2>1, <2>2 DEF gone, Closes
<1>5. CASE ~Remains(i, s)
  <2>1. Readers(Members(i) \ {s}) = {}
    BY <1>5 DEF Remains, Readers
  <2>2. Sends(Readers(Members(i) \ {s}), gone)
    BY <1>1, <1>5, <2>1 DEF Sends
  <2>3. ASSUME NEW j \in Instances \ {i}
        PROVE  Entries(bus'[j]) = IF j \in Rooms THEN Entries(bus[j]) \cup gone ELSE Entries(bus[j])
    <3>1. CASE gone = {}
      BY <1>1, <1>2, <1>5, <3>1
    <3>2. CASE gone # {}
      <4>1. bus'[j] = Published(bus, i, gone)[j]
        BY <1>1, <1>5, <3>2 DEF Published
      <4>2. \A x \in Instances : IF x # i /\ IsRoom(x)
                                  THEN Entries(Published(bus, i, gone)[x]) = Entries(bus[x]) \cup gone
                                  ELSE Published(bus, i, gone)[x] = bus[x]
        BY <1>2, <1>3, EntriesPublished
      <4> QED
        BY <4>1, <4>2 DEF Rooms
    <3> QED
      BY <3>1, <3>2
  <2>4. bus'[i] = <<>>
    <3>1. i \in DOMAIN (IF gone = {} THEN bus ELSE Published(bus, i, gone))
      BY <1>2 DEF Published
    <3> QED
      BY <1>1, <1>5, <3>1
  <2>5. clock'[i] = NoClocks /\ shown'[i] = {} /\ Leaves(i)
    BY <1>1, <1>2, <1>5 DEF Clocks, Leaves
  <2> QED
    BY <1>1, <1>2, <1>5, <2>2, <2>3, <2>4, <2>5 DEF Publishes, gone, Closes
<1> QED
  BY <1>4, <1>5

LEMMA BusDoes ==
  ASSUME PresenceInv, NEW i \in Instances, ReceiveBus(i), NEW u, u = Head(bus[i])
  PROVE  /\ Alone /\ UNCHANGED <<conn, at, controlled, up>>
         /\ late' = late \cup IF u = Request THEN AnsweredLate(i) ELSE {}
         /\ i \in Nodes /\ u \in Frame /\ Entries(bus[i]) = u \cup Entries(bus'[i]) /\ Leaves(i)
         /\ u = Request => /\ UNCHANGED <<clock, shown, down>>
                           /\ Publishes(i, Rooms, Encode(i, shown[i]))
         /\ u # Request => /\ Merge(i, u) /\ Sends(Readers(Members(i)), Relayed(i, u))
                           /\ \A j \in Instances \ {i} : bus'[j] = bus[j]
<1> DEFINE rest == [bus EXCEPT ![i] = Tail(@)]
           m == Encode(i, shown[i])
<1>1. /\ bus[i] # <<>> /\ Alone /\ UNCHANGED <<conn, at, controlled, up>>
      /\ late' = late \cup IF u = Request THEN AnsweredLate(i) ELSE {}
      /\ IF u = Request
         THEN /\ bus' = IF shown[i] = {} THEN rest ELSE Published(rest, i, m)
              /\ UNCHANGED <<clock, shown, down>>
         ELSE Merge(i, u) /\ down' = Sent(i, Relayed(i, u), {}) /\ bus' = rest
  BY DEF ReceiveBus, provider, server, Alone, awareness
<1>2. /\ i \in Nodes /\ bus \in [Instances -> Queue] /\ down \in [Sockets -> Queue]
      /\ clock \in Clocks /\ shown \in [Nodes -> SUBSET Clients]
  BY TypeFacts, NodesOfBoth
<1>3. /\ u \in Frame /\ Behind(clock, u) /\ Entries(bus[i]) = u \cup Entries(Tail(bus[i]))
      /\ Tail(bus[i]) \in Queue
  BY <1>1, <1>2, TypeFacts, QueueTail, EntriesTail
<1>4. rest \in [Instances -> Queue] /\ \A j \in Instances : rest[j] = IF j = i THEN Tail(bus[i]) ELSE bus[j]
  BY <1>2, <1>3
<1>5. m \in Frame
  BY <1>2, TypeFacts, EncodedBehind
<1> HIDE DEF rest, m
<1>6. CASE u = Request
  <2>1. ASSUME NEW j \in Instances
        PROVE  Entries(bus'[j]) = IF j \in Rooms \ {i} THEN Entries(rest[j]) \cup m ELSE Entries(rest[j])
    <3>1. CASE shown[i] = {}
      <4>1. m = {} /\ bus'[j] = rest[j]
        BY <1>1, <1>6, <3>1 DEF m, Encode
      <4> QED
        BY <4>1
    <3>2. CASE shown[i] # {}
      <4>1. bus'[j] = Published(rest, i, m)[j]
        BY <1>1, <1>6, <3>2
      <4>2. \A x \in Instances : IF x # i /\ IsRoom(x)
                                  THEN Entries(Published(rest, i, m)[x]) = Entries(rest[x]) \cup m
                                  ELSE Published(rest, i, m)[x] = rest[x]
        BY <1>4, <1>5, EntriesPublished
      <4> QED
        BY <4>1, <4>2 DEF Rooms
    <3> QED
      BY <3>1, <3>2
  <2>2. Entries(bus[i]) = u \cup Entries(bus'[i])
    BY <1>3, <1>4, <2>1
  <2>3. Publishes(i, Rooms, m)
    BY <1>4, <2>1 DEF Publishes
  <2>4. Leaves(i)
    BY <1>1, <1>6 DEF Leaves
  <2> QED
    BY <1>1, <1>2, <1>3, <1>6, <2>2, <2>3, <2>4 DEF m
<1>7. CASE u # Request
  <2>1. Merge(i, u) /\ down' = Sent(i, Relayed(i, u), {}) /\ bus' = rest
    BY <1>1, <1>7
  <2>2. Relayed(i, u) \in Frame
    BY <1>2, <1>3, <2>1, TypeFacts, MergeBehind
  <2>3. Sends(Readers(Members(i)), Relayed(i, u))
    <3> SUFFICES ASSUME NEW x \in Sockets
                 PROVE  Entries(down'[x]) = IF x \in Readers(Members(i)) THEN Entries(down[x]) \cup Relayed(i, u)
                                                                        ELSE Entries(down[x])
      BY DEF Sends
    <3>1. IF x \in Members(i) \ {} /\ Reader(x) THEN Entries(down'[x]) = Entries(down[x]) \cup Relayed(i, u)
                                                ELSE down'[x] = down[x]
      BY <1>2, <2>1, <2>2, EntriesSent
    <3> QED
      BY <3>1 DEF Readers
  <2>4. Leaves(i)
    BY <1>2, <2>1 DEF Merge, Clocks, Leaves
  <2> QED
    BY <1>1, <1>2, <1>3, <1>4, <1>7, <2>1, <2>3, <2>4
<1> QED
  BY <1>6, <1>7

LEMMA ExpireDoes ==
  ASSUME PresenceInv, NEW i \in Instances, NEW d \in Clients, Expire(i, d)
  PROVE  /\ Alone /\ UNCHANGED <<conn, at, controlled, up, late, clock>> /\ d \in shown[i]
         /\ i \in Nodes /\ Leaves(i) /\ shown'[i] = shown[i] \ {d} /\ bus'[i] = bus[i]
         /\ Sends(Readers(Members(i)), Removal(i, {d})) /\ Publishes(i, Rooms, Removal(i, {d}))
<1>1. i \in Nodes /\ i \notin Clients
  BY NodesOfBoth
<1>2. /\ d \in shown[i] /\ Forget(i, {d}) /\ Spread(i, Removal(i, {d}), {})
      /\ Alone /\ UNCHANGED <<conn, at, controlled, up, late>>
  BY <1>1 DEF Expire, provider, server, Alone
<1>3. Removal(i, {d}) \in Frame
  <2>1. {d} \in SUBSET shown[i]
    BY <1>2
  <2> QED
    BY <1>1, <2>1, TypeFacts, EncodedBehind
<1>4. /\ Sends(Readers(Members(i) \ {}), Removal(i, {d})) /\ Publishes(i, Rooms, Removal(i, {d}))
      /\ bus'[i] = bus[i]
  BY <1>2, <1>3, SpreadDoes
<1>5. Members(i) \ {} = Members(i)
  OBVIOUS
<1> QED
  BY <1>1, <1>2, <1>4, <1>5, ForgetDoes

(* What a step of client d changes: its own state, and what is under way on its sockets,
   where it says something of itself or removes others that it does not show. *)
ClientStep(d) ==
    \/ Announce(d) \/ Receive(d) \/ Lost(d) \/ Break(d)
    \/ \E says \in BOOLEAN : Leave(d, says)
    \/ \E c \in Clients : Expire(d, c)
Says(d, x, e) ==
    /\ x = Current(d)
    /\ IF e.id = d THEN e.clock = clock'[d][d] /\ (e.here <=> d \in here')
                   ELSE ~e.here /\ e.clock = clock[d][e.id] /\ e.id \notin shown'[d]
Forgets(d) ==
    /\ shown'[d] \subseteq shown[d] /\ \A c \in Clients \ {d} : clock'[d][c] = clock[d][c]
    /\ down'[Current(d)] = down[Current(d)]
Learns(d, u) ==
    /\ u \in Frame /\ Merge(d, u) /\ up' = up
    /\ Entries(down[Current(d)]) = u \cup Entries(down'[Current(d)])

LEMMA OwnSays ==
  ASSUME NEW d \in Clients, NEW k \in Nat \ {0}
  PROVE  /\ Own(d, k, TRUE) \in Frame /\ \A e \in Own(d, k, TRUE) : e.id = d /\ e.clock = k /\ e.here
         /\ Own(d, k, FALSE) \in Frame /\ \A e \in Own(d, k, FALSE) : e.id = d /\ e.clock = k /\ ~e.here
<1>1. \A h \in BOOLEAN : Own(d, k, h) \in Frame
  BY OwnFrame
<1>2. \A h \in BOOLEAN : \A e \in Own(d, k, h) : e.id = d /\ e.clock = k /\ e.here = h
  BY DEF Own
<1> QED
  BY <1>1, <1>2

LEMMA UpSaid ==
  ASSUME PresenceInv, NEW d \in Clients, NEW u \in Frame, up' = SentUp(d, u)
  PROVE  /\ \A x \in Sockets : x[1] # d => up'[x] = up[x]
         /\ \A x \in Sockets : \A e \in Entries(up'[x]) :
                e \in Entries(up[x]) \/ (e \in u /\ x = Current(d))
<1>1. up \in [Sockets -> Queue] /\ Current(d)[1] = d
  BY TypeFacts, CurrentSockets
<1>2. \A x \in Sockets : up'[x] = up[x] \/ (up'[x] = Append(up[x], u) /\ x = Current(d))
  BY <1>1 DEF SentUp
<1>3. \A x \in Sockets : Entries(Append(up[x], u)) = Entries(up[x]) \cup u
  BY <1>1, EntriesAppend
<1> QED
  BY <1>1, <1>2, <1>3

LEMMA ClientDoes ==
  ASSUME PresenceInv, SocketsInv, NEW d \in Clients, ClientStep(d)
  PROVE  /\ UNCHANGED <<bus, conn, at, controlled, last, late, faulty>> /\ Leaves(d)
         /\ here' \subseteq here /\ Online' \subseteq Online /\ \A e : Current(e)' = Current(e)
         /\ \A x \in Sockets : /\ Entries(down'[x]) \subseteq Entries(down[x])
                               /\ x[1] # d => up'[x] = up[x] /\ down'[x] = down[x]
                               /\ \A e \in Entries(up'[x]) : e \in Entries(up[x]) \/ Says(d, x, e)
         /\ d \in Online' => Forgets(d) \/ \E u \in Frame : Learns(d, u)
         /\ \A c \in Clients \ {d} :
                \/ clock'[d][c] \in {0, clock[d][c]}
                \/ \E x \in Sockets : \E e \in Entries(down[x]) : e.id = c /\ clock'[d][c] = e.clock
<1>0. /\ clock \in Clocks /\ shown \in [Nodes -> SUBSET Clients]
      /\ up \in [Sockets -> Queue] /\ down \in [Sockets -> Queue]
      /\ linked \subseteq Clients /\ Online \subseteq linked
      /\ d \in Nodes /\ Current(d)[1] = d /\ \A e \in Clients : Current(e)[1] = e
      /\ \A e \in linked : Current(e) \in Sockets
  BY TypeFacts, CurrentSockets, NodesOfBoth
<1>1. last' = last => \A e : Current(e)' = Current(e)
  BY DEF Current
<1>2. \A c \in Clients : clock[d][c] \in Nat /\ clock[d][d] + 1 \in Nat \ {0}
  BY <1>0 DEF Clocks
<1>3. \A x \in Sockets : Entries(<<>>) \subseteq Entries(up[x]) /\ Entries(<<>>) \subseteq Entries(down[x])
  BY EntriesEmpty
<1>4. CASE Announce(d)
  <2> DEFINE u == Own(d, clock[d][d] + 1, TRUE)
  <2>1. /\ d \in here /\ clock' = [clock EXCEPT ![d][d] = @ + 1] /\ up' = SentUp(d, u)
        /\ UNCHANGED <<shown, here, linked, last, conn, at, controlled, cut, down, bus, faulty, late>>
    BY <1>4 DEF Announce, server
  <2>2. /\ clock'[d][d] = clock[d][d] + 1 /\ \A c \in Clients \ {d} : clock'[d][c] = clock[d][c]
        /\ Leaves(d)
    BY <1>0, <2>1 DEF Leaves, Clocks
  <2>3. u \in Frame /\ \A e \in u : e.id = d /\ e.clock = clock[d][d] + 1 /\ e.here
    BY <1>2, OwnSays
  <2> HIDE DEF u
  <2>4. \A x \in Sockets : /\ x[1] # d => up'[x] = up[x] /\ down'[x] = down[x]
                           /\ \A e \in Entries(up'[x]) : e \in Entries(up[x]) \/ Says(d, x, e)
    BY <2>1, <2>2, <2>3, UpSaid DEF Says
  <2>5. Online' = Online
    BY <2>1, ReadersStay
  <2> QED
    BY <1>1, <2>1, <2>2, <2>4, <2>5 DEF Forgets
<1>5. CASE Receive(d)
  <2> DEFINE s == Current(d)
             u == Head(down[s])
  <2>1. /\ d \in linked /\ down[s] # <<>> /\ Merge(d, u) /\ down' = [down EXCEPT ![s] = Tail(@)]
        /\ UNCHANGED <<here, linked, last, conn, at, controlled, cut, up, bus, faulty, late>>
    BY <1>5 DEF Receive, provider, server
  <2>2. /\ u \in Frame /\ Entries(down[s]) = u \cup Entries(Tail(down[s])) /\ s \in Sockets
    BY <1>0, <2>1, EntriesTail
  <2>3. Leaves(d)
    BY <1>0, <2>1 DEF Merge, Clocks, Leaves
  <2>4. \A x \in Sockets : down'[x] = IF x = s THEN Tail(down[s]) ELSE down[x]
    BY <1>0, <2>1
  <2> HIDE DEF u
  <2>5. Learns(d, u)
    BY <2>1, <2>2, <2>4 DEF Learns
  <2>6. \A x \in Sockets : Entries(down'[x]) \subseteq Entries(down[x])
    BY <2>2, <2>4
  <2>7. ASSUME NEW c \in Clients \ {d}
        PROVE  clock'[d][c] = clock[d][c] \/ \E e \in u : e.id = c /\ clock'[d][c] = e.clock
    BY <1>0, <2>1, <2>2, MergeOther
  <2>8. \A c \in Clients \ {d} :
            \/ clock'[d][c] \in {0, clock[d][c]}
            \/ \E x \in Sockets : \E e \in Entries(down[x]) : e.id = c /\ clock'[d][c] = e.clock
    BY <2>2, <2>7
  <2>9. Online' = Online
    BY <2>1, ReadersStay
  <2> QED
    BY <1>0, <1>1, <2>1, <2>2, <2>3, <2>4, <2>5, <2>6, <2>8, <2>9
<1>6. CASE Lost(d)
  <2>1. /\ Forget(d, Clients \ {d}) /\ linked' = linked \ {d} /\ cut' = cut \ {Current(d)}
        /\ UNCHANGED <<here, last, conn, at, controlled, up, down, bus, faulty, late>>
    BY <1>6 DEF Lost, server
  <2>2. Leaves(d) /\ clock' = clock
    BY <1>0, <2>1, ForgetDoes
  <2>3. Online' \subseteq Online \ {d}
    BY <1>0, <1>1, <2>1 DEF Online
  <2> QED
    BY <1>1, <2>1, <2>2, <2>3
<1>7. ASSUME NEW says \in BOOLEAN, Leave(d, says)
      PROVE  Leaves(d) /\ clock'[d][d] = (IF says THEN clock[d][d] + 1 ELSE clock[d][d])
             /\ \A c \in Clients \ {d} : clock'[d][c] = 0
  <2>1. /\ clock' = [clock EXCEPT ![d] = Only(d, IF says THEN @[d] + 1 ELSE @[d])]
        /\ shown' = [shown EXCEPT ![d] = {}]
    BY <1>7 DEF Leave
  <2>2. clock'[d] = Only(d, IF says THEN clock[d][d] + 1 ELSE clock[d][d])
    BY <1>0, <2>1 DEF Clocks
  <2> QED
    BY <1>0, <2>1, <2>2 DEF Leaves, Only, NoClocks, Clocks
<1>8. ASSUME NEW says \in BOOLEAN, Leave(d, says)
      PROVE  /\ UNCHANGED <<bus, conn, at, controlled, last, late, faulty>>
             /\ here' \subseteq here /\ Online' \subseteq Online \ {d}
             /\ \A x \in Sockets : /\ Entries(down'[x]) \subseteq Entries(down[x])
                                   /\ x[1] # d => up'[x] = up[x] /\ down'[x] = down[x]
                                   /\ \A e \in Entries(up'[x]) : e \in Entries(up[x]) \/ Says(d, x, e)
  <2> DEFINE u == Own(d, clock[d][d] + 1, FALSE)
  <2>1. /\ here' = here \ {d} /\ linked' = linked \ {d} /\ cut' = cut \ {Current(d)}
        /\ up' = IF says THEN SentUp(d, u) ELSE up
        /\ down' = [s \in Sockets |-> IF s[1] = d THEN <<>> ELSE down[s]]
        /\ UNCHANGED <<last, conn, at, controlled, bus, faulty, late>>
    BY <1>8 DEF Leave, server
  <2>2. u \in Frame /\ \A e \in u : e.id = d /\ e.clock = clock[d][d] + 1 /\ ~e.here
    BY <1>2, OwnSays
  <2> HIDE DEF u
  <2>3. says => \A x \in Sockets : /\ x[1] # d => up'[x] = up[x]
                                   /\ \A e \in Entries(up'[x]) : e \in Entries(up[x]) \/ Says(d, x, e)
    BY <1>7, <1>8, <2>1, <2>2, UpSaid DEF Says
  <2>4. ~says => up' = up
    BY <2>1
  <2>5. \A x \in Sockets : down'[x] = IF x[1] = d THEN <<>> ELSE down[x]
    BY <2>1
  <2>6. Online' \subseteq Online \ {d}
    BY <1>0, <1>1, <2>1 DEF Online
  <2> QED
    BY <1>3, <2>1, <2>3, <2>4, <2>5, <2>6
<1>9. CASE \E says \in BOOLEAN : Leave(d, says)
  BY <1>1, <1>7, <1>8, <1>9
<1>10. CASE Break(d)
  <2> DEFINE s == Current(d)
  <2>1. /\ d \in Online /\ cut' = cut \cup {s}
        /\ up' = [up EXCEPT ![s] = <<>>] /\ down' = [down EXCEPT ![s] = <<>>]
        /\ UNCHANGED <<clock, shown, here, linked, last, conn, at, controlled, bus, faulty, late>>
    BY <1>10 DEF Break, awareness, provider, server
  <2>2. \A x \in Sockets : /\ up'[x] = IF x = s THEN <<>> ELSE up[x]
                           /\ down'[x] = IF x = s THEN <<>> ELSE down[x]
    BY <1>0, <2>1
  <2>3. Leaves(d)
    BY <2>1 DEF Leaves
  <2>4. Online' \subseteq Online \ {d}
    BY <1>0, <1>1, <2>1 DEF Online
  <2>5. \A x \in Sockets : /\ Entries(down'[x]) \subseteq Entries(down[x])
                           /\ Entries(up'[x]) \subseteq Entries(up[x])
                           /\ x[1] # d => up'[x] = up[x] /\ down'[x] = down[x]
    BY <1>0, <1>3, <2>2
  <2> QED
    BY <1>1, <2>1, <2>3, <2>4, <2>5
<1>11. ASSUME NEW c \in Clients, Expire(d, c)
       PROVE  /\ UNCHANGED <<bus, conn, at, controlled, last, late, faulty, here, linked, cut, down, clock>>
              /\ Leaves(d) /\ shown'[d] \subseteq shown[d]
              /\ \A x \in Sockets : /\ x[1] # d => up'[x] = up[x]
                                    /\ \A e \in Entries(up'[x]) : e \in Entries(up[x]) \/ Says(d, x, e)
  <2> DEFINE u == Removal(d, {c})
  <2>1. /\ c \in shown[d] \ {d} /\ Forget(d, {c}) /\ up' = SentUp(d, u)
        /\ UNCHANGED <<bus, conn, at, controlled, last, late, faulty, here, linked, cut, down>>
    BY <1>11 DEF Expire, provider, server
  <2>2. u \in Frame
    <3>1. {c} \in SUBSET shown[d]
      BY <2>1
    <3> QED
      BY <1>0, <3>1, TypeFacts, EncodedBehind
  <2>3. \A e \in u : e.id = c /\ ~e.here /\ e.clock = clock[d][c]
    BY DEF Removal
  <2>4. clock' = clock /\ shown'[d] = shown[d] \ {c} /\ Leaves(d)
    BY <1>0, <2>1, ForgetDoes
  <2> HIDE DEF u
  <2> QED
    BY <2>1, <2>2, <2>3, <2>4, UpSaid DEF Says
<1>12. CASE \E c \in Clients : Expire(d, c)
  <2>1. PICK c \in Clients : Expire(d, c)
    BY <1>12
  <2>2. Online' = Online
    BY <1>11, <2>1, ReadersStay
  <2>3. Forgets(d)
    BY <1>11, <2>1 DEF Forgets
  <2> QED
    BY <1>1, <1>11, <2>1, <2>2, <2>3
<1> QED
  BY <1>4, <1>5, <1>6, <1>9, <1>10, <1>12 DEF ClientStep

(* A client that keeps what it has follows its room as long as it is told what the room
   removes, and only what the room shows. *)
LEMMA FollowsRoom ==
  ASSUME NEW d, NEW c, ClientFollows(d, c), Current(d)' = Current(d), Room(d)' = Room(d),
         shown'[d] = shown[d], clock'[d][c] = clock[d][c],
         NEW r, Entries(down'[Current(d)]) = Entries(down[Current(d)]) \cup r,
         NEW z, NEW m, z = shown'[Room(d)], m = clock'[Room(d)][c],
         \A k \in Nat : RoomShows(Room(d), c, k) => Shows(z, m, c, k) \/ Removes(r, c, k),
         \A k \in Nat : Tells(r, c, k) => Shows(z, m, c, k)
  PROVE  ClientFollows(d, c)'
<1> DEFINE w == Entries(down[Current(d)])
<1>1. \A k : /\ Tells(w \cup r, c, k) <=> Tells(w, c, k) \/ Tells(r, c, k)
             /\ Removes(w \cup r, c, k) <=> Removes(w, c, k) \/ Removes(r, c, k)
  BY SaysUnion
<1>2. ASSUME NEW k \in Nat, Claim(shown[d], clock[d][c], w \cup r, c, k)
      PROVE  Shows(z, m, c, k) \/ Removes(w \cup r, c, k)
  <2>1. CASE Tells(r, c, k)
    BY <2>1
  <2>2. CASE ~Tells(r, c, k)
    <3>1. ClientClaims(d, c, k)
      BY <1>1, <1>2, <2>2 DEF ClientClaims, Claim
    <3>2. RoomShows(Room(d), c, k) \/ Removes(w, c, k)
      BY <3>1 DEF ClientFollows
    <3> QED
      BY <1>1, <3>2
  <2> QED
    BY <2>1, <2>2
<1>3. Entries(down'[Current(d)']) = w \cup r
  OBVIOUS
<1> HIDE DEF w
<1> QED
  BY <1>2, <1>3 DEF ClientFollows, ClientClaims, RoomShows

LEMMA FollowsSpoken ==
  ASSUME PresenceInv, SocketsInv, ClientsFollow, Alone,
         NEW i \in Instances, Leaves(i), NEW o, NEW r, Sends(Readers(Members(i) \ o), r),
         NEW d \in Online, NEW c \in Clients \ {d}, Joined(d), Room(d)' = Room(d),
         Room(d) = i => Current(d) \notin o,
         Room(d) = i => \A k \in Nat :
             /\ RoomShows(i, c, k) => Shows(shown'[i], clock'[i][c], c, k) \/ Removes(r, c, k)
             /\ Tells(r, c, k) => Shows(shown'[i], clock'[i][c], c, k)
  PROVE  ClientFollows(d, c)'
<1>1. /\ Current(d)' = Current(d) /\ Current(d) \in Sockets /\ Reader(Current(d))
      /\ d \in Nodes \ {i} /\ Room(d) \in Instances /\ ClientFollows(d, c)
      /\ conn[Current(d)] = "joined" /\ at[Current(d)] = Room(d)
  <2>1. d \in Clients /\ d \in linked /\ Current(d) \in Sockets /\ Current(d)[1] = d
    BY TypeFacts, CurrentSockets
  <2>2. conn[Current(d)] = "joined" /\ Room(d) \in Instances
    BY <2>1, TypeFacts DEF Joined, Room
  <2> QED
    BY <2>1, <2>2, NodesOfBoth DEF Alone, Current, Reader, Online, ClientsFollow, Room
<1>2. shown'[d] = shown[d] /\ clock'[d][c] = clock[d][c]
  BY <1>1 DEF Leaves
<1>3. CASE Room(d) = i
  <2>1. Current(d) \in Readers(Members(i) \ o)
    BY <1>1, <1>3 DEF Readers, Members
  <2>2. Entries(down'[Current(d)]) = Entries(down[Current(d)]) \cup r
    BY <1>1, <2>1 DEF Sends
  <2> QED
    BY <1>1, <1>2, <1>3, <2>2, FollowsRoom
<1>4. CASE Room(d) # i
  <2>1. Current(d) \notin Readers(Members(i) \ o)
    BY <1>1, <1>4 DEF Readers, Members
  <2>2. Entries(down'[Current(d)]) = Entries(down[Current(d)]) \cup {}
    BY <1>1, <2>1 DEF Sends
  <2>3. shown'[Room(d)] = shown[Room(d)] /\ clock'[Room(d)] = clock[Room(d)]
    BY <1>1, <1>4, NodesOfBoth DEF Leaves
  <2>4. \A k \in Nat : /\ RoomShows(Room(d), c, k) => Shows(shown'[Room(d)], clock'[Room(d)][c], c, k)
                       /\ ~Tells({}, c, k)
    BY <2>3, SaysUnion DEF RoomShows
  <2> QED
    BY <1>1, <1>2, <2>2, <2>4, FollowsRoom
<1> QED
  BY <1>3, <1>4

(* What was removed stays removed. *)
LEMMA RemovalsStay ==
  ASSUME NEW d, NEW c, OldRemovals(d, c), Current(d)' = Current(d),
         shown'[d] = shown[d], clock'[d] = clock[d],
         Entries(up'[Current(d)]) \subseteq Entries(up[Current(d)])
  PROVE  OldRemovals(d, c)'
BY DEF OldRemovals

LEMMA ClientsFollowOpen ==
  ASSUME PresenceInv, SocketsInv, ClientsFollow, NEW e \in Clients, NEW i \in Instances, Open(e, i),
         NEW d \in Online', d \in Clients, NEW c \in Clients \ {d}
  PROVE  OldRemovals(d, c)' /\ (Joined(d)' => ClientFollows(d, c)')
<1> DEFINE s == Current(e)'
<1>1. /\ e \in here \ linked /\ last[e] < MaxSockets
      /\ last' = [last EXCEPT ![e] = last[e] + 1] /\ linked' = linked \cup {e}
      /\ conn' = [conn EXCEPT ![s] = "queued"] /\ at' = [at EXCEPT ![s] = i]
      /\ up' = [up EXCEPT ![s] = <<Own(e, clock[e][e], TRUE)>>]
      /\ UNCHANGED <<clock, shown, cut, down>>
  BY DEF Open, awareness
<1>0. /\ last \in [Clients -> 0 .. MaxSockets] /\ MaxSockets \in Nat
      /\ conn \in [Sockets -> {"none", "queued", "joined", "gone"}] /\ up \in [Sockets -> Queue]
      /\ at \in [Sockets -> Instances \cup {None}]
      /\ linked \subseteq Clients
  BY TypeFacts
<1>2. s = <<e, last[e] + 1>> /\ s \in Sockets /\ \A x \in Clients \ {e} : Current(x)' = Current(x)
  BY <1>0, <1>1 DEF Current, Sockets
<1> HIDE DEF s
<1>3. s[1] = e /\ \A x \in Clients \ {e} : Current(x) # s
  BY <1>2, CurrentSockets
<1>4. CASE d = e
  <2>1. Current(d)' = s /\ up'[s] = <<Own(e, clock[e][e], TRUE)>> /\ conn'[s] = "queued"
    BY <1>0, <1>1, <1>2, <1>4 DEF s
  <2>2. \A x \in Entries(up'[s]) : x.id = e
    BY <2>1 DEF Entries, Own
  <2> QED
    BY <1>4, <2>1, <2>2 DEF OldRemovals, Joined
<1>5. CASE d # e
  <2>1. Current(d)' = Current(d) /\ Current(d) # s /\ d \in Online
    BY <1>1, <1>2, <1>3, <1>5 DEF Online
  <2>2. Current(d) \in Sockets
    BY <2>1, TypeFacts, CurrentSockets
  <2>3. /\ up'[Current(d)] = up[Current(d)] /\ conn'[Current(d)] = conn[Current(d)]
        /\ at'[Current(d)] = at[Current(d)]
    BY <1>0, <1>1, <2>1, <2>2
  <2>4. OldRemovals(d, c) /\ (Joined(d) => ClientFollows(d, c))
    BY <2>1 DEF ClientsFollow
  <2>5. OldRemovals(d, c)'
    BY <1>1, <2>1, <2>3, <2>4 DEF OldRemovals
  <2>6. Joined(d)' => ClientFollows(d, c)'
    BY <1>1, <2>1, <2>3, <2>4 DEF ClientFollows, ClientClaims, RoomShows, Joined, Room
  <2> QED
    BY <2>5, <2>6
<1> QED
  BY <1>4, <1>5

LEMMA ClientsFollowClient ==
  ASSUME PresenceInv, SocketsInv, ClientsFollow, NEW e \in Clients, ClientStep(e),
         NEW d \in Online', d \in Clients, NEW c \in Clients \ {d}
  PROVE  OldRemovals(d, c)' /\ (Joined(d)' => ClientFollows(d, c)')
<1>1. /\ UNCHANGED <<bus, conn, at>> /\ Leaves(e) /\ Online' \subseteq Online /\ \A x : Current(x)' = Current(x)
      /\ \A x \in Sockets : /\ x[1] # e => up'[x] = up[x] /\ down'[x] = down[x]
                            /\ \A y \in Entries(up'[x]) : y \in Entries(up[x]) \/ Says(e, x, y)
      /\ e \in Online' => Forgets(e) \/ \E u \in Frame : Learns(e, u)
  BY ClientDoes
<1>2. /\ d \in Online /\ Current(d) \in Sockets /\ Current(d)[1] = d /\ d \in Nodes
      /\ clock \in Clocks /\ Joined(d)' = Joined(d) /\ Room(d)' = Room(d)
      /\ Joined(d) => Room(d) \in Nodes \ {e}
  <2>1. d \in Online /\ Current(d) \in Sockets /\ Current(d)[1] = d /\ d \in Nodes
    BY <1>1, TypeFacts, CurrentSockets, NodesOfBoth
  <2>2. Joined(d)' = Joined(d) /\ Room(d)' = Room(d)
    BY <1>1 DEF Joined, Room
  <2>3. Joined(d) => Room(d) \in Instances
    BY <2>1, TypeFacts DEF Joined, Room
  <2> QED
    BY <2>1, <2>2, <2>3, TypeFacts, NodesOfBoth
<1>3. OldRemovals(d, c) /\ (Joined(d) => ClientFollows(d, c))
  BY <1>2 DEF ClientsFollow
<1>4. ASSUME Joined(d)
      PROVE  shown'[Room(d)] = shown[Room(d)] /\ clock'[Room(d)] = clock[Room(d)]
  BY <1>1, <1>2, <1>4 DEF Leaves
<1>5. CASE d # e
  <2>1. /\ shown'[d] = shown[d] /\ clock'[d] = clock[d]
        /\ up'[Current(d)] = up[Current(d)] /\ down'[Current(d)] = down[Current(d)]
    BY <1>1, <1>2, <1>5 DEF Leaves
  <2>2. OldRemovals(d, c)'
    BY <1>1, <1>3, <2>1, RemovalsStay
  <2>3. Joined(d)' => ClientFollows(d, c)'
    BY <1>1, <1>2, <1>3, <1>4, <2>1 DEF ClientFollows, ClientClaims, RoomShows
  <2> QED
    BY <2>2, <2>3
<1>6. CASE d = e /\ Forgets(d)
  <2>1. clock'[d][c] = clock[d][c] /\ shown'[d] \subseteq shown[d] /\ down'[Current(d)] = down[Current(d)]
    BY <1>6 DEF Forgets
  <2>2. OldRemovals(d, c)'
    <3> SUFFICES ASSUME NEW y \in Entries(up'[Current(d)]), y.id = c, ~y.here
                 PROVE  y.clock <= clock'[d][c] /\ (c \in shown'[d] => y.clock < clock'[d][c])
      BY <1>1 DEF OldRemovals
    <3>1. CASE y \in Entries(up[Current(d)])
      BY <1>3, <2>1, <3>1 DEF OldRemovals
    <3>2. CASE Says(d, Current(d), y)
      <4>1. y.clock = clock[d][c] /\ c \notin shown'[d] /\ clock[d][c] \in Nat
        BY <1>2, <3>2 DEF Says, Clocks
      <4> QED
        BY <2>1, <4>1
    <3> QED
      BY <1>1, <1>2, <1>6, <3>1, <3>2
  <2>3. ASSUME Joined(d)
        PROVE  ClientFollows(d, c)'
    <3>1. ASSUME NEW k \in Nat, Claim(shown'[d], clock'[d][c], Entries(down'[Current(d)]), c, k)
          PROVE  ClientClaims(d, c, k)
      BY <2>1, <3>1 DEF ClientClaims, Claim
    <3> QED
      BY <1>1, <1>2, <1>3, <1>4, <2>1, <2>3, <3>1 DEF ClientFollows, ClientClaims, RoomShows
  <2> QED
    BY <1>2, <2>2, <2>3
<1>7. ASSUME d = e, NEW u \in Frame, Learns(d, u)
      PROVE  OldRemovals(d, c)' /\ (Joined(d)' => ClientFollows(d, c)')
  <2>1. Merge(d, u) /\ up' = up /\ Entries(down[Current(d)]) = u \cup Entries(down'[Current(d)])
    BY <1>7 DEF Learns
  <2>2. OldRemovals(d, c)'
    <3> SUFFICES ASSUME NEW y \in Entries(up[Current(d)]), y.id = c, ~y.here
                 PROVE  y.clock <= clock'[d][c] /\ (c \in shown'[d] => y.clock < clock'[d][c])
      BY <1>1, <2>1 DEF OldRemovals
    <3>1. y.clock <= clock[d][c] /\ (c \in shown[d] => y.clock < clock[d][c])
      BY <1>3 DEF OldRemovals
    <3>2. y.clock \in Nat /\ clock[d][c] \in Nat
      BY <1>2, TypeFacts, SaysLater DEF Clocks
    <3>3. CASE clock'[d][c] = clock[d][c] /\ (c \in shown'[d] <=> c \in shown[d])
      BY <3>1, <3>3
    <3>4. ASSUME NEW x \in u, x.id = c, x.clock >= clock[d][c],
                 x.clock = clock[d][c] => ~x.here, clock'[d][c] = x.clock, c \in shown'[d] <=> x.here
          PROVE  y.clock <= clock'[d][c] /\ (c \in shown'[d] => y.clock < clock'[d][c])
      <4>1. x.clock \in Nat
        BY FrameOne
      <4> QED
        BY <3>1, <3>2, <3>4, <4>1
    <3> QED
      BY <1>2, <2>1, <3>3, <3>4, MergeOther
  <2>3. ASSUME Joined(d)
        PROVE  ClientFollows(d, c)'
    <3> DEFINE w == Entries(down'[Current(d)])
    <3> HIDE DEF w
    <3>1. ASSUME NEW k \in Nat, Claim(shown'[d], clock'[d][c], w, c, k)
          PROVE  RoomShows(Room(d), c, k) \/ Removes(w, c, k)
      <4>1. /\ Claim(shown[d], clock[d][c], u \cup w, c, k)
            /\ Removes(u \cup w, c, k) => Removes(w, c, k)
        BY <1>2, <2>1, <3>1, MergeClaims
      <4>2. ClientClaims(d, c, k)
        BY <2>1, <4>1 DEF ClientClaims, w
      <4>3. RoomShows(Room(d), c, k) \/ Removes(u \cup w, c, k)
        BY <1>3, <2>1, <2>3, <4>2 DEF ClientFollows, w
      <4> QED
        BY <4>1, <4>3
    <3> QED
      BY <1>1, <1>2, <1>4, <2>3, <3>1 DEF ClientFollows, ClientClaims, RoomShows, w
  <2> QED
    BY <1>2, <2>2, <2>3
<1> QED
  BY <1>1, <1>5, <1>6, <1>7
(* What a room does leaves it to its clients to be told. *)
LEMMA ClientsFollowRoom ==
  ASSUME PresenceInv, SocketsInv, ClientsFollow, Alone,
         NEW i \in Instances, Leaves(i), NEW o, NEW r, Sends(Readers(Members(i) \ o), r),
         NEW d \in Online', NEW c \in Clients \ {d},
         Joined(d)' => Joined(d) /\ Room(d)' = Room(d),
         Entries(up'[Current(d)]) \subseteq Entries(up[Current(d)]),
         Joined(d)' /\ Room(d) = i =>
             /\ Current(d) \notin o
             /\ \A k \in Nat :
                 /\ RoomShows(i, c, k) => Shows(shown'[i], clock'[i][c], c, k) \/ Removes(r, c, k)
                 /\ Tells(r, c, k) => Shows(shown'[i], clock'[i][c], c, k)
  PROVE  OldRemovals(d, c)' /\ (Joined(d)' => ClientFollows(d, c)')
<1>1. d \in Online /\ d \in Clients /\ Current(d)' = Current(d)
  BY ReadersStay, TypeFacts DEF Alone
<1>2. d \in Nodes \ {i}
  BY <1>1, NodesOfBoth
<1>3. OldRemovals(d, c)'
  <2>1. OldRemovals(d, c) /\ shown'[d] = shown[d] /\ clock'[d] = clock[d]
    BY <1>1, <1>2 DEF ClientsFollow, Leaves
  <2> QED
    BY <1>1, <2>1, RemovalsStay
<1>4. ASSUME Joined(d)'
      PROVE  ClientFollows(d, c)'
  BY <1>1, <1>4, FollowsSpoken
<1> QED
  BY <1>3, <1>4

LEMMA ClientsFollowJoin ==
  ASSUME PresenceInv, SocketsInv, ClientsFollow, NEW s \in Sockets, Join(s),
         NEW d \in Online', NEW c \in Clients \ {d}
  PROVE  OldRemovals(d, c)' /\ (Joined(d)' => ClientFollows(d, c)')
<1> DEFINE i == at[s]
           r == Encode(i, shown[i])
<1>1. /\ i \in Instances /\ conn[s] = "queued" /\ conn' = [conn EXCEPT ![s] = "joined"]
      /\ Alone /\ UNCHANGED <<clock, shown, at, controlled, up, late>>
      /\ Sends(Readers({s}), r)
  BY JoinDoes
<1> HIDE DEF r, i
<1>2. /\ d \in Online /\ d \in Clients /\ Current(d)' = Current(d) /\ Current(d) \in Sockets
      /\ Reader(Current(d)) /\ Current(d)[1] = d
  BY <1>1, ReadersStay, TypeFacts, CurrentSockets DEF Alone, Online, Reader
<1>3. Room(d)' = Room(d) /\ conn \in [Sockets -> {"none", "queued", "joined", "gone"}]
  BY <1>1, <1>2, TypeFacts DEF Room
<1>4. OldRemovals(d, c)'
  <2>1. OldRemovals(d, c)
    BY <1>2 DEF ClientsFollow
  <2> QED
    BY <1>1, <1>2, <2>1, RemovalsStay
<1>5. CASE Current(d) = s
  <2>1. shown[d] \subseteq {d} /\ down[s] = <<>>
    BY <1>1, <1>2, <1>5 DEF SocketsInv, SocketIs, ClientIs
  <2>2. Entries(down'[Current(d)']) = r
    BY <1>1, <1>2, <1>5, <2>1, EntriesEmpty DEF Sends, Readers
  <2>3. Room(d)' = i
    BY <1>3, <1>5 DEF Room, i
  <2>4. ASSUME NEW k \in Nat, Claim(shown'[d], clock'[d][c], r, c, k)
        PROVE  Shows(shown'[i], clock'[i][c], c, k)
    <3>1. Tells(r, c, k)
      BY <1>1, <2>1, <2>4 DEF Claim
    <3>2. c \in shown[i] /\ k = clock[i][c]
      BY <3>1, EncodedSays DEF r
    <3> QED
      BY <1>1, <2>4, <3>2 DEF Shows
  <2>5. ClientFollows(d, c)'
    BY <2>2, <2>3, <2>4 DEF ClientFollows, ClientClaims, RoomShows
  <2> QED
    BY <1>4, <2>5
<1>6. CASE Current(d) # s
  <2>1. Joined(d)' => Joined(d)
    BY <1>1, <1>2, <1>3, <1>6 DEF Joined
  <2>2. Entries(down'[Current(d)]) = Entries(down[Current(d)]) \cup {}
    BY <1>1, <1>2, <1>6 DEF Sends, Readers
  <2>3. \A k \in Nat : /\ RoomShows(Room(d), c, k) => Shows(shown'[Room(d)], clock'[Room(d)][c], c, k)
                       /\ ~Tells({}, c, k)
    BY <1>1, SaysUnion DEF RoomShows
  <2>4. Joined(d) => ClientFollows(d, c)
    BY <1>2 DEF ClientsFollow
  <2>5. ASSUME Joined(d)'
        PROVE  ClientFollows(d, c)'
    BY <1>1, <1>2, <1>3, <2>1, <2>2, <2>3, <2>4, <2>5, FollowsRoom
  <2> QED
    BY <1>4, <2>5
<1> QED
  BY <1>5, <1>6

LEMMA ClientsFollowHandle ==
  ASSUME PresenceInv, SocketsInv, ClientsFollow, NEW s \in Sockets, HandleAwareness(s),
         NEW d \in Online', NEW c \in Clients \ {d}
  PROVE  OldRemovals(d, c)' /\ (Joined(d)' => ClientFollows(d, c)')
<1> DEFINE i == at[s]
           u == Head(up[s])
           r == Relayed(i, u)
<1>1. /\ i \in Instances /\ i \in Nodes /\ conn[s] = "joined" /\ up[s] # <<>>
      /\ Alone /\ UNCHANGED <<conn, at, late>>
      /\ u \in Frame /\ Entries(up[s]) = u \cup Entries(up'[s])
      /\ \A x \in Sockets \ {s} : up'[x] = up[x]
      /\ Merge(i, u) /\ Leaves(i)
      /\ Sends(Readers(Members(i) \ {s}), r)
  BY HandleDoes
<1>2. /\ d \in Online /\ d \in Clients /\ Current(d)' = Current(d) /\ Current(d) \in Sockets
      /\ Joined(d)' = Joined(d) /\ Room(d)' = Room(d)
  BY <1>1, ReadersStay, TypeFacts, CurrentSockets DEF Alone, Joined, Room
<1>3. c \in Clients \ {i} /\ d \in Nodes \ {i}
  BY <1>1, <1>2, NodesOfBoth
<1>4. \A k \in Nat :
          /\ RoomShows(i, c, k) => \/ Shows(shown'[i], clock'[i][c], c, k)
                                   \/ Removes(u, c, k) /\ Removes(r, c, k)
          /\ Tells(r, c, k) => Shows(shown'[i], clock'[i][c], c, k)
  BY <1>1, <1>3, MergeShows DEF RoomShows, Shows
<1>5. Entries(up'[Current(d)]) \subseteq Entries(up[Current(d)])
  BY <1>1, <1>2
<1> HIDE DEF i, u, r
<1>6. CASE Current(d) # s
  <2>a. /\ Entries(up'[Current(d)]) \subseteq Entries(up[Current(d)])
        /\ Joined(d)' => Joined(d) /\ Room(d)' = Room(d)
        /\ Joined(d)' /\ Room(d) = i =>
             /\ Current(d) \notin {s}
             /\ \A k \in Nat :
                 /\ RoomShows(i, c, k) => Shows(shown'[i], clock'[i][c], c, k) \/ Removes(r, c, k)
                 /\ Tells(r, c, k) => Shows(shown'[i], clock'[i][c], c, k)
    BY <1>2, <1>4, <1>5, <1>6
  <2>b. Sends(Readers(Members(i) \ {s}), r)
    BY <1>1
  <2> QED
    BY <1>1, <2>a, <2>b, ClientsFollowRoom
<1>7. CASE Current(d) = s
  <2>1. Joined(d) /\ Room(d) = i /\ Entries(down'[s]) = Entries(down[s])
    BY <1>1, <1>7 DEF Joined, Room, Sends, Readers, i
  <2>2. OldRemovals(d, c) /\ ClientFollows(d, c) /\ shown'[d] = shown[d] /\ clock'[d] = clock[d]
    BY <1>1, <1>2, <1>3, <2>1 DEF ClientsFollow, Leaves
  <2>3. OldRemovals(d, c)'
    BY <1>2, <1>5, <2>2, RemovalsStay
  <2>4. ASSUME NEW k \in Nat, Claim(shown[d], clock[d][c], Entries(down[s]), c, k)
        PROVE  Shows(shown'[i], clock'[i][c], c, k) \/ Removes(Entries(down[s]), c, k)
    <3>1. ClientClaims(d, c, k)
      BY <1>7, <2>4 DEF ClientClaims
    <3>2. RoomShows(i, c, k) \/ Removes(Entries(down[s]), c, k)
      BY <1>7, <2>1, <2>2, <3>1 DEF ClientFollows
    <3>3. ~Removes(u, c, k)
      <4> SUFFICES ASSUME NEW e \in u, e.id = c, ~e.here, e.clock >= k PROVE FALSE
        BY DEF Removes
      <4>1. e.clock <= clock[d][c] /\ (c \in shown[d] => e.clock < clock[d][c])
        BY <1>1, <1>7, <2>2 DEF OldRemovals
      <4>2. e.clock \in Nat /\ clock[d][c] \in Nat
        BY <1>1, <1>3, FrameOne, TypeFacts DEF Clocks
      <4>3. k > clock[d][c] \/ (c \in shown[d] /\ k = clock[d][c])
        BY <2>4 DEF Claim
      <4> QED
        BY <4>1, <4>2, <4>3
    <3> QED
      BY <1>4, <3>2, <3>3
  <2>5. ClientFollows(d, c)'
    BY <1>2, <1>7, <2>1, <2>2, <2>4 DEF ClientFollows, ClientClaims, RoomShows
  <2> QED
    BY <2>3, <2>5
<1> QED
  BY <1>6, <1>7

LEMMA ClientsFollowClose ==
  ASSUME PresenceInv, SocketsInv, ClientsFollow, NEW s \in Sockets, SocketClosed(s),
         NEW d \in Online', NEW c \in Clients \ {d}
  PROVE  OldRemovals(d, c)' /\ (Joined(d)' => ClientFollows(d, c)')
<1> DEFINE i == at[s]
           ids == controlled[s] \cap shown[i]
           r == Removal(i, ids)
<1>c. Closes(s, i, ids)
  BY CloseDoes
<1>1. /\ i \in Instances /\ i \in Nodes /\ ~Reader(s) /\ Alone /\ UNCHANGED up
      /\ conn' = [conn EXCEPT ![s] = "gone"] /\ at' = [at EXCEPT ![s] = None]
      /\ Leaves(i) /\ Sends(Readers(Members(i) \ {s}), r)
      /\ Remains(i, s) => clock'[i] = clock[i] /\ shown'[i] = shown[i] \ ids
  BY <1>c DEF Closes
<1>2. \A k \in Nat : ~Tells(r, c, k) /\ (Removes(r, c, k) <=> c \in ids /\ clock[i][c] >= k)
  BY RemovalSays
<1> HIDE DEF i, ids, r
<1>3. /\ d \in Online /\ d \in Clients /\ Current(d)' = Current(d) /\ Current(d) \in Sockets
      /\ Current(d) # s /\ Current(d)[1] = d
  BY <1>1, ReadersStay, TypeFacts, CurrentSockets DEF Alone, Online, Reader
<1>4. Joined(d)' = Joined(d) /\ Room(d)' = Room(d)
  BY <1>1, <1>3, TypeFacts DEF Joined, Room
<1>5. Joined(d) /\ Room(d) = i => Remains(i, s)
  BY <1>3 DEF Joined, Room, Remains, Members
<1>6. ASSUME Joined(d), Room(d) = i, NEW k \in Nat
      PROVE  /\ RoomShows(i, c, k) => Shows(shown'[i], clock'[i][c], c, k) \/ Removes(r, c, k)
             /\ Tells(r, c, k) => Shows(shown'[i], clock'[i][c], c, k)
  BY <1>1, <1>2, <1>5, <1>6, TypeFacts DEF RoomShows, Shows, Clocks
<1>7. OldRemovals(d, c)' /\ (Joined(d)' => ClientFollows(d, c)')
  <2>a. /\ Entries(up'[Current(d)]) \subseteq Entries(up[Current(d)])
        /\ Joined(d)' => Joined(d) /\ Room(d)' = Room(d)
        /\ Joined(d)' /\ Room(d) = i =>
             /\ Current(d) \notin {s}
             /\ \A k \in Nat :
                 /\ RoomShows(i, c, k) => Shows(shown'[i], clock'[i][c], c, k) \/ Removes(r, c, k)
                 /\ Tells(r, c, k) => Shows(shown'[i], clock'[i][c], c, k)
    BY <1>1, <1>3, <1>4, <1>6
  <2>b. Sends(Readers(Members(i) \ {s}), r)
    BY <1>1
  <2> QED
    BY <1>1, <2>a, <2>b, ClientsFollowRoom
<1> QED
  BY <1>7

LEMMA ClientsFollowBus ==
  ASSUME PresenceInv, SocketsInv, ClientsFollow, NEW i \in Instances, ReceiveBus(i),
         NEW d \in Online', NEW c \in Clients \ {d}
  PROVE  OldRemovals(d, c)' /\ (Joined(d)' => ClientFollows(d, c)')
<1> DEFINE u == Head(bus[i])
           r == Relayed(i, u)
<1>1. /\ Alone /\ UNCHANGED <<conn, at, controlled, up>> /\ i \in Nodes /\ u \in Frame /\ Leaves(i)
      /\ u = Request => UNCHANGED <<clock, shown, down>>
      /\ u # Request => Merge(i, u) /\ Sends(Readers(Members(i)), r)
  BY BusDoes
<1>2. /\ d \in Online /\ d \in Clients /\ Current(d)' = Current(d)
      /\ Joined(d)' = Joined(d) /\ Room(d)' = Room(d) /\ c \in Clients \ {i}
  BY <1>1, ReadersStay, TypeFacts, NodesOfBoth DEF Alone, Joined, Room
<1>3. CASE u = Request
  <2>1. OldRemovals(d, c) /\ (Joined(d) => ClientFollows(d, c))
    BY <1>2 DEF ClientsFollow
  <2>2. OldRemovals(d, c)' /\ (ClientFollows(d, c) => ClientFollows(d, c)')
    BY <1>1, <1>2, <1>3, <2>1 DEF OldRemovals, ClientFollows, ClientClaims, RoomShows
  <2> QED
    BY <1>2, <2>1, <2>2
<1>4. CASE u # Request
  <2>1. \A k \in Nat :
          /\ RoomShows(i, c, k) => Shows(shown'[i], clock'[i][c], c, k) \/ Removes(r, c, k)
          /\ Tells(r, c, k) => Shows(shown'[i], clock'[i][c], c, k)
    BY <1>1, <1>2, <1>4, MergeShows DEF RoomShows, Shows
  <2> HIDE DEF u, r
  <2>a. /\ Entries(up'[Current(d)]) \subseteq Entries(up[Current(d)])
        /\ Joined(d)' => Joined(d) /\ Room(d)' = Room(d)
        /\ Joined(d)' /\ Room(d) = i =>
             /\ Current(d) \notin {}
             /\ \A k \in Nat :
                 /\ RoomShows(i, c, k) => Shows(shown'[i], clock'[i][c], c, k) \/ Removes(r, c, k)
                 /\ Tells(r, c, k) => Shows(shown'[i], clock'[i][c], c, k)
    BY <1>1, <1>2, <2>1
  <2>b. Sends(Readers(Members(i) \ {}), r)
    BY <1>1, <1>4
  <2> QED
    BY <1>1, <1>2, <1>4, <2>a, <2>b, ClientsFollowRoom
<1> QED
  BY <1>3, <1>4

LEMMA ClientsFollowExpire ==
  ASSUME PresenceInv, SocketsInv, ClientsFollow, NEW i \in Instances, NEW e \in Clients, Expire(i, e),
         NEW d \in Online', NEW c \in Clients \ {d}
  PROVE  OldRemovals(d, c)' /\ (Joined(d)' => ClientFollows(d, c)')
<1> DEFINE r == Removal(i, {e})
<1>1. /\ Alone /\ UNCHANGED <<conn, at, controlled, up, late, clock>> /\ i \in Nodes /\ Leaves(i)
      /\ shown'[i] = shown[i] \ {e} /\ Sends(Readers(Members(i)), r)
  BY ExpireDoes
<1>2. /\ d \in Clients /\ Current(d)' = Current(d) /\ Joined(d)' = Joined(d) /\ Room(d)' = Room(d)
  BY <1>1, ReadersStay, TypeFacts DEF Alone, Joined, Room
<1>3. \A k \in Nat : ~Tells(r, c, k) /\ (Removes(r, c, k) <=> c \in {e} /\ clock[i][c] >= k)
  BY RemovalSays
<1> HIDE DEF r
<1>4. \A k \in Nat :
          /\ RoomShows(i, c, k) => Shows(shown'[i], clock'[i][c], c, k) \/ Removes(r, c, k)
          /\ Tells(r, c, k) => Shows(shown'[i], clock'[i][c], c, k)
  BY <1>1, <1>3, TypeFacts DEF RoomShows, Shows, Clocks
<1>5. OldRemovals(d, c)' /\ (Joined(d)' => ClientFollows(d, c)')
  <2>a. /\ Entries(up'[Current(d)]) \subseteq Entries(up[Current(d)])
        /\ Joined(d)' => Joined(d) /\ Room(d)' = Room(d)
        /\ Joined(d)' /\ Room(d) = i =>
             /\ Current(d) \notin {}
             /\ \A k \in Nat :
                 /\ RoomShows(i, c, k) => Shows(shown'[i], clock'[i][c], c, k) \/ Removes(r, c, k)
                 /\ Tells(r, c, k) => Shows(shown'[i], clock'[i][c], c, k)
    BY <1>1, <1>2, <1>4
  <2>b. Sends(Readers(Members(i) \ {}), r)
    BY <1>1
  <2> QED
    BY <1>1, <2>a, <2>b, ClientsFollowRoom
<1> QED
  BY <1>5

(* The steps by which nothing is lost. *)
LEMMA StepsOf ==
  ASSUME Next, ~faulty'
  PROVE  \/ \E c \in Clients, i \in Instances : Open(c, i)
         \/ \E c \in Clients : ClientStep(c)
         \/ \E s \in Sockets : Join(s) \/ HandleAwareness(s) \/ SocketClosed(s)
         \/ \E i \in Instances : ReceiveBus(i)
         \/ \E i \in Instances, c \in Clients : Expire(i, c)
<1>1. \A s \in Sockets : ~Drop(s)
  BY DEF Drop
<1>2. \A i \in Instances : ~Crash(i)
  BY DEF Crash
<1>3. \A n \in Nodes : n \in Clients \/ n \in Instances
  BY DEF Nodes
<1> QED
  BY <1>1, <1>2, <1>3 DEF Next, ClientStep

LEMMA FollowStep ==
  ASSUME PresenceInv, SocketsInv, ClientsFollow, Next, ~faulty'
  PROVE  ClientsFollow'
<1> SUFFICES ASSUME NEW d \in Online', NEW c \in Clients \ {d}
             PROVE  OldRemovals(d, c)' /\ (Joined(d)' => ClientFollows(d, c)')
  BY DEF ClientsFollow
<1>1. d \in Clients
  <2>1. PresenceInv'
    BY InvStep
  <2>2. linked' \subseteq Clients
    BY <2>1, InvParts DEF Sides
  <2> QED
    BY <2>2 DEF Online
<1> QED
  BY <1>1, StepsOf, ClientsFollowOpen, ClientsFollowClient, ClientsFollowJoin, ClientsFollowHandle,
     ClientsFollowClose, ClientsFollowBus, ClientsFollowExpire

(* The highest clock of a client that its room knows. *)
LEMMA HighestTyped ==
  ASSUME PresenceInv, NEW c \in Clients
  PROVE  /\ Highest(c) \in Nat
         /\ First(c) => /\ Current(c) \in Sockets /\ Room(c) \in Instances /\ Room(c) \in Nodes \ {c}
                        /\ conn[Current(c)] = "joined" /\ last[c] = 1
                        /\ Highest(c) = clock[Room(c)][c]
         /\ ~First(c) => Highest(c) = 0
         /\ \A s \in Sockets : s = Current(c) => last[c] # 0
<1>1. \A s \in Sockets : s = Current(c) => last[c] # 0
  BY CurrentSockets, TypeFacts
<1>2. ASSUME First(c)
      PROVE  /\ Current(c) \in Sockets /\ Room(c) \in Instances /\ Room(c) \in Nodes \ {c}
             /\ conn[Current(c)] = "joined" /\ last[c] = 1
  <2>1. last[c] = 1 /\ Current(c) \in Sockets /\ conn[Current(c)] = "joined"
    BY <1>2, CurrentSockets DEF First, Joined
  <2>2. Room(c) \in Instances
    BY <2>1, TypeFacts DEF Room
  <2> QED
    BY <2>1, <2>2, NodesOfBoth
<1>3. First(c) => clock[Room(c)][c] \in Nat
  BY <1>2, TypeFacts DEF Clocks
<1> QED
  BY <1>1, <1>2, <1>3 DEF Highest

(* The room of a client stays what it is in a step of instance i, of which the clock moves
   forward, unless it is the client's connection that comes or goes. *)
LEMMA HighestStays ==
  ASSUME PresenceInv, NEW c \in Clients, NEW i \in Instances, Leaves(i), UNCHANGED <<last>>,
         \A s \in Sockets : s = Current(c) => conn'[s] = conn[s] /\ at'[s] = at[s],
         First(c) /\ Room(c) = i => clock'[i][c] \in Nat /\ clock'[i][c] >= clock[i][c]
  PROVE  /\ Current(c)' = Current(c) /\ (First(c)' <=> First(c)) /\ (First(c) => Room(c)' = Room(c))
         /\ Highest(c)' \in Nat /\ Highest(c)' >= Highest(c)
         /\ First(c) /\ Room(c) = i => Highest(c)' = clock'[i][c]
<1>1. Current(c)' = Current(c)
  BY DEF Current
<1>2. First(c)' <=> First(c)
  BY <1>1, HighestTyped, CurrentSockets DEF First, Joined
<1>3. First(c) => Room(c)' = Room(c)
  BY <1>1, HighestTyped DEF Room
<1>4. CASE ~First(c)
  BY <1>1, <1>2, <1>4 DEF Highest
<1>5. CASE First(c)
  <2>1. Highest(c)' = clock'[Room(c)][c] /\ Highest(c) = clock[Room(c)][c] /\ Room(c) \in Nodes
        /\ clock[Room(c)][c] \in Nat
    BY <1>2, <1>3, <1>5, HighestTyped DEF Highest
  <2>2. CASE Room(c) = i
    BY <1>1, <1>2, <1>3, <1>5, <2>1, <2>2
  <2>3. CASE Room(c) # i
    <3>1. clock'[Room(c)][c] = clock[Room(c)][c]
      BY <2>1, <2>3 DEF Leaves
    <3> QED
      BY <1>1, <1>2, <1>3, <1>5, <2>1, <2>3, <3>1
  <2> QED
    BY <2>2, <2>3
<1> QED
  BY <1>4, <1>5

LEMMA UpToHigher ==
  ASSUME NEW q \in Queue, NEW c, NEW k \in Nat, NEW h \in Nat, k <= h, UpTo(Entries(q), c, k)
  PROVE  UpTo(Entries(q), c, h)
<1>1. \A e \in Entries(q) : e.clock \in Nat
  BY EntriesTyped DEF Entry
<1> QED
  BY <1>1 DEF UpTo

(* A step of an instance: it knows no more of the client than the client's room, and neither
   does what it sends. *)
LEMMA KnownRoom ==
  ASSUME PresenceInv, NEW c \in Clients, HomeKnows(c), Current(c)' = Current(c),
         NEW i \in Instances, Leaves(i),
         NEW X, NEW r, Sends(X, r),
         NEW m, \A j \in Instances : Entries(bus'[j]) \subseteq Entries(bus[j]) \cup m,
         \A s \in Sockets : Entries(up'[s]) \subseteq Entries(up[s]),
         NEW h \in Nat, Highest(c)' = h, Highest(c) <= h,
         clock'[i][c] <= h, UpTo(r, c, h), UpTo(m, c, h)
  PROVE  HomeKnows(c)'
<1> DEFINE k == Highest(c)
<1>1. k \in Nat /\ k <= h
  BY HighestTyped
<1>2. /\ \A n \in Nodes \ {c} : clock[n][c] <= k
      /\ \A s \in Sockets : /\ UpTo(Entries(down[s]), c, k)
                            /\ s # Current(c) => UpTo(Entries(up[s]), c, k)
      /\ \A j \in Instances : UpTo(Entries(bus[j]), c, k)
  BY DEF HomeKnows
<1> HIDE DEF k
<1>3. /\ \A s \in Sockets : /\ UpTo(Entries(down[s]), c, h)
                            /\ s # Current(c) => UpTo(Entries(up[s]), c, h)
      /\ \A j \in Instances : UpTo(Entries(bus[j]), c, h)
  BY <1>1, <1>2, UpToHigher, TypeFacts
<1>4. ASSUME NEW n \in Nodes \ {c}
      PROVE  clock'[n][c] <= h
  <2>1. CASE n = i
    BY <2>1
  <2>2. CASE n # i
    <3>1. clock'[n][c] = clock[n][c] /\ clock[n][c] \in Nat /\ clock[n][c] <= k
      BY <1>2, <2>2, TypeFacts DEF Leaves, Clocks
    <3> QED
      BY <1>1, <3>1
  <2> QED
    BY <2>1, <2>2
<1>5. ASSUME NEW s \in Sockets
      PROVE  /\ UpTo(Entries(down'[s]), c, h)
             /\ s # Current(c) => UpTo(Entries(up'[s]), c, h)
  <2>1. Entries(down'[s]) \subseteq Entries(down[s]) \cup r
    BY DEF Sends
  <2> QED
    BY <1>3, <2>1 DEF UpTo
<1>6. ASSUME NEW j \in Instances
      PROVE  UpTo(Entries(bus'[j]), c, h)
  BY <1>3, <1>6 DEF UpTo
<1> QED
  BY <1>4, <1>5, <1>6 DEF HomeKnows

(* Who has been on one socket at most, and has it still, was so before. *)
LEMMA FreshBefore ==
  ASSUME PresenceInv, SocketsInv, Next, NEW c \in Clients, Fresh(c)', ~faulty'
  PROVE  Fresh(c)
<1>1. last[c] \in Nat /\ \A s \in Sockets : s = Current(c) <=> s[1] = c /\ s[2] = last[c]
  BY TypeFacts, CurrentSockets DEF Current
<1>2. CASE last'[c] = last[c] /\ \A s \in Sockets : s = Current(c) /\ conn[s] = "gone" => conn'[s] = "gone"
  <2>1. Current(c)' = Current(c) /\ (last[c] # 0 => Current(c) \in Sockets)
    BY <1>2, CurrentSockets DEF Current
  <2> QED
    BY <1>2, <2>1 DEF Fresh
<1>3. ASSUME NEW e \in Clients, NEW i \in Instances, Open(e, i)
      PROVE  Fresh(c)
  <2>1. /\ last' = [last EXCEPT ![e] = @ + 1] /\ conn' = [conn EXCEPT ![<<e, last[e] + 1>>] = "queued"]
        /\ e \in here \ linked
    BY <1>3, TypeFacts DEF Open, Current
  <2>2. CASE e = c
    <3>1. last'[c] = last[c] + 1 /\ last'[c] <= 1
      BY <2>1, <2>2, TypeFacts DEF Fresh
    <3>2. last[c] = 0
      BY <1>1, <3>1
    <3> QED
      BY <3>2 DEF Fresh
  <2>3. CASE e # c
    <3>1. last'[c] = last[c] /\ \A s \in Sockets : s = Current(c) => conn'[s] = conn[s]
      BY <1>1, <2>1, <2>3, TypeFacts
    <3> QED
      BY <1>2, <3>1
  <2> QED
    BY <2>2, <2>3
<1>4. ASSUME NEW e \in Clients, ClientStep(e)
      PROVE  Fresh(c)
  BY <1>2, <1>4, ClientDoes
<1>5. ASSUME NEW s \in Sockets, Join(s) \/ HandleAwareness(s) \/ SocketClosed(s)
      PROVE  Fresh(c)
  <2>1. UNCHANGED last /\ \/ UNCHANGED conn
                          \/ conn' = [conn EXCEPT ![s] = "joined"] /\ conn[s] = "queued"
                          \/ conn' = [conn EXCEPT ![s] = "gone"]
    BY <1>5 DEF Join, HandleAwareness, SocketClosed, provider
  <2>2. \A x \in Sockets : conn[x] = "gone" => conn'[x] = "gone"
    BY <2>1, TypeFacts
  <2> QED
    BY <1>2, <2>1, <2>2
<1>6. ASSUME NEW i \in Instances, ReceiveBus(i) \/ \E e \in Clients : Expire(i, e)
      PROVE  Fresh(c)
  <2>1. UNCHANGED <<last, conn>>
    BY <1>6 DEF ReceiveBus, Expire, provider, server
  <2> QED
    BY <1>2, <2>1
<1> QED
  BY <1>3, <1>4, <1>5, <1>6, StepsOf

LEMMA KnownOpen ==
  ASSUME PresenceInv, SocketsInv, NEW c \in Clients, Fresh(c), Fresh(c)', HomeKnows(c),
         NEW e \in Clients, NEW i \in Instances, Open(e, i)
  PROVE  HomeKnows(c)'
<1> DEFINE s == Current(e)'
<1>1. /\ e \in here \ linked /\ last[e] < MaxSockets
      /\ last' = [last EXCEPT ![e] = last[e] + 1]
      /\ conn' = [conn EXCEPT ![s] = "queued"] /\ at' = [at EXCEPT ![s] = i]
      /\ up' = [up EXCEPT ![s] = <<Own(e, clock[e][e], TRUE)>>]
      /\ UNCHANGED <<clock, down, bus>>
  BY DEF Open, awareness
<1>2. /\ last \in [Clients -> 0 .. MaxSockets] /\ up \in [Sockets -> Queue]
      /\ conn \in [Sockets -> {"none", "queued", "joined", "gone"}]
      /\ at \in [Sockets -> Instances \cup {None}]
      /\ \A x \in Sockets : x = Current(c) <=> x[1] = c /\ x[2] = last[c]
      /\ MaxSockets \in Nat
  BY TypeFacts, CurrentSockets DEF Current
<1>3. s = <<e, last[e] + 1>> /\ s \in Sockets
  BY <1>1, <1>2 DEF Current, Sockets
<1>4. /\ conn'[s] = "queued" /\ \A x \in Sockets \ {s} : up'[x] = up[x] /\ conn'[x] = conn[x] /\ at'[x] = at[x]
      /\ \A x \in Entries(up'[s]) : x.id = e
  BY <1>1, <1>2, <1>3 DEF Entries, Own
<1>5. /\ \A n \in Nodes \ {c} : clock[n][c] <= Highest(c)
      /\ \A x \in Sockets : /\ UpTo(Entries(down[x]), c, Highest(c))
                            /\ x # Current(c) => UpTo(Entries(up[x]), c, Highest(c))
      /\ \A j \in Instances : UpTo(Entries(bus[j]), c, Highest(c))
  BY DEF HomeKnows
<1>6. CASE e = c
  <2>1. last'[c] = last[c] + 1 /\ last'[c] <= 1 /\ last[c] \in Nat
    BY <1>1, <1>2, <1>6 DEF Fresh
  <2>2. last[c] = 0
    BY <2>1
  <2>3. Highest(c) = 0 /\ \A x \in Sockets : x # Current(c)
    BY <2>2, HighestTyped
  <2>4. Current(c)' = s
    BY <1>6
  <2>5. Highest(c)' = 0
    BY <1>4, <2>4 DEF Highest, First, Joined
  <2> HIDE DEF s
  <2> QED
    BY <1>1, <1>4, <1>5, <2>3, <2>4, <2>5 DEF HomeKnows
<1>7. CASE e # c
  <2>1. last'[c] = last[c] /\ Current(c)' = Current(c)
    BY <1>1, <1>2, <1>7 DEF Current
  <2> HIDE DEF s
  <2>2. \A x \in Sockets : x = Current(c) => x # s
    BY <1>2, <1>3, <1>7
  <2>3. (First(c)' <=> First(c)) /\ (First(c) => Room(c)' = Room(c))
    <3>1. last[c] # 0 => Current(c) \in Sockets
      BY CurrentSockets
    <3> QED
      BY <1>4, <2>1, <2>2, <3>1 DEF First, Joined, Room
  <2>4. Highest(c)' = Highest(c)
    BY <1>1, <2>3 DEF Highest
  <2>5. UpTo(Entries(up'[s]), c, Highest(c))
    BY <1>4, <1>7 DEF UpTo
  <2> QED
    BY <1>1, <1>4, <1>5, <2>1, <2>4, <2>5 DEF HomeKnows
<1> QED
  BY <1>6, <1>7

LEMMA KnownClient ==
  ASSUME PresenceInv, SocketsInv, NEW c \in Clients, HomeKnows(c), NEW e \in Clients, ClientStep(e)
  PROVE  HomeKnows(c)'
<1> DEFINE h == Highest(c)
<1>1. /\ UNCHANGED <<bus, conn, at, last>> /\ Leaves(e)
      /\ \A x \in Sockets : /\ Entries(down'[x]) \subseteq Entries(down[x])
                            /\ \A y \in Entries(up'[x]) : y \in Entries(up[x]) \/ Says(e, x, y)
      /\ c # e => \/ clock'[e][c] \in {0, clock[e][c]}
                  \/ \E x \in Sockets : \E y \in Entries(down[x]) : y.id = c /\ clock'[e][c] = y.clock
  BY ClientDoes
<1>2. Current(c)' = Current(c) /\ Highest(c)' = h /\ h \in Nat
  <2>1. Current(c)' = Current(c)
    BY <1>1 DEF Current
  <2>2. First(c)' = First(c) /\ Room(c)' = Room(c)
    BY <1>1, <2>1 DEF First, Joined, Room
  <2>3. First(c) => clock'[Room(c)] = clock[Room(c)]
    BY <1>1, HighestTyped, NodesOfBoth DEF Leaves
  <2> QED
    BY <2>1, <2>2, <2>3, HighestTyped DEF Highest
<1>3. /\ \A n \in Nodes \ {c} : clock[n][c] <= h
      /\ \A x \in Sockets : /\ UpTo(Entries(down[x]), c, h)
                            /\ x # Current(c) => UpTo(Entries(up[x]), c, h)
      /\ \A j \in Instances : UpTo(Entries(bus[j]), c, h)
  BY DEF HomeKnows
<1> HIDE DEF h
<1>4. ASSUME NEW n \in Nodes \ {c}
      PROVE  clock'[n][c] <= h
  <2>1. CASE n # e
    BY <1>1, <1>3, <2>1 DEF Leaves
  <2>2. CASE n = e
    <3>1. CASE clock'[e][c] \in {0, clock[e][c]}
      BY <1>2, <1>3, <2>2, <3>1
    <3>2. CASE \E x \in Sockets : \E y \in Entries(down[x]) : y.id = c /\ clock'[e][c] = y.clock
      BY <1>3, <2>2, <3>2 DEF UpTo
    <3> QED
      BY <1>1, <2>2, <3>1, <3>2
  <2> QED
    BY <2>1, <2>2
<1>5. ASSUME NEW x \in Sockets
      PROVE  /\ UpTo(Entries(down'[x]), c, h)
             /\ x # Current(c) => UpTo(Entries(up'[x]), c, h)
  <2>1. UpTo(Entries(down'[x]), c, h)
    BY <1>1, <1>3 DEF UpTo
  <2>2. ASSUME x # Current(c), NEW y \in Entries(up'[x]), y.id = c
        PROVE  y.clock <= h
    <3>1. CASE y \in Entries(up[x])
      BY <1>3, <2>2, <3>1 DEF UpTo
    <3>2. CASE Says(e, x, y)
      <4>1. c # e /\ y.clock = clock[e][c]
        BY <2>2, <3>2 DEF Says
      <4>2. e \in Nodes \ {c}
        BY <4>1, NodesOfBoth
      <4> QED
        BY <1>3, <4>1, <4>2
    <3> QED
      BY <1>1, <3>1, <3>2
  <2> QED
    BY <2>1, <2>2 DEF UpTo
<1> QED
  BY <1>1, <1>2, <1>3, <1>4, <1>5 DEF HomeKnows

LEMMA KnownJoin ==
  ASSUME PresenceInv, SocketsInv, NEW c \in Clients, last[c] <= 1, HomeKnows(c),
         NEW s \in Sockets, Join(s)
  PROVE  HomeKnows(c)'
<1> DEFINE i == at[s]
           r == Encode(i, shown[i])
<1>1. /\ i \in Instances /\ conn[s] = "queued" /\ conn' = [conn EXCEPT ![s] = "joined"]
      /\ Alone /\ UNCHANGED <<clock, shown, at, controlled, up, late>>
      /\ Sends(Readers({s}), r) /\ \A j \in Instances : Entries(bus'[j]) = Entries(bus[j])
  BY JoinDoes
<1>2. i \in Nodes \ {c} /\ Leaves(i) /\ UNCHANGED last
  BY <1>1, NodesOfBoth DEF Leaves, Alone
<1>3. clock[i][c] <= Highest(c) /\ clock[i][c] \in Nat /\ Highest(c) \in Nat
  BY <1>2, HighestTyped, TypeFacts DEF HomeKnows, Clocks
<1>4. UpTo(r, c, Highest(c))
  <2>1. \A x \in r : x.clock = clock[i][x.id]
    BY EncodedSays
  <2> QED
    BY <1>3, <2>1 DEF UpTo
<1> HIDE DEF r
<1>5. Current(c)' = Current(c) /\ Highest(c)' = Highest(c)
  <2>1. CASE s # Current(c)
    <3>1. \A x \in Sockets : x = Current(c) => conn'[x] = conn[x] /\ at'[x] = at[x]
      BY <1>1, <2>1, TypeFacts
    <3>2. /\ Current(c)' = Current(c) /\ (First(c)' <=> First(c)) /\ (First(c) => Room(c)' = Room(c))
      BY <1>1, <1>2, <1>3, <3>1, HighestStays
    <3> QED
      BY <1>1, <3>2 DEF Highest
  <2>2. CASE s = Current(c)
    <3>1. ~First(c) /\ Highest(c) = 0
      BY <1>1, <2>2, HighestTyped
    <3>2. Current(c)' = Current(c) /\ Room(c)' = i
      BY <1>1, <1>2, <2>2 DEF Current, Room, i
    <3>3. clock'[i][c] = 0
      BY <1>1, <1>3, <3>1
    <3> QED
      BY <3>1, <3>2, <3>3 DEF Highest
  <2> QED
    BY <2>1, <2>2
<1>6. UpTo({}, c, Highest(c)) /\ \A j \in Instances : Entries(bus'[j]) \subseteq Entries(bus[j]) \cup {}
  BY <1>1 DEF UpTo
<1>7. \A x \in Sockets : Entries(up'[x]) \subseteq Entries(up[x])
  BY <1>1
<1> QED
  BY <1>1, <1>2, <1>3, <1>4, <1>5, <1>6, <1>7, KnownRoom

LEMMA MergeUpTo ==
  ASSUME PresenceInv, NEW n \in Nodes, NEW c \in Clients \ {n}, NEW u \in Frame, Merge(n, u)
  PROVE  /\ clock'[n][c] \in Nat /\ clock[n][c] \in Nat /\ clock'[n][c] >= clock[n][c]
         /\ \A h \in Nat : clock[n][c] <= h /\ UpTo(u, c, h) => clock'[n][c] <= h
         /\ \A h \in Nat : clock'[n][c] <= h => UpTo(Relayed(n, u), c, h)
<1>1. /\ clock'[n][c] \in Nat /\ clock[n][c] \in Nat /\ clock'[n][c] >= clock[n][c]
      /\ \A x \in Relayed(n, u) : x.id = c => x.clock = clock'[n][c]
  <2>1. 0 \in Nat
    OBVIOUS
  <2> QED
    BY <2>1, MergeShows
<1>2. clock'[n][c] = clock[n][c] \/ \E e \in u : e.id = c /\ clock'[n][c] = e.clock
  BY MergeOther
<1>3. \A h \in Nat : clock'[n][c] <= h => UpTo(Relayed(n, u), c, h)
  BY <1>1 DEF UpTo
<1>4. \A h \in Nat : clock[n][c] <= h /\ UpTo(u, c, h) => clock'[n][c] <= h
  BY <1>2 DEF UpTo
<1> QED
  BY <1>1, <1>3, <1>4

LEMMA KnownHandle ==
  ASSUME PresenceInv, SocketsInv, NEW c \in Clients, last[c] <= 1, HomeKnows(c),
         NEW s \in Sockets, HandleAwareness(s)
  PROVE  HomeKnows(c)'
<1> DEFINE i == at[s]
           u == Head(up[s])
           r == Relayed(i, u)
           h == Highest(c)'
<1>1. /\ i \in Instances /\ i \in Nodes /\ conn[s] = "joined" /\ up[s] # <<>>
      /\ Alone /\ UNCHANGED <<conn, at, late>>
      /\ u \in Frame /\ Entries(up[s]) = u \cup Entries(up'[s])
      /\ \A x \in Sockets \ {s} : up'[x] = up[x]
      /\ Merge(i, u) /\ Leaves(i)
      /\ Sends(Readers(Members(i) \ {s}), r) /\ Publishes(i, Rooms, r) /\ bus'[i] = bus[i]
  BY HandleDoes
<1>2. c \in Clients \ {i} /\ i \in Nodes \ {c}
  BY <1>1, NodesOfBoth
<1>3. /\ clock'[i][c] \in Nat /\ clock[i][c] \in Nat /\ clock'[i][c] >= clock[i][c]
      /\ \A k \in Nat : clock[i][c] <= k /\ UpTo(u, c, k) => clock'[i][c] <= k
      /\ \A k \in Nat : clock'[i][c] <= k => UpTo(r, c, k)
  BY <1>1, <1>2, MergeUpTo
<1> HIDE DEF u, r
<1>4. /\ Current(c)' = Current(c) /\ h \in Nat /\ h >= Highest(c)
      /\ First(c) /\ Room(c) = i => h = clock'[i][c]
  BY <1>1, <1>3, HighestStays DEF Alone
<1>5. clock'[i][c] <= h
  <2>1. CASE s = Current(c)
    <3>1. last[c] \in Nat /\ last[c] # 0
      BY <2>1, TypeFacts, HighestTyped
    <3>2. last[c] = 1
      BY <3>1
    <3>3. First(c) /\ Room(c) = i
      BY <1>1, <2>1, <3>2 DEF First, Joined, Room, i
    <3> QED
      BY <1>3, <1>4, <3>3
  <2>2. CASE s # Current(c)
    <3>1. UpTo(u, c, Highest(c)) /\ clock[i][c] <= Highest(c) /\ Highest(c) \in Nat
      BY <1>1, <1>2, <2>2, HighestTyped DEF HomeKnows, UpTo
    <3>2. clock'[i][c] <= Highest(c)
      BY <1>3, <3>1
    <3> QED
      BY <1>3, <1>4, <3>1, <3>2
  <2> QED
    BY <2>1, <2>2
<1>6. UpTo(r, c, h)
  BY <1>3, <1>4, <1>5
<1> HIDE DEF h
<1>7. \A j \in Instances : Entries(bus'[j]) \subseteq Entries(bus[j]) \cup r
  BY <1>1 DEF Publishes
<1>8. \A x \in Sockets : Entries(up'[x]) \subseteq Entries(up[x])
  BY <1>1
<1>9. Highest(c)' = h
  BY DEF h
<1> QED
  BY <1>1, <1>4, <1>5, <1>6, <1>7, <1>8, <1>9, KnownRoom

LEMMA KnownClose ==
  ASSUME PresenceInv, SocketsInv, NEW c \in Clients, Fresh(c)', HomeKnows(c),
         NEW s \in Sockets, SocketClosed(s)
  PROVE  HomeKnows(c)'
<1> DEFINE i == at[s]
           ids == controlled[s] \cap shown[i]
           r == Removal(i, ids)
           h == Highest(c)'
<1>c. Closes(s, i, ids)
  BY CloseDoes
<1>1. /\ i \in Instances /\ i \in Nodes /\ Alone /\ UNCHANGED up
      /\ conn' = [conn EXCEPT ![s] = "gone"] /\ at' = [at EXCEPT ![s] = None]
      /\ Leaves(i) /\ Sends(Readers(Members(i) \ {s}), r) /\ Publishes(i, Rooms, r)
      /\ IF Remains(i, s) THEN bus'[i] = bus[i] /\ clock'[i] = clock[i]
                          ELSE bus'[i] = <<>> /\ clock'[i] = NoClocks
  BY <1>c DEF Closes
<1>2. \A x \in r : x.clock = clock[i][x.id]
  BY DEF Removal
<1> HIDE DEF i, ids, r
<1>3. s # Current(c)
  <2>1. Current(c)' = Current(c) /\ last' = last
    BY <1>1 DEF Alone, Current
  <2>2. s = Current(c) => conn'[s] = "gone" /\ last[c] # 0
    BY <1>1, TypeFacts, HighestTyped
  <2> QED
    BY <2>1, <2>2 DEF Fresh
<1>4. i \in Nodes \ {c} /\ clock[i][c] \in Nat /\ clock[i][c] <= Highest(c) /\ Highest(c) \in Nat
  BY <1>1, NodesOfBoth, TypeFacts, HighestTyped DEF Clocks, HomeKnows
<1>5. First(c) /\ Room(c) = i => Remains(i, s)
  BY <1>3, HighestTyped DEF Room, Remains, Members
<1>6. Current(c)' = Current(c) /\ h \in Nat /\ h >= Highest(c)
  <2>1. \A x \in Sockets : x = Current(c) => conn'[x] = conn[x] /\ at'[x] = at[x]
    BY <1>1, <1>3, TypeFacts
  <2>2. First(c) /\ Room(c) = i => clock'[i][c] \in Nat /\ clock'[i][c] >= clock[i][c]
    BY <1>1, <1>4, <1>5
  <2> QED
    BY <1>1, <2>1, <2>2, HighestStays DEF Alone
<1>7. clock'[i][c] <= h /\ UpTo(r, c, h)
  <2>1. clock[i][c] <= h
    BY <1>4, <1>6
  <2>2. clock'[i][c] \in {0, clock[i][c]}
    BY <1>1 DEF NoClocks
  <2> QED
    BY <1>2, <1>6, <2>1, <2>2 DEF UpTo
<1> HIDE DEF h
<1>8. \A j \in Instances : Entries(bus'[j]) \subseteq Entries(bus[j]) \cup r
  BY <1>1, EntriesEmpty DEF Publishes
<1>9. \A x \in Sockets : Entries(up'[x]) \subseteq Entries(up[x])
  BY <1>1
<1>10. Highest(c)' = h
  BY DEF h
<1> QED
  BY <1>1, <1>6, <1>7, <1>8, <1>9, <1>10, KnownRoom

LEMMA KnownBus ==
  ASSUME PresenceInv, SocketsInv, NEW c \in Clients, HomeKnows(c),
         NEW i \in Instances, ReceiveBus(i)
  PROVE  HomeKnows(c)'
<1> DEFINE u == Head(bus[i])
           r == Relayed(i, u)
           m == Encode(i, shown[i])
           h == Highest(c)'
<1>1. /\ Alone /\ UNCHANGED <<conn, at, controlled, up>> /\ i \in Nodes /\ u \in Frame /\ Leaves(i)
      /\ Entries(bus[i]) = u \cup Entries(bus'[i])
      /\ u = Request => UNCHANGED <<clock, shown, down>> /\ Publishes(i, Rooms, m)
      /\ u # Request => /\ Merge(i, u) /\ Sends(Readers(Members(i)), r)
                        /\ \A j \in Instances \ {i} : bus'[j] = bus[j]
  BY BusDoes
<1>2. \A x \in m : x.clock = clock[i][x.id]
  BY EncodedSays
<1>3. c \in Clients \ {i} /\ i \in Nodes \ {c}
  BY <1>1, NodesOfBoth
<1>4. u # Request => /\ clock'[i][c] \in Nat /\ clock[i][c] \in Nat /\ clock'[i][c] >= clock[i][c]
                     /\ \A k \in Nat : clock[i][c] <= k /\ UpTo(u, c, k) => clock'[i][c] <= k
                     /\ \A k \in Nat : clock'[i][c] <= k => UpTo(r, c, k)
  BY <1>1, <1>3, MergeUpTo
<1> HIDE DEF u, r, m
<1>5. /\ clock[i][c] \in Nat /\ clock[i][c] <= Highest(c) /\ Highest(c) \in Nat
      /\ UpTo(u, c, Highest(c))
  BY <1>1, <1>3, TypeFacts, HighestTyped DEF Clocks, HomeKnows, UpTo
<1>6. /\ clock'[i][c] \in Nat /\ clock'[i][c] >= clock[i][c] /\ clock'[i][c] <= Highest(c)
  BY <1>1, <1>4, <1>5
<1>7. Current(c)' = Current(c) /\ h \in Nat /\ h >= Highest(c)
  BY <1>1, <1>6, HighestStays DEF Alone
<1>8. clock'[i][c] <= h /\ clock[i][c] <= h
  BY <1>5, <1>6, <1>7
<1>10. Highest(c)' = h
  BY DEF h
<1> HIDE DEF h
<1>9. \A x \in Sockets : Entries(up'[x]) \subseteq Entries(up[x])
  BY <1>1
<1>11. CASE u = Request
  <2>1. UpTo(m, c, h) /\ UpTo({}, c, h)
    BY <1>2, <1>8 DEF UpTo
  <2>2. Sends({}, {})
    BY <1>1, <1>11 DEF Sends
  <2>3. \A j \in Instances : Entries(bus'[j]) \subseteq Entries(bus[j]) \cup m
    BY <1>1, <1>11 DEF Publishes
  <2> QED
    BY <1>1, <1>7, <1>8, <1>9, <1>10, <2>1, <2>2, <2>3, KnownRoom
<1>12. CASE u # Request
  <2>1. UpTo(r, c, h) /\ UpTo({}, c, h)
    BY <1>4, <1>7, <1>8, <1>12 DEF UpTo
  <2>2. \A j \in Instances : Entries(bus'[j]) \subseteq Entries(bus[j]) \cup {}
    BY <1>1, <1>12
  <2> QED
    BY <1>1, <1>7, <1>8, <1>9, <1>10, <1>12, <2>1, <2>2, KnownRoom
<1> QED
  BY <1>11, <1>12

LEMMA KnownExpire ==
  ASSUME PresenceInv, SocketsInv, NEW c \in Clients, HomeKnows(c),
         NEW i \in Instances, NEW e \in Clients, Expire(i, e)
  PROVE  HomeKnows(c)'
<1> DEFINE r == Removal(i, {e})
           h == Highest(c)'
<1>1. /\ Alone /\ UNCHANGED <<conn, at, controlled, up, late, clock>> /\ i \in Nodes /\ Leaves(i)
      /\ bus'[i] = bus[i] /\ Sends(Readers(Members(i)), r) /\ Publishes(i, Rooms, r)
  BY ExpireDoes
<1>2. \A x \in r : x.clock = clock[i][x.id]
  BY DEF Removal
<1>3. i \in Nodes \ {c}
  BY <1>1, NodesOfBoth
<1> HIDE DEF r
<1>4. clock[i][c] \in Nat /\ clock[i][c] <= Highest(c) /\ Highest(c) \in Nat
  BY <1>3, TypeFacts, HighestTyped DEF Clocks, HomeKnows
<1>5. Current(c)' = Current(c) /\ h \in Nat /\ h >= Highest(c)
  BY <1>1, <1>4, HighestStays DEF Alone
<1>6. clock'[i][c] <= h /\ UpTo(r, c, h)
  BY <1>1, <1>2, <1>4, <1>5 DEF UpTo
<1> HIDE DEF h
<1>7. \A j \in Instances : Entries(bus'[j]) \subseteq Entries(bus[j]) \cup r
  BY <1>1 DEF Publishes
<1>8. \A x \in Sockets : Entries(up'[x]) \subseteq Entries(up[x])
  BY <1>1
<1>9. Highest(c)' = h
  BY DEF h
<1> QED
  BY <1>1, <1>5, <1>6, <1>7, <1>8, <1>9, KnownRoom

LEMMA KnownStep ==
  ASSUME PresenceInv, SocketsInv, KnownInv, Next, ~faulty'
  PROVE  KnownInv'
<1> SUFFICES ASSUME NEW c \in Clients, Fresh(c)'
             PROVE  HomeKnows(c)'
  BY DEF KnownInv
<1>1. Fresh(c)
  BY FreshBefore
<1>2. HomeKnows(c) /\ last[c] <= 1
  BY <1>1 DEF KnownInv, Fresh
<1> QED
  BY <1>1, <1>2, StepsOf, KnownOpen, KnownClient, KnownJoin, KnownHandle, KnownClose, KnownBus,
     KnownExpire

(* A frame that brings nothing later can only take the client away. *)
LEMMA MergeSettled ==
  ASSUME PresenceInv, NEW n \in Nodes, NEW c \in Clients \ {n}, NEW u \in Frame, Merge(n, u),
         UpTo(u, c, clock[n][c])
  PROVE  /\ clock'[n][c] = clock[n][c] /\ (c \in shown'[n] => c \in shown[n])
         /\ \A x \in Relayed(n, u) : x.id = c => ~x.here
<1>1. clock[n][c] \in Nat
  BY TypeFacts DEF Clocks
<1>2. CASE /\ clock'[n][c] = clock[n][c] /\ (c \in shown'[n] <=> c \in shown[n])
           /\ \A x \in Relayed(n, u) : x.id # c
  BY <1>2
<1>3. CASE \E e \in u :
              /\ e.id = c /\ e.clock >= clock[n][c]
              /\ e.clock = clock[n][c] => ~e.here /\ c \in shown[n]
              /\ clock'[n][c] = e.clock /\ (c \in shown'[n] <=> e.here)
              /\ \A x : x \in Relayed(n, u) /\ x.id = c <=>
                     (e.here \/ clock[n][c] # 0) /\ x = [id |-> c, clock |-> e.clock, here |-> e.here]
  <2>1. PICK e \in u :
              /\ e.id = c /\ e.clock >= clock[n][c]
              /\ e.clock = clock[n][c] => ~e.here /\ c \in shown[n]
              /\ clock'[n][c] = e.clock /\ (c \in shown'[n] <=> e.here)
              /\ \A x : x \in Relayed(n, u) /\ x.id = c <=>
                     (e.here \/ clock[n][c] # 0) /\ x = [id |-> c, clock |-> e.clock, here |-> e.here]
    BY <1>3
  <2>2. e.clock \in Nat /\ e.clock <= clock[n][c]
    BY <2>1, FrameOne DEF UpTo
  <2>3. e.clock = clock[n][c] /\ ~e.here
    BY <1>1, <2>1, <2>2
  <2>4. \A x \in Relayed(n, u) : x.id = c => x.here = e.here
    BY <2>1
  <2> QED
    BY <2>1, <2>3, <2>4
<1> QED
  BY <1>2, <1>3, MergeOther

(* What the connection of a client says of it stays as it is. *)
LEMMA OwnRemovalsStep ==
  ASSUME PresenceInv, SocketsInv, \A s \in Sockets : OwnRemovalLast(s), Next, ~faulty',
         NEW s \in Sockets
  PROVE  OwnRemovalLast(s)'
<1>1. CASE Entries(up'[s]) \subseteq Entries(up[s])
  BY <1>1 DEF OwnRemovalLast
<1>2. ASSUME NEW e \in Clients, NEW i \in Instances, Open(e, i)
      PROVE  OwnRemovalLast(s)'
  <2>1. up' = [up EXCEPT ![Current(e)'] = <<Own(e, clock[e][e], TRUE)>>] /\ up \in [Sockets -> Queue]
    BY <1>2, TypeFacts DEF Open
  <2>2. CASE s = Current(e)'
    <3>1. up'[s] = <<Own(e, clock[e][e], TRUE)>>
      BY <2>1, <2>2
    <3>2. \A x \in Entries(up'[s]) : x.here
      BY <3>1 DEF Entries, Own
    <3> QED
      BY <3>2 DEF OwnRemovalLast
  <2>3. CASE s # Current(e)'
    BY <1>1, <2>1, <2>3
  <2> QED
    BY <2>2, <2>3
<1>3. ASSUME NEW d \in Clients, ClientStep(d)
      PROVE  OwnRemovalLast(s)'
  <2>1. /\ here' \subseteq here
        /\ \A y \in Entries(up'[s]) : y \in Entries(up[s]) \/ Says(d, s, y)
    BY <1>3, ClientDoes
  <2>2. \A y \in Entries(up'[s]) : y.clock <= clock'[y.id][y.id]
    <3>1. PresenceInv'
      BY InvStep
    <3>2. AllBehind(clock', up'[s])
      BY <3>1, InvParts DEF AllMail, Mail
    <3> QED
      BY <3>2 DEF AllBehind, Behind, Entries
  <2>3. \A y \in Entries(up[s]) : y.id = s[1] /\ ~y.here => s[1] \notin here
    BY DEF SocketsInv, SocketIs
  <2> SUFFICES ASSUME NEW e \in Entries(up'[s]), NEW x \in Entries(up'[s]),
                      e.id = s[1], x.id = s[1], ~e.here, x.here
               PROVE  x.clock <= e.clock
    BY DEF OwnRemovalLast
  <2>4. \A y \in Entries(up'[s]) : Says(d, s, y) /\ y.id = s[1] =>
            s[1] = d /\ y.clock = clock'[d][d] /\ (y.here <=> d \in here')
    BY CurrentSockets DEF Says
  <2>5. CASE Says(d, s, e)
    BY <2>2, <2>4, <2>5
  <2>6. CASE e \in Entries(up[s])
    <3>1. s[1] \notin here'
      BY <2>1, <2>3, <2>6
    <3>2. x \in Entries(up[s])
      BY <2>1, <2>4, <3>1
    <3> QED
      BY <2>6, <3>2 DEF OwnRemovalLast
  <2> QED
    BY <2>1, <2>5, <2>6
<1>4. ASSUME NEW x \in Sockets, Join(x) \/ SocketClosed(x)
      PROVE  OwnRemovalLast(s)'
  BY <1>1, <1>4 DEF Join, SocketClosed
<1>5. ASSUME NEW x \in Sockets, HandleAwareness(x)
      PROVE  OwnRemovalLast(s)'
  <2>1. Entries(up[x]) = Head(up[x]) \cup Entries(up'[x]) /\ \A y \in Sockets \ {x} : up'[y] = up[y]
    BY <1>5, HandleDoes
  <2> QED
    BY <1>1, <2>1
<1>6. ASSUME NEW i \in Instances, ReceiveBus(i) \/ \E e \in Clients : Expire(i, e)
      PROVE  OwnRemovalLast(s)'
  <2>1. UNCHANGED up
    BY <1>6, ExpireDoes DEF ReceiveBus
  <2> QED
    BY <1>1, <2>1
<1> QED
  BY <1>2, <1>3, <1>4, <1>5, <1>6, StepsOf

LEMMA ControlsKept ==
  ASSUME NEW c \in Clients, HomeControls(c),
         Current(c)' = Current(c), Room(c)' = Room(c),
         clock'[Room(c)][c] = clock[Room(c)][c], c \in shown'[Room(c)] => c \in shown[Room(c)],
         controlled'[Current(c)] = controlled[Current(c)], here' \subseteq here,
         \A x \in Entries(up'[Current(c)]) :
             x \in Entries(up[Current(c)]) \/ (x.id = c /\ x.here => c \in here')
  PROVE  HomeControls(c)'
<1>1. CASE clock[Room(c)][c] = 0 \/ c \in controlled[Current(c)]
  BY <1>1 DEF HomeControls
<1>2. CASE /\ c \notin here /\ c \notin shown[Room(c)]
           /\ \A x \in Entries(up[Current(c)]) : x.id = c /\ x.here => x.clock <= clock[Room(c)][c]
  <2>1. /\ c \notin here' /\ c \notin shown'[Room(c)]
        /\ \A x \in Entries(up'[Current(c)]) : x.id = c /\ x.here => x.clock <= clock[Room(c)][c]
    BY <1>2
  <2> QED
    BY <2>1 DEF HomeControls
<1> QED
  BY <1>1, <1>2 DEF HomeControls

(* A connection that stays in the room it is in. *)
LEMMA FirstStays ==
  ASSUME PresenceInv, NEW c \in Clients, UNCHANGED last,
         \A s \in Sockets : s = Current(c) => conn'[s] = conn[s] /\ at'[s] = at[s]
  PROVE  /\ Current(c)' = Current(c) /\ (First(c)' <=> First(c))
         /\ First(c) => Room(c)' = Room(c) /\ (Joined(c)' <=> Joined(c))
<1>1. Current(c)' = Current(c)
  BY DEF Current
<1>2. (First(c)' <=> First(c)) /\ (First(c) => Room(c)' = Room(c))
  <2>1. last[c] = 1 => Current(c) \in Sockets
    BY CurrentSockets
  <2> QED
    BY <1>1, <2>1 DEF First, Joined, Room
<1> QED
  BY <1>1, <1>2 DEF First

LEMMA ControlsOpen ==
  ASSUME PresenceInv, NEW c \in Clients, First(c)', First(c) => HomeControls(c),
         NEW e \in Clients, NEW i \in Instances, Open(e, i)
  PROVE  HomeControls(c)'
<1> DEFINE s == Current(e)'
<1>1. /\ last' = [last EXCEPT ![e] = last[e] + 1]
      /\ conn' = [conn EXCEPT ![s] = "queued"] /\ at' = [at EXCEPT ![s] = i]
      /\ up' = [up EXCEPT ![s] = <<Own(e, clock[e][e], TRUE)>>]
      /\ UNCHANGED <<clock, shown, here, controlled>>
      /\ last[e] < MaxSockets
  BY DEF Open, awareness
<1>2. /\ last \in [Clients -> 0 .. MaxSockets] /\ up \in [Sockets -> Queue] /\ MaxSockets \in Nat
      /\ conn \in [Sockets -> {"none", "queued", "joined", "gone"}]
      /\ at \in [Sockets -> Instances \cup {None}]
  BY TypeFacts
<1>3. s = <<e, last[e] + 1>> /\ s \in Sockets
  BY <1>1, <1>2 DEF Current, Sockets
<1>4. /\ conn'[s] = "queued" /\ \A x \in Sockets \ {s} : up'[x] = up[x] /\ conn'[x] = conn[x] /\ at'[x] = at[x]
  BY <1>1, <1>2, <1>3
<1>5. c # e
  BY <1>4 DEF First, Joined
<1>6. last'[c] = last[c] /\ last[c] = 1
  BY <1>1, <1>2, <1>5 DEF First
<1>7. Current(c)' = Current(c) /\ Current(c) \in Sockets \ {s}
  <2>1. Current(c)' = Current(c)
    BY <1>6 DEF Current
  <2>2. Current(c) \in Sockets /\ Current(c)[1] = c
    BY <1>6, CurrentSockets
  <2>3. s[1] = e
    BY <1>3
  <2> HIDE DEF s
  <2> QED
    BY <1>5, <2>1, <2>2, <2>3
<1> HIDE DEF s
<1>8. First(c) /\ Room(c)' = Room(c) /\ up'[Current(c)] = up[Current(c)]
  BY <1>4, <1>6, <1>7 DEF First, Joined, Room
<1>9. HomeControls(c)
  BY <1>8
<1> QED
  BY <1>1, <1>7, <1>8, <1>9, ControlsKept

LEMMA ControlsClient ==
  ASSUME PresenceInv, SocketsInv, NEW c \in Clients, First(c)', First(c) => HomeControls(c),
         NEW e \in Clients, ClientStep(e)
  PROVE  HomeControls(c)'
<1>1. /\ UNCHANGED <<conn, at, controlled, last>> /\ Leaves(e) /\ here' \subseteq here
      /\ \A x \in Sockets : \A y \in Entries(up'[x]) : y \in Entries(up[x]) \/ Says(e, x, y)
  BY ClientDoes
<1>2. /\ Current(c)' = Current(c) /\ First(c) /\ Room(c)' = Room(c)
  BY <1>1, FirstStays
<1>3. Current(c) \in Sockets /\ Room(c) \in Nodes \ {e} /\ Current(c)[1] = c /\ Current(e)[1] = e
  BY <1>2, HighestTyped, CurrentSockets, NodesOfBoth
<1>4. clock'[Room(c)] = clock[Room(c)] /\ shown'[Room(c)] = shown[Room(c)]
  BY <1>1, <1>3 DEF Leaves
<1>5. \A y \in Entries(up'[Current(c)]) :
          y \in Entries(up[Current(c)]) \/ (y.id = c /\ y.here => c \in here')
  BY <1>1, <1>3 DEF Says
<1> QED
  BY <1>1, <1>2, <1>4, <1>5, ControlsKept

LEMMA ControlsJoin ==
  ASSUME PresenceInv, SocketsInv, NEW c \in Clients, First(c)', First(c) => HomeControls(c),
         Fresh(c) => HomeKnows(c), NEW s \in Sockets, Join(s)
  PROVE  HomeControls(c)'
<1>1. /\ at[s] \in Instances /\ conn[s] = "queued" /\ conn' = [conn EXCEPT ![s] = "joined"]
      /\ Alone /\ UNCHANGED <<clock, shown, at, controlled, up, late>>
  BY JoinDoes
<1>2. Current(c)' = Current(c) /\ Room(c)' = Room(c) /\ last[c] = 1
  BY <1>1 DEF Alone, Current, Room, First
<1>3. CASE s = Current(c)
  <2>1. Fresh(c) /\ ~First(c)
    BY <1>1, <1>2, <1>3 DEF Fresh, First, Joined
  <2>2. at[s] \in Nodes \ {c} /\ clock[at[s]][c] \in Nat
    BY <1>1, NodesOfBoth, TypeFacts DEF Clocks
  <2>3. clock[at[s]][c] <= 0
    BY <2>1, <2>2, HighestTyped DEF HomeKnows
  <2>4. clock'[Room(c)'][c] = 0
    BY <1>1, <1>2, <1>3, <2>2, <2>3 DEF Room
  <2> QED
    BY <2>4 DEF HomeControls
<1>4. CASE s # Current(c)
  <2>1. First(c)
    BY <1>1, <1>2, <1>4, CurrentSockets, TypeFacts DEF First, Joined
  <2> QED
    BY <1>1, <1>2, <2>1, ControlsKept DEF Alone
<1> QED
  BY <1>3, <1>4

LEMMA ControlsHandle ==
  ASSUME PresenceInv, SocketsInv, NEW c \in Clients, First(c)', First(c) => HomeControls(c),
         Fresh(c) => HomeKnows(c), \A x \in Sockets : OwnRemovalLast(x),
         NEW s \in Sockets, HandleAwareness(s)
  PROVE  HomeControls(c)'
<1> DEFINE i == at[s]
           u == Head(up[s])
<1>1. /\ i \in Instances /\ i \in Nodes
      /\ Alone /\ UNCHANGED <<conn, at, late>>
      /\ u \in Frame /\ Entries(up[s]) = u \cup Entries(up'[s])
      /\ \A x \in Sockets \ {s} : up'[x] = up[x]
      /\ Merge(i, u) /\ Leaves(i)
  BY HandleDoes
<1>0. controlled' = [controlled EXCEPT ![s] = (@ \cup Added(i, u)) \ Removed(i, u)]
  BY DEF HandleAwareness
<1>2. c \in Clients \ {i} /\ i \in Nodes \ {c} /\ controlled \in [Sockets -> SUBSET Clients]
  BY <1>1, NodesOfBoth, TypeFacts
<1>3. Current(c)' = Current(c) /\ First(c) /\ Room(c)' = Room(c) /\ HomeControls(c)
  BY <1>1, FirstStays DEF Alone
<1>4. /\ Current(c) \in Sockets /\ Room(c) \in Nodes /\ Current(c)[1] = c
      /\ Highest(c) = clock[Room(c)][c] /\ HomeKnows(c)
  BY <1>3, HighestTyped, CurrentSockets DEF Fresh
<1>5. clock[i][c] \in Nat /\ \A e \in u : e.id = c => e.clock \in Nat /\ e.here \in BOOLEAN
  BY <1>1, <1>2, FrameOne, TypeFacts DEF Clocks
<1>6. CASE s = Current(c)
  <2>1. Room(c) = i /\ controlled'[Current(c)] = (controlled[s] \cup Added(i, u)) \ Removed(i, u)
    BY <1>0, <1>1, <1>2, <1>6 DEF Room
  <2>2. CASE /\ clock'[i][c] = clock[i][c] /\ (c \in shown'[i] <=> c \in shown[i])
             /\ c \notin Added(i, u) /\ c \notin Removed(i, u)
    <3> HIDE DEF i, u
    <3>1. c \in controlled[s] => c \in controlled'[Current(c)]
      BY <2>1, <2>2
    <3>2. Entries(up'[Current(c)]) \subseteq Entries(up[Current(c)]) /\ here' = here
      BY <1>1, <1>6 DEF Alone
    <3> QED
      BY <1>3, <1>6, <2>1, <2>2, <3>1, <3>2 DEF HomeControls
  <2>3. ASSUME NEW e \in u, e.id = c, e.clock >= clock[i][c],
               e.clock = clock[i][c] => ~e.here /\ c \in shown[i],
               clock'[i][c] = e.clock, c \in shown'[i] <=> e.here,
               c \in Added(i, u) <=> e.here /\ clock[i][c] = 0,
               c \in Removed(i, u) <=> ~e.here /\ clock[i][c] # 0
        PROVE  HomeControls(c)'
    <3> HIDE DEF i, u
    <3>1. e \in Entries(up[Current(c)]) /\ e.clock \in Nat /\ e.here \in BOOLEAN
      BY <1>1, <1>5, <1>6, <2>3
    <3>2. CASE e.here
      <4>1. c \in controlled[s] \/ clock[i][c] = 0
        <5>1. e.clock > clock[i][c]
          BY <1>5, <2>3, <3>1, <3>2
        <5> QED
          BY <1>3, <1>5, <1>6, <2>1, <2>3, <3>1, <3>2, <5>1 DEF HomeControls
      <4>2. c \in controlled'[Current(c)]
        BY <2>1, <2>3, <3>2, <4>1
      <4> QED
        BY <1>3, <4>2 DEF HomeControls
    <3>3. CASE ~e.here
      <4>1. c \notin here
        BY <1>4, <2>3, <3>1, <3>3 DEF SocketsInv, SocketIs
      <4>2. c \notin shown'[i] /\ here' = here
        BY <1>1, <2>3, <3>3 DEF Alone
      <4>3. \A x \in Entries(up'[Current(c)]) : x.id = c /\ x.here => x.clock <= clock'[i][c]
        <5>1. OwnRemovalLast(Current(c))
          BY <1>4
        <5> QED
          BY <1>1, <1>4, <1>6, <2>3, <3>1, <3>3, <5>1 DEF OwnRemovalLast
      <4> QED
        BY <1>3, <2>1, <4>1, <4>2, <4>3 DEF HomeControls
    <3> QED
      BY <3>2, <3>3
  <2>4. \/ /\ clock'[i][c] = clock[i][c] /\ (c \in shown'[i] <=> c \in shown[i])
           /\ c \notin Added(i, u) /\ c \notin Removed(i, u)
        \/ \E e \in u : /\ e.id = c /\ e.clock >= clock[i][c]
                        /\ e.clock = clock[i][c] => ~e.here /\ c \in shown[i]
                        /\ clock'[i][c] = e.clock /\ (c \in shown'[i] <=> e.here)
                        /\ c \in Added(i, u) <=> e.here /\ clock[i][c] = 0
                        /\ c \in Removed(i, u) <=> ~e.here /\ clock[i][c] # 0
    BY <1>1, <1>2, MergeOther
  <2> HIDE DEF i, u
  <2> QED
    BY <2>2, <2>3, <2>4
<1>7. CASE s # Current(c)
  <2>1. controlled'[Current(c)] = controlled[Current(c)] /\ up'[Current(c)] = up[Current(c)]
    BY <1>0, <1>1, <1>2, <1>4, <1>7
  <2>2. clock'[Room(c)][c] = clock[Room(c)][c] /\ (c \in shown'[Room(c)] => c \in shown[Room(c)])
    <3>1. CASE Room(c) = i
      <4>1. UpTo(u, c, clock[i][c])
        BY <1>1, <1>4, <1>7, <3>1 DEF HomeKnows, UpTo
      <4> QED
        BY <1>1, <1>2, <3>1, <4>1, MergeSettled
    <3>2. CASE Room(c) # i
      BY <1>1, <1>4, <3>2 DEF Leaves
    <3> QED
      BY <3>1, <3>2
  <2> QED
    BY <1>1, <1>3, <2>1, <2>2, ControlsKept DEF Alone
<1> QED
  BY <1>6, <1>7

LEMMA ControlsClose ==
  ASSUME PresenceInv, NEW c \in Clients, First(c)', First(c) => HomeControls(c),
         NEW s \in Sockets, SocketClosed(s)
  PROVE  HomeControls(c)'
<1> DEFINE i == at[s]
           ids == controlled[s] \cap shown[i]
<1>c. Closes(s, i, ids)
  BY CloseDoes
<1>1. /\ i \in Instances /\ i \in Nodes /\ Alone /\ UNCHANGED up
      /\ conn' = [conn EXCEPT ![s] = "gone"] /\ at' = [at EXCEPT ![s] = None]
      /\ controlled' = [controlled EXCEPT ![s] = {}] /\ Leaves(i)
      /\ Remains(i, s) => clock'[i] = clock[i] /\ shown'[i] = shown[i] \ ids
  BY <1>c DEF Closes
<1> HIDE DEF i, ids
<1>2. s # Current(c)
  BY <1>1, TypeFacts DEF First, Joined, Alone, Current
<1>3. \A x \in Sockets : x = Current(c) => conn'[x] = conn[x] /\ at'[x] = at[x] /\ controlled'[x] = controlled[x]
  BY <1>1, <1>2, TypeFacts
<1>4. Current(c)' = Current(c) /\ First(c) /\ Room(c)' = Room(c)
  BY <1>1, <1>3, FirstStays DEF Alone
<1>5. Current(c) \in Sockets /\ Room(c) \in Nodes /\ conn[Current(c)] = "joined"
  BY <1>4, HighestTyped
<1>6. clock'[Room(c)] = clock[Room(c)] /\ shown'[Room(c)] \subseteq shown[Room(c)]
  <2>1. CASE Room(c) = i
    <3>1. Remains(i, s)
      BY <1>2, <1>5, <2>1 DEF Room, Remains, Members
    <3> QED
      BY <1>1, <2>1, <3>1
  <2>2. CASE Room(c) # i
    BY <1>1, <1>5, <2>2 DEF Leaves
  <2> QED
    BY <2>1, <2>2
<1> QED
  BY <1>1, <1>3, <1>4, <1>5, <1>6, ControlsKept DEF Alone

LEMMA ControlsBus ==
  ASSUME PresenceInv, NEW c \in Clients, First(c)', First(c) => HomeControls(c),
         Fresh(c) => HomeKnows(c), NEW i \in Instances, ReceiveBus(i)
  PROVE  HomeControls(c)'
<1> DEFINE u == Head(bus[i])
<1>1. /\ Alone /\ UNCHANGED <<conn, at, controlled, up>> /\ i \in Nodes /\ u \in Frame /\ Leaves(i)
      /\ Entries(bus[i]) = u \cup Entries(bus'[i])
      /\ u = Request => UNCHANGED <<clock, shown, down>>
      /\ u # Request => Merge(i, u)
  BY BusDoes
<1> HIDE DEF u
<1>2. c \in Clients \ {i}
  BY NodesOfBoth
<1>3. Current(c)' = Current(c) /\ First(c) /\ Room(c)' = Room(c) /\ HomeControls(c)
  BY <1>1, FirstStays DEF Alone
<1>4. /\ Current(c) \in Sockets /\ Room(c) \in Nodes
      /\ Highest(c) = clock[Room(c)][c] /\ HomeKnows(c)
  BY <1>3, HighestTyped DEF Fresh
<1>5. clock'[Room(c)][c] = clock[Room(c)][c] /\ (c \in shown'[Room(c)] => c \in shown[Room(c)])
  <2>1. CASE Room(c) = i /\ u # Request
    <3>1. UpTo(u, c, clock[i][c])
      BY <1>1, <1>4, <2>1 DEF HomeKnows, UpTo
    <3> QED
      BY <1>1, <1>2, <2>1, <3>1, MergeSettled
  <2>2. CASE Room(c) # i \/ u = Request
    BY <1>1, <1>4, <2>2 DEF Leaves
  <2> QED
    BY <2>1, <2>2
<1> QED
  BY <1>1, <1>3, <1>5, ControlsKept DEF Alone

LEMMA ControlsExpire ==
  ASSUME PresenceInv, NEW c \in Clients, First(c)', First(c) => HomeControls(c),
         NEW i \in Instances, NEW e \in Clients, Expire(i, e)
  PROVE  HomeControls(c)'
<1>1. /\ Alone /\ UNCHANGED <<conn, at, controlled, up, late, clock>> /\ Leaves(i)
      /\ shown'[i] = shown[i] \ {e}
  BY ExpireDoes
<1>2. Current(c)' = Current(c) /\ First(c) /\ Room(c)' = Room(c)
  BY <1>1, FirstStays DEF Alone
<1>3. Room(c) \in Nodes
  BY <1>2, HighestTyped
<1>4. shown'[Room(c)] \subseteq shown[Room(c)]
  BY <1>1, <1>3 DEF Leaves
<1> QED
  BY <1>1, <1>2, <1>4, ControlsKept DEF Alone

LEMMA ControlsStep ==
  ASSUME PresenceInv, SocketsInv, KnownInv, ControlsInv, Next, ~faulty'
  PROVE  ControlsInv'
<1>1. \A s \in Sockets : OwnRemovalLast(s)'
  BY OwnRemovalsStep DEF ControlsInv
<1>2. ASSUME NEW c \in Clients, First(c)'
      PROVE  HomeControls(c)'
  <2>1. (First(c) => HomeControls(c)) /\ (Fresh(c) => HomeKnows(c)) /\ \A x \in Sockets : OwnRemovalLast(x)
    BY DEF ControlsInv, KnownInv
  <2> QED
    BY <1>2, <2>1, StepsOf, ControlsOpen, ControlsClient, ControlsJoin, ControlsHandle, ControlsClose,
       ControlsBus, ControlsExpire
<1> QED
  BY <1>1, <1>2 DEF ControlsInv

(* What the client's own room shows it shows, and it has nothing later to get. *)
LEMMA HomeFollows ==
  ASSUME PresenceInv, NEW c \in Clients, First(c)', HomeKnows(c)', PresenceInv',
         NEW r, r = Room(c)'
  PROVE  RoomFollows(r, c)'
<1>1. last'[c] = 1 /\ Current(c)' \in Sockets /\ conn'[Current(c)'] = "joined"
  <2>1. last'[c] = 1 /\ conn'[Current(c)'] = "joined"
    BY DEF First, Joined
  <2>2. last' \in [Clients -> 0 .. MaxSockets]
    BY InvParts DEF Sides
  <2> QED
    BY <2>1, <2>2, PresenceAssumption DEF Current, Sockets
<1>2. r \in Instances /\ r \in Nodes \ {c} /\ clock' \in Clocks /\ bus' \in [Instances -> Queue]
  BY <1>1, InvParts, NodesOfBoth DEF Views, Places, AllMail, Mail, Room
<1>3. Highest(c)' = clock'[r][c]
  BY DEF Highest
<1>4. UpTo(Entries(bus'[r]), c, clock'[r][c])
  BY <1>2, <1>3 DEF HomeKnows
<1>5. ASSUME NEW k \in Nat, Claim(shown'[r], clock'[r][c], Entries(bus'[r]), c, k)
      PROVE  Shows(shown'[r], clock'[r][c], c, k)
  <2>1. clock'[r][c] \in Nat
    BY <1>2 DEF Clocks
  <2>2. ~(Tells(Entries(bus'[r]), c, k) /\ k > clock'[r][c])
    BY <1>4, <2>1 DEF UpTo, Tells
  <2> QED
    BY <1>5, <2>1, <2>2 DEF Claim, Shows
<1> QED
  BY <1>5 DEF RoomFollows, RoomClaims, RoomShows

(* Nothing changes for the rooms, or the client comes to one that nobody follows yet. *)
LEMMA FollowedStill ==
  ASSUME NEW c \in Clients, Followed(c),
         \A i \in Instances : /\ clock'[i] = clock[i] /\ shown'[i] = shown[i]
                              /\ Entries(bus'[i]) = Entries(bus[i]),
         First(c) => First(c)' /\ Room(c)' = Room(c) /\ Room(c) \in Instances
  PROVE  Followed(c)'
<1> SUFFICES ASSUME NEW i \in Instances
             PROVE  RoomFollows(i, c)' /\ (First(c)' /\ i # Room(c)' => HomeHearsLast(i, c)')
  BY DEF Followed
<1>1. RoomFollows(i, c) /\ (First(c) /\ i # Room(c) => HomeHearsLast(i, c))
  BY DEF Followed
<1>2. \A k : RoomClaims(i, c, k)' <=> RoomClaims(i, c, k)
  BY DEF RoomClaims
<1>3. CASE First(c)
  <2>1. /\ \A k : RoomShows(Room(c), c, k)' <=> RoomShows(Room(c), c, k)
        /\ Entries(bus'[Room(c)']) = Entries(bus[Room(c)])
    BY <1>3 DEF RoomShows
  <2>2. RoomFollows(i, c)'
    BY <1>1, <1>2, <1>3, <2>1 DEF RoomFollows
  <2>3. i # Room(c) => HomeHearsLast(i, c)'
    BY <1>1, <1>2, <1>3, <2>1 DEF HomeHearsLast
  <2> QED
    BY <1>3, <2>2, <2>3
<1>4. CASE ~First(c)
  <2>1. \A k \in Nat : RoomClaims(i, c, k)' => Removes(Entries(bus'[i]), c, k)
    BY <1>1, <1>2, <1>4 DEF RoomFollows
  <2> QED
    BY <2>1 DEF RoomFollows, HomeHearsLast
<1> QED
  BY <1>3, <1>4

(* A room says something of the client to the others: only the client's own room that it is
   there, or one that agrees with it; and if that removes it, or hears that it is removed,
   all others get that, too. *)
LEMMA FollowedSpoken ==
  ASSUME PresenceInv, SocketsInv, PresenceInv',
         NEW c \in Clients, Followed(c), First(c)' <=> First(c), First(c) => Room(c)' = Room(c),
         First(c)' => HomeKnows(c)',
         NEW i \in Instances, Leaves(i), NEW r, Publishes(i, Rooms, r),
         Entries(bus'[i]) \subseteq Entries(bus[i]),
         ~First(c) \/ Room(c) # i => \A k \in Nat : RoomClaims(i, c, k)' =>
             /\ RoomClaims(i, c, k) /\ ~Removes(r, c, k)
             /\ Removes(Entries(bus[i]), c, k) => Removes(Entries(bus'[i]), c, k),
         First(c) /\ Room(c) = i => \A k \in Nat : RoomShows(i, c, k) =>
             \/ Shows(shown'[i], clock'[i][c], c, k)
             \/ Removes(r, c, k) \/ Removes(Entries(bus[i]), c, k),
         \A k \in Nat : Tells(r, c, k) =>
             /\ First(c) /\ Shows(shown'[Room(c)], clock'[Room(c)][c], c, k)
             /\ ~Removes(Entries(bus'[Room(c)]), c, k)
  PROVE  Followed(c)'
<1> SUFFICES ASSUME NEW j \in Instances
             PROVE  RoomFollows(j, c)' /\ (First(c)' /\ j # Room(c)' => HomeHearsLast(j, c)')
  BY DEF Followed
<1>1. RoomFollows(j, c) /\ (First(c) /\ j # Room(c) => HomeHearsLast(j, c))
  BY DEF Followed
<1>2. CASE First(c) /\ j = Room(c)
  BY <1>2, HomeFollows
<1>3. CASE ~(First(c) /\ j = Room(c))
  <2> DEFINE h == Room(c)
             w == Entries(bus'[j])
             v == Entries(bus'[h])
  <2>1. SUFFICES ASSUME NEW k \in Nat, RoomClaims(j, c, k)'
                 PROVE  /\ (First(c) /\ Shows(shown'[h], clock'[h][c], c, k)) \/ Removes(w, c, k)
                        /\ First(c) /\ Removes(v, c, k) => Removes(w, c, k)
    BY <1>3 DEF RoomFollows, HomeHearsLast, RoomShows
  <2>2. First(c) => h \in Instances /\ h \in Nodes
    BY HighestTyped
  <2>3. First(c) /\ h # i => /\ \A m \in Nat : Shows(shown'[h], clock'[h][c], c, m) <=> RoomShows(h, c, m)
                             /\ v \subseteq Entries(bus[h]) \cup r
    BY <2>2 DEF Leaves, RoomShows, Publishes
  <2>4. First(c) /\ h = i => v \subseteq Entries(bus[h])
    OBVIOUS
  <2>5. CASE j = i
    <3>1. /\ RoomClaims(i, c, k) /\ ~Removes(r, c, k)
          /\ Removes(Entries(bus[i]), c, k) => Removes(w, c, k)
      BY <1>3, <2>1, <2>5
    <3>2. First(c) => h # i
      BY <1>3, <2>5
    <3> HIDE DEF h, w, v
    <3>3. (First(c) /\ RoomShows(h, c, k)) \/ Removes(Entries(bus[i]), c, k)
      BY <1>1, <2>5, <3>1 DEF RoomFollows, h
    <3>4. First(c) /\ Removes(v, c, k) => Removes(Entries(bus[h]), c, k)
      BY <2>3, <3>1, <3>2 DEF Removes
    <3>5. First(c) /\ Removes(Entries(bus[h]), c, k) => Removes(Entries(bus[i]), c, k)
      BY <1>1, <1>3, <2>5, <3>1 DEF HomeHearsLast, h
    <3> QED
      BY <2>3, <3>1, <3>2, <3>3, <3>4, <3>5
  <2>6. CASE j # i
    <3>1. /\ shown'[j] = shown[j] /\ clock'[j] = clock[j]
          /\ w = IF j \in Rooms THEN Entries(bus[j]) \cup r ELSE Entries(bus[j])
      BY <2>6, NodesOfBoth DEF Leaves, Publishes
    <3>2. RoomClaims(j, c, k) \/ Tells(r, c, k)
      <4>1. Claim(shown[j], clock[j][c], w, c, k)
        BY <2>1, <3>1 DEF RoomClaims
      <4>2. Tells(w, c, k) => Tells(Entries(bus[j]), c, k) \/ Tells(r, c, k)
        BY <3>1 DEF Tells
      <4> HIDE DEF w
      <4> QED
        BY <4>1, <4>2 DEF RoomClaims, Claim
    <3>3. CASE Tells(r, c, k)
      BY <3>3
    <3>4. CASE RoomClaims(j, c, k)
      <4>1. w = Entries(bus[j]) \cup r
        BY <3>1, <3>4, ClaimsOfRooms
      <4> HIDE DEF w, v, h
      <4>2. Removes(w, c, k) <=> Removes(Entries(bus[j]), c, k) \/ Removes(r, c, k)
        BY <4>1 DEF Removes
      <4>3. (First(c) /\ RoomShows(h, c, k)) \/ Removes(Entries(bus[j]), c, k)
        BY <1>1, <3>4 DEF RoomFollows, h
      <4>4. First(c) /\ Removes(Entries(bus[h]), c, k) => Removes(Entries(bus[j]), c, k)
        BY <1>1, <1>3, <3>4 DEF HomeHearsLast, h
      <4>5. First(c) /\ Removes(v, c, k) => Removes(Entries(bus[h]), c, k) \/ Removes(r, c, k)
        BY <2>3, <2>4 DEF Removes
      <4>6. CASE First(c) /\ h = i
        <5>1. RoomShows(h, c, k) => \/ Shows(shown'[h], clock'[h][c], c, k)
                                    \/ Removes(r, c, k) \/ Removes(Entries(bus[h]), c, k)
          BY <4>6 DEF h
        <5> QED
          BY <4>2, <4>3, <4>4, <4>5, <4>6, <5>1
      <4>7. CASE ~(First(c) /\ h = i)
        BY <2>3, <4>2, <4>3, <4>4, <4>5, <4>7
      <4> QED
        BY <4>6, <4>7
    <3> QED
      BY <3>2, <3>3, <3>4
  <2> QED
    BY <2>5, <2>6
<1> QED
  BY <1>2, <1>3

(* One lemma per step.  A socket that opens is in no session yet, so nothing has been said
   of a client that opens its first. *)
LEMMA FollowedOpen ==
  ASSUME PresenceInv, NEW c \in Clients, Followed(c), last'[c] <= 1,
         NEW e \in Clients, NEW i \in Instances, Open(e, i)
  PROVE  Followed(c)'
<1> DEFINE s == Current(e)'
<1>1. /\ last' = [last EXCEPT ![e] = last[e] + 1]
      /\ conn' = [conn EXCEPT ![s] = "queued"] /\ at' = [at EXCEPT ![s] = i]
      /\ UNCHANGED <<clock, shown, bus>>
  BY DEF Open, awareness
<1>2. last \in [Clients -> 0 .. MaxSockets] /\ MaxSockets \in Nat
  BY TypeFacts
<1>3. s = <<e, last[e] + 1>>
  BY <1>1, <1>2 DEF Current
<1> HIDE DEF s
<1>4. ASSUME First(c)
      PROVE  First(c)' /\ Room(c)' = Room(c) /\ Room(c) \in Instances
  <2>1. last[c] = 1 /\ Current(c) \in Sockets /\ Room(c) \in Instances
    BY <1>4, HighestTyped
  <2>2. e # c
    BY <1>1, <1>2, <2>1
  <2>3. last'[c] = last[c] /\ Current(c)' = Current(c)
    BY <1>1, <1>2, <2>2 DEF Current
  <2>4. Current(c) # s
    BY <1>3, <2>2, CurrentSockets
  <2>5. conn'[Current(c)] = conn[Current(c)] /\ at'[Current(c)] = at[Current(c)]
    BY <1>1, <2>1, <2>4, TypeFacts
  <2> QED
    BY <1>4, <2>1, <2>3, <2>5 DEF First, Joined, Room
<1> QED
  BY <1>1, <1>4, FollowedStill

LEMMA FollowedClient ==
  ASSUME PresenceInv, SocketsInv, NEW c \in Clients, Followed(c), NEW e \in Clients, ClientStep(e)
  PROVE  Followed(c)'
<1>1. UNCHANGED <<bus, conn, at, last>> /\ Leaves(e)
  BY ClientDoes
<1>2. First(c) => First(c)' /\ Room(c)' = Room(c) /\ Room(c) \in Instances
  BY <1>1, FirstStays, HighestTyped
<1>3. \A i \in Instances : /\ clock'[i] = clock[i] /\ shown'[i] = shown[i]
                           /\ Entries(bus'[i]) = Entries(bus[i])
  BY <1>1, NodesOfBoth DEF Leaves
<1> QED
  BY <1>2, <1>3, FollowedStill

LEMMA FollowedJoin ==
  ASSUME PresenceInv, NEW c \in Clients, Followed(c), NEW s \in Sockets, Join(s)
  PROVE  Followed(c)'
<1>1. /\ conn[s] = "queued" /\ conn' = [conn EXCEPT ![s] = "joined"]
      /\ Alone /\ UNCHANGED <<clock, shown, at, controlled, up, late>>
      /\ \A j \in Instances : Entries(bus'[j]) = Entries(bus[j])
  BY JoinDoes
<1>2. ASSUME First(c)
      PROVE  First(c)' /\ Room(c)' = Room(c) /\ Room(c) \in Instances
  <2>1. Current(c) # s /\ Room(c) \in Instances
    BY <1>1, <1>2, HighestTyped
  <2>2. \A x \in Sockets : x = Current(c) => conn'[x] = conn[x] /\ at'[x] = at[x]
    BY <1>1, <2>1, TypeFacts
  <2> QED
    BY <1>1, <1>2, <2>1, <2>2, FirstStays DEF Alone
<1> QED
  BY <1>1, <1>2, FollowedStill

(* Only a client's own connection says that it is there. *)
LEMMA OwnSocketSays ==
  ASSUME PresenceInv, SocketsInv, NEW s \in Sockets, conn[s] = "joined", NEW c \in Clients, last[c] <= 1,
         NEW u, u \subseteq Entries(up[s]), up[s] # <<>>, ~First(c) \/ Room(c) # at[s]
  PROVE  \A e \in u : e.id = c => ~e.here
<1> SUFFICES ASSUME NEW e \in u, e.id = c, e.here PROVE FALSE
  OBVIOUS
<1>1. s = Current(s[1]) /\ e.id = s[1]
  BY DEF SocketsInv, SocketIs
<1>2. s = Current(c) /\ last[c] # 0 /\ last[c] \in Nat
  BY <1>1, HighestTyped, TypeFacts
<1>3. last[c] = 1
  BY <1>2
<1> QED
  BY <1>2, <1>3 DEF First, Joined, Room

LEMMA FollowedHandle ==
  ASSUME PresenceInv, SocketsInv, PresenceInv', NEW c \in Clients, Followed(c), last[c] <= 1,
         First(c) => HomeKnows(c), First(c)' => HomeKnows(c)', NEW s \in Sockets, HandleAwareness(s)
  PROVE  Followed(c)'
<1>0. PICK i : i = at[s]
  OBVIOUS
<1> DEFINE u == Head(up[s])
           r == Relayed(i, u)
<1>1. /\ i \in Instances /\ i \in Nodes /\ conn[s] = "joined" /\ up[s] # <<>>
      /\ Alone /\ UNCHANGED <<conn, at, late>>
      /\ u \in Frame /\ Entries(up[s]) = u \cup Entries(up'[s])
      /\ Merge(i, u) /\ Leaves(i) /\ Publishes(i, Rooms, r) /\ bus'[i] = bus[i]
  BY <1>0, HandleDoes
<1>2. c \in Clients \ {i} /\ i \in Nodes \ {c}
  BY <1>1, NodesOfBoth
<1>3. (First(c)' <=> First(c)) /\ (First(c) => Room(c)' = Room(c))
  BY <1>1, FirstStays DEF Alone
<1>4. \A k \in Nat :
          /\ RoomShows(i, c, k) => Shows(shown'[i], clock'[i][c], c, k) \/ Removes(r, c, k)
          /\ Tells(r, c, k) => /\ Tells(u, c, k) /\ k > clock[i][c]
                               /\ Shows(shown'[i], clock'[i][c], c, k)
          /\ Removes(r, c, k) => c \notin shown'[i] /\ clock'[i][c] >= k /\ clock'[i][c] \in Nat
  BY <1>1, <1>2, MergeShows DEF RoomShows, Shows
<1>5. \A k \in Nat : \A w : (\A e \in u : e.id = c => ~e.here) /\ Claim(shown'[i], clock'[i][c], w, c, k)
                                => Claim(shown[i], clock[i][c], w, c, k)
  BY <1>1, <1>2, MergeClaims
<1>6. ~First(c) \/ Room(c) # i => \A e \in u : e.id = c => ~e.here
  BY <1>0, <1>1, OwnSocketSays
<1> HIDE DEF u, r
<1>7. ~First(c) \/ Room(c) # i => \A k \in Nat : RoomClaims(i, c, k)' =>
          /\ RoomClaims(i, c, k) /\ ~Removes(r, c, k)
          /\ Removes(Entries(bus[i]), c, k) => Removes(Entries(bus'[i]), c, k)
  <2> SUFFICES ASSUME ~First(c) \/ Room(c) # i, NEW k \in Nat, Claim(shown'[i], clock'[i][c], Entries(bus[i]), c, k)
               PROVE  Claim(shown[i], clock[i][c], Entries(bus[i]), c, k) /\ ~Removes(r, c, k)
    BY <1>1 DEF RoomClaims
  <2>1. Claim(shown[i], clock[i][c], Entries(bus[i]), c, k)
    BY <1>5, <1>6
  <2>2. ~Removes(r, c, k)
    BY <1>4 DEF Claim
  <2> QED
    BY <2>1, <2>2
<1>8. First(c) /\ Room(c) = i => \A k \in Nat : RoomShows(i, c, k) =>
          \/ Shows(shown'[i], clock'[i][c], c, k)
          \/ Removes(r, c, k) \/ Removes(Entries(bus[i]), c, k)
  BY <1>4
<1>9. \A k \in Nat : Tells(r, c, k) =>
          /\ First(c) /\ Shows(shown'[Room(c)], clock'[Room(c)][c], c, k)
          /\ ~Removes(Entries(bus'[Room(c)]), c, k)
  <2> SUFFICES ASSUME NEW k \in Nat, Tells(r, c, k)
               PROVE  /\ First(c) /\ Shows(shown'[Room(c)], clock'[Room(c)][c], c, k)
                      /\ ~Removes(Entries(bus'[Room(c)]), c, k)
    OBVIOUS
  <2>1. Tells(u, c, k) /\ k > clock[i][c] /\ Shows(shown'[i], clock'[i][c], c, k)
    BY <1>4
  <2>2. First(c) /\ Room(c) = i
    BY <1>6, <2>1 DEF Tells
  <2>3. UpTo(Entries(bus[i]), c, clock[i][c])
    BY <1>1, <2>2, HighestTyped DEF HomeKnows
  <2>4. ~Removes(Entries(bus[i]), c, k)
    <3> SUFFICES ASSUME NEW e \in Entries(bus[i]), e.id = c, e.clock >= k PROVE FALSE
      BY DEF Removes
    <3>1. e.clock \in Nat /\ clock[i][c] \in Nat /\ e.clock <= clock[i][c]
      BY <1>1, <2>3, EntriesTyped, TypeFacts DEF Entry, UpTo, Clocks
    <3> QED
      BY <2>1, <3>1
  <2> QED
    BY <1>1, <2>1, <2>2, <2>4
<1> QED
  BY <1>1, <1>3, <1>7, <1>8, <1>9, FollowedSpoken

(* A connection of another client goes, and with it perhaps a room that followed. *)
LEMMA FollowedClose ==
  ASSUME PresenceInv, SocketsInv, PresenceInv', NEW c \in Clients, Followed(c), last[c] <= 1,
         First(c)' => HomeKnows(c)', NEW s \in Sockets, SocketClosed(s), s # Current(c)
  PROVE  Followed(c)'
<1>0. PICK i, ids : i = at[s] /\ ids = controlled[s] \cap shown[i]
  OBVIOUS
<1> DEFINE r == Removal(i, ids)
<1>a. conn[s] \in {"queued", "joined"}
  BY DEF SocketClosed
<1>c. Closes(s, i, ids)
  BY <1>0, CloseDoes
<1>1. /\ i \in Instances /\ i \in Nodes /\ Alone
      /\ conn' = [conn EXCEPT ![s] = "gone"] /\ at' = [at EXCEPT ![s] = None]
      /\ Leaves(i) /\ Publishes(i, Rooms, r)
      /\ IF Remains(i, s) THEN bus'[i] = bus[i] /\ clock'[i] = clock[i] /\ shown'[i] = shown[i] \ ids
                          ELSE bus'[i] = <<>> /\ shown'[i] = {}
  BY <1>c DEF Closes
<1>2. c \notin ids
  <2>1. controlled[s] \subseteq {s[1]} /\ (conn[s] = "none" <=> s[2] > last[s[1]])
    BY DEF SocketsInv, SocketIs
  <2>2. s[1] # c
    <3> SUFFICES ASSUME s[1] = c PROVE FALSE
      OBVIOUS
    <3>1. s[2] <= last[c] /\ s[2] \in 1 .. MaxSockets /\ last[c] \in Nat /\ MaxSockets \in Nat
      BY <1>a, <2>1, CurrentSockets, TypeFacts
    <3>2. s[2] = last[c]
      BY <3>1
    <3> QED
      BY <3>2, CurrentSockets DEF Current
  <2> QED
    BY <1>0, <2>1, <2>2
<1>3. \A k : ~Tells(r, c, k) /\ ~Removes(r, c, k)
  BY <1>2, RemovalSays
<1> HIDE DEF r
<1>4. \A x \in Sockets : x = Current(c) => conn'[x] = conn[x] /\ at'[x] = at[x]
  BY <1>1, TypeFacts
<1>5. (First(c)' <=> First(c)) /\ (First(c) => Room(c)' = Room(c))
  BY <1>1, <1>4, FirstStays DEF Alone
<1>6. First(c) /\ Room(c) = i => Remains(i, s)
  BY HighestTyped DEF Room, Remains, Members
<1>7. Entries(bus'[i]) \subseteq Entries(bus[i])
  BY <1>1, EntriesEmpty
<1>8. \A k \in Nat : RoomClaims(i, c, k)' =>
          /\ RoomClaims(i, c, k) /\ ~Removes(r, c, k)
          /\ Removes(Entries(bus[i]), c, k) => Removes(Entries(bus'[i]), c, k)
  <2>1. CASE Remains(i, s)
    BY <1>1, <1>2, <1>3, <2>1 DEF RoomClaims, Claim
  <2>2. CASE ~Remains(i, s)
    <3>1. \A k : ~Tells({}, c, k)
      BY SaysUnion
    <3>2. \A k : ~Claim({}, clock'[i][c], {}, c, k)
      BY <3>1 DEF Claim
    <3>3. \A k : ~RoomClaims(i, c, k)'
      BY <1>1, <2>2, <3>2, EntriesEmpty DEF RoomClaims
    <3> QED
      BY <3>3
  <2> QED
    BY <2>1, <2>2
<1>9. First(c) /\ Room(c) = i => \A k \in Nat : RoomShows(i, c, k) =>
          \/ Shows(shown'[i], clock'[i][c], c, k)
          \/ Removes(r, c, k) \/ Removes(Entries(bus[i]), c, k)
  BY <1>1, <1>2, <1>6 DEF RoomShows, Shows
<1> QED
  BY <1>1, <1>3, <1>5, <1>7, <1>8, <1>9, FollowedSpoken

(* The connection of the client goes, and takes what it controls along. *)
LEMMA FollowedGone ==
  ASSUME PresenceInv, SocketsInv, NEW c \in Clients, Followed(c),
         First(c) => HomeControls(c), NEW s \in Sockets, SocketClosed(s), s = Current(c)
  PROVE  Followed(c)'
<1>0. PICK i, ids : i = at[s] /\ ids = controlled[s] \cap shown[i]
  OBVIOUS
<1> DEFINE r == Removal(i, ids)
<1>c. Closes(s, i, ids)
  BY <1>0, CloseDoes
<1>1. /\ i \in Instances /\ i \in Nodes /\ Alone /\ conn' = [conn EXCEPT ![s] = "gone"]
      /\ Leaves(i) /\ Publishes(i, Rooms, r)
      /\ IF Remains(i, s) THEN bus'[i] = bus[i] /\ clock'[i] = clock[i] /\ shown'[i] = shown[i] \ ids
                          ELSE bus'[i] = <<>> /\ shown'[i] = {}
  BY <1>c DEF Closes
<1>2. ~First(c)'
  BY <1>1, TypeFacts DEF First, Joined, Alone, Current
<1>3. First(c) /\ c \in shown[i] => c \in ids
  <2>1. c \in shown[i] => clock[i][c] # 0
    BY <1>1, TypeFacts DEF Positive
  <2> QED
    BY <1>0, <2>1 DEF HomeControls, Room
<1>4. \A k : ~Tells(r, c, k) /\ (Removes(r, c, k) <=> c \in ids /\ clock[i][c] >= k)
  BY RemovalSays
<1> HIDE DEF r
<1>5. First(c) => Room(c) = i
  BY <1>0 DEF Room
<1>6. ASSUME NEW j \in Instances, NEW k \in Nat, RoomClaims(j, c, k)'
      PROVE  Removes(Entries(bus'[j]), c, k)
  <2>1. RoomFollows(j, c)
    BY DEF Followed
  <2>2. CASE j = i
    <3>1. Remains(i, s)
      <4> SUFFICES ASSUME ~Remains(i, s) PROVE FALSE
        OBVIOUS
      <4>1. Claim({}, clock'[i][c], {}, c, k)
        BY <1>1, <1>6, <2>2, EntriesEmpty DEF RoomClaims
      <4> QED
        BY <4>1, SaysUnion DEF Claim
    <3>2. /\ RoomClaims(i, c, k)
          /\ c \in shown'[i] \/ k > clock[i][c]
      BY <1>1, <1>6, <2>2, <3>1 DEF RoomClaims, Claim
    <3>3. ~(First(c) /\ RoomShows(i, c, k))
      <4>1. clock[i][c] \in Nat
        BY <1>1, TypeFacts DEF Clocks
      <4> QED
        BY <1>1, <1>3, <3>1, <3>2, <4>1 DEF RoomShows, Shows
    <3> QED
      BY <1>1, <1>5, <2>1, <2>2, <3>1, <3>2, <3>3 DEF RoomFollows
  <2>3. CASE j # i
    <3>1. /\ shown'[j] = shown[j] /\ clock'[j] = clock[j]
          /\ Entries(bus'[j]) = IF j \in Rooms THEN Entries(bus[j]) \cup r ELSE Entries(bus[j])
      BY <1>1, <2>3, NodesOfBoth DEF Leaves, Publishes
    <3>2. RoomClaims(j, c, k)
      <4>1. Tells(Entries(bus'[j]), c, k) => Tells(Entries(bus[j]), c, k)
        BY <1>4, <3>1 DEF Tells
      <4> QED
        BY <1>6, <3>1, <4>1 DEF RoomClaims, Claim
    <3>3. Entries(bus'[j]) = Entries(bus[j]) \cup r
      BY <3>1, <3>2, ClaimsOfRooms
    <3>4. First(c) /\ RoomShows(i, c, k) => Removes(r, c, k)
      BY <1>3, <1>4 DEF RoomShows, Shows
    <3>5. Removes(Entries(bus[j]), c, k) \/ Removes(r, c, k)
      BY <1>5, <2>1, <3>2, <3>4 DEF RoomFollows
    <3> QED
      BY <3>3, <3>5 DEF Removes
  <2> QED
    BY <2>2, <2>3
<1> QED
  BY <1>2, <1>6 DEF Followed, RoomFollows

(* A room relays what it hears to its own clients only; in an answer it tells the others what
   it shows, and no removal of that is waiting in its inbox, the client not being in late. *)
LEMMA FollowedBus ==
  ASSUME PresenceInv, SocketsInv, PresenceInv', NEW c \in Clients, Followed(c), c \notin late',
         First(c)' => HomeKnows(c)', NEW i \in Instances, ReceiveBus(i)
  PROVE  Followed(c)'
<1> DEFINE u == Head(bus[i])
           m == Encode(i, shown[i])
           w == Entries(bus'[i])
           h == Room(c)
<1>1. /\ Alone /\ UNCHANGED <<conn, at, controlled, up>>
      /\ late' = late \cup IF u = Request THEN AnsweredLate(i) ELSE {}
      /\ i \in Nodes /\ u \in Frame /\ Entries(bus[i]) = u \cup w /\ Leaves(i)
      /\ u = Request => /\ UNCHANGED <<clock, shown, down>> /\ Publishes(i, Rooms, m)
      /\ u # Request => /\ Merge(i, u) /\ \A j \in Instances \ {i} : bus'[j] = bus[j]
  BY BusDoes
<1>2. c \in Clients \ {i}
  BY NodesOfBoth
<1>3. (First(c)' <=> First(c)) /\ (First(c) => Room(c)' = h /\ h \in Instances)
  BY <1>1, FirstStays, HighestTyped DEF Alone
<1>4. RoomFollows(i, c) /\ (First(c) /\ i # h => HomeHearsLast(i, c))
  BY DEF Followed
<1>5. w \subseteq Entries(bus[i])
  BY <1>1
<1>6. CASE u = Request
  <2>1. \A k : /\ Tells(m, c, k) <=> c \in shown[i] /\ k = clock[i][c]
               /\ ~Removes(m, c, k)
    BY EncodedSays
  <2>2. c \in shown[i] => ~Removes(Entries(bus[i]), c, clock[i][c])
    BY <1>1, <1>2, <1>6 DEF AnsweredLate
  <2>3. Entries(bus[i]) = w
    BY <1>1, <1>6 DEF Request
  <2>4. Publishes(i, Rooms, m) /\ UNCHANGED <<clock, shown>>
    BY <1>1, <1>6
  <2> HIDE DEF u, m
  <2>5. \A k \in Nat : RoomClaims(i, c, k)' =>
          /\ RoomClaims(i, c, k) /\ ~Removes(m, c, k)
          /\ Removes(Entries(bus[i]), c, k) => Removes(Entries(bus'[i]), c, k)
    BY <2>1, <2>3, <2>4 DEF RoomClaims
  <2>6. \A k \in Nat : RoomShows(i, c, k) => Shows(shown'[i], clock'[i][c], c, k)
    BY <2>4 DEF RoomShows
  <2>7. ASSUME NEW k \in Nat, Tells(m, c, k)
        PROVE  /\ First(c) /\ Shows(shown'[h], clock'[h][c], c, k)
               /\ ~Removes(Entries(bus'[h]), c, k)
    <3>1. c \in shown[i] /\ k = clock[i][c] /\ ~Removes(w, c, k)
      BY <2>1, <2>2, <2>3, <2>7
    <3>2. RoomClaims(i, c, k)
      BY <3>1 DEF RoomClaims, Claim
    <3> HIDE DEF h, w
    <3>3. First(c) /\ RoomShows(h, c, k)
      BY <1>4, <2>3, <3>1, <3>2 DEF RoomFollows, h
    <3>4. ~Removes(Entries(bus'[h]), c, k)
      <4>1. CASE h = i
        BY <3>1, <4>1 DEF w
      <4>2. CASE h # i
        <5>1. ~Removes(Entries(bus[h]), c, k)
          BY <1>4, <2>3, <3>1, <3>2, <3>3, <4>2 DEF HomeHearsLast, h
        <5>2. Entries(bus'[h]) \subseteq Entries(bus[h]) \cup m
          BY <1>3, <2>4, <3>3, <4>2 DEF Publishes
        <5> QED
          BY <2>1, <5>1, <5>2 DEF Removes
      <4> QED
        BY <4>1, <4>2
    <3> QED
      BY <2>4, <3>3, <3>4 DEF RoomShows
  <2> HIDE DEF h, w
  <2>8. \A k \in Nat : Tells(m, c, k) =>
          /\ First(c) /\ Shows(shown'[Room(c)], clock'[Room(c)][c], c, k)
          /\ ~Removes(Entries(bus'[Room(c)]), c, k)
    BY <2>7 DEF h
  <2> QED
    BY <1>1, <1>3, <1>5, <2>4, <2>5, <2>6, <2>8, FollowedSpoken DEF h, w
<1>7. CASE u # Request
  <2>1. Merge(i, u) /\ Publishes(i, Rooms, {})
    BY <1>1, <1>7 DEF Publishes
  <2>2. \A k \in Nat : Claim(shown'[i], clock'[i][c], w, c, k) =>
            Claim(shown[i], clock[i][c], u \cup w, c, k) /\ (Removes(u \cup w, c, k) => Removes(w, c, k))
    BY <1>1, <1>2, <2>1, MergeClaims
  <2>3. \A k \in Nat : RoomShows(i, c, k) => Shows(shown'[i], clock'[i][c], c, k) \/ Removes(u, c, k)
    BY <1>1, <1>2, <2>1, MergeShows DEF RoomShows
  <2> HIDE DEF u
  <2>4. \A k : ~Removes({}, c, k) /\ ~Tells({}, c, k)
    BY SaysUnion
  <2>5. \A k \in Nat : RoomClaims(i, c, k)' =>
          /\ RoomClaims(i, c, k) /\ ~Removes({}, c, k)
          /\ Removes(Entries(bus[i]), c, k) => Removes(Entries(bus'[i]), c, k)
    BY <1>1, <2>2, <2>4 DEF RoomClaims
  <2>6. \A k \in Nat : RoomShows(i, c, k) =>
          \/ Shows(shown'[i], clock'[i][c], c, k)
          \/ Removes({}, c, k) \/ Removes(Entries(bus[i]), c, k)
    <3>1. \A k : Removes(u, c, k) => Removes(Entries(bus[i]), c, k)
      BY <1>1 DEF Removes
    <3> QED
      BY <2>3, <3>1
  <2> QED
    BY <1>1, <1>3, <1>5, <2>1, <2>4, <2>5, <2>6, FollowedSpoken
<1> QED
  BY <1>6, <1>7

LEMMA FollowedExpire ==
  ASSUME PresenceInv, SocketsInv, PresenceInv', NEW c \in Clients, Followed(c),
         First(c)' => HomeKnows(c)', NEW i \in Instances, NEW e \in Clients, Expire(i, e)
  PROVE  Followed(c)'
<1> DEFINE r == Removal(i, {e})
<1>1. /\ Alone /\ UNCHANGED <<conn, at, controlled, up, late, clock>> /\ i \in Nodes /\ Leaves(i)
      /\ shown'[i] = shown[i] \ {e} /\ bus'[i] = bus[i] /\ Publishes(i, Rooms, r)
  BY ExpireDoes
<1>2. \A k : ~Tells(r, c, k) /\ (Removes(r, c, k) <=> c \in {e} /\ clock[i][c] >= k)
  BY RemovalSays
<1> HIDE DEF r
<1>3. (First(c)' <=> First(c)) /\ (First(c) => Room(c)' = Room(c)) /\ clock[i][c] \in Nat
  BY <1>1, FirstStays, TypeFacts DEF Alone, Clocks
<1>4. \A k \in Nat : RoomClaims(i, c, k)' =>
          /\ RoomClaims(i, c, k) /\ ~Removes(r, c, k)
          /\ Removes(Entries(bus[i]), c, k) => Removes(Entries(bus'[i]), c, k)
  BY <1>1, <1>2, <1>3 DEF RoomClaims, Claim
<1>5. \A k \in Nat : RoomShows(i, c, k) =>
          \/ Shows(shown'[i], clock'[i][c], c, k)
          \/ Removes(r, c, k) \/ Removes(Entries(bus[i]), c, k)
  BY <1>1, <1>2, <1>3 DEF RoomShows, Shows
<1> QED
  BY <1>1, <1>2, <1>3, <1>4, <1>5, FollowedSpoken

(* The client counts as long as it is on its first socket: until then it was followed. *)
LEMMA FollowedStep ==
  ASSUME PresenceInv, SocketsInv, KnownInv, ControlsInv, FollowInv, Next, ~faulty'
  PROVE  FollowInv'
<1> SUFFICES ASSUME NEW c \in Clients, last'[c] <= 1, c \notin late'
             PROVE  Followed(c)'
  BY DEF FollowInv
<1>1. PresenceInv' /\ KnownInv'
  BY InvStep, KnownStep
<1>2. last[c] <= 1 /\ c \notin late
  <2>1. last \in [Clients -> 0 .. MaxSockets] /\ last' \in [Clients -> 0 .. MaxSockets]
    BY <1>1, InvParts DEF Sides
  <2>2. ASSUME NEW e \in Clients, NEW x \in Instances, Open(e, x)
        PROVE  last[c] <= last'[c] /\ late' = late
    <3>1. last' = [last EXCEPT ![e] = last[e] + 1] /\ late' = late
      BY <2>2 DEF Open
    <3> QED
      BY <2>1, <3>1
  <2>3. ASSUME NEW e \in Clients, ClientStep(e)
        PROVE  last' = last /\ late' = late
    BY <2>3, ClientDoes
  <2>4. ASSUME NEW s \in Sockets, Join(s) \/ HandleAwareness(s) \/ SocketClosed(s)
        PROVE  last' = last /\ late' = late
    BY <2>4 DEF Join, HandleAwareness, SocketClosed, provider
  <2>5. ASSUME NEW x \in Instances, ReceiveBus(x)
        PROVE  last' = last /\ late \subseteq late'
    BY <2>5 DEF ReceiveBus, provider
  <2>6. ASSUME NEW x \in Instances, NEW e \in Clients, Expire(x, e)
        PROVE  last' = last /\ late' = late
    BY <2>6 DEF Expire, provider
  <2>7. last'[c] >= last[c] /\ late \subseteq late'
    <3>1. last[c] \in Nat
      BY <2>1
    <3> QED
      BY <2>2, <2>3, <2>4, <2>5, <2>6, <3>1, StepsOf
  <2> QED
    BY <2>1, <2>7
<1>3. Followed(c)
  BY <1>2 DEF FollowInv
<1>4. First(c) => HomeKnows(c) /\ HomeControls(c)
  <2>1. First(c) => Fresh(c)
    BY DEF First, Fresh, Joined
  <2> QED
    BY <2>1 DEF KnownInv, ControlsInv
<1>5. First(c)' => HomeKnows(c)'
  <2>1. First(c)' => Fresh(c)'
    BY DEF First, Fresh, Joined
  <2> QED
    BY <1>1, <2>1 DEF KnownInv
<1>6. ASSUME NEW s \in Sockets, SocketClosed(s)
      PROVE  Followed(c)'
  <2>1. CASE s = Current(c)
    BY <1>3, <1>4, <1>6, <2>1, FollowedGone
  <2>2. CASE s # Current(c)
    BY <1>1, <1>2, <1>3, <1>5, <1>6, <2>2, FollowedClose
  <2> QED
    BY <2>1, <2>2
<1>7. ASSUME NEW s \in Sockets, HandleAwareness(s)
      PROVE  Followed(c)'
  BY <1>1, <1>2, <1>3, <1>4, <1>5, <1>7, FollowedHandle
<1>8. ASSUME NEW i \in Instances, ReceiveBus(i)
      PROVE  Followed(c)'
  BY <1>1, <1>3, <1>5, <1>8, FollowedBus
<1>9. ASSUME NEW i \in Instances, NEW e \in Clients, Expire(i, e)
      PROVE  Followed(c)'
  BY <1>1, <1>3, <1>5, <1>9, FollowedExpire
<1>10. ASSUME NEW e \in Clients, NEW i \in Instances, Open(e, i)
       PROVE  Followed(c)'
  BY <1>3, <1>10, FollowedOpen
<1>11. ASSUME NEW e \in Clients, ClientStep(e)
       PROVE  Followed(c)'
  BY <1>3, <1>11, FollowedClient
<1>12. ASSUME NEW s \in Sockets, Join(s)
       PROVE  Followed(c)'
  BY <1>3, <1>12, FollowedJoin
<1> QED
  BY <1>6, <1>7, <1>8, <1>9, <1>10, <1>11, <1>12, StepsOf

LEMMA GhostInit == Init => GhostInv
<1> SUFFICES ASSUME Init PROVE GhostInv
  OBVIOUS
<1>1. /\ linked = {} /\ \A c \in Clients : last[c] = 0
      /\ \A s \in Sockets : Entries(up[s]) = {} /\ Entries(down[s]) = {}
      /\ \A i \in Instances : Entries(bus[i]) = {} /\ shown[i] = {}
  <2>1. linked = {} /\ \A c \in Clients : last[c] = 0
    BY DEF Init
  <2>2. \A s \in Sockets : Entries(up[s]) = {} /\ Entries(down[s]) = {}
    BY EntriesEmpty DEF Init
  <2>3. ASSUME NEW i \in Instances
        PROVE  Entries(bus[i]) = {} /\ shown[i] = {}
    <3>1. bus[i] = <<>>
      BY DEF Init
    <3>2. i \in Nodes /\ i \notin Clients
      BY NodesOfBoth
    <3>3. shown = [n \in Nodes |-> {n} \cap Clients]
      BY DEF Init
    <3> QED
      BY <3>1, <3>2, <3>3, EntriesEmpty
  <2> QED
    BY <2>1, <2>2, <2>3
<1>2. ASSUME NEW c \in Clients
      PROVE  ~First(c)
  <2>1. last[c] # 1
    BY <1>1
  <2> QED
    BY <2>1 DEF First
<1>3. ClientsFollow
  <2>1. Online = {}
    BY <1>1 DEF Online
  <2> QED
    BY <2>1 DEF ClientsFollow
<1>4. KnownInv
  <2> SUFFICES ASSUME NEW c \in Clients PROVE HomeKnows(c)
    BY DEF KnownInv
  <2>1. Highest(c) = 0
    BY <1>2 DEF Highest
  <2>2. \A n \in Nodes \ {c} : clock[n][c] = 0
    BY DEF Init
  <2>3. \A n \in Nodes \ {c} : clock[n][c] <= Highest(c)
    BY <2>1, <2>2
  <2>4. \A k : UpTo({}, c, k)
    BY DEF UpTo
  <2>5. /\ \A s \in Sockets : UpTo(Entries(down[s]), c, Highest(c)) /\ UpTo(Entries(up[s]), c, Highest(c))
        /\ \A i \in Instances : UpTo(Entries(bus[i]), c, Highest(c))
    BY <1>1, <2>4
  <2> QED
    BY <2>3, <2>5 DEF HomeKnows
<1>5. ControlsInv
  BY <1>1, <1>2 DEF ControlsInv, OwnRemovalLast
<1>6. FollowInv
  <2>1. ASSUME NEW c \in Clients, NEW i \in Instances, NEW k \in Nat
        PROVE  ~RoomClaims(i, c, k)
    BY <1>1, SaysUnion DEF RoomClaims, Claim
  <2> QED
    BY <1>2, <2>1 DEF FollowInv, Followed, RoomFollows
<1> QED
  BY <1>3, <1>4, <1>5, <1>6 DEF GhostInv

LEMMA GhostKept == PresenceInv /\ SocketsInv /\ GhostInv /\ [Next]_vars => GhostInv'
<1> SUFFICES ASSUME PresenceInv, SocketsInv, GhostInv, [Next]_vars, ~faulty'
             PROVE  ClientsFollow' /\ KnownInv' /\ ControlsInv' /\ FollowInv'
  BY DEF GhostInv
<1>1. CASE Next
  <2>1. ~faulty
    <3>1. ASSUME NEW d \in Clients
          PROVE  /\ \A i \in Instances : Open(d, i) => faulty' = faulty
                 /\ Announce(d) \/ Receive(d) \/ Lost(d) \/ Break(d) => faulty' = faulty
                 /\ \A says \in BOOLEAN : Leave(d, says) => faulty' = faulty
                 /\ \A n \in Nodes : Expire(n, d) => faulty' = faulty
      BY DEF Open, Announce, Receive, Lost, Break, Leave, Expire
    <3>2. ASSUME NEW s \in Sockets, Join(s) \/ HandleAwareness(s) \/ SocketClosed(s)
          PROVE  faulty' = faulty
      BY <3>2 DEF Join, HandleAwareness, SocketClosed
    <3>3. \A i \in Instances : ReceiveBus(i) => faulty' = faulty
      BY DEF ReceiveBus
    <3>4. (\A s \in Sockets : ~Drop(s)) /\ (\A i \in Instances : ~Crash(i))
      BY DEF Drop, Crash
    <3>5. faulty' = faulty
      BY <1>1, <3>1, <3>2, <3>3, <3>4 DEF Next
    <3> QED
      BY <3>5
  <2>2. ClientsFollow /\ KnownInv /\ ControlsInv /\ FollowInv
    BY <2>1 DEF GhostInv
  <2> QED
    BY <1>1, <2>2, FollowStep, KnownStep, ControlsStep, FollowedStep
<1>2. CASE UNCHANGED vars
  <2>1. UNCHANGED <<clock, shown, here, linked, last, conn, at, controlled, cut, up, down, bus, faulty, late>>
    BY <1>2 DEF vars, awareness, provider, server
  <2>2. ClientsFollow /\ KnownInv /\ ControlsInv /\ FollowInv
    BY <2>1 DEF GhostInv
  <2>3. Online' = Online /\ (\A c : /\ Current(c)' = Current(c) /\ Room(c)' = Room(c)
                                    /\ (Joined(c)' <=> Joined(c)) /\ (First(c)' <=> First(c)))
    BY <2>1 DEF Online, Current, Room, Joined, First
  <2>4. ClientsFollow'
    <3>1. ASSUME NEW d \in Online, NEW c \in Clients \ {d}
          PROVE  /\ OldRemovals(d, c)' <=> OldRemovals(d, c)
                 /\ ClientFollows(d, c)' <=> ClientFollows(d, c)
      BY <2>1, <2>3 DEF OldRemovals, ClientFollows, ClientClaims, RoomShows
    <3> QED
      BY <2>2, <2>3, <3>1 DEF ClientsFollow
  <2>5. KnownInv'
    <3>1. ASSUME NEW c \in Clients
          PROVE  (Fresh(c)' <=> Fresh(c)) /\ Highest(c)' = Highest(c)
      BY <2>1, <2>3 DEF Fresh, Highest
    <3>2. ASSUME NEW c \in Clients
          PROVE  HomeKnows(c)' <=> HomeKnows(c)
      BY <2>1, <2>3, <3>1 DEF HomeKnows
    <3> QED
      BY <2>2, <3>1, <3>2 DEF KnownInv
  <2>6. ControlsInv'
    <3>1. ASSUME NEW c \in Clients
          PROVE  HomeControls(c)' <=> HomeControls(c)
      BY <2>1, <2>3 DEF HomeControls
    <3> QED
      BY <2>1, <2>2, <2>3, <3>1 DEF ControlsInv, OwnRemovalLast
  <2>7. FollowInv'
    <3>1. ASSUME NEW c \in Clients, NEW i \in Instances
          PROVE  /\ RoomFollows(i, c)' <=> RoomFollows(i, c)
                 /\ HomeHearsLast(i, c)' <=> HomeHearsLast(i, c)
      BY <2>1, <2>3 DEF RoomFollows, HomeHearsLast, RoomClaims, RoomShows
    <3>2. ASSUME NEW c \in Clients, Followed(c)
          PROVE  Followed(c)'
      BY <2>3, <3>1, <3>2 DEF Followed
    <3> QED
      BY <2>1, <2>2, <3>2 DEF FollowInv
  <2> QED
    BY <2>4, <2>5, <2>6, <2>7
<1> QED
  BY <1>1, <1>2

(* While no presence frame is dropped and no instance dies, what anyone shows of a client
   on its first socket has the room of that client behind it, or a removal on its way, and
   the connection of the client controls what the room shows of it (handleAwareness() of
   client.ts, onAwarenessUpdate() and remove() of room.ts). *)
THEOREM GhostInvariant == Spec => []GhostInv
<1>1. Init /\ [][Next]_vars => []GhostInv
  BY GhostInit, GhostKept, PresenceInvariant, SocketsInvariant, PTL DEF Spec
<1> QED
  BY <1>1, PTL DEF Spec

(* Once all is quiet and nothing was lost, nobody shows a client that has gone, unless
   it has been back in between or an instance answered with it after a removal that had
   already reached it: the removal with the closed socket (onSocketClosed() of client.ts,
   remove() of room.ts) gets to every room and every client that shows it, in whatever order
   they join, hear of each other and leave. *)
THEOREM GhostsAreExplained == Spec => []GhostsHaveReturned
<1>1. PresenceInv /\ SocketsInv /\ GhostInv => GhostsHaveReturned
  <2> SUFFICES ASSUME PresenceInv, SocketsInv, GhostInv, Quiet, ~faulty,
                      NEW n \in Nodes, NEW c \in shown[n] \ linked, c # n, ~(last[c] > 1), c \notin late
               PROVE  FALSE
    BY DEF GhostsHaveReturned
  <2>1. /\ clock \in Clocks /\ shown \in [Nodes -> SUBSET Clients] /\ last \in [Clients -> 0 .. MaxSockets]
        /\ c \in Clients /\ MaxSockets \in Nat
    BY TypeFacts
  <2>2. /\ \A s \in Sockets : Entries(down[s]) = {}
        /\ \A i \in Instances : Entries(bus[i]) = {}
        /\ \A s \in Sockets : conn[s] \in {"none", "gone"} \/ (conn[s] = "joined" /\ Reader(s))
        /\ linked = Online
    BY EntriesEmpty DEF Quiet, Still
  <2>3. Followed(c)
    <3>1. last[c] <= 1
      BY <2>1
    <3> QED
      BY <2>1, <3>1 DEF GhostInv, FollowInv
  <2>4. ~First(c)
    <3> SUFFICES ASSUME First(c) PROVE FALSE
      OBVIOUS
    <3>1. Reader(Current(c)) /\ Current(c)[1] = c
      BY <2>1, <2>2, HighestTyped, CurrentSockets
    <3> QED
      BY <3>1 DEF Reader
  <2>5. ASSUME NEW i \in Instances, NEW k \in Nat
        PROVE  ~(c \in shown[i] /\ k = clock[i][c])
    <3>1. ~Removes(Entries(bus[i]), c, k)
      BY <2>2, SaysUnion
    <3>2. ~RoomClaims(i, c, k)
      BY <2>3, <2>4, <3>1 DEF Followed, RoomFollows
    <3> QED
      BY <3>2 DEF RoomClaims, Claim
  <2>6. \A i \in Instances : c \notin shown[i]
    <3>1. \A i \in Instances : clock[i][c] \in Nat
      BY <2>1, NodesOfBoth DEF Clocks
    <3> QED
      BY <2>5, <3>1
  <2>7. n \in Clients
    BY <2>6 DEF Nodes
  <2>8. n \in Online /\ Current(n) \in Sockets /\ Joined(n) /\ Room(n) \in Instances
    <3>1. n \in linked /\ conn[Current(n)] # "queued"
      BY <2>7 DEF SocketsInv, ClientIs
    <3>2. n \in Online /\ conn[Current(n)] \in {"queued", "joined"}
      BY <2>2, <2>7, <3>1 DEF SocketsInv, ClientIs
    <3>3. Current(n) \in Sockets
      BY <3>1, CurrentSockets
    <3> QED
      BY <3>1, <3>2, <3>3, TypeFacts DEF Joined, Room
  <2>9. ClientFollows(n, c)
    BY <2>1, <2>8 DEF GhostInv, ClientsFollow
  <2>10. clock[n][c] \in Nat /\ ClientClaims(n, c, clock[n][c])
    BY <2>1 DEF Clocks, ClientClaims, Claim
  <2>11. ~Removes(Entries(down[Current(n)]), c, clock[n][c])
    BY <2>2, <2>8, SaysUnion
  <2>12. RoomShows(Room(n), c, clock[n][c])
    BY <2>9, <2>10, <2>11 DEF ClientFollows
  <2> QED
    BY <2>6, <2>8, <2>12 DEF RoomShows, Shows
<1> QED
  BY <1>1, GhostInvariant, SocketsInvariant, PresenceInvariant, PTL

=============================================================================
