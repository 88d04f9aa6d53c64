------------------------- MODULE RoomRegistryProofs -------------------------
(***************************************************************************)
(* Proofs about RoomRegistry for any number of clients, updates and rooms. *)
(* RegistryInv is inductive; the safety properties follow from it.         *)
(***************************************************************************)
EXTENDS RoomRegistry, TLAPS

(* None is not a room. *)
LEMMA NoneIsNoRoom == None \notin Rooms /\ Rooms \subseteq Nat
  BY RegistryAssumption DEF None, Rooms

(* The initial state satisfies the inductive invariant. *)
LEMMA InitRegistryInv == Init => RegistryInv
<1> SUFFICES ASSUME Init PROVE RegistryInv
  OBVIOUS
<1>1. TypeOK
  <2>1. queued \in [Clients -> Seq(Edits)] /\ \A c \in Clients : Len(queued[c]) <= MAX_QUEUED_FRAMES
    BY RegistryAssumption DEF Init
  <2>2. user \in [Clients -> BOOLEAN]
    BY DEF Init
  <2> QED
    BY <2>1, <2>2 DEF Init, TypeOK, Stages
<1>2. OneRoom /\ NoGhosts /\ RoomHasClients
  BY NoneIsNoRoom DEF Init, OneRoom, NoGhosts, RoomHasClients
<1>3. OneLoad /\ JoinsOnce /\ AcceptedKept /\ DocumentsKept
  BY NoneIsNoRoom DEF Init, OneLoad, JoinsOnce, AcceptedKept, DocumentsKept
<1> QED
  BY <1>1, <1>2, <1>3 DEF RegistryInv

(* Where updates are kept depends on nothing but the writers and the store. *)
LEMMA KeptUnchanged ==
  ASSUME AcceptedKept, DocumentsKept,
         UNCHANGED <<accepted, doc, saved, dropped, pending, writing>>
  PROVE  AcceptedKept' /\ DocumentsKept'
  BY DEF AcceptedKept, DocumentsKept, Kept

(* Opening and closing sockets: sockets that only begin to close change no
   room. *)
LEMMA SocketInv ==
  ASSUME RegistryInv,
         (\E c \in Clients : Connect(c)) \/ (\E cs \in SUBSET Clients : StartClosing(cs))
  PROVE  RegistryInv'
<1> USE DEF RegistryInv
<1>1. /\ UNCHANGED <<user, room, queued, rooms, opening, waiting>>
      /\ UNCHANGED <<stage, members, doc, pending, writing, saved, dropped, sent, accepted>>
  BY DEF Connect, StartClosing, registry, writer
<1>2. /\ socket' \in [Clients -> {"new", "open", "closing", "closed"}]
      /\ \A d \in Clients : socket'[d] \in {"new", "closed"} => socket'[d] = socket[d]
  BY DEF TypeOK, Connect, StartClosing, CloseAll, IsOpen
<1>3. TypeOK'
  BY <1>1, <1>2 DEF TypeOK
<1>4. OneRoom' /\ RoomHasClients' /\ OneLoad'
  BY <1>1 DEF OneRoom, RoomHasClients, OneLoad
<1>5. NoGhosts'
  BY <1>1, <1>2 DEF NoGhosts, TypeOK
<1>6. JoinsOnce'
  BY <1>1, <1>2 DEF JoinsOnce
<1> QED
  BY <1>1, <1>3, <1>4, <1>5, <1>6, KeptUnchanged

(* A socket closes: its connection leaves the room it had joined, and the room
   goes with the last of them. *)
LEMMA SocketClosedInv ==
  ASSUME RegistryInv, NEW c \in Clients, SocketClosed(c)
  PROVE  RegistryInv'
<1> USE DEF RegistryInv
<1>1. /\ socket' = [socket EXCEPT ![c] = "closed"]
      /\ UNCHANGED <<user, queued, opening, waiting>>
      /\ UNCHANGED <<doc, pending, writing, saved, dropped, sent, accepted>>
  BY DEF SocketClosed, writer
<1>2. AcceptedKept' /\ DocumentsKept'
  BY <1>1, KeptUnchanged
<1>3. CASE room[c] = None
  <2>1. UNCHANGED <<room, rooms, stage, members>>
    BY <1>3 DEF SocketClosed
  <2>2. TypeOK'
    BY <1>1, <2>1 DEF TypeOK
  <2>3. OneRoom' /\ RoomHasClients' /\ OneLoad'
    BY <1>1, <2>1 DEF OneRoom, RoomHasClients, OneLoad
  <2>4. NoGhosts'
    BY <1>1, <1>3, <2>1, NoneIsNoRoom DEF NoGhosts, TypeOK
  <2>5. JoinsOnce'
    BY <1>1, <1>3, <2>1 DEF JoinsOnce, TypeOK
  <2> QED
    BY <1>2, <2>2, <2>3, <2>4, <2>5
<1>4. CASE room[c] # None
  <2> DEFINE r == room[c]
             m == members[r] \ {c}
  <2>1. r \in Rooms /\ rooms = r /\ c \in members[r]
    BY <1>4 DEF TypeOK, OneRoom
  <2>2. /\ room' = [room EXCEPT ![c] = None]
        /\ members' = [members EXCEPT ![r] = m]
        /\ rooms' = IF m = {} THEN None ELSE r
        /\ stage' = [stage EXCEPT ![r] = IF m = {} THEN "unsubscribing" ELSE "open"]
    BY <1>4 DEF SocketClosed, RoomKeeps
  <2>3. stage[r] = "open" /\ opening = None
    BY <2>1, NoneIsNoRoom DEF RoomHasClients, OneLoad
  <2>4. \A q \in Rooms \ {r} : members[q] = {} /\ members'[q] = {} /\ stage'[q] = stage[q]
    BY <2>1, <2>2 DEF RoomHasClients, TypeOK
  <2>5. members'[r] = m /\ stage'[r] = IF m = {} THEN "unsubscribing" ELSE "open"
    BY <2>1, <2>2 DEF TypeOK
  <2>6. TypeOK'
    BY <1>1, <2>1, <2>2 DEF TypeOK, Stages
  <2>7. OneRoom'
    <3> SUFFICES ASSUME NEW d \in Clients, room'[d] # None
                 PROVE  room'[d] = rooms' /\ d \in members'[rooms']
      BY DEF OneRoom
    <3>1. d # c /\ room[d] # None /\ room'[d] = room[d]
      BY <2>2 DEF TypeOK
    <3>2. room[d] = r /\ d \in m
      BY <2>1, <3>1 DEF OneRoom
    <3> QED
      BY <2>2, <2>5, <3>1, <3>2
  <2>8. NoGhosts'
    BY <1>1, <2>1, <2>2, <2>4, <2>5 DEF NoGhosts, TypeOK
  <2>9. RoomHasClients'
    BY <2>1, <2>2, <2>4, <2>5, NoneIsNoRoom DEF RoomHasClients
  <2>10. OneLoad'
    BY <1>1, <2>1, <2>3, <2>4, <2>5 DEF OneLoad
  <2>11. JoinsOnce'
    BY <1>1, <2>2 DEF JoinsOnce, TypeOK
  <2> QED
    BY <1>2, <2>6, <2>7, <2>8, <2>9, <2>10, <2>11
<1> QED
  BY <1>3, <1>4

(* Clients that had no room are added to room r, the only one the registry can
   hold; whoever is no longer open leaves no trace. *)
LEMMA ArriveKeeps ==
  ASSUME TypeOK, OneRoom, NoGhosts, RoomHasClients,
         NEW r \in Rooms, rooms \in {None, r},
         NEW cs \in SUBSET Clients, \A c \in cs : room[c] = None,
         Arrive(r, cs), socket' = socket
  PROVE  /\ OneRoom' /\ NoGhosts' /\ RoomHasClients'
         /\ room' \in [Clients -> Rooms \cup {None}]
         /\ members' \in [Rooms -> SUBSET Clients]
         /\ rooms' \in Rooms \cup {None}
         /\ stage' \in [Rooms -> Stages]
         /\ \A q \in Rooms \ {r} : stage'[q] = stage[q]
         /\ stage'[r] \in {"open", "unsubscribing"}
         /\ \A c \in Clients : room'[c] # room[c] => c \in cs /\ IsOpen(c)
<1> DEFINE stay == {c \in cs : IsOpen(c)}
           m == members[r] \cup stay
<1>1. /\ members' = [members EXCEPT ![r] = m]
      /\ rooms' = IF m = {} THEN None ELSE r
      /\ stage' = [stage EXCEPT ![r] = IF m = {} THEN "unsubscribing" ELSE "open"]
      /\ room' = [c \in Clients |-> IF c \in stay THEN r ELSE room[c]]
  BY DEF Arrive, RoomKeeps
<1>2. m \subseteq Clients
  BY DEF TypeOK
<1>3. \A q \in Rooms \ {r} : members[q] = {} /\ members'[q] = {} /\ stage'[q] = stage[q]
                          /\ stage[q] # "open"
  BY <1>1, NoneIsNoRoom DEF RoomHasClients, TypeOK
<1>4. members'[r] = m /\ stage'[r] = IF m = {} THEN "unsubscribing" ELSE "open"
  BY <1>1 DEF TypeOK
<1>5. /\ room' \in [Clients -> Rooms \cup {None}] /\ members' \in [Rooms -> SUBSET Clients]
      /\ rooms' \in Rooms \cup {None} /\ stage' \in [Rooms -> Stages]
  BY <1>1, <1>2 DEF TypeOK, Stages
<1>6. OneRoom'
  <2> SUFFICES ASSUME NEW d \in Clients, room'[d] # None
               PROVE  room'[d] = rooms' /\ d \in members'[rooms']
    BY DEF OneRoom
  <2>1. CASE d \in stay
    BY <1>1, <1>4, <2>1
  <2>2. CASE d \notin stay
    <3>1. room'[d] = room[d]
      BY <1>1, <2>2
    <3>2. room[d] = r /\ d \in members[r]
      BY <3>1 DEF OneRoom, TypeOK
    <3> QED
      BY <1>1, <1>4, <3>1, <3>2
  <2> QED
    BY <2>1, <2>2
<1>7. NoGhosts'
  <2> SUFFICES ASSUME NEW d \in m PROVE socket'[d] # "closed" /\ room'[d] = r
    BY <1>3, <1>4 DEF NoGhosts
  <2>1. CASE d \in stay
    BY <1>1, <2>1 DEF IsOpen
  <2>2. CASE d \in members[r]
    BY <1>1, <1>2, <2>2 DEF NoGhosts
  <2> QED
    BY <2>1, <2>2
<1>8. RoomHasClients'
  BY <1>1, <1>3, <1>4, NoneIsNoRoom DEF RoomHasClients
<1>9. \A c \in Clients : room'[c] # room[c] => c \in stay
  BY <1>1
<1> QED
  BY <1>3, <1>4, <1>5, <1>6, <1>7, <1>8, <1>9

(* A valid token while the registry holds a room. *)
LEMMA JoinOpenRoomInv ==
  ASSUME RegistryInv, NEW c \in Clients, JoinOpenRoom(c)
  PROVE  RegistryInv'
<1> USE DEF RegistryInv
<1>1. /\ CanDeliver(c) /\ ~user[c] /\ rooms # None /\ rooms \in Rooms
      /\ user' = [user EXCEPT ![c] = TRUE] /\ Arrive(rooms, {c})
      /\ UNCHANGED <<socket, queued, opening, waiting>>
      /\ UNCHANGED <<doc, pending, writing, saved, dropped, sent, accepted>>
  BY DEF JoinOpenRoom, writer, TypeOK
<1>2. room[c] = None
  BY <1>1 DEF JoinsOnce
<1>3. /\ OneRoom' /\ NoGhosts' /\ RoomHasClients'
      /\ room' \in [Clients -> Rooms \cup {None}]
      /\ members' \in [Rooms -> SUBSET Clients]
      /\ rooms' \in Rooms \cup {None}
      /\ stage' \in [Rooms -> Stages]
      /\ \A q \in Rooms \ {rooms} : stage'[q] = stage[q]
      /\ stage'[rooms] \in {"open", "unsubscribing"}
      /\ \A d \in Clients : room'[d] # room[d] => d \in {c} /\ IsOpen(d)
  BY <1>1, <1>2, ArriveKeeps
<1>4. /\ user' \in [Clients -> BOOLEAN] /\ user'[c] /\ socket[c] # "new"
      /\ \A d \in Clients : user[d] => user'[d]
      /\ \A d \in Clients \ {c} : user'[d] = user[d]
  BY <1>1 DEF TypeOK, CanDeliver
<1>5. TypeOK'
  BY <1>1, <1>3, <1>4 DEF TypeOK
<1>6. OneLoad'
  BY <1>1, <1>3 DEF OneLoad
<1>7. JoinsOnce'
  BY <1>1, <1>3, <1>4 DEF JoinsOnce, IsOpen, TypeOK
<1> QED
  BY <1>1, <1>3, <1>5, <1>6, <1>7, KeptUnchanged

(* A valid token while it does not. *)
LEMMA JoinByOpeningInv ==
  ASSUME RegistryInv, NEW c \in Clients, JoinByOpening(c)
  PROVE  RegistryInv'
<1> USE DEF RegistryInv
<1>1. /\ CanDeliver(c) /\ ~user[c] /\ rooms = None
      /\ user' = [user EXCEPT ![c] = TRUE] /\ waiting' = waiting \cup {c}
      /\ UNCHANGED <<socket, room, queued, rooms, members>>
      /\ UNCHANGED <<doc, pending, writing, saved, dropped, sent, accepted>>
  BY DEF JoinByOpening, writer
<1>2. room[c] = None
  BY <1>1 DEF JoinsOnce
<1>3. /\ user' \in [Clients -> BOOLEAN] /\ user'[c] /\ socket[c] # "new"
      /\ \A d \in Clients : user[d] => user'[d]
      /\ \A d \in Clients \ {c} : user'[d] = user[d]
  BY <1>1 DEF TypeOK, CanDeliver
<1>4. \/ opening # None /\ opening' = opening /\ stage' = stage
      \/ /\ opening = None
         /\ \E r \in Rooms : /\ stage[r] = "none" /\ opening' = r
                             /\ stage' = [stage EXCEPT ![r] = "reading"]
  BY DEF JoinByOpening
<1>5. /\ opening' \in Rooms \cup {None} /\ stage' \in [Rooms -> Stages]
      /\ \A q \in Rooms : stage'[q] = "open" <=> stage[q] = "open"
  BY <1>4 DEF TypeOK, Stages
<1>6. TypeOK'
  BY <1>1, <1>3, <1>5 DEF TypeOK
<1>7. OneRoom' /\ NoGhosts' /\ RoomHasClients'
  BY <1>1, <1>5 DEF OneRoom, NoGhosts, RoomHasClients
<1>8. OneLoad'
  BY <1>1, <1>4, NoneIsNoRoom DEF OneLoad, TypeOK
<1>9. JoinsOnce'
  BY <1>1, <1>2, <1>3 DEF JoinsOnce, TypeOK
<1> QED
  BY <1>1, <1>6, <1>7, <1>8, <1>9, KeptUnchanged

(* The read of the document, and its failure. *)
LEMMA LoadReadInv ==
  ASSUME RegistryInv, NEW r \in Rooms, LoadRead(r) \/ LoadFails(r)
  PROVE  RegistryInv'
<1> USE DEF RegistryInv
<1>1. /\ UNCHANGED <<user, room, queued, rooms, members>>
      /\ UNCHANGED <<pending, writing, saved, dropped, sent, accepted>>
  BY DEF LoadRead, LoadFails, connection, registry, writer
<1>2. /\ socket' \in [Clients -> {"new", "open", "closing", "closed"}]
      /\ \A d \in Clients : socket'[d] \in {"new", "closed"} => socket'[d] = socket[d]
  BY DEF TypeOK, LoadRead, LoadFails, CloseAll, IsOpen, connection
<1>3. /\ stage[r] = "reading" /\ opening = r /\ rooms = None
      /\ \/ stage' = [stage EXCEPT ![r] = "subscribing"] /\ opening' = opening /\ waiting' = waiting
         \/ stage' = [stage EXCEPT ![r] = "gone"] /\ opening' = None /\ waiting' = {}
  BY NoneIsNoRoom DEF LoadRead, LoadFails, registry, OneLoad
<1>4. doc' \in [Rooms -> SUBSET Edits]
  BY DEF LoadRead, LoadFails, TypeOK
<1>5. TypeOK'
  BY <1>1, <1>2, <1>3, <1>4 DEF TypeOK, Stages
<1>6. OneRoom' /\ RoomHasClients'
  BY <1>1, <1>3 DEF OneRoom, RoomHasClients, TypeOK
<1>7. NoGhosts'
  BY <1>1, <1>2 DEF NoGhosts, TypeOK
<1>8. OneLoad'
  <2>1. \A q \in Rooms : stage[q] \in {"reading", "subscribing"} => q = r
    BY <1>3 DEF OneLoad
  <2>2. stage \in [Rooms -> Stages]
    BY DEF TypeOK
  <2> HIDE DEF RegistryInv
  <2>3. CASE stage' = [stage EXCEPT ![r] = "subscribing"] /\ opening' = opening
    <3>1. /\ stage'[r] = "subscribing"
          /\ \A q \in Rooms : stage'[q] \in {"reading", "subscribing"} => q = r
      BY <2>1, <2>2, <2>3
    <3> QED
      BY <1>1, <1>3, <2>3, <3>1 DEF OneLoad
  <2>4. CASE stage' = [stage EXCEPT ![r] = "gone"] /\ opening' = None
    <3>1. \A q \in Rooms : stage'[q] \notin {"reading", "subscribing"}
      BY <2>1, <2>2, <2>4
    <3> QED
      BY <2>4, <3>1 DEF OneLoad
  <2> QED
    BY <1>3, <2>3, <2>4
<1>9. JoinsOnce'
  BY <1>1, <1>2, <1>3 DEF JoinsOnce, TypeOK
<1>10. AcceptedKept' /\ DocumentsKept'
  <2>1. Kept' = Kept /\ saved \subseteq Kept
    BY <1>1 DEF Kept
  <2>2. \A q \in Rooms : doc'[q] \in {doc[q], saved}
    BY DEF LoadRead, LoadFails, TypeOK
  <2> QED
    BY <1>1, <2>1, <2>2 DEF AcceptedKept, DocumentsKept
<1> QED
  BY <1>5, <1>6, <1>7, <1>8, <1>9, <1>10

(* What a room applies is pending with its writer, unless the document held it
   already and it is kept somewhere. *)
LEMMA DispatchKeeps ==
  ASSUME TypeOK, AcceptedKept, DocumentsKept,
         NEW r \in Rooms, NEW es \in SUBSET Edits, Dispatch(r, es),
         UNCHANGED <<writing, saved, dropped>>
  PROVE  /\ AcceptedKept' /\ DocumentsKept'
         /\ doc' \in [Rooms -> SUBSET Edits] /\ pending' \in [Rooms -> SUBSET Edits]
         /\ accepted' \subseteq Edits
<1>1. /\ doc' = [doc EXCEPT ![r] = @ \cup es]
      /\ pending' = [pending EXCEPT ![r] = @ \cup (es \ doc[r])]
      /\ accepted' = accepted \cup es
  BY DEF Dispatch
<1>2. /\ doc' \in [Rooms -> SUBSET Edits] /\ pending' \in [Rooms -> SUBSET Edits]
      /\ accepted' \subseteq Edits
  BY <1>1 DEF TypeOK
<1>3. \A q \in Rooms : pending[q] \subseteq pending'[q]
  BY <1>1 DEF TypeOK
<1>4. Kept \subseteq Kept'
  BY <1>3 DEF Kept
<1>5. pending'[r] = pending[r] \cup (es \ doc[r])
  BY <1>1 DEF TypeOK
<1>6. pending'[r] \subseteq Kept'
  BY DEF Kept
<1>7. es \subseteq Kept'
  BY <1>4, <1>5, <1>6 DEF DocumentsKept
<1>8. AcceptedKept'
  BY <1>1, <1>4, <1>7 DEF AcceptedKept
<1>9. DocumentsKept'
  <2> SUFFICES ASSUME NEW q \in Rooms PROVE doc'[q] \subseteq Kept'
    BY DEF DocumentsKept
  <2>1. doc'[q] \subseteq doc[q] \cup es
    BY <1>1 DEF TypeOK
  <2> QED
    BY <1>4, <1>7, <2>1 DEF DocumentsKept
<1> QED
  BY <1>2, <1>8, <1>9

(* The loaded room enters the registry with the clients that waited. *)
LEMMA LoadDoneInv ==
  ASSUME RegistryInv, NEW r \in Rooms, LoadDone(r)
  PROVE  RegistryInv'
<1> USE DEF RegistryInv
<1> DEFINE stay == {c \in waiting : IsOpen(c)}
           es == UNION {FramesOf(queued[c]) : c \in stay}
<1>1. /\ stage[r] = "subscribing" /\ opening' = None /\ waiting' = {}
      /\ Arrive(r, waiting) /\ Dispatch(r, es)
      /\ queued' = [c \in Clients |-> IF c \in stay THEN <<>> ELSE queued[c]]
      /\ UNCHANGED <<socket, user, writing, saved, dropped, sent>>
  BY DEF LoadDone
<1>2. opening = r /\ rooms = None
  BY <1>1, NoneIsNoRoom DEF OneLoad
<1>3. \A c \in waiting : room[c] = None /\ user[c] /\ c \in Clients
  BY DEF JoinsOnce, TypeOK
<1>4. /\ OneRoom' /\ NoGhosts' /\ RoomHasClients'
      /\ room' \in [Clients -> Rooms \cup {None}]
      /\ members' \in [Rooms -> SUBSET Clients]
      /\ rooms' \in Rooms \cup {None}
      /\ stage' \in [Rooms -> Stages]
      /\ \A q \in Rooms \ {r} : stage'[q] = stage[q]
      /\ stage'[r] \in {"open", "unsubscribing"}
      /\ \A d \in Clients : room'[d] # room[d] => d \in waiting /\ IsOpen(d)
  BY <1>1, <1>2, <1>3, ArriveKeeps
<1>5. es \subseteq Edits
  <2> SUFFICES ASSUME NEW c \in stay PROVE FramesOf(queued[c]) \subseteq Edits
    OBVIOUS
  <2>1. queued[c] \in Seq(Edits)
    BY <1>3 DEF TypeOK
  <2> QED
    BY <2>1 DEF FramesOf
<1>6. /\ AcceptedKept' /\ DocumentsKept'
      /\ doc' \in [Rooms -> SUBSET Edits] /\ pending' \in [Rooms -> SUBSET Edits]
      /\ accepted' \subseteq Edits
  BY <1>1, <1>5, DispatchKeeps
<1>7. queued' \in [Clients -> Seq(Edits)] /\ \A c \in Clients : Len(queued'[c]) <= MAX_QUEUED_FRAMES
  <2> SUFFICES ASSUME NEW c \in Clients
               PROVE  queued'[c] \in Seq(Edits) /\ Len(queued'[c]) <= MAX_QUEUED_FRAMES
    BY <1>1
  <2>1. queued'[c] = <<>> \/ queued'[c] = queued[c]
    BY <1>1
  <2>2. queued[c] \in Seq(Edits) /\ Len(queued[c]) <= MAX_QUEUED_FRAMES
    BY DEF TypeOK
  <2>3. <<>> \in Seq(Edits) /\ Len(<<>>) = 0 /\ 0 <= MAX_QUEUED_FRAMES
    BY RegistryAssumption
  <2>4. CASE queued'[c] = <<>>
    BY <2>3, <2>4
  <2> QED
    BY <2>1, <2>2, <2>4
<1>8. TypeOK'
  BY <1>1, <1>4, <1>6, <1>7 DEF TypeOK
<1>9. OneLoad'
  BY <1>1, <1>2, <1>4 DEF OneLoad
<1>10. JoinsOnce'
  BY <1>1, <1>3, <1>4 DEF JoinsOnce, IsOpen
<1> QED
  BY <1>4, <1>6, <1>8, <1>9, <1>10

(* A frame is queued, not kept, or applied. *)
LEMMA FrameInv ==
  ASSUME RegistryInv, NEW c \in Clients, NEW e \in Edits, Frame(c, e)
  PROVE  RegistryInv'
<1> USE DEF RegistryInv
<1>1. /\ sent' = sent \cup {e}
      /\ UNCHANGED <<socket, user, room, rooms, opening, waiting, stage, members>>
      /\ UNCHANGED <<writing, saved, dropped>>
  BY DEF Frame, registry
<1>2. OneRoom' /\ NoGhosts' /\ RoomHasClients' /\ OneLoad' /\ JoinsOnce'
  BY <1>1 DEF OneRoom, NoGhosts, RoomHasClients, OneLoad, JoinsOnce
<1>3. CASE room[c] = None
  <2>1. /\ queued' = [queued EXCEPT ![c] =
               IF Len(@) < MAX_QUEUED_FRAMES THEN Append(@, e) ELSE @]
        /\ UNCHANGED <<doc, pending, accepted>>
    BY <1>3 DEF Frame
  <2>2. queued[c] \in Seq(Edits) /\ Len(queued[c]) <= MAX_QUEUED_FRAMES
    BY DEF TypeOK
  <2>3. LET q == IF Len(queued[c]) < MAX_QUEUED_FRAMES THEN Append(queued[c], e) ELSE queued[c]
        IN  q \in Seq(Edits) /\ Len(q) <= MAX_QUEUED_FRAMES
    BY <2>2, RegistryAssumption
  <2>4. queued' \in [Clients -> Seq(Edits)]
        /\ \A d \in Clients : Len(queued'[d]) <= MAX_QUEUED_FRAMES
    BY <2>1, <2>3 DEF TypeOK
  <2>5. TypeOK'
    BY <1>1, <2>1, <2>4 DEF TypeOK
  <2> QED
    BY <1>1, <1>2, <2>1, <2>5, KeptUnchanged
<1>4. CASE room[c] # None
  <2>1. Dispatch(room[c], {e}) /\ queued' = queued /\ room[c] \in Rooms /\ {e} \in SUBSET Edits
    BY <1>4 DEF Frame, TypeOK
  <2>2. /\ AcceptedKept' /\ DocumentsKept'
        /\ doc' \in [Rooms -> SUBSET Edits] /\ pending' \in [Rooms -> SUBSET Edits]
        /\ accepted' \subseteq Edits
    BY <1>1, <2>1, DispatchKeeps
  <2>3. TypeOK'
    BY <1>1, <2>1, <2>2 DEF TypeOK
  <2> QED
    BY <1>2, <2>2, <2>3
<1> QED
  BY <1>3, <1>4

(* A write begins, succeeds or fails: an update moves from pending to being
   written, and from there to the store, back to pending or, in a closing
   writer, to the ones given up. *)
LEMMA WriteInv ==
  ASSUME RegistryInv, NEW r \in Rooms, WriteStart(r) \/ WriteEnd(r)
  PROVE  RegistryInv'
<1> USE DEF RegistryInv
<1>1. /\ UNCHANGED <<socket, user, room, queued, rooms, opening, waiting>>
      /\ UNCHANGED <<stage, members, doc, sent, accepted>>
  BY DEF WriteStart, WriteEnd, WriteOk, WriteFails, connection, registry
<1>2. OneRoom' /\ NoGhosts' /\ RoomHasClients' /\ OneLoad' /\ JoinsOnce'
  BY <1>1 DEF OneRoom, NoGhosts, RoomHasClients, OneLoad, JoinsOnce
<1>3. /\ pending' \in [Rooms -> SUBSET Edits] /\ writing' \in [Rooms -> SUBSET Edits]
      /\ saved' \subseteq Edits /\ dropped' \subseteq Edits
  <2>1. CASE WriteStart(r)
    BY <2>1 DEF WriteStart, TypeOK
  <2>2. CASE WriteOk(r)
    BY <2>2 DEF WriteOk, TypeOK
  <2>3. CASE WriteFails(r)
    BY <2>3 DEF WriteFails, TypeOK
  <2> QED
    BY <2>1, <2>2, <2>3 DEF WriteEnd
<1>4. TypeOK'
  BY <1>1, <1>3 DEF TypeOK
<1>5. saved \subseteq saved' /\ dropped \subseteq dropped'
  BY DEF WriteStart, WriteEnd, WriteOk, WriteFails
<1>6. \A q \in Rooms : pending[q] \cup writing[q]
                          \subseteq pending'[q] \cup writing'[q] \cup saved' \cup dropped'
  <2>1. CASE WriteStart(r)
    BY <2>1 DEF WriteStart, TypeOK
  <2>2. CASE WriteOk(r)
    BY <2>2 DEF WriteOk, TypeOK
  <2>3. CASE WriteFails(r)
    BY <2>3 DEF WriteFails, TypeOK
  <2> QED
    BY <2>1, <2>2, <2>3 DEF WriteEnd
<1>7. Kept \subseteq Kept'
  BY <1>5, <1>6 DEF Kept
<1>8. AcceptedKept' /\ DocumentsKept'
  BY <1>1, <1>7 DEF AcceptedKept, DocumentsKept
<1> QED
  BY <1>2, <1>4, <1>8

(* A room that has left the registry goes on closing. *)
LEMMA CloseInv ==
  ASSUME RegistryInv, NEW r \in Rooms, CloseStep(r)
  PROVE  RegistryInv'
<1> USE DEF RegistryInv
<1>1. /\ UNCHANGED <<socket, user, room, queued, rooms, opening, waiting, members>>
      /\ UNCHANGED <<doc, pending, writing, saved, dropped, sent, accepted>>
  BY DEF CloseStep, Unsubscribed, Destroyed, connection, registry, writer
<1>2. /\ stage[r] \in {"unsubscribing", "flushing"}
      /\ \/ stage' = [stage EXCEPT ![r] = "flushing"]
         \/ stage' = [stage EXCEPT ![r] = "gone"]
  BY DEF CloseStep, Unsubscribed, Destroyed
<1>3. TypeOK'
  BY <1>1, <1>2 DEF TypeOK, Stages
<1>4. OneRoom' /\ NoGhosts' /\ JoinsOnce'
  BY <1>1 DEF OneRoom, NoGhosts, JoinsOnce
<1>5. RoomHasClients'
  BY <1>1, <1>2 DEF RoomHasClients, TypeOK
<1>6. OneLoad'
  BY <1>1, <1>2, NoneIsNoRoom DEF OneLoad, TypeOK
<1> QED
  BY <1>1, <1>3, <1>4, <1>5, <1>6, KeptUnchanged

(* Every step preserves the inductive invariant. *)
LEMMA NextRegistryInv == RegistryInv /\ [Next]_vars => RegistryInv'
<1> SUFFICES ASSUME RegistryInv, [Next]_vars PROVE RegistryInv'
  OBVIOUS
<1>1. CASE \E c \in Clients : ClientNext(c)
  <2> PICK c \in Clients : ClientNext(c)
    BY <1>1
  <2> QED
    BY SocketInv, SocketClosedInv, JoinOpenRoomInv, JoinByOpeningInv, FrameInv DEF ClientNext
<1>2. CASE \E cs \in SUBSET Clients : StartClosing(cs)
  BY <1>2, SocketInv
<1>3. CASE \E r \in Rooms : RoomNext(r)
  <2> PICK r \in Rooms : RoomNext(r)
    BY <1>3
  <2> QED
    BY LoadReadInv, LoadDoneInv, WriteInv, CloseInv DEF RoomNext, LoadStep
<1>4. CASE UNCHANGED vars
  <2>1. /\ UNCHANGED <<socket, user, room, queued, rooms, opening, waiting, members>>
        /\ UNCHANGED <<stage, doc, pending, writing, saved, dropped, sent, accepted>>
    BY <1>4 DEF vars, connection, registry, writer
  <2>2. TypeOK'
    BY <2>1 DEF RegistryInv, TypeOK
  <2>3. OneRoom' /\ NoGhosts' /\ RoomHasClients' /\ OneLoad' /\ JoinsOnce'
    BY <2>1 DEF RegistryInv, OneRoom, NoGhosts, RoomHasClients, OneLoad, JoinsOnce
  <2> QED
    BY <2>1, <2>2, <2>3, KeptUnchanged DEF RegistryInv
<1> QED
  BY <1>1, <1>2, <1>3, <1>4 DEF Next

(* RegistryInv holds in every reachable state, for any number of connections,
   updates and rooms, whether or not the store fails. *)
THEOREM RegistryInvariant == Spec => []RegistryInv
<1>1. Init => RegistryInv
  BY InitRegistryInv
<1>2. RegistryInv /\ [Next]_vars => RegistryInv'
  BY NextRegistryInv
<1> QED
  BY <1>1, <1>2, PTL DEF Spec

(* The variables of the registry, its rooms and its connections keep their
   types, and no queue grows past MAX_QUEUED_FRAMES. *)
THEOREM TypeCorrect == Spec => []TypeOK
<1>1. RegistryInv => TypeOK
  BY DEF RegistryInv
<1> QED
  BY <1>1, RegistryInvariant, PTL

(* However joins, loads and leaves interleave, everyone who has joined is in the
   room the registry holds, a room has no client whose socket has gone, and a
   room is held exactly while it has clients. *)
THEOREM OneLiveRoom == Spec => [](OneRoom /\ NoGhosts /\ RoomHasClients)
<1>1. RegistryInv => OneRoom /\ NoGhosts /\ RoomHasClients
  BY DEF RegistryInv
<1> QED
  BY <1>1, RegistryInvariant, PTL

(* No interleaving of writes with the closing and reopening of rooms loses an
   update a room applied, other than a failed write of a closed writer. *)
THEOREM AcceptedIsKept == Spec => []AcceptedKept
<1>1. RegistryInv => AcceptedKept
  BY DEF RegistryInv
<1> QED
  BY <1>1, RegistryInvariant, PTL

=============================================================================
