------------------------- MODULE SyncSessionProofs -------------------------
(***************************************************************************)
(* Proofs about SyncSession for any number of clients, sockets, instances, *)
(* edits and troubles.  SessionInv is inductive.                           *)
(***************************************************************************)
EXTENDS SyncSession, SequenceTheorems, TLAPS

----------------------------------------------------------------------------
(* Frames on their way. *)

(* Nothing is on its way in an empty queue. *)
LEMMA EmptyQueue ==
  ASSUME NEW e
  PROVE  <<>> \in Seq(Frames) /\ ~InFlight(<<>>, e) /\ ~Asked(<<>>, e)
  BY DEF InFlight, Asked

(* A queue of one frame. *)
LEMMA OneFrame ==
  ASSUME NEW f \in Frames, NEW e
  PROVE  /\ <<f>> \in Seq(Frames)
         /\ InFlight(<<f>>, e) <=> f.kind = "Update" /\ e \in f.edits
         /\ Asked(<<f>>, e) <=> f.kind = "Step1" /\ e \notin f.edits
  BY DEF InFlight, Asked

(* Two queues, one behind the other. *)
LEMMA TwoQueues ==
  ASSUME NEW q \in Seq(Frames), NEW r \in Seq(Frames), NEW e
  PROVE  /\ q \o r \in Seq(Frames)
         /\ InFlight(q \o r, e) <=> InFlight(q, e) \/ InFlight(r, e)
         /\ Asked(q \o r, e) <=> Asked(q, e) \/ Asked(r, e)
<1> DEFINE n == Len(q)
<1>1. /\ q \o r \in Seq(Frames) /\ Len(q \o r) = n + Len(r)
      /\ n \in Nat /\ Len(r) \in Nat
  OBVIOUS
<1>2. ASSUME NEW k \in 1 .. n PROVE (q \o r)[k] = q[k] /\ k \in 1 .. n + Len(r)
  BY <1>1
<1>3. ASSUME NEW k \in 1 .. Len(r)
      PROVE  (q \o r)[n + k] = r[k] /\ n + k \in 1 .. n + Len(r)
  BY <1>1
<1>4. ASSUME NEW k \in 1 .. n + Len(r)
      PROVE  \/ k \in 1 .. n
             \/ k - n \in 1 .. Len(r) /\ k = n + (k - n)
  BY <1>1
<1>5. InFlight(q \o r, e) => InFlight(q, e) \/ InFlight(r, e)
  BY <1>1, <1>2, <1>3, <1>4 DEF InFlight
<1>6. InFlight(q, e) \/ InFlight(r, e) => InFlight(q \o r, e)
  BY <1>1, <1>2, <1>3 DEF InFlight
<1>7. Asked(q \o r, e) => Asked(q, e) \/ Asked(r, e)
  BY <1>1, <1>2, <1>3, <1>4 DEF Asked
<1>8. Asked(q, e) \/ Asked(r, e) => Asked(q \o r, e)
  BY <1>1, <1>2, <1>3 DEF Asked
<1> QED
  BY <1>1, <1>5, <1>6, <1>7, <1>8

(* Putting a frame at the end. *)
LEMMA AppendQueue ==
  ASSUME NEW q \in Seq(Frames), NEW f \in Frames, NEW e
  PROVE  /\ Append(q, f) \in Seq(Frames)
         /\ InFlight(q, e) => InFlight(Append(q, f), e)
         /\ f.kind = "Update" /\ e \in f.edits => InFlight(Append(q, f), e)
<1> DEFINE r == <<f>>
           a == Append(q, f)
<1>1. a = q \o r
  BY AppendIsConcat
<1>2. r \in Seq(Frames) /\ (f.kind = "Update" /\ e \in f.edits => InFlight(r, e))
  BY OneFrame
<1> HIDE DEF r, a
<1>3. q \o r \in Seq(Frames) /\ (InFlight(q \o r, e) <=> InFlight(q, e) \/ InFlight(r, e))
  BY <1>2, TwoQueues
<1>4. a \in Seq(Frames) /\ (InFlight(a, e) <=> InFlight(q, e) \/ InFlight(r, e))
  BY <1>1, <1>3
<1> QED
  BY <1>2, <1>4 DEF a

(* Taking the first frame away. *)
LEMMA TailQueue ==
  ASSUME NEW q \in Seq(Frames), q # <<>>, NEW e
  PROVE  /\ Tail(q) \in Seq(Frames) /\ Head(q) \in Frames
         /\ InFlight(q, e) <=> \/ InFlight(Tail(q), e)
                               \/ Head(q).kind = "Update" /\ e \in Head(q).edits
         /\ Asked(q, e) <=> \/ Asked(Tail(q), e)
                            \/ Head(q).kind = "Step1" /\ e \notin Head(q).edits
<1>1. Tail(q) \in Seq(Frames) /\ Head(q) \in Frames /\ q = <<Head(q)>> \o Tail(q)
  OBVIOUS
<1> QED
  BY <1>1, OneFrame, TwoQueues

(* Taking the first frame away brings the second to the head. *)
LEMMA SecondFrame ==
  ASSUME NEW q \in Seq(Frames), Len(q) >= 2
  PROVE  Tail(q) # <<>> /\ Head(Tail(q)) = q[2]
<1> DEFINE r == Tail(q)
<1>1. r \in Seq(Frames) /\ Len(r) = Len(q) - 1 /\ r[1] = q[2]
  OBVIOUS
<1> HIDE DEF r
<1>2. Len(r) >= 1
  BY <1>1
<1>3. r # <<>> /\ Head(r) = r[1]
  BY <1>1, <1>2
<1> QED
  BY <1>1, <1>3 DEF r

(* An update, if there is something to send. *)
LEMMA NonEmptyQueue ==
  ASSUME NEW u \in SUBSET Edits, NEW e
  PROVE  /\ NonEmpty(u) \in Seq(Frames)
         /\ InFlight(NonEmpty(u), e) <=> e \in u
         /\ ~Asked(NonEmpty(u), e)
<1>1. Update(u) \in Frames /\ Update(u).kind = "Update" /\ Update(u).edits = u
  BY DEF Update, Frame, Frames
<1> QED
  BY <1>1, EmptyQueue, OneFrame DEF NonEmpty

(* A document shows edits that it holds. *)
LEMMA VisibleHeld == ASSUME NEW u PROVE Visible(u) \subseteq u
  BY DEF Visible, Shown

(* What a queue of frames carries. *)

LEMMA CarriesNone == ASSUME NEW u PROVE Carries(<<>>, u)
  BY DEF Carries

LEMMA CarriesMore ==
  ASSUME NEW q, NEW u, NEW v, u \subseteq v, Carries(q, u)
  PROVE  Carries(q, v)
  BY DEF Carries

LEMMA CarriesOne ==
  ASSUME NEW f, NEW u, f.edits \subseteq u
  PROVE  Carries(<<f>>, u)
  BY DEF Carries

LEMMA CarriesBoth ==
  ASSUME NEW q \in Seq(Frames), NEW r \in Seq(Frames), NEW u, Carries(q, u), Carries(r, u)
  PROVE  Carries(q \o r, u)
<1>1. \A k \in 1 .. Len(q \o r) : \/ k \in 1 .. Len(q) /\ (q \o r)[k] = q[k]
                                  \/ k - Len(q) \in 1 .. Len(r) /\ (q \o r)[k] = r[k - Len(q)]
  OBVIOUS
<1> QED
  BY <1>1 DEF Carries

LEMMA CarriesAppend ==
  ASSUME NEW q \in Seq(Frames), NEW f \in Frames, NEW u, Carries(q, u), f.edits \subseteq u
  PROVE  Carries(Append(q, f), u)
<1>1. \A k \in 1 .. Len(Append(q, f)) : \/ k \in 1 .. Len(q) /\ Append(q, f)[k] = q[k]
                                        \/ Append(q, f)[k] = f
  OBVIOUS
<1> QED
  BY <1>1 DEF Carries

LEMMA CarriesTail ==
  ASSUME NEW q \in Seq(Frames), q # <<>>, NEW u, Carries(q, u)
  PROVE  Carries(Tail(q), u) /\ Head(q).edits \subseteq u
<1>1. \A k \in 1 .. Len(Tail(q)) : k + 1 \in 1 .. Len(q) /\ Tail(q)[k] = q[k + 1]
  OBVIOUS
<1>2. 1 \in 1 .. Len(q) /\ Head(q) = q[1]
  OBVIOUS
<1> QED
  BY <1>1, <1>2 DEF Carries

LEMMA CarriesUpdate ==
  ASSUME NEW u, NEW v, u \subseteq v
  PROVE  Carries(NonEmpty(u), v)
<1>1. Update(u).edits = u
  BY DEF Update, Frame
<1> QED
  BY <1>1, CarriesNone, CarriesOne DEF NonEmpty

----------------------------------------------------------------------------
(* Sockets. *)

LEMMA SocketParts ==
  /\ \A s \in Sockets : s[1] \in Clients
  /\ \A c \in Clients, k \in 1 .. MaxSockets : <<c, k>> \in Sockets /\ <<c, k>>[1] = c
  BY DEF Sockets

(* A client's socket is its own and the only one it has. *)
LEMMA OwnSocket ==
  ASSUME OneSocket, NEW c \in Clients, NEW s \in socket[c]
  PROVE  s \in Sockets /\ s[1] = c /\ socket[c] = {s} /\ Listening(s)
<1>1. PICK k \in 1 .. MaxSockets : socket[c] = {<<c, k>>}
  BY DEF OneSocket
<1> QED
  BY <1>1, SocketParts DEF Listening

(* What is on its way once a socket has been sent something. *)
LEMMA Sending ==
  ASSUME TypeOK, NEW s \in Sockets, NEW fr \in Seq(Frames), NEW e
  PROVE  /\ Sent(s, fr) \in Seq(Frames)
         /\ InFlight(down[s], e) => InFlight(Sent(s, fr), e)
         /\ Asked(down[s], e) => Asked(Sent(s, fr), e)
         /\ InFlight(Sent(s, fr), e) => InFlight(down[s], e) \/ InFlight(fr, e)
         /\ s \notin closing /\ Listening(s) =>
                /\ InFlight(fr, e) => InFlight(Sent(s, fr), e)
                /\ Asked(fr, e) => Asked(Sent(s, fr), e)
         /\ ~Listening(s) => Sent(s, fr) = down[s]
<1>1. down[s] \in Seq(Frames)
  BY DEF TypeOK
<1> QED
  BY <1>1, TwoQueues DEF Sent

----------------------------------------------------------------------------
(* The provider's steps. *)

USE DEF SessionInv

(* What the parts of the invariant other than the types and OneAttempt are about. *)
ends == <<socket, online, doc, conn, at, closing, up, down, open, room>>

LEMMA Undisturbed ==
  ASSUME SessionInv, TypeOK', OneAttempt', UNCHANGED ends
  PROVE  SessionInv'
  BY DEF ends, OneSocket, ServerEnd, NothingDown, DownIsHeld, ClientIsHeard, Live, Listening

LEMMA TimersKeep ==
  ASSUME SessionInv, NEW c \in Clients,
         TokenFails(c) \/ RetryFires(c) \/ Expire(c)
  PROVE  SessionInv'
<1> USE DEF TokenFails, RetryFires, Expire, provider, connection, rooms, typing
<1>1. TypeOK'
  BY DEF TypeOK
<1>2. OneAttempt'
  BY DEF OneAttempt
<1>3. UNCHANGED ends
  BY DEF ends
<1> QED
  BY <1>1, <1>2, <1>3, Undisturbed

LEMMA WriteKeeps ==
  ASSUME SessionInv, NEW i \in Instances, Write(i)
  PROVE  SessionInv'
<1> USE DEF Write, provider, connection, rooms, typing
<1>1. TypeOK'
  BY DEF TypeOK
<1>2. OneAttempt'
  BY DEF OneAttempt
<1>3. UNCHANGED ends
  BY DEF ends
<1> QED
  BY <1>1, <1>2, <1>3, Undisturbed

LEMMA TokenArrivesKeeps ==
  ASSUME SessionInv, NEW c \in Clients, TokenArrives(c)
  PROVE  SessionInv'
<1> USE DEF TokenArrives, GetToken, provider, connection, rooms, typing
<1>1. CASE c \in destroyed
  <2>1. TypeOK'
    BY <1>1 DEF TypeOK
  <2>2. OneAttempt'
    BY <1>1 DEF OneAttempt
  <2>3. UNCHANGED ends
    BY <1>1 DEF ends
  <2> QED
    BY <2>1, <2>2, <2>3, Undisturbed
<1>2. CASE c \notin destroyed
  <2>1. PICK k \in Free(c) : socket' = [socket EXCEPT ![c] = {<<c, k>>}]
    BY <1>2
  <2> DEFINE new == <<c, k>>
  <2>2. new \in Sockets /\ new[1] = c /\ conn[new] = "none" /\ k \in 1 .. MaxSockets
    BY SocketParts DEF Free
  <2>3. socket[c] = {} /\ c \in connecting
    BY <1>2 DEF OneAttempt
  <2>4. socket' \in [Clients -> SUBSET Sockets] /\ socket'[c] = {new}
    BY <2>1, <2>2 DEF TypeOK
  <2>5. \A d \in Clients : d # c => socket'[d] = socket[d]
    BY <2>1 DEF TypeOK
  <2>6. ~Listening(new) /\ down[new] = <<>>
    BY <2>2, <2>3 DEF Listening, NothingDown
  <2>7. ASSUME NEW s \in Sockets, s # new PROVE Listening(s)' = Listening(s)
    <3>1. CASE s[1] = c
      <4>1. socket[s[1]] # {s} /\ socket'[s[1]] # {s}
        BY <3>1, <2>3, <2>4, <2>7
      <4> QED
        BY <4>1 DEF Listening
    <3>2. CASE s[1] # c
      BY <3>2, <2>5, SocketParts DEF Listening
    <3> QED
      BY <3>1, <3>2
  <2>8. UNCHANGED <<online, doc, conn, at, closing, up, down, open, room>>
    OBVIOUS
  <2>9. TypeOK'
    BY <2>4, <2>8 DEF TypeOK
  <2>10. OneAttempt'
    BY <1>2, <2>2, <2>3, <2>4, <2>5 DEF OneAttempt
  <2>11. OneSocket'
    BY <2>2, <2>4, <2>5 DEF OneSocket
  <2>12. ServerEnd'
    BY <2>8 DEF ServerEnd
  <2>13. NothingDown'
    BY <2>2, <2>6, <2>7, <2>8 DEF NothingDown
  <2>14. \A s \in Sockets : Live(s)' => Live(s)
    BY <2>2, <2>7, <2>8 DEF Live
  <2>15. DownIsHeld'
    BY <2>8, <2>14 DEF DownIsHeld
  <2>16. ClientIsHeard'
    BY <2>8, <2>14 DEF ClientIsHeard
  <2> QED
    BY <2>9, <2>10, <2>11, <2>12, <2>13, <2>15, <2>16
<1> QED
  BY <1>1, <1>2

LEMMA OpensKeeps ==
  ASSUME SessionInv, NEW c \in Clients, NEW i \in Instances, Opens(c, i)
  PROVE  SessionInv'
<1> USE DEF Opens, provider, connection, rooms, typing
<1> DEFINE first == Frame(IF c \in stale THEN "StaleAuth" ELSE "Auth", {})
           second == Step1(Visible(doc[c]))
<1>1. PICK s \in socket[c] :
        /\ conn' = [conn EXCEPT ![s] = "new"]
        /\ at' = [at EXCEPT ![s] = {i}]
        /\ up' = [up EXCEPT ![s] = <<first, second>>]
  OBVIOUS
<1>2. s \in Sockets /\ s[1] = c /\ Listening(s)
  BY OwnSocket
<1>3. conn[s] = "none" /\ down[s] = <<>>
  BY <1>2 DEF NothingDown
<1>4. /\ conn' \in [Sockets -> {"none", "new", "joining", "joined"}]
      /\ at' \in [Sockets -> SUBSET Instances]
      /\ conn'[s] = "new" /\ at'[s] = {i}
      /\ \A t \in Sockets : t # s =>
             conn'[t] = conn[t] /\ at'[t] = at[t] /\ up'[t] = up[t]
  BY <1>1, <1>2 DEF TypeOK
<1>5. UNCHANGED <<socket, doc, closing, down, open, room>> /\ online' = online \cup {c}
  OBVIOUS
<1>6. TypeOK'
  <2>1. doc[c] \subseteq Edits
    BY DEF TypeOK
  <2>2. first \in Frames /\ second \in Frames
    BY <2>1, VisibleHeld DEF Frame, Step1, Frames
  <2>3. <<first, second>> \in Seq(Frames)
    BY <2>2
  <2>4. up' \in [Sockets -> Seq(Frames)]
    BY <1>1, <2>3 DEF TypeOK
  <2> QED
    BY <1>4, <1>5, <2>4 DEF TypeOK
<1>7. OneAttempt' /\ OneSocket'
  BY <1>5 DEF OneAttempt, OneSocket
<1>8. \A t \in Sockets : Listening(t)' = Listening(t)
  BY <1>5 DEF Listening
<1>9. ServerEnd'
  BY <1>4, <1>5 DEF ServerEnd
<1>10. NothingDown'
  <2>1. ASSUME NEW t \in Sockets, t[1] = c, Listening(t) PROVE t = s
    BY <2>1, <1>2 DEF Listening
  <2> QED
    BY <1>2, <1>3, <1>4, <1>5, <1>8, <2>1 DEF NothingDown
<1>11. \A t \in Sockets : Live(t)' => t # s /\ Live(t)
  BY <1>4, <1>5, <1>8 DEF Live
<1>12. DownIsHeld'
  BY <1>3, <1>4, <1>5, <1>11, EmptyQueue DEF DownIsHeld
<1>13. ClientIsHeard'
  BY <1>4, <1>5, <1>11 DEF ClientIsHeard
<1> QED
  BY <1>6, <1>7, <1>9, <1>10, <1>12, <1>13

(* onclose. *)
LEMMA OfflineKeeps ==
  ASSUME SessionInv, NEW c \in Clients, socket[c] # {}, Offline(c),
         refreshToken' \subseteq Clients
  PROVE  SessionInv'
<1> USE DEF Offline, provider, connection, rooms, typing
<1>1. PICK s \in socket[c] : TRUE
  OBVIOUS
<1>2. s \in Sockets /\ s[1] = c /\ socket[c] = {s} /\ Listening(s)
  BY OwnSocket
<1>3. socket'[c] = {} /\ \A d \in Clients : d # c => socket'[d] = socket[d]
  BY DEF TypeOK
<1>4. /\ UNCHANGED <<doc, conn, at, closing, up, open, room>>
      /\ online' = online \ {c} /\ retrying' = retrying \cup {c}
      /\ UNCHANGED <<connecting, destroyed>>
  OBVIOUS
<1>5. down'[s] = <<>> /\ \A t \in Sockets : t # s => down'[t] = down[t]
  BY <1>2
<1>6. TypeOK'
  <2>1. <<>> \in Seq(Frames)
    OBVIOUS
  <2>2. down' \in [Sockets -> Seq(Frames)]
    BY <2>1 DEF TypeOK
  <2> QED
    BY <2>2 DEF TypeOK
<1>7. OneAttempt'
  BY <1>2, <1>3, <1>4 DEF OneAttempt
<1>8. OneSocket'
  BY <1>3 DEF OneSocket
<1>9. ~Listening(s)' /\ \A t \in Sockets : t # s => Listening(t)' = Listening(t)
  <2>1. socket'[s[1]] # {s}
    BY <1>2, <1>3
  <2>2. ASSUME NEW t \in Sockets, t # s PROVE Listening(t)' = Listening(t)
    <3>1. CASE t[1] = c
      <4>1. socket[t[1]] # {t} /\ socket'[t[1]] # {t}
        BY <1>2, <1>3, <2>2, <3>1
      <4> QED
        BY <4>1 DEF Listening
    <3>2. CASE t[1] # c
      BY <1>3, <3>2, SocketParts DEF Listening
    <3> QED
      BY <3>1, <3>2
  <2> QED
    BY <2>1, <2>2 DEF Listening
<1>10. ServerEnd'
  BY <1>4 DEF ServerEnd
<1>11. \A t \in Sockets : t # s /\ Listening(t) => t[1] # c
  BY <1>2 DEF Listening
<1>12. NothingDown'
  <2>1. ASSUME NEW t \in Sockets, ~Listening(t)' \/ t[1] \notin online'
        PROVE  down'[t] = <<>>
    <3>1. CASE t = s
      BY <1>5, <3>1
    <3>2. CASE t # s
      BY <1>4, <1>5, <1>9, <1>11, <2>1, <3>2 DEF NothingDown
    <3> QED
      BY <3>1, <3>2
  <2>2. ASSUME NEW t \in Sockets, Listening(t)', t[1] \notin online'
        PROVE  conn'[t] = "none"
    BY <1>4, <1>9, <1>11, <2>2 DEF NothingDown
  <2> QED
    BY <2>1, <2>2 DEF NothingDown
<1>13. \A t \in Sockets : Live(t)' => t # s /\ Live(t)
  BY <1>4, <1>9 DEF Live
<1>14. DownIsHeld'
  BY <1>4, <1>5, <1>13, EmptyQueue DEF DownIsHeld
<1>15. ClientIsHeard'
  BY <1>4, <1>5, <1>13 DEF ClientIsHeard
<1> QED
  BY <1>6, <1>7, <1>8, <1>10, <1>12, <1>14, <1>15

LEMMA GoesOffline ==
  ASSUME SessionInv, NEW c \in Clients, SocketLost(c) \/ ReceiveClose(c)
  PROVE  SessionInv'
<1>1. socket[c] # {} /\ Offline(c)
  BY DEF SocketLost, ReceiveClose
<1>2. refreshToken' \subseteq Clients
  BY DEF SocketLost, ReceiveClose, TypeOK
<1> QED
  BY <1>1, <1>2, OfflineKeeps

LEMMA DestroyKeeps ==
  ASSUME SessionInv, NEW c \in Clients, Destroy(c)
  PROVE  SessionInv'
<1> USE DEF Destroy, provider, connection, rooms, typing
<1>1. socket'[c] = {} /\ \A d \in Clients : d # c => socket'[d] = socket[d]
  BY DEF TypeOK
<1>2. /\ UNCHANGED <<conn, at, closing, up, open, room, connecting>>
      /\ online' = online \ {c} /\ destroyed' = destroyed \cup {c}
      /\ retrying' = retrying \ {c}
      /\ \A d \in Clients : d # c => doc'[d] = doc[d]
  BY DEF TypeOK
<1>3. TypeOK'
  <2>1. <<>> \in Seq(Frames)
    OBVIOUS
  <2>2. down' \in [Sockets -> Seq(Frames)]
    BY <2>1 DEF TypeOK
  <2> QED
    BY <2>2 DEF TypeOK
<1>4. OneAttempt'
  BY <1>1, <1>2 DEF OneAttempt
<1>5. OneSocket'
  BY <1>1 DEF OneSocket
<1>6. \A t \in Sockets : Listening(t)' <=> Listening(t) /\ t[1] # c
  <2>1. ASSUME NEW t \in Sockets, t[1] = c PROVE ~Listening(t)'
    <3>1. socket'[t[1]] # {t}
      BY <1>1, <2>1
    <3> QED
      BY <3>1 DEF Listening
  <2>2. ASSUME NEW t \in Sockets, t[1] # c PROVE Listening(t)' = Listening(t)
    BY <1>1, <2>2, SocketParts DEF Listening
  <2> QED
    BY <2>1, <2>2
<1>7. \A t \in Sockets : /\ t[1] # c => down'[t] = down[t]
                         /\ t[1] = c => down'[t] = <<>>
  <2>1. ASSUME NEW t \in socket[c] PROVE t[1] = c
    BY OwnSocket
  <2>2. ASSUME NEW t \in Sockets, t[1] = c, t \notin socket[c] PROVE down[t] = <<>>
    <3>1. ~Listening(t)
      BY <2>2 DEF Listening
    <3> QED
      BY <3>1 DEF NothingDown
  <2> QED
    BY <2>1, <2>2
<1>8. ServerEnd'
  BY <1>2 DEF ServerEnd
<1>9. NothingDown'
  BY <1>2, <1>6, <1>7 DEF NothingDown
<1>10. \A t \in Sockets : Live(t)' => t[1] # c /\ Live(t)
  BY <1>2, <1>6 DEF Live
<1>11. DownIsHeld'
  BY <1>2, <1>7, <1>10, EmptyQueue DEF DownIsHeld
<1>12. ClientIsHeard'
  <2>1. ASSUME NEW t \in Sockets, Live(t)', NEW j \in at[t], NEW e \in doc'[t[1]] \ room[j]
        PROVE  InFlight(up[t], e) \/ Asked(down'[t], e)
    <3>1. Live(t) /\ t[1] # c /\ doc'[t[1]] = doc[t[1]] /\ down'[t] = down[t]
      BY <1>2, <1>7, <1>10, <2>1, SocketParts
    <3> QED
      BY <2>1, <3>1 DEF ClientIsHeard
  <2> QED
    BY <1>2, <2>1 DEF ClientIsHeard
<1> QED
  BY <1>3, <1>4, <1>5, <1>8, <1>9, <1>11, <1>12

LEMMA TypeKeeps ==
  ASSUME SessionInv, NEW c \in Clients, NEW e \in Edits, Type(c, e)
  PROVE  SessionInv'
<1> USE DEF Type, provider, connection, rooms
<1>1. /\ UNCHANGED <<socket, online, connecting, retrying, destroyed,
                     conn, at, closing, down, open, room>>
      /\ \A d \in Clients : doc'[d] = IF d = c THEN doc[d] \cup {e} ELSE doc[d]
  BY DEF TypeOK
<1>2. Update({e}) \in Frames /\ Update({e}).kind = "Update" /\ Update({e}).edits = {e}
  BY DEF Update, Frame, Frames
<1>3. ASSUME NEW s \in Sockets
      PROVE  /\ up'[s] \in Seq(Frames)
             /\ \A x : InFlight(up[s], x) => InFlight(up'[s], x)
             /\ c \in online /\ s \in socket[c] /\ conn[s] # "none" => InFlight(up'[s], e)
  <2>1. up[s] \in Seq(Frames)
    BY DEF TypeOK
  <2> DEFINE more == Append(up[s], Update({e}))
  <2>2. /\ more \in Seq(Frames) /\ InFlight(more, e)
        /\ \A x : InFlight(up[s], x) => InFlight(more, x)
    <3>1. more \in Seq(Frames) /\ InFlight(more, e)
      BY <1>2, <2>1, AppendQueue
    <3>2. ASSUME NEW x, InFlight(up[s], x) PROVE InFlight(more, x)
      BY <1>2, <2>1, <3>2, AppendQueue
    <3> QED
      BY <3>1, <3>2
  <2>3. up'[s] = IF c \in online /\ s \in socket[c] /\ conn[s] # "none" THEN more ELSE up[s]
    OBVIOUS
  <2> HIDE DEF more
  <2> QED
    BY <2>1, <2>2, <2>3
<1>4. TypeOK'
  <2>1. Visible(doc[c]) \subseteq Edits
    BY VisibleHeld DEF TypeOK
  <2>2. up' \in [Sockets -> Seq(Frames)]
    BY <1>3
  <2> QED
    BY <2>1, <2>2 DEF TypeOK
<1>5. OneAttempt' /\ OneSocket'
  BY <1>1 DEF OneAttempt, OneSocket
<1>6. ServerEnd' /\ NothingDown' /\ DownIsHeld'
  BY <1>1 DEF ServerEnd, NothingDown, DownIsHeld, Listening, Live
<1>7. ClientIsHeard'
  <2>1. ASSUME NEW s \in Sockets, Live(s), NEW i \in at[s], NEW x \in doc'[s[1]] \ room[i]
        PROVE  InFlight(up'[s], x) \/ Asked(down[s], x)
    <3>1. CASE x \in doc[s[1]]
      BY <1>3, <2>1, <3>1 DEF ClientIsHeard
    <3>2. CASE x \notin doc[s[1]]
      <4>1. s[1] = c /\ x = e
        BY <1>1, <2>1, <3>2, SocketParts
      <4>2. s \in socket[c] /\ conn[s] # "none" /\ Listening(s)
        BY <2>1, <4>1 DEF Live, Listening
      <4>3. c \in online
        BY <4>1, <4>2 DEF NothingDown
      <4> QED
        BY <1>3, <4>1, <4>2, <4>3
    <3> QED
      BY <3>1, <3>2
  <2> QED
    BY <1>1, <2>1 DEF ClientIsHeard, Live, Listening
<1> QED
  BY <1>4, <1>5, <1>6, <1>7

LEMMA ReceiveSyncKeeps ==
  ASSUME SessionInv, NEW c \in Clients, ReceiveSync(c)
  PROVE  SessionInv'
<1> USE DEF ReceiveSync, provider, connection, rooms, typing
<1> DEFINE Answer(s) == /\ Head(down[s]).kind = "Step1"
                        /\ up' = SentUp(s, NonEmpty(doc[c] \ Head(down[s]).edits))
                        /\ UNCHANGED doc
           Apply(s) == /\ Head(down[s]).kind = "Update"
                       /\ doc' = [doc EXCEPT ![c] = @ \cup Head(down[s]).edits]
                       /\ UNCHANGED up
<1>1. PICK s \in socket[c] :
        /\ down[s] # <<>> /\ down' = [down EXCEPT ![s] = Tail(@)]
        /\ Answer(s) \/ Apply(s)
        /\ UNCHANGED <<provider, connection, rooms, typing>>
  BY Zenon
<1>2. s \in Sockets /\ s[1] = c /\ socket[c] = {s} /\ Listening(s)
  BY OwnSocket
<1>3. UNCHANGED <<socket, online, connecting, retrying, destroyed,
                  conn, at, closing, open, room>>
  BY <1>1
<1> DEFINE f == Head(down[s])
<1>4. down[s] \in Seq(Frames)
  BY <1>2 DEF TypeOK
<1>5. /\ Tail(down[s]) \in Seq(Frames) /\ f \in Frames
      /\ \A e : /\ InFlight(down[s], e) <=>
                      InFlight(Tail(down[s]), e) \/ (f.kind = "Update" /\ e \in f.edits)
                /\ Asked(down[s], e) <=>
                      Asked(Tail(down[s]), e) \/ (f.kind = "Step1" /\ e \notin f.edits)
  <2> HIDE DEF Answer, Apply
  <2>1. Tail(down[s]) \in Seq(Frames) /\ f \in Frames
    BY <1>1, <1>4, TailQueue
  <2>2. ASSUME NEW e
        PROVE  /\ InFlight(down[s], e) <=>
                      InFlight(Tail(down[s]), e) \/ (f.kind = "Update" /\ e \in f.edits)
               /\ Asked(down[s], e) <=>
                      Asked(Tail(down[s]), e) \/ (f.kind = "Step1" /\ e \notin f.edits)
    BY <1>1, <1>4, TailQueue
  <2> QED
    BY <2>1, <2>2
<1>6. f.edits \subseteq Edits
  BY <1>5 DEF Frames
<1>7. /\ down' \in [Sockets -> Seq(Frames)] /\ down'[s] = Tail(down[s])
      /\ \A t \in Sockets : t # s => down'[t] = down[t]
  BY <1>1, <1>2, <1>5 DEF TypeOK
<1>8. OneAttempt' /\ OneSocket'
  BY <1>3 DEF OneAttempt, OneSocket
<1>9. ServerEnd'
  BY <1>3 DEF ServerEnd
<1>10. NothingDown'
  <2>1. s[1] \in online
    BY <1>1, <1>2 DEF NothingDown
  <2> QED
    BY <1>2, <1>3, <1>7, <2>1 DEF NothingDown, Listening
<1>11. \A t \in Sockets : Live(t)' = Live(t)
  BY <1>3 DEF Live, Listening
<1>12. DownIsHeld'
  BY <1>2, <1>3, <1>5, <1>7, <1>11 DEF DownIsHeld
<1>13. CASE Answer(s)
  <2> DEFINE u == doc[c] \ f.edits
  <2>1. u \in SUBSET Edits /\ up[s] \in Seq(Frames)
    BY <1>2 DEF TypeOK
  <2>2. NonEmpty(u) \in Seq(Frames) /\ \A e : InFlight(NonEmpty(u), e) <=> e \in u
    BY <2>1, NonEmptyQueue
  <2> DEFINE more == up[s] \o NonEmpty(u)
  <2>3. /\ more \in Seq(Frames)
        /\ \A e : InFlight(more, e) <=> InFlight(up[s], e) \/ e \in u
    <3> DEFINE n == NonEmpty(u)
    <3>1. n \in Seq(Frames) /\ \A e : InFlight(n, e) <=> e \in u
      BY <2>2
    <3> HIDE DEF n, u
    <3>2. up[s] \o n \in Seq(Frames)
      BY <2>1, <3>1, TwoQueues
    <3>3. ASSUME NEW e PROVE InFlight(up[s] \o n, e) <=> InFlight(up[s], e) \/ e \in u
      BY <2>1, <3>1, TwoQueues
    <3> QED
      BY <3>2, <3>3 DEF n
  <2>4. /\ up' \in [Sockets -> Seq(Frames)]
        /\ \A t \in Sockets : t # s => up'[t] = up[t]
        /\ conn[s] # "none" => up'[s] = more
    <3>1. up \in [Sockets -> Seq(Frames)]
      BY DEF TypeOK
    <3>2. up' = IF conn[s] = "none" THEN up ELSE [up EXCEPT ![s] = more]
      BY <1>13 DEF SentUp
    <3> HIDE DEF more, Answer
    <3> QED
      BY <1>2, <2>3, <3>1, <3>2
  <2> HIDE DEF more, Answer
  <2>5. TypeOK'
    BY <1>1, <1>7, <1>13, <2>4 DEF Answer, TypeOK
  <2>6. ASSUME NEW t \in Sockets, Live(t), NEW i \in at[t], NEW e \in doc[t[1]] \ room[i]
        PROVE  InFlight(up'[t], e) \/ Asked(down'[t], e)
    <3>1. InFlight(up[t], e) \/ Asked(down[t], e)
      BY <2>6 DEF ClientIsHeard
    <3>2. CASE t = s
      <4>1. up'[s] = more
        BY <2>4, <2>6, <3>2 DEF Live
      <4>2. InFlight(up'[t], e) <=> InFlight(up[t], e) \/ e \in u
        BY <2>3, <3>2, <4>1
      <4>3. Asked(down[t], e) <=> Asked(down'[t], e) \/ (f.kind = "Step1" /\ e \notin f.edits)
        BY <1>5, <1>7, <3>2
      <4>4. e \in doc[c]
        BY <1>2, <2>6, <3>2
      <4> QED
        BY <3>1, <4>2, <4>3, <4>4
    <3>3. CASE t # s
      BY <1>7, <2>4, <3>1, <3>3
    <3> QED
      BY <3>2, <3>3
  <2>7. ClientIsHeard'
    BY <1>3, <1>11, <1>13, <2>6 DEF Answer, ClientIsHeard
  <2> QED
    BY <1>8, <1>9, <1>10, <1>12, <2>5, <2>7
<1>14. CASE Apply(s)
  <2>1. /\ doc' \in [Clients -> SUBSET Edits]
        /\ \A d \in Clients : doc'[d] = IF d = c THEN doc[d] \cup f.edits ELSE doc[d]
    BY <1>6, <1>14 DEF TypeOK
  <2>2. TypeOK'
    BY <1>1, <1>7, <1>14, <2>1 DEF TypeOK
  <2>3. ASSUME NEW t \in Sockets, Live(t), NEW i \in at[t], NEW e \in doc'[t[1]] \ room[i]
        PROVE  InFlight(up[t], e) \/ Asked(down'[t], e)
    <3>1. CASE t = s
      <4>1. e \in Edits
        BY <2>1, <2>3, SocketParts
      <4>2. e \notin f.edits
        BY <1>5, <1>14, <2>3, <3>1, <4>1 DEF DownIsHeld
      <4>3. e \in doc[t[1]]
        BY <1>2, <2>1, <2>3, <3>1, <4>2
      <4>4. InFlight(up[t], e) \/ Asked(down[t], e)
        BY <2>3, <4>3 DEF ClientIsHeard
      <4> QED
        BY <1>5, <1>7, <1>14, <3>1, <4>4
    <3>2. CASE t # s
      <4>1. t[1] # c
        BY <1>2, <2>3, <3>2 DEF Live, Listening
      <4>2. doc'[t[1]] = doc[t[1]] /\ down'[t] = down[t]
        BY <1>7, <2>1, <3>2, <4>1, SocketParts
      <4> QED
        BY <2>3, <4>2 DEF ClientIsHeard
    <3> QED
      BY <3>1, <3>2
  <2>4. ClientIsHeard'
    BY <1>3, <1>11, <1>14, <2>3 DEF ClientIsHeard
  <2> QED
    BY <1>8, <1>9, <1>10, <1>12, <2>2, <2>4
<1> QED
  BY <1>1, <1>13, <1>14

----------------------------------------------------------------------------
(* The connection's steps. *)

(* The end of a socket that has not joined moves on to loading. *)
LEMMA LoadingKeeps ==
  ASSUME SessionInv, NEW s \in Sockets, conn[s] \in {"new", "joining"},
         conn' = [conn EXCEPT ![s] = "joining"],
         up' = [up EXCEPT ![s] = Tail(@)],
         UNCHANGED <<provider, doc, at, closing, down, rooms, typing>>,
         TypeOK'
  PROVE  SessionInv'
<1> USE DEF provider, rooms
<1>1. conn'[s] = "joining" /\ \A t \in Sockets : t # s => conn'[t] = conn[t] /\ up'[t] = up[t]
  BY DEF TypeOK
<1>2. UNCHANGED <<connecting, retrying, destroyed, socket, online, doc, at, closing, down, open, room>>
  OBVIOUS
<1>3. \A t \in Sockets : Live(t)' => t # s /\ Live(t)
  BY <1>1, <1>2 DEF Live, Listening
<1>4. OneAttempt' /\ OneSocket'
  BY <1>2 DEF OneAttempt, OneSocket
<1>5. ServerEnd'
  BY <1>1, <1>2 DEF ServerEnd
<1>6. NothingDown'
  BY <1>1, <1>2 DEF NothingDown, Listening
<1>7. DownIsHeld'
  BY <1>1, <1>2, <1>3 DEF DownIsHeld
<1>8. ClientIsHeard'
  BY <1>1, <1>2, <1>3 DEF ClientIsHeard
<1> QED
  BY <1>4, <1>5, <1>6, <1>7, <1>8

(* The server starts to close a socket, whatever it does with the frame that made
   it. *)
LEMMA ServerCloseKeeps ==
  ASSUME SessionInv, NEW s \in Sockets, conn[s] # "none",
         NEW kind \in {"Unauthorized", "Close"}, ServerClose(s, kind),
         up' \in [Sockets -> Seq(Frames)],
         \A t \in Sockets : t # s => up'[t] = up[t],
         UNCHANGED <<provider, doc, conn, at, queued, rooms, typing>>
  PROVE  SessionInv'
<1> USE DEF provider, rooms, typing, ServerClose
<1> DEFINE frame == Frame(kind, {})
           last == <<frame>>
<1>1. UNCHANGED <<connecting, retrying, destroyed, socket, online, doc, conn, at, open, room>>
  OBVIOUS
<1>2. last \in Seq(Frames) /\ \A e : ~InFlight(last, e)
  <2>1. frame \in Frames /\ frame.kind # "Update"
    BY DEF Frame, Frames
  <2> QED
    BY <2>1, OneFrame
<1>3. /\ down' \in [Sockets -> Seq(Frames)]
      /\ \A t \in Sockets : t # s => down'[t] = down[t]
      /\ \A e : InFlight(down'[s], e) => InFlight(down[s], e)
      /\ ~Listening(s) => down'[s] = down[s]
  <2> DEFINE sent == Sent(s, last)
  <2>1. down' = [down EXCEPT ![s] = sent]
    OBVIOUS
  <2> HIDE DEF last, ServerClose
  <2>2. sent \in Seq(Frames) /\ (~Listening(s) => sent = down[s])
    BY <1>2, Sending
  <2>3. ASSUME NEW e, InFlight(sent, e) PROVE InFlight(down[s], e)
    <3>1. InFlight(sent, e) => InFlight(down[s], e) \/ InFlight(last, e)
      BY <1>2, Sending
    <3> QED
      BY <1>2, <2>3, <3>1
  <2>4. down \in [Sockets -> Seq(Frames)]
    BY DEF TypeOK
  <2> HIDE DEF sent
  <2>5. down'[s] = sent /\ \A t \in Sockets : t # s => down'[t] = down[t]
    BY <2>1, <2>4
  <2>6. down' \in [Sockets -> Seq(Frames)]
    BY <2>1, <2>2, <2>4
  <2> QED
    BY <2>2, <2>3, <2>5, <2>6
<1>4. closing' = closing \cup {s}
  OBVIOUS
<1>5. \A t \in Sockets : Live(t)' => t # s /\ Live(t)
  BY <1>1, <1>4 DEF Live, Listening
<1>6. TypeOK'
  BY <1>3, <1>4 DEF TypeOK
<1>7. OneAttempt' /\ OneSocket' /\ ServerEnd'
  BY <1>1 DEF OneAttempt, OneSocket, ServerEnd
<1>8. NothingDown'
  BY <1>1, <1>3 DEF NothingDown, Listening
<1>9. DownIsHeld'
  BY <1>1, <1>3, <1>5 DEF DownIsHeld
<1>10. ClientIsHeard'
  BY <1>1, <1>3, <1>5 DEF ClientIsHeard
<1> QED
  BY <1>6, <1>7, <1>8, <1>9, <1>10

(* A frame that arrives leaves the queue of its socket, and no other. *)
LEMMA ArrivesTypes ==
  ASSUME TypeOK, NEW s \in Sockets, NEW states, Arrives(s, states)
  PROVE  /\ conn[s] \in states /\ up[s] \in Seq(Frames) /\ up[s] # <<>>
         /\ Tail(up[s]) \in Seq(Frames) /\ Head(up[s]) \in Frames
         /\ up' = [up EXCEPT ![s] = Tail(@)] /\ up' \in [Sockets -> Seq(Frames)]
         /\ up'[s] = Tail(up[s]) /\ \A t \in Sockets : t # s => up'[t] = up[t]
<1>1. up[s] \in Seq(Frames) /\ up[s] # <<>> /\ conn[s] \in states
  BY DEF Arrives, TypeOK
<1>2. Tail(up[s]) \in Seq(Frames) /\ Head(up[s]) \in Frames
  BY <1>1
<1> QED
  BY <1>1, <1>2 DEF Arrives, TypeOK

LEMMA AuthenticateKeeps ==
  ASSUME SessionInv, NEW s \in Sockets, Authenticate(s)
  PROVE  SessionInv'
<1>1. /\ conn[s] \in {"new"} /\ up' = [up EXCEPT ![s] = Tail(@)]
      /\ up' \in [Sockets -> Seq(Frames)]
      /\ \A t \in Sockets : t # s => up'[t] = up[t]
  BY ArrivesTypes DEF Authenticate
<1>2. UNCHANGED <<provider, doc, at, queued, rooms, typing>>
  BY DEF Authenticate
<1>3. CASE conn' = [conn EXCEPT ![s] = "joining"] /\ UNCHANGED <<closing, down>>
  <2>1. TypeOK'
    BY <1>1, <1>2, <1>3 DEF TypeOK, provider, rooms, typing
  <2> QED
    BY <1>1, <1>2, <1>3, <2>1, LoadingKeeps
<1>4. CASE ServerClose(s, "Unauthorized") /\ UNCHANGED conn
  BY <1>1, <1>2, <1>4, ServerCloseKeeps
<1> QED
  BY <1>3, <1>4 DEF Authenticate

LEMMA QueueFrameKeeps ==
  ASSUME SessionInv, NEW s \in Sockets, QueueFrame(s)
  PROVE  SessionInv'
<1>1. /\ conn[s] \in {"joining"} /\ up' = [up EXCEPT ![s] = Tail(@)]
      /\ up' \in [Sockets -> Seq(Frames)] /\ Head(up[s]) \in Frames
  BY ArrivesTypes DEF QueueFrame
<1>2. UNCHANGED <<provider, doc, conn, at, closing, down, rooms, typing>>
  BY DEF QueueFrame
<1>3. queued' \in [Sockets -> Seq(Frames)]
      /\ \A t \in Sockets : Len(queued'[t]) <= MAX_QUEUED_FRAMES
  <2>1. queued \in [Sockets -> Seq(Frames)] /\ queued[s] \in Seq(Frames)
    BY DEF TypeOK
  <2>2. CASE Len(queued[s]) < MAX_QUEUED_FRAMES
    <3> DEFINE q == Append(queued[s], Head(up[s]))
    <3>1. q \in Seq(Frames) /\ Len(q) = Len(queued[s]) + 1 /\ Len(queued[s]) \in Nat
      BY <1>1, <2>1, AppendProperties
    <3>2. queued' = [queued EXCEPT ![s] = q]
      BY <2>2 DEF QueueFrame
    <3> HIDE DEF q
    <3>3. Len(q) <= MAX_QUEUED_FRAMES
      BY <2>2, <3>1, SessionAssumption
    <3> QED
      BY <2>1, <3>1, <3>2, <3>3 DEF TypeOK
  <2>3. CASE ~(Len(queued[s]) < MAX_QUEUED_FRAMES)
    BY <2>3 DEF QueueFrame, TypeOK
  <2> QED
    BY <2>2, <2>3
<1>4. TypeOK'
  BY <1>1, <1>2, <1>3 DEF TypeOK, provider, rooms, typing
<1>5. conn' = [conn EXCEPT ![s] = "joining"]
  BY <1>1, <1>2 DEF TypeOK
<1> QED
  BY <1>1, <1>2, <1>4, <1>5, LoadingKeeps

LEMMA OverLimitKeeps ==
  ASSUME SessionInv, NEW s \in Sockets, OverLimit(s)
  PROVE  SessionInv'
<1>1. /\ conn[s] \in {"joining", "joined"} /\ up' \in [Sockets -> Seq(Frames)]
      /\ \A t \in Sockets : t # s => up'[t] = up[t]
  BY ArrivesTypes DEF OverLimit
<1>2. ServerClose(s, "Close") /\ UNCHANGED <<provider, doc, conn, at, queued, rooms, typing>>
  BY DEF OverLimit
<1> QED
  BY <1>1, <1>2, ServerCloseKeeps

LEMMA ServerClosesKeeps ==
  ASSUME SessionInv, NEW s \in Sockets, ServerCloses(s)
  PROVE  SessionInv'
<1> DEFINE kind == IF conn[s] = "new" THEN "Unauthorized" ELSE "Close"
<1>1. up' \in [Sockets -> Seq(Frames)] /\ \A t \in Sockets : t # s => up'[t] = up[t]
  BY DEF ServerCloses, TypeOK
<1>2. /\ conn[s] # "none" /\ kind \in {"Unauthorized", "Close"} /\ ServerClose(s, kind)
      /\ UNCHANGED <<provider, doc, conn, at, queued, rooms, typing>>
  BY DEF ServerCloses
<1> HIDE DEF kind
<1> QED
  BY <1>1, <1>2, ServerCloseKeeps

----------------------------------------------------------------------------
(* Sockets that go, one at a time or with their instance. *)

(* The ends in lost go; the rooms of those that stay joined stay as they are. *)
LEMMA EndsGo ==
  ASSUME SessionInv, TypeOK', NEW lost \in SUBSET Sockets,
         \A t \in lost : conn'[t] = "none" /\ at'[t] = {},
         \A t \in Sockets \ lost : conn'[t] = conn[t] /\ at'[t] = at[t] /\ up'[t] = up[t],
         closing' = closing \ lost,
         UNCHANGED <<connecting, retrying, destroyed, socket, online, doc, down>>,
         \A t \in Sockets \ lost : conn[t] = "joined" =>
             \A i \in at[t] : i \in open' /\ room'[i] = room[i]
  PROVE  SessionInv'
<1>1. \A t \in Sockets : Live(t)' => t \notin lost /\ Live(t)
  BY DEF Live, Listening
<1>2. OneAttempt' /\ OneSocket'
  BY DEF OneAttempt, OneSocket
<1>3. ServerEnd'
  <2>1. ASSUME NEW t \in lost
        PROVE  /\ conn'[t] = "none" => at'[t] = {}
               /\ conn'[t] # "none" => \E i \in Instances : at'[t] = {i}
               /\ conn'[t] = "joined" => at'[t] \subseteq open'
    BY <2>1
  <2>2. ASSUME NEW t \in Sockets \ lost
        PROVE  /\ conn'[t] = "none" => at'[t] = {}
               /\ conn'[t] # "none" => \E i \in Instances : at'[t] = {i}
               /\ conn'[t] = "joined" => at'[t] \subseteq open'
    BY <2>2 DEF ServerEnd
  <2> QED
    BY <2>1, <2>2 DEF ServerEnd
<1>4. NothingDown'
  BY DEF NothingDown, Listening
<1>5. \A t \in Sockets : Live(t)' => /\ at'[t] = at[t] /\ up'[t] = up[t]
                                     /\ \A i \in at[t] : room'[i] = room[i]
  BY <1>1 DEF Live
<1>6. DownIsHeld'
  BY <1>1, <1>5 DEF DownIsHeld
<1>7. ClientIsHeard'
  BY <1>1, <1>5 DEF ClientIsHeard
<1> QED
  BY <1>2, <1>3, <1>4, <1>6, <1>7

LEMMA SocketClosedKeeps ==
  ASSUME SessionInv, NEW s \in Sockets, SocketClosed(s)
  PROVE  SessionInv'
<1> USE DEF SocketClosed
<1> DEFINE gone == {i \in at[s] : Joined(i) = {s}}
<1>1. /\ conn' = [conn EXCEPT ![s] = "none"] /\ at' = [at EXCEPT ![s] = {}]
      /\ queued' = [queued EXCEPT ![s] = <<>>] /\ up' = [up EXCEPT ![s] = <<>>]
      /\ closing' = closing \ {s}
      /\ UNCHANGED <<provider, doc, down, ahead, crashed, typing>>
  OBVIOUS
<1>2. /\ open' = open \ gone
      /\ stored' = stored \cup UNION {unwritten[i] : i \in gone}
      /\ room' = [i \in Instances |-> IF i \in gone THEN {} ELSE room[i]]
      /\ unwritten' = [i \in Instances |-> IF i \in gone THEN {} ELSE unwritten[i]]
      /\ bus' = [i \in Instances |-> IF i \in gone THEN <<>> ELSE bus[i]]
  OBVIOUS
<1>3. gone \subseteq Instances
  BY DEF TypeOK
<1>4. TypeOK'
  <2>1. <<>> \in Seq(Frames) /\ Len(<<>>) <= MAX_QUEUED_FRAMES
    BY SessionAssumption
  <2>2. /\ conn' \in [Sockets -> {"none", "new", "joining", "joined"}]
        /\ at' \in [Sockets -> SUBSET Instances] /\ closing' \subseteq Sockets
    BY <1>1 DEF TypeOK
  <2>3. queued' \in [Sockets -> Seq(Frames)] /\ up' \in [Sockets -> Seq(Frames)]
    BY <1>1, <2>1 DEF TypeOK
  <2>4. \A t \in Sockets : Len(queued'[t]) <= MAX_QUEUED_FRAMES
    BY <1>1, <2>1 DEF TypeOK
  <2>5. /\ open' \subseteq Instances /\ room' \in [Instances -> SUBSET Edits]
        /\ unwritten' \in [Instances -> SUBSET Edits]
    BY <1>2 DEF TypeOK
  <2>6. bus' \in [Instances -> Seq(Frames)]
    BY <1>2, <2>1 DEF TypeOK
  <2>7. stored' \subseteq Edits
    <3>1. \A i \in gone : unwritten[i] \subseteq Edits
      BY <1>3 DEF TypeOK
    <3> QED
      BY <1>2, <3>1 DEF TypeOK
  <2> QED
    BY <1>1, <2>2, <2>3, <2>4, <2>5, <2>6, <2>7 DEF TypeOK, provider, typing
<1>5. conn'[s] = "none" /\ at'[s] = {}
  BY <1>1 DEF TypeOK
<1>6. ASSUME NEW t \in Sockets, t # s
      PROVE  conn'[t] = conn[t] /\ at'[t] = at[t] /\ up'[t] = up[t]
  BY <1>1, <1>6 DEF TypeOK
<1>7. ASSUME NEW t \in Sockets, t # s, conn[t] = "joined", NEW i \in at[t]
      PROVE  i \in open' /\ room'[i] = room[i]
  <2>1. at[t] = {i} /\ i \in open /\ i \in Instances
    <3>1. PICK j \in Instances : at[t] = {j}
      BY <1>7 DEF ServerEnd
    <3> QED
      BY <1>7, <3>1 DEF ServerEnd
  <2>2. t \in Joined(i)
    BY <1>7, <2>1 DEF Joined
  <2>3. i \notin gone
    BY <1>7, <2>2
  <2> QED
    BY <1>2, <2>1, <2>3
<1> HIDE DEF gone, SocketClosed
<1>8. UNCHANGED <<connecting, retrying, destroyed, socket, online, doc, down>>
  BY <1>1 DEF provider
<1> DEFINE lost == {s}
<1>9. /\ \A t \in lost : conn'[t] = "none" /\ at'[t] = {}
      /\ \A t \in Sockets \ lost : conn'[t] = conn[t] /\ at'[t] = at[t] /\ up'[t] = up[t]
      /\ closing' = closing \ lost
      /\ \A t \in Sockets \ lost : conn[t] = "joined" =>
             \A i \in at[t] : i \in open' /\ room'[i] = room[i]
      /\ lost \in SUBSET Sockets
  BY <1>1, <1>5, <1>6, <1>7
<1> HIDE DEF lost
<1> QED
  BY <1>4, <1>8, <1>9, EndsGo

LEMMA CrashKeeps ==
  ASSUME SessionInv, NEW i \in Instances, Crash(i)
  PROVE  SessionInv'
<1> USE DEF Crash
<1> DEFINE lost == {s \in Sockets : at[s] = {i}}
<1>1. /\ conn' = [s \in Sockets |-> IF s \in lost THEN "none" ELSE conn[s]]
      /\ at' = [s \in Sockets |-> IF s \in lost THEN {} ELSE at[s]]
      /\ closing' = closing \ lost
      /\ queued' = [s \in Sockets |-> IF s \in lost THEN <<>> ELSE queued[s]]
      /\ up' = [s \in Sockets |-> IF s \in lost THEN <<>> ELSE up[s]]
  OBVIOUS
<1>2. /\ open' = open \ {i} /\ room' = [room EXCEPT ![i] = {}]
      /\ crashed' = crashed \cup unwritten[i]
      /\ unwritten' = [unwritten EXCEPT ![i] = {}] /\ bus' = [bus EXCEPT ![i] = <<>>]
      /\ UNCHANGED <<provider, doc, down, stored, ahead, typing>>
  OBVIOUS
<1>3. lost \in SUBSET Sockets
  OBVIOUS
<1>4. \A t \in Sockets \ lost : conn[t] = "joined" =>
          \A j \in at[t] : j \in open' /\ room'[j] = room[j]
  <2>1. ASSUME NEW t \in Sockets \ lost, conn[t] = "joined", NEW j \in at[t]
        PROVE  j # i /\ j \in open
    <3>1. at[t] = {j}
      BY <2>1 DEF ServerEnd
    <3> QED
      BY <2>1, <3>1 DEF ServerEnd
  <2> QED
    BY <1>2, <2>1 DEF TypeOK
<1> HIDE DEF lost, Crash
<1>5. TypeOK'
  <2>1. <<>> \in Seq(Frames) /\ Len(<<>>) <= MAX_QUEUED_FRAMES
    BY SessionAssumption
  <2>2. /\ conn' \in [Sockets -> {"none", "new", "joining", "joined"}]
        /\ at' \in [Sockets -> SUBSET Instances] /\ closing' \subseteq Sockets
    BY <1>1 DEF TypeOK
  <2>3. queued' \in [Sockets -> Seq(Frames)] /\ up' \in [Sockets -> Seq(Frames)]
    BY <1>1, <2>1 DEF TypeOK
  <2>4. \A t \in Sockets : Len(queued'[t]) <= MAX_QUEUED_FRAMES
    BY <1>1, <2>1 DEF TypeOK
  <2>5. /\ open' \subseteq Instances /\ room' \in [Instances -> SUBSET Edits]
        /\ unwritten' \in [Instances -> SUBSET Edits] /\ crashed' \subseteq Edits
    BY <1>2 DEF TypeOK
  <2>6. bus' \in [Instances -> Seq(Frames)]
    BY <1>2, <2>1 DEF TypeOK
  <2> QED
    BY <1>2, <2>2, <2>3, <2>4, <2>5, <2>6 DEF TypeOK, provider, typing
<1>6. /\ \A t \in lost : conn'[t] = "none" /\ at'[t] = {}
      /\ \A t \in Sockets \ lost : conn'[t] = conn[t] /\ at'[t] = at[t] /\ up'[t] = up[t]
  BY <1>1, <1>3
<1>7. UNCHANGED <<connecting, retrying, destroyed, socket, online, doc, down>>
  BY <1>2 DEF provider
<1> QED
  BY <1>1, <1>3, <1>4, <1>5, <1>6, <1>7, EndsGo

----------------------------------------------------------------------------
(* The room's steps. *)

(* What an update that is broadcast puts on its way. *)
Spreads(i, new, from, reply) ==
  \A t \in Sockets :
    /\ ~Listening(t) => down'[t] = down[t]
    /\ t \notin from /\ t \notin Joined(i) => down'[t] = down[t]
    /\ \A e : /\ Asked(down[t], e) => Asked(down'[t], e)
              /\ InFlight(down[t], e) => InFlight(down'[t], e)
              /\ InFlight(down'[t], e) => \/ InFlight(down[t], e)
                                          \/ t \in from /\ InFlight(reply, e)
                                          \/ t \in Joined(i) /\ e \in new
              /\ t \in from /\ t \notin closing /\ Listening(t) =>
                     /\ Asked(reply, e) => Asked(down'[t], e)
                     /\ InFlight(reply, e) => InFlight(down'[t], e)
              /\ t \notin from /\ t \in Joined(i) /\ t \notin closing /\ Listening(t) =>
                     (e \in new => InFlight(down'[t], e))

LEMMA Broadcasting ==
  ASSUME SessionInv, NEW i \in Instances, NEW new \in SUBSET Edits,
         NEW from \in SUBSET Sockets, NEW reply \in Seq(Frames),
         Broadcast(i, new, from, reply)
  PROVE  down' \in [Sockets -> Seq(Frames)] /\ Spreads(i, new, from, reply)
<1> DEFINE n == NonEmpty(new)
<1>1. n \in Seq(Frames) /\ \A e : InFlight(n, e) <=> e \in new
  BY NonEmptyQueue
<1>2. \A t \in Sockets : down'[t] = IF t \in from THEN Sent(t, reply)
                                    ELSE IF t \in Joined(i) THEN Sent(t, n) ELSE down[t]
  BY DEF Broadcast
<1> HIDE DEF n
<1>3. ASSUME NEW t \in Sockets
      PROVE  /\ down'[t] \in Seq(Frames)
             /\ ~Listening(t) => down'[t] = down[t]
             /\ t \notin from /\ t \notin Joined(i) => down'[t] = down[t]
  <2>1. Sent(t, reply) \in Seq(Frames) /\ Sent(t, n) \in Seq(Frames) /\ down[t] \in Seq(Frames)
    BY <1>1, Sending DEF TypeOK
  <2>2. ~Listening(t) => Sent(t, reply) = down[t] /\ Sent(t, n) = down[t]
    BY DEF Sent
  <2> QED
    BY <1>2, <2>1, <2>2
<1>4. ASSUME NEW t \in Sockets, NEW e
      PROVE  /\ Asked(down[t], e) => Asked(down'[t], e)
             /\ InFlight(down[t], e) => InFlight(down'[t], e)
             /\ InFlight(down'[t], e) => \/ InFlight(down[t], e)
                                         \/ t \in from /\ InFlight(reply, e)
                                         \/ t \in Joined(i) /\ e \in new
             /\ t \in from /\ t \notin closing /\ Listening(t) =>
                    /\ Asked(reply, e) => Asked(down'[t], e)
                    /\ InFlight(reply, e) => InFlight(down'[t], e)
             /\ t \notin from /\ t \in Joined(i) /\ t \notin closing /\ Listening(t) =>
                    (e \in new => InFlight(down'[t], e))
  <2>1. CASE t \in from
    BY <1>2, <2>1, Sending
  <2>2. CASE t \notin from /\ t \in Joined(i)
    <3>1. down'[t] = Sent(t, n)
      BY <1>2, <2>2
    <3>2. /\ Asked(down[t], e) => Asked(Sent(t, n), e)
          /\ InFlight(down[t], e) => InFlight(Sent(t, n), e)
          /\ InFlight(Sent(t, n), e) => InFlight(down[t], e) \/ InFlight(n, e)
          /\ t \notin closing /\ Listening(t) => (InFlight(n, e) => InFlight(Sent(t, n), e))
      BY <1>1, Sending
    <3> QED
      BY <1>1, <2>2, <3>1, <3>2
  <2>3. CASE t \notin from /\ t \notin Joined(i)
    BY <1>2, <2>3
  <2> QED
    BY <2>1, <2>2, <2>3
<1>5. down' \in [Sockets -> Seq(Frames)]
  <2>1. down' = [t \in Sockets |-> down'[t]]
    BY DEF Broadcast
  <2> QED
    BY <1>3, <2>1
<1> QED
  BY <1>3, <1>4, <1>5 DEF Spreads

(* A room grows, by what the sockets of from brought; these have joined it then. *)
LEMMA RoomGrows ==
  ASSUME SessionInv, TypeOK', NEW i \in Instances, NEW from \in SUBSET Sockets,
         NEW new \in SUBSET Edits, NEW reply \in Seq(Frames),
         Broadcast(i, new, from, reply),
         UNCHANGED <<connecting, retrying, destroyed, socket, online, doc, at, closing>>,
         \A t \in from : at[t] = {i} /\ conn[t] \in {"joining", "joined"} /\ conn'[t] = "joined",
         \A t \in Sockets \ from : conn'[t] = conn[t] /\ up'[t] = up[t],
         open \subseteq open', from # {} => i \in open',
         \A j \in Instances : j # i => room'[j] = room[j],
         i \in open => room[i] \subseteq room'[i],
         new \subseteq room'[i],
         \A e : InFlight(reply, e) => e \in room'[i],
         \A t \in from : Live(t)' => \A e \in doc[t[1]] \ room'[i] :
             \/ InFlight(up'[t], e)
             \/ Asked(reply, e)
             \/ Live(t) /\ Asked(down[t], e)
  PROVE  SessionInv'
<1>1. Spreads(i, new, from, reply)
  BY Broadcasting
<1> USE DEF Spreads
<1>2. OneAttempt' /\ OneSocket'
  BY DEF OneAttempt, OneSocket
<1>3. ServerEnd'
  <2>1. ASSUME NEW t \in from
        PROVE  /\ conn'[t] # "none" /\ at'[t] = {i} /\ at'[t] \subseteq open'
    OBVIOUS
  <2>2. ASSUME NEW t \in Sockets \ from
        PROVE  /\ conn'[t] = "none" => at'[t] = {}
               /\ conn'[t] # "none" => \E j \in Instances : at'[t] = {j}
               /\ conn'[t] = "joined" => at'[t] \subseteq open'
    BY DEF ServerEnd
  <2> QED
    BY <2>1, <2>2 DEF ServerEnd
<1>4. NothingDown'
  <2>1. ASSUME NEW t \in Sockets, Listening(t), t[1] \notin online
        PROVE  conn[t] = "none" /\ t \notin from /\ t \notin Joined(i)
    BY <2>1 DEF NothingDown, Joined
  <2> QED
    BY <1>1, <2>1 DEF NothingDown, Listening
<1>5. \A t \in Sockets \ from : Live(t)' = Live(t)
  BY DEF Live, Listening
<1>6. ASSUME NEW t \in Sockets, Live(t)
      PROVE  \A j \in at[t] : j \in Instances /\ j \in open /\ room[j] \subseteq room'[j]
  <2>1. at[t] \subseteq open /\ at[t] \subseteq Instances
    BY <1>6 DEF Live, ServerEnd, TypeOK
  <2> QED
    BY <2>1
<1>7. DownIsHeld'
  <2>1. ASSUME NEW t \in Sockets, NEW e \in Edits, InFlight(down'[t], e)
        PROVE  /\ conn'[t] \notin {"new", "joining"}
               /\ Live(t)' => \A j \in at[t] : e \in room'[j]
    <3>1. CASE t \in from
      <4>1. InFlight(down[t], e) => conn[t] = "joined" /\ (Live(t)' => Live(t))
        BY <3>1 DEF DownIsHeld, Live, Listening
      <4>2. InFlight(down[t], e) /\ Live(t)' => e \in room'[i]
        BY <1>6, <3>1, <4>1 DEF DownIsHeld
      <4>3. Live(t)' => e \in room'[i]
        BY <1>1, <2>1, <3>1, <4>2
      <4> QED
        BY <3>1, <4>3
    <3>2. CASE t \notin from /\ InFlight(down[t], e)
      BY <1>5, <1>6, <3>2 DEF DownIsHeld
    <3>3. CASE t \notin from /\ t \in Joined(i) /\ e \in new
      BY <3>3 DEF Joined
    <3> QED
      BY <1>1, <2>1, <3>1, <3>2, <3>3
  <2> QED
    BY <2>1 DEF DownIsHeld
<1>8. ClientIsHeard'
  <2>1. ASSUME NEW t \in Sockets, Live(t)', NEW j \in at[t], NEW e \in doc[t[1]] \ room'[j]
        PROVE  InFlight(up'[t], e) \/ Asked(down'[t], e)
    <3>1. e \in Edits
      BY SocketParts DEF TypeOK
    <3>2. CASE t \in from
      <4>1. j = i /\ t \notin closing /\ Listening(t)
        BY <2>1, <3>2 DEF Live, Listening
      <4> QED
        BY <1>1, <2>1, <3>1, <3>2, <4>1
    <3>3. CASE t \notin from
      <4>1. Live(t) /\ up'[t] = up[t] /\ e \notin room[j]
        BY <1>5, <1>6, <2>1, <3>3
      <4> QED
        BY <1>1, <3>1, <4>1 DEF ClientIsHeard
    <3> QED
      BY <3>2, <3>3
  <2> QED
    BY <2>1 DEF ClientIsHeard
<1> QED
  BY <1>2, <1>3, <1>4, <1>7, <1>8

(* What a document newly shows was in it or has come. *)
LEMMA ShowsHeld ==
  ASSUME NEW r \in SUBSET Edits, NEW u \in SUBSET Edits
  PROVE  Shows(r, u) \in SUBSET Edits /\ Shows(r, u) \subseteq r \cup u
  BY VisibleHeld DEF Shows

(* What a room holds once it has an update. *)
LEMMA Holding ==
  ASSUME TypeOK, NEW i \in Instances, NEW r \in SUBSET Edits, Hold(i, r)
  PROVE  /\ room' \in [Instances -> SUBSET Edits] /\ ahead' \subseteq Edits
         /\ room'[i] = r /\ \A j \in Instances : j # i => room'[j] = room[j]
  BY DEF Hold, TypeOK

(* An update that is published has the types of the bus. *)
LEMMA Publishing ==
  ASSUME NEW i \in Instances, NEW b \in [Instances -> Seq(Frames)],
         NEW new \in SUBSET Edits, Publish(i, b, new)
  PROVE  bus' \in [Instances -> Seq(Frames)]
<1> DEFINE n == NonEmpty(new)
<1>1. n \in Seq(Frames)
  BY NonEmptyQueue
<1>2. bus' = [j \in Instances |-> IF j \in open \ {i} THEN b[j] \o n ELSE b[j]]
  BY DEF Publish
<1> HIDE DEF n
<1>3. ASSUME NEW j \in Instances PROVE b[j] \in Seq(Frames) /\ b[j] \o n \in Seq(Frames)
  BY <1>1, TwoQueues
<1> QED
  BY <1>2, <1>3

(* The frames q, handled: the updates among them are u, and reply answers a step 1. *)
Handled(s, i, r, b, greeting, q, u, reply) ==
  /\ \A e : InFlight(q, e) => e \in u
  /\ Hold(i, r \cup u) /\ Record(i, Shows(r, u)) /\ Publish(i, b, Shows(r, u))
  /\ Broadcast(i, Shows(r, u), {s}, greeting \o reply)
  /\ \A e : InFlight(reply, e) => e \in r
  /\ Carries(reply, r)
  /\ \A v : Carries(q, v) =>
         /\ u \subseteq v
         /\ (\E k \in 1 .. Len(q) : q[k].kind = "Step1") => \A e \in r \ v : InFlight(reply, e)

LEMMA Handling ==
  ASSUME NEW s \in Sockets, NEW i \in Instances, NEW r \in SUBSET Edits, NEW b,
         NEW greeting, NEW q \in Seq(Frames), HandleSync(s, i, r, b, greeting, q)
  PROVE  \E u \in SUBSET Edits, reply \in Seq(Frames) :
             Handled(s, i, r, b, greeting, q, u, reply)
<1> DEFINE f == {q[k] : k \in 1 .. Len(q)}
           u == UNION {g.edits : g \in {h \in f : h.kind = "Update"}}
           asks == {h \in f : h.kind = "Step1"}
           reply == IF asks = {} THEN <<>>
                    ELSE NonEmpty(r \ (CHOOSE h \in asks : TRUE).edits)
<1>1. /\ Hold(i, r \cup u) /\ Record(i, Shows(r, u)) /\ Publish(i, b, Shows(r, u))
      /\ Broadcast(i, Shows(r, u), {s}, greeting \o reply)
  BY DEF HandleSync
<1>2. f \subseteq Frames
  OBVIOUS
<1>3. u \in SUBSET Edits
  BY <1>2 DEF Frames
<1>4. ASSUME NEW e, InFlight(q, e) PROVE e \in u
  BY <1>4 DEF InFlight
<1>5. /\ reply \in Seq(Frames) /\ (\A e : InFlight(reply, e) => e \in r)
      /\ Carries(reply, r)
      /\ \A v : Carries(q, v) /\ asks # {} => \A e \in r \ v : InFlight(reply, e)
  <2>1. CASE asks = {}
    BY <2>1, EmptyQueue, CarriesNone
  <2>2. CASE asks # {}
    <3> DEFINE ask == CHOOSE h \in asks : TRUE
               left == r \ ask.edits
    <3>1. reply = NonEmpty(left) /\ left \in SUBSET Edits /\ left \subseteq r
      BY <2>2
    <3>2. ask \in f
      BY <2>2
    <3>3. ASSUME NEW v, Carries(q, v) PROVE r \ v \subseteq left
      BY <3>2, <3>3 DEF Carries
    <3> HIDE DEF left, reply
    <3> QED
      BY <3>1, <3>3, NonEmptyQueue, CarriesUpdate
  <2> QED
    BY <2>1, <2>2
<1>6. ASSUME NEW v, Carries(q, v) PROVE u \subseteq v
  BY <1>6 DEF Carries
<1>7. (\E k \in 1 .. Len(q) : q[k].kind = "Step1") => asks # {}
  OBVIOUS
<1> HIDE DEF asks, u, reply
<1> QED
  BY <1>1, <1>3, <1>4, <1>5, <1>6, <1>7 DEF Handled

LEMMA DispatchKeeps ==
  ASSUME SessionInv, NEW s \in Sockets, Dispatch(s)
  PROVE  SessionInv'
<1>1. /\ conn[s] = "joined" /\ up[s] \in Seq(Frames) /\ up[s] # <<>>
      /\ Head(up[s]) \in Frames /\ up' \in [Sockets -> Seq(Frames)]
      /\ up'[s] = Tail(up[s]) /\ \A t \in Sockets : t # s => up'[t] = up[t]
  BY ArrivesTypes DEF Dispatch
<1>2. /\ UNCHANGED <<connecting, retrying, refreshToken, stale, destroyed, socket, online>>
      /\ UNCHANGED <<doc, conn, at, closing, queued, open, stored, crashed, dep, typed>>
  BY DEF Dispatch, provider, connection, typing
<1> DEFINE q == <<Head(up[s])>>
<1>3. PICK i \in at[s] : HandleSync(s, i, room[i], bus, <<>>, q)
  BY DEF Dispatch
<1>4. at[s] = {i} /\ i \in Instances /\ i \in open
  BY <1>1 DEF ServerEnd, TypeOK
<1>5. q \in Seq(Frames) /\ \A e : InFlight(up[s], e) => InFlight(up'[s], e) \/ InFlight(q, e)
  BY <1>1, OneFrame, TailQueue
<1> HIDE DEF q
<1>6. room[i] \in SUBSET Edits /\ bus \in [Instances -> Seq(Frames)]
  BY <1>4 DEF TypeOK
<1>7. PICK u \in SUBSET Edits, reply \in Seq(Frames) :
        Handled(s, i, room[i], bus, <<>>, q, u, reply)
  BY <1>3, <1>4, <1>5, <1>6, Handling
<1> DEFINE new == Shows(room[i], u)
<1>8. new \in SUBSET Edits /\ new \subseteq room[i] \cup u
  BY <1>6, ShowsHeld
<1>9. /\ room' \in [Instances -> SUBSET Edits] /\ ahead' \subseteq Edits
      /\ room'[i] = room[i] \cup u /\ \A j \in Instances : j # i => room'[j] = room[j]
  BY <1>4, <1>6, <1>7, Holding DEF Handled
<1> HIDE DEF new
<1>10. <<>> \o reply = reply
  OBVIOUS
<1>11. /\ Publish(i, bus, new) /\ Broadcast(i, new, {s}, reply) /\ Record(i, new)
       /\ \A e : InFlight(q, e) => e \in u
       /\ \A e : InFlight(reply, e) => e \in room[i]
  BY <1>7, <1>10 DEF Handled, new
<1>12. bus' \in [Instances -> Seq(Frames)]
  BY <1>4, <1>6, <1>8, <1>11, Publishing
<1>13. down' \in [Sockets -> Seq(Frames)]
  BY <1>4, <1>8, <1>11, Broadcasting
<1>14. TypeOK'
  <2>1. unwritten' \in [Instances -> SUBSET Edits]
    BY <1>8, <1>11 DEF Record, TypeOK
  <2> QED
    BY <1>1, <1>2, <1>9, <1>12, <1>13, <2>1 DEF TypeOK
<1>15. ASSUME Live(s)', NEW e \in doc[s[1]] \ room'[i]
       PROVE  InFlight(up'[s], e) \/ (Live(s) /\ Asked(down[s], e))
  <2>1. Live(s) /\ e \notin room[i] /\ e \notin u
    BY <1>2, <1>9, <1>15 DEF Live, Listening
  <2>2. InFlight(up[s], e) \/ Asked(down[s], e)
    BY <1>4, <1>15, <2>1 DEF ClientIsHeard
  <2> QED
    BY <1>5, <1>11, <2>1, <2>2
<1> DEFINE from == {s}
<1>16. /\ Broadcast(i, new, from, reply) /\ from \in SUBSET Sockets
       /\ \A t \in from : at[t] = {i} /\ conn[t] \in {"joining", "joined"} /\ conn'[t] = "joined"
       /\ \A t \in Sockets \ from : conn'[t] = conn[t] /\ up'[t] = up[t]
       /\ \A t \in from : Live(t)' => \A e \in doc[t[1]] \ room'[i] :
             InFlight(up'[t], e) \/ Asked(reply, e) \/ (Live(t) /\ Asked(down[t], e))
  BY <1>1, <1>2, <1>4, <1>11, <1>15
<1> HIDE DEF from
<1>17. /\ open \subseteq open' /\ i \in open' /\ room[i] \subseteq room'[i]
       /\ new \subseteq room'[i] /\ \A e : InFlight(reply, e) => e \in room'[i]
  BY <1>2, <1>4, <1>8, <1>9, <1>11
<1> QED
  BY <1>2, <1>4, <1>8, <1>9, <1>14, <1>16, <1>17, RoomGrows

(* The room's step 1 asks for every edit it does not hold. *)
LEMMA GreetingAsks ==
  ASSUME NEW r \in SUBSET Edits
  PROVE  /\ Greeting(r) \in Seq(Frames)
         /\ \A e : ~InFlight(Greeting(r), e) /\ (e \notin r => Asked(Greeting(r), e))
<1> DEFINE frame == Step1(Visible(r))
<1>1. /\ frame \in Frames /\ frame.kind = "Step1" /\ frame.edits = Visible(r)
      /\ Visible(r) \subseteq r
  BY VisibleHeld DEF Step1, Frame, Frames
<1>2. Greeting(r) = <<frame>>
  BY DEF Greeting
<1> HIDE DEF frame
<1> QED
  BY <1>1, <1>2, OneFrame

LEMMA JoinKeeps ==
  ASSUME SessionInv, NEW s \in Sockets, Join(s)
  PROVE  SessionInv'
<1>1. /\ conn[s] = "joining" /\ s \notin closing
      /\ conn' = [conn EXCEPT ![s] = "joined"] /\ queued' = [queued EXCEPT ![s] = <<>>]
      /\ UNCHANGED <<connecting, retrying, refreshToken, stale, destroyed, socket, online>>
      /\ UNCHANGED <<doc, at, closing, up, stored, crashed, dep, typed>>
  BY DEF Join, provider, typing
<1>2. PICK i \in at[s] :
        /\ open' = open \cup {i}
        /\ \E answers \in IF i \in open THEN {bus[i]} ELSE {NonEmpty(UNION {room[j] : j \in open})} :
           LET r == IF i \in open THEN room[i] ELSE stored IN
           HandleSync(s, i, r, [bus EXCEPT ![i] = answers], Greeting(r), queued[s])
  BY DEF Join
<1> DEFINE r == IF i \in open THEN room[i] ELSE stored
           others == UNION {room[j] : j \in open}
<1>3. PICK answers \in IF i \in open THEN {bus[i]} ELSE {NonEmpty(others)} :
        HandleSync(s, i, r, [bus EXCEPT ![i] = answers], Greeting(r), queued[s])
  BY <1>2
<1>4. at[s] = {i} /\ i \in Instances
  BY <1>1 DEF ServerEnd, TypeOK
<1>5. r \in SUBSET Edits /\ (i \in open => room[i] \subseteq r)
  BY <1>4 DEF TypeOK
<1> DEFINE b == [bus EXCEPT ![i] = answers]
<1>6. b \in [Instances -> Seq(Frames)]
  <2>1. others \in SUBSET Edits
    BY DEF TypeOK
  <2> HIDE DEF others
  <2>2. NonEmpty(others) \in Seq(Frames)
    BY <2>1, NonEmptyQueue
  <2>3. answers \in Seq(Frames)
    BY <1>4, <2>2 DEF TypeOK
  <2> QED
    BY <2>3 DEF TypeOK
<1> DEFINE greeting == Greeting(r)
           q == queued[s]
<1>7. HandleSync(s, i, r, b, greeting, q)
  BY <1>3
<1> HIDE DEF r, b
<1>8. /\ greeting \in Seq(Frames) /\ q \in Seq(Frames)
      /\ \A e : ~InFlight(greeting, e) /\ (e \notin r => Asked(greeting, e))
  BY <1>5, GreetingAsks DEF TypeOK
<1> HIDE DEF greeting, q
<1>9. PICK u \in SUBSET Edits, rest \in Seq(Frames) : Handled(s, i, r, b, greeting, q, u, rest)
  BY <1>4, <1>5, <1>7, <1>8, Handling
<1> DEFINE new == Shows(r, u)
           reply == greeting \o rest
<1>10. new \in SUBSET Edits /\ new \subseteq r \cup u
  BY <1>5, ShowsHeld
<1>11. /\ room' \in [Instances -> SUBSET Edits] /\ ahead' \subseteq Edits
       /\ room'[i] = r \cup u /\ \A j \in Instances : j # i => room'[j] = room[j]
  BY <1>4, <1>5, <1>9, Holding DEF Handled
<1> HIDE DEF new
<1>12. Publish(i, b, new) /\ Broadcast(i, new, {s}, reply) /\ Record(i, new)
  BY <1>9 DEF Handled, new
<1>13. /\ reply \in Seq(Frames)
       /\ \A e : /\ InFlight(reply, e) => e \in room'[i]
                 /\ e \notin r => Asked(reply, e)
  <2>1. \A e : InFlight(rest, e) => e \in r
    BY <1>9 DEF Handled
  <2> QED
    BY <1>8, <1>11, <2>1, TwoQueues
<1> HIDE DEF reply
<1>14. bus' \in [Instances -> Seq(Frames)]
  BY <1>4, <1>6, <1>10, <1>12, Publishing
<1>15. down' \in [Sockets -> Seq(Frames)]
  BY <1>4, <1>10, <1>12, <1>13, Broadcasting
<1>16. TypeOK'
  <2>1. unwritten' \in [Instances -> SUBSET Edits]
    BY <1>10, <1>12 DEF Record, TypeOK
  <2>2. queued' \in [Sockets -> Seq(Frames)]
        /\ \A t \in Sockets : Len(queued'[t]) <= MAX_QUEUED_FRAMES
    <3>1. <<>> \in Seq(Frames) /\ Len(<<>>) <= MAX_QUEUED_FRAMES
      BY SessionAssumption
    <3> QED
      BY <1>1, <3>1 DEF TypeOK
  <2>3. conn' \in [Sockets -> {"none", "new", "joining", "joined"}] /\ open' \subseteq Instances
    BY <1>1, <1>2, <1>4 DEF TypeOK
  <2> QED
    BY <1>1, <1>11, <1>14, <1>15, <2>1, <2>2, <2>3 DEF TypeOK
<1> DEFINE from == {s}
<1>17. /\ Broadcast(i, new, from, reply) /\ from \in SUBSET Sockets
       /\ \A t \in from : at[t] = {i} /\ conn[t] \in {"joining", "joined"} /\ conn'[t] = "joined"
       /\ \A t \in Sockets \ from : conn'[t] = conn[t] /\ up'[t] = up[t]
       /\ \A t \in from : Live(t)' => \A e \in doc[t[1]] \ room'[i] :
             InFlight(up'[t], e) \/ Asked(reply, e) \/ (Live(t) /\ Asked(down[t], e))
  BY <1>1, <1>4, <1>11, <1>12, <1>13 DEF TypeOK
<1> HIDE DEF from
<1>18. /\ open \subseteq open' /\ i \in open' /\ (i \in open => room[i] \subseteq room'[i])
       /\ new \subseteq room'[i] /\ \A e : InFlight(reply, e) => e \in room'[i]
  BY <1>2, <1>5, <1>10, <1>11, <1>13
<1> QED
  BY <1>1, <1>4, <1>10, <1>11, <1>13, <1>16, <1>17, <1>18, RoomGrows

LEMMA ReceiveKeeps ==
  ASSUME SessionInv, NEW i \in Instances, Receive(i)
  PROVE  SessionInv'
<1> DEFINE u == Head(bus[i]).edits
           new == Shows(room[i], u)
           none == {}
           reply == <<>>
<1>1. /\ bus[i] # <<>> /\ bus' = [bus EXCEPT ![i] = Tail(@)]
      /\ Hold(i, room[i] \cup u) /\ Broadcast(i, new, none, reply)
      /\ UNCHANGED <<connecting, retrying, refreshToken, stale, destroyed, socket, online>>
      /\ UNCHANGED <<doc, conn, at, closing, queued, up, open, unwritten, stored, crashed, dep, typed>>
  BY DEF Receive, provider, connection, typing
<1>2. Tail(bus[i]) \in Seq(Frames) /\ Head(bus[i]) \in Frames
  BY <1>1 DEF TypeOK
<1>3. u \in SUBSET Edits /\ room[i] \in SUBSET Edits
  BY <1>2 DEF Frames, TypeOK
<1> HIDE DEF u
<1>4. new \in SUBSET Edits /\ new \subseteq room[i] \cup u
  BY <1>3, ShowsHeld
<1>5. /\ room' \in [Instances -> SUBSET Edits] /\ ahead' \subseteq Edits
      /\ room'[i] = room[i] \cup u /\ \A j \in Instances : j # i => room'[j] = room[j]
  BY <1>1, <1>3, Holding
<1> HIDE DEF new, none, reply
<1>6. none \in SUBSET Sockets /\ reply \in Seq(Frames) /\ \A e : ~InFlight(reply, e)
  BY EmptyQueue DEF none, reply
<1>7. down' \in [Sockets -> Seq(Frames)]
  BY <1>1, <1>4, <1>6, Broadcasting
<1>8. bus' \in [Instances -> Seq(Frames)]
  BY <1>1, <1>2 DEF TypeOK
<1>9. TypeOK'
  BY <1>1, <1>5, <1>7, <1>8 DEF TypeOK
<1>10. /\ \A t \in Sockets \ none : conn'[t] = conn[t] /\ up'[t] = up[t]
       /\ open \subseteq open' /\ (none # {} => i \in open')
  BY <1>1 DEF none
<1>11. /\ (i \in open => room[i] \subseteq room'[i]) /\ new \subseteq room'[i]
       /\ \A e : InFlight(reply, e) => e \in room'[i]
  BY <1>4, <1>5, <1>6
<1>12. /\ \A t \in none : at[t] = {i} /\ conn[t] \in {"joining", "joined"} /\ conn'[t] = "joined"
       /\ \A t \in none : Live(t)' => \A e \in doc[t[1]] \ room'[i] :
             InFlight(up'[t], e) \/ Asked(reply, e) \/ (Live(t) /\ Asked(down[t], e))
  BY DEF none
<1> QED
  BY <1>1, <1>4, <1>5, <1>6, <1>9, <1>10, <1>11, <1>12, RoomGrows

----------------------------------------------------------------------------
(* The invariant. *)

LEMMA InitHolds == Init => SessionInv
<1> SUFFICES ASSUME Init PROVE SessionInv
  OBVIOUS
<1> USE DEF Init
<1>1. <<>> \in Seq(Frames) /\ Len(<<>>) <= MAX_QUEUED_FRAMES /\ \A e : ~InFlight(<<>>, e)
  BY EmptyQueue, SessionAssumption
<1>2. TypeOK
  BY <1>1 DEF TypeOK
<1>3. OneAttempt /\ OneSocket /\ ServerEnd /\ NothingDown
  BY DEF OneAttempt, OneSocket, ServerEnd, NothingDown
<1>4. DownIsHeld
  BY <1>1 DEF DownIsHeld
<1>5. ClientIsHeard
  BY DEF ClientIsHeard, Live
<1> QED
  BY <1>2, <1>3, <1>4, <1>5

LEMMA StepKeeps == SessionInv /\ [Next]_vars => SessionInv'
<1> SUFFICES ASSUME SessionInv, [Next]_vars PROVE SessionInv'
  OBVIOUS
<1>1. ASSUME NEW c \in Clients, ProviderStep(c) PROVE SessionInv'
  BY <1>1, TokenArrivesKeeps, TimersKeep, OpensKeeps, GoesOffline, ReceiveSyncKeeps
     DEF ProviderStep
<1>2. ASSUME NEW c \in Clients, NEW e \in Edits, Type(c, e) PROVE SessionInv'
  BY <1>2, TypeKeeps
<1>3. ASSUME NEW s \in Sockets, ServerStep(s) PROVE SessionInv'
  BY <1>3, AuthenticateKeeps, QueueFrameKeeps, JoinKeeps, DispatchKeeps, SocketClosedKeeps
     DEF ServerStep
<1>4. ASSUME NEW i \in Instances, RoomStep(i) PROVE SessionInv'
  BY <1>4, ReceiveKeeps, WriteKeeps DEF RoomStep
<1>5. CASE Trouble
  <2>1. ASSUME NEW c \in Clients, TokenFails(c) \/ SocketLost(c) \/ Expire(c) \/ Destroy(c)
        PROVE  SessionInv'
    BY <2>1, TimersKeep, GoesOffline, DestroyKeeps
  <2>2. ASSUME NEW s \in Sockets, OverLimit(s) \/ ServerCloses(s) \/ Terminate(s)
        PROVE  SessionInv'
    BY <2>2, OverLimitKeeps, ServerClosesKeeps, SocketClosedKeeps DEF Terminate
  <2>3. ASSUME NEW i \in Instances, Crash(i) PROVE SessionInv'
    BY <2>3, CrashKeeps
  <2> QED
    BY <1>5, <2>1, <2>2, <2>3 DEF Trouble
<1>6. CASE UNCHANGED vars
  <2>1. UNCHANGED ends
    BY <1>6 DEF vars, ends, provider, connection, rooms
  <2>2. TypeOK' /\ OneAttempt'
    BY <1>6 DEF vars, provider, connection, rooms, typing, TypeOK, OneAttempt
  <2> QED
    BY <2>1, <2>2, Undisturbed
<1> QED
  BY <1>1, <1>2, <1>3, <1>4, <1>5, <1>6 DEF Next

(* SessionInv holds in every state the sessions reach. *)
THEOREM SessionInvariant == Spec => []SessionInv
<1>1. Init => SessionInv
  BY InitHolds
<1>2. SessionInv /\ [Next]_vars => SessionInv'
  BY StepKeeps
<1> QED
  BY <1>1, <1>2, PTL DEF Spec

(* Every variable keeps its type, and no connection queues more frames than
   MAX_QUEUED_FRAMES. *)
THEOREM SessionTypeCorrect == Spec => []TypeOK
<1>1. SessionInv => TypeOK
  OBVIOUS
<1> QED
  BY <1>1, SessionInvariant, PTL

(* The provider neither gives up nor connects twice. *)
THEOREM ProvidersTryOnce == Spec => []OneAttempt
<1>1. SessionInv => OneAttempt
  OBVIOUS
<1> QED
  BY <1>1, SessionInvariant, PTL

(* On a socket in use no edit of its client is forgotten: the room has it, or it is
   on its way, or will be asked for. *)
THEOREM ClientsAreHeard == Spec => []ClientIsHeard
<1>1. SessionInv => ClientIsHeard
  OBVIOUS
<1> QED
  BY <1>1, SessionInvariant, PTL

----------------------------------------------------------------------------
(* What rooms hold is recorded. *)

Kept == Recorded \cup ahead

(* What counts as recorded stays so. *)
LEMMA KeptGrows ==
  ASSUME \A i \in Instances : unwritten[i] \subseteq stored' \cup crashed' \cup unwritten'[i],
         stored \subseteq stored', crashed \subseteq crashed', ahead \subseteq ahead'
  PROVE  Kept \subseteq Kept'
  BY DEF Kept, Recorded

(* A room that takes an update in: what it then shows it records, and the rest it
   keeps aside. *)
LEMMA HandlingRecords ==
  ASSUME TypeOK, RoomsAreRecorded, NEW i \in Instances, NEW r \in SUBSET Edits,
         r \subseteq Kept, NEW b \in [Instances -> Seq(Frames)],
         \A j \in Instances : Carries(b[j], Kept),
         NEW u \in SUBSET Edits, Hold(i, r \cup u),
         Record(i, Shows(r, u)), Publish(i, b, Shows(r, u)), UNCHANGED <<stored, crashed>>
  PROVE  RoomsAreRecorded'
<1> DEFINE new == Shows(r, u)
<1>1. new \in SUBSET Edits
  BY ShowsHeld
<1>2. r \cup u \subseteq r \cup new \cup ((r \cup u) \ Visible(r \cup u))
  BY VisibleHeld DEF Shows
<1>3. ahead' = ahead \cup ((r \cup u) \ Visible(r \cup u))
  BY DEF Hold
<1> HIDE DEF new
<1>4. \A j \in Instances : unwritten'[j] = IF j = i THEN unwritten[j] \cup new ELSE unwritten[j]
  BY DEF Record, TypeOK, new
<1>5. Kept \subseteq Kept'
  BY <1>3, <1>4, KeptGrows
<1>6. new \subseteq Kept'
  <2>1. new \subseteq unwritten'[i]
    BY <1>4
  <2>2. \A e \in unwritten'[i] : e \in UNION {unwritten'[j] : j \in Instances}
    OBVIOUS
  <2> QED
    BY <2>1, <2>2 DEF Kept, Recorded
<1>7. r \cup u \subseteq Kept'
  BY <1>2, <1>3, <1>5, <1>6 DEF Kept
<1>8. room'[i] = r \cup u /\ \A j \in Instances : j # i => room'[j] = room[j]
  BY Holding
<1>9. ASSUME NEW j \in Instances PROVE room'[j] \subseteq Kept'
  BY <1>5, <1>7, <1>8 DEF RoomsAreRecorded, Kept
<1>10. ASSUME NEW j \in Instances PROVE Carries(bus'[j], Kept')
  <2> DEFINE n == NonEmpty(new)
  <2>1. n \in Seq(Frames) /\ Carries(n, Kept')
    BY <1>1, <1>6, NonEmptyQueue, CarriesUpdate
  <2>2. b[j] \in Seq(Frames) /\ Carries(b[j], Kept')
    BY <1>5, CarriesMore
  <2>3. bus'[j] = b[j] \o n \/ bus'[j] = b[j]
    BY DEF Publish, new
  <2> HIDE DEF n
  <2> QED
    BY <2>1, <2>2, <2>3, CarriesBoth
<1> QED
  BY <1>9, <1>10 DEF RoomsAreRecorded, Kept

LEMMA RecordedStays ==
  ASSUME RoomsAreRecorded, UNCHANGED rooms
  PROVE  RoomsAreRecorded'
  BY DEF rooms, RoomsAreRecorded, Recorded

LEMMA JoinRecords ==
  ASSUME SessionInv, RoomsAreRecorded, NEW s \in Sockets, Join(s)
  PROVE  RoomsAreRecorded'
<1>1. at[s] \subseteq Instances /\ UNCHANGED <<stored, crashed>>
  BY DEF Join, TypeOK
<1>2. PICK i \in at[s] :
        \E answers \in IF i \in open THEN {bus[i]} ELSE {NonEmpty(UNION {room[j] : j \in open})} :
           LET r == IF i \in open THEN room[i] ELSE stored IN
           HandleSync(s, i, r, [bus EXCEPT ![i] = answers], Greeting(r), queued[s])
  BY DEF Join
<1> DEFINE r == IF i \in open THEN room[i] ELSE stored
           others == UNION {room[j] : j \in open}
<1>3. PICK answers \in IF i \in open THEN {bus[i]} ELSE {NonEmpty(others)} :
        HandleSync(s, i, r, [bus EXCEPT ![i] = answers], Greeting(r), queued[s])
  BY <1>2
<1>4. i \in Instances /\ queued[s] \in Seq(Frames)
  BY <1>1 DEF TypeOK
<1>5. r \in SUBSET Edits /\ r \subseteq Kept
  BY <1>4 DEF TypeOK, RoomsAreRecorded, Kept, Recorded
<1>6. answers \in Seq(Frames) /\ Carries(answers, Kept)
  <2>1. bus[i] \in Seq(Frames) /\ Carries(bus[i], Kept)
    BY <1>4 DEF TypeOK, RoomsAreRecorded, Kept
  <2>2. others \in SUBSET Edits /\ others \subseteq Kept
    BY DEF TypeOK, RoomsAreRecorded, Kept
  <2> HIDE DEF others
  <2>3. NonEmpty(others) \in Seq(Frames) /\ Carries(NonEmpty(others), Kept)
    BY <2>2, NonEmptyQueue, CarriesUpdate
  <2> QED
    BY <2>1, <2>3
<1> DEFINE b == [bus EXCEPT ![i] = answers]
           greeting == Greeting(r)
<1>7. /\ b \in [Instances -> Seq(Frames)] /\ \A j \in Instances : Carries(b[j], Kept)
      /\ HandleSync(s, i, r, b, greeting, queued[s])
  BY <1>3, <1>6 DEF TypeOK, RoomsAreRecorded, Kept
<1> HIDE DEF r, b, greeting
<1>8. PICK u \in SUBSET Edits, reply \in Seq(Frames) :
        Handled(s, i, r, b, greeting, queued[s], u, reply)
  BY <1>4, <1>5, <1>7, Handling
<1> QED
  BY <1>1, <1>4, <1>5, <1>7, <1>8, HandlingRecords DEF Handled

LEMMA DispatchRecords ==
  ASSUME SessionInv, RoomsAreRecorded, NEW s \in Sockets, Dispatch(s)
  PROVE  RoomsAreRecorded'
<1>1. UNCHANGED <<stored, crashed>> /\ Head(up[s]) \in Frames
  BY ArrivesTypes DEF Dispatch
<1> DEFINE q == <<Head(up[s])>>
           none == <<>>
<1>2. PICK i \in at[s] : HandleSync(s, i, room[i], bus, none, q)
  BY DEF Dispatch
<1>3. i \in Instances /\ q \in Seq(Frames)
  BY <1>1 DEF TypeOK
<1> HIDE DEF q, none
<1>4. /\ room[i] \in SUBSET Edits /\ bus \in [Instances -> Seq(Frames)]
      /\ room[i] \subseteq Kept /\ \A j \in Instances : Carries(bus[j], Kept)
  BY <1>3 DEF TypeOK, RoomsAreRecorded, Kept
<1>5. PICK u \in SUBSET Edits, reply \in Seq(Frames) :
        Handled(s, i, room[i], bus, none, q, u, reply)
  BY <1>2, <1>3, <1>4, Handling
<1> QED
  BY <1>1, <1>3, <1>4, <1>5, HandlingRecords DEF Handled

LEMMA ReceiveRecords ==
  ASSUME SessionInv, RoomsAreRecorded, NEW i \in Instances, Receive(i)
  PROVE  RoomsAreRecorded'
<1> DEFINE u == Head(bus[i]).edits
<1>1. /\ bus[i] # <<>> /\ bus' = [bus EXCEPT ![i] = Tail(@)] /\ Hold(i, room[i] \cup u)
      /\ UNCHANGED <<unwritten, stored, crashed>>
  BY DEF Receive
<1>2. bus[i] \in Seq(Frames) /\ Carries(bus[i], Kept) /\ room[i] \subseteq Kept
  BY DEF TypeOK, RoomsAreRecorded, Kept
<1>3. u \subseteq Kept /\ Carries(Tail(bus[i]), Kept) /\ Head(bus[i]) \in Frames
  BY <1>1, <1>2, CarriesTail
<1>4. Kept \subseteq Kept'
  BY <1>1, KeptGrows DEF Hold
<1>5. room[i] \cup u \in SUBSET Edits
  BY <1>3 DEF Frames, TypeOK
<1> HIDE DEF u
<1>6. room'[i] = room[i] \cup u /\ \A j \in Instances : j # i => room'[j] = room[j]
  BY <1>1, <1>5, Holding
<1>7. ASSUME NEW j \in Instances PROVE room'[j] \subseteq Kept' /\ Carries(bus'[j], Kept')
  <2>1. room[j] \subseteq Kept /\ Carries(bus[j], Kept)
    BY DEF RoomsAreRecorded, Kept
  <2>2. bus'[j] = IF j = i THEN Tail(bus[i]) ELSE bus[j]
    BY <1>1 DEF TypeOK
  <2> QED
    BY <1>2, <1>3, <1>4, <1>6, <2>1, <2>2, CarriesMore
<1> QED
  BY <1>7 DEF RoomsAreRecorded, Kept

(* Rooms that close, and writes: what is in memory goes, what it was does not. *)
LEMMA MemoryGoes ==
  ASSUME RoomsAreRecorded, Kept \subseteq Kept',
         \A j \in Instances : /\ room'[j] \in {room[j], {}}
                              /\ bus'[j] \in {bus[j], <<>>}
  PROVE  RoomsAreRecorded'
<1>1. ASSUME NEW j \in Instances PROVE room'[j] \subseteq Kept' /\ Carries(bus'[j], Kept')
  BY CarriesNone, CarriesMore DEF RoomsAreRecorded, Kept
<1> QED
  BY <1>1 DEF RoomsAreRecorded, Kept

LEMMA WriteRecords ==
  ASSUME SessionInv, RoomsAreRecorded, NEW i \in Instances, Write(i)
  PROVE  RoomsAreRecorded'
<1>1. Kept \subseteq Kept'
  BY KeptGrows DEF Write, TypeOK
<1> QED
  BY <1>1, MemoryGoes DEF Write

LEMMA SocketClosedRecords ==
  ASSUME SessionInv, RoomsAreRecorded, NEW s \in Sockets, SocketClosed(s)
  PROVE  RoomsAreRecorded'
<1> DEFINE gone == {i \in at[s] : Joined(i) = {s}}
<1>1. /\ stored' = stored \cup UNION {unwritten[i] : i \in gone}
      /\ room' = [i \in Instances |-> IF i \in gone THEN {} ELSE room[i]]
      /\ unwritten' = [i \in Instances |-> IF i \in gone THEN {} ELSE unwritten[i]]
      /\ bus' = [i \in Instances |-> IF i \in gone THEN <<>> ELSE bus[i]]
      /\ UNCHANGED <<ahead, crashed>>
  BY DEF SocketClosed
<1> HIDE DEF gone
<1>2. Kept \subseteq Kept'
  BY <1>1, KeptGrows
<1> QED
  BY <1>1, <1>2, MemoryGoes

LEMMA CrashRecords ==
  ASSUME SessionInv, RoomsAreRecorded, NEW i \in Instances, Crash(i)
  PROVE  RoomsAreRecorded'
<1>1. /\ room' = [room EXCEPT ![i] = {}] /\ crashed' = crashed \cup unwritten[i]
      /\ unwritten' = [unwritten EXCEPT ![i] = {}] /\ bus' = [bus EXCEPT ![i] = <<>>]
      /\ UNCHANGED <<stored, ahead>>
  BY DEF Crash
<1>2. Kept \subseteq Kept'
  BY <1>1, KeptGrows DEF TypeOK
<1> QED
  BY <1>1, <1>2, MemoryGoes DEF TypeOK

LEMMA StepRecords == SessionInv /\ RoomsAreRecorded /\ [Next]_vars => RoomsAreRecorded'
<1> SUFFICES ASSUME SessionInv, RoomsAreRecorded, [Next]_vars PROVE RoomsAreRecorded'
  OBVIOUS
<1>1. ASSUME NEW c \in Clients, ProviderStep(c) PROVE RoomsAreRecorded'
  <2>1. UNCHANGED rooms
    BY <1>1 DEF ProviderStep, TokenArrives, RetryFires, Opens, ReceiveClose, ReceiveSync,
                SocketLost, Offline
  <2> QED
    BY <2>1, RecordedStays
<1>2. ASSUME NEW c \in Clients, NEW e \in Edits, Type(c, e) PROVE RoomsAreRecorded'
  BY <1>2, RecordedStays DEF Type
<1>3. ASSUME NEW s \in Sockets, ServerStep(s) PROVE RoomsAreRecorded'
  <2>1. Authenticate(s) \/ QueueFrame(s) => UNCHANGED rooms
    BY DEF Authenticate, QueueFrame
  <2> QED
    BY <1>3, <2>1, RecordedStays, JoinRecords, DispatchRecords, SocketClosedRecords
       DEF ServerStep
<1>4. ASSUME NEW i \in Instances, RoomStep(i) PROVE RoomsAreRecorded'
  BY <1>4, ReceiveRecords, WriteRecords DEF RoomStep
<1>5. CASE Trouble
  <2>1. ASSUME NEW c \in Clients, TokenFails(c) \/ SocketLost(c) \/ Expire(c) \/ Destroy(c)
        PROVE  RoomsAreRecorded'
    BY <2>1, RecordedStays DEF TokenFails, SocketLost, Offline, Expire, Destroy
  <2>2. ASSUME NEW s \in Sockets, OverLimit(s) \/ ServerCloses(s) \/ Terminate(s)
        PROVE  RoomsAreRecorded'
    BY <2>2, RecordedStays, SocketClosedRecords DEF OverLimit, ServerCloses, Terminate
  <2>3. ASSUME NEW i \in Instances, Crash(i) PROVE RoomsAreRecorded'
    BY <2>3, CrashRecords
  <2> QED
    BY <1>5, <2>1, <2>2, <2>3 DEF Trouble
<1>6. CASE UNCHANGED vars
  BY <1>6, RecordedStays DEF vars
<1> QED
  BY <1>1, <1>2, <1>3, <1>4, <1>5, <1>6 DEF Next

(* What a room shows is stored, waits in a write buffer or was lost with one, unless
   a room has had to keep it aside: of everything onDocUpdate() leaves to the
   instance that accepted it, nothing falls between the two. *)
THEOREM ShownIsRecorded == Spec => []ShownIsRecordedInOrder
<1>1. Init => RoomsAreRecorded
  BY CarriesNone DEF Init, RoomsAreRecorded
<1>2. SessionInv /\ RoomsAreRecorded /\ [Next]_vars => RoomsAreRecorded'
  BY StepRecords
<1>3. RoomsAreRecorded => ShownIsRecordedInOrder
  BY VisibleHeld DEF RoomsAreRecorded, ShownIsRecordedInOrder
<1> QED
  BY <1>1, <1>2, <1>3, SessionInvariant, PTL DEF Spec

----------------------------------------------------------------------------
(* What a client is told. *)

USE DEF ToldInv

(* A document's visible edits depend on nothing outside it. *)
LEMMA SameShown ==
  ASSUME TypeOK, NEW u \in SUBSET Edits, NEW d \in [Edits -> SUBSET Edits],
         \A e \in u : d[e] = dep[e]
  PROVE  Shown(u, d) = Visible(u)
<1>1. ASSUME NEW v \in SUBSET u
      PROVE  (\A e \in v : d[e] \subseteq v) <=> (\A e \in v : dep[e] \subseteq v)
  OBVIOUS
<1> QED
  BY <1>1 DEF Shown, Visible

(* The provider's steps that send nothing: sockets that are in use at both ends
   afterwards were so before, and nothing on them has changed. *)
Quietly ==
  /\ UNCHANGED <<connection, up, rooms, typing>>
  /\ \A c \in Clients : doc'[c] \subseteq doc[c]
  /\ \A t \in Sockets :
      /\ down'[t] \in {down[t], <<>>}
      /\ Listening(t)' /\ conn[t] # "none" =>
             Listening(t) /\ down'[t] = down[t] /\ doc'[t[1]] = doc[t[1]]

LEMMA OfflineIsQuiet ==
  ASSUME SessionInv, NEW c \in Clients,
         socket' = [socket EXCEPT ![c] = {}],
         down' = [s \in Sockets |-> IF s \in socket[c] THEN <<>> ELSE down[s]],
         \A d \in Clients : doc'[d] = doc[d] \/ (d = c /\ doc'[d] = {}),
         UNCHANGED <<connection, up, rooms, typing>>
  PROVE  Quietly
<1>1. ASSUME NEW t \in Sockets, Listening(t)'
      PROVE  Listening(t) /\ down'[t] = down[t] /\ doc'[t[1]] = doc[t[1]]
  <2>1. t[1] \in Clients /\ socket'[t[1]] = {t}
    BY <1>1, SocketParts DEF Listening
  <2>2. t[1] # c
    BY <2>1 DEF TypeOK
  <2>3. socket'[t[1]] = socket[t[1]] /\ t \notin socket[c]
    BY <2>1, <2>2, OwnSocket DEF TypeOK
  <2> QED
    BY <2>1, <2>2, <2>3 DEF Listening
<1> QED
  BY <1>1 DEF Quietly

LEMMA QuietSteps ==
  ASSUME SessionInv, NEW c \in Clients,
         \/ TokenArrives(c) \/ TokenFails(c) \/ RetryFires(c) \/ Expire(c)
         \/ SocketLost(c) \/ ReceiveClose(c) \/ Destroy(c)
  PROVE  Quietly
<1>1. CASE TokenFails(c) \/ RetryFires(c) \/ Expire(c)
  BY <1>1 DEF TokenFails, RetryFires, Expire, Quietly, Listening
<1>2. CASE TokenArrives(c)
  <2>1. UNCHANGED <<doc, connection, up, down, rooms, typing>>
    BY <1>2 DEF TokenArrives
  <2>2. CASE UNCHANGED socket
    BY <2>1, <2>2 DEF Quietly, Listening
  <2>3. CASE socket' # socket
    <3>1. PICK k \in Free(c) : socket' = [socket EXCEPT ![c] = {<<c, k>>}]
      BY <1>2, <2>3 DEF TokenArrives
    <3>2. conn[<<c, k>>] = "none"
      BY DEF Free
    <3>3. ASSUME NEW t \in Sockets, Listening(t)', conn[t] # "none" PROVE Listening(t)
      <4>1. t[1] \in Clients /\ socket'[t[1]] = {t}
        BY <3>3, SocketParts DEF Listening
      <4>2. t[1] # c
        BY <3>1, <3>2, <3>3, <4>1 DEF TypeOK
      <4> QED
        BY <3>1, <4>1, <4>2 DEF TypeOK, Listening
    <3> QED
      BY <2>1, <3>3 DEF Quietly
  <2> QED
    BY <2>2, <2>3
<1>3. CASE SocketLost(c) \/ ReceiveClose(c)
  <2>1. Offline(c)
    BY <1>3 DEF SocketLost, ReceiveClose
  <2> QED
    BY <2>1, OfflineIsQuiet DEF Offline
<1>4. CASE Destroy(c)
  <2>1. \A d \in Clients : doc'[d] = doc[d] \/ (d = c /\ doc'[d] = {})
    BY <1>4 DEF Destroy, TypeOK
  <2> QED
    BY <1>4, <2>1, OfflineIsQuiet DEF Destroy
<1> QED
  BY <1>1, <1>2, <1>3, <1>4

LEMMA QuietTells == ASSUME SessionInv, ToldInv, Quietly PROVE ToldInv'
<1> USE DEF Quietly, connection, rooms, typing
<1>1. EditsAreTyped'
  BY CarriesNone DEF EditsAreTyped
<1>2. RestIsAhead'
  BY DEF RestIsAhead, Visible
<1>3. FramesAreOwn'
  BY DEF FramesAreOwn
<1>4. AsksFirst'
  BY DEF AsksFirst
<1>5. ASSUME NEW s \in Sockets, Live(s)', NEW i \in at[s],
             NEW e \in Visible(room[i]) \ (doc'[s[1]] \cup ahead)
      PROVE  Told(s, e)'
  <2>1. Live(s) /\ down'[s] = down[s] /\ doc'[s[1]] = doc[s[1]]
    BY <1>5 DEF Live
  <2> QED
    BY <1>5, <2>1 DEF ClientIsToldInOrder, Told
<1>6. ClientIsToldInOrder'
  BY <1>5 DEF ClientIsToldInOrder, Visible
<1> QED
  BY <1>1, <1>2, <1>3, <1>4, <1>6

LEMMA OpensTells ==
  ASSUME SessionInv, ToldInv, NEW c \in Clients, NEW i \in Instances, Opens(c, i)
  PROVE  ToldInv'
<1> DEFINE first == Frame(IF c \in stale THEN "StaleAuth" ELSE "Auth", {})
           second == Step1(Visible(doc[c]))
           both == <<first, second>>
<1>1. PICK s \in socket[c] :
        /\ conn' = [conn EXCEPT ![s] = "new"]
        /\ at' = [at EXCEPT ![s] = {i}]
        /\ up' = [up EXCEPT ![s] = both]
  BY DEF Opens
<1>2. UNCHANGED <<socket, doc, closing, down, queued, rooms, typing>>
  BY DEF Opens
<1>3. s \in Sockets /\ s[1] = c /\ Listening(s)
  BY OwnSocket
<1>4. conn[s] = "none"
  BY <1>3 DEF NothingDown, Opens
<1>5. Carries(both, doc[c]) /\ Len(both) = 2 /\ both[2].kind = "Step1"
  BY VisibleHeld DEF Carries, Step1, Frame
<1> HIDE DEF both
<1>6. conn'[s] = "new" /\ up'[s] = both
  BY <1>1, <1>3 DEF TypeOK
<1>7. \A t \in Sockets : t # s => conn'[t] = conn[t] /\ up'[t] = up[t]
  BY <1>1 DEF TypeOK
<1> USE DEF rooms, typing
<1>8. EditsAreTyped'
  <2>1. doc[c] \subseteq typed
    BY DEF EditsAreTyped
  <2>2. Carries(both, typed)
    BY <1>5, <2>1, CarriesMore
  <2> QED
    BY <1>2, <1>6, <1>7, <2>2 DEF EditsAreTyped
<1>9. RestIsAhead'
  BY <1>2 DEF RestIsAhead, Visible
<1>10. FramesAreOwn'
  <2>1. queued[s] = <<>>
    BY <1>3, <1>4 DEF FramesAreOwn
  <2> QED
    BY <1>2, <1>3, <1>5, <1>6, <1>7, <2>1, CarriesNone DEF FramesAreOwn, Listening
<1>11. AsksFirst'
  BY <1>2, <1>5, <1>6, <1>7 DEF AsksFirst
<1>12. ASSUME NEW t \in Sockets, Live(t)' PROVE t # s /\ Live(t) /\ up'[t] = up[t] /\ at'[t] = at[t]
  <2>1. t # s
    BY <1>6, <1>12 DEF Live
  <2>2. at'[t] = at[t]
    BY <1>1, <2>1 DEF TypeOK
  <2> QED
    BY <1>2, <1>7, <1>12, <2>1, <2>2 DEF Live, Listening
<1>13. ClientIsToldInOrder'
  BY <1>2, <1>12 DEF ClientIsToldInOrder, Told, Visible
<1> QED
  BY <1>8, <1>9, <1>10, <1>11, <1>13

LEMMA TypeTells ==
  ASSUME SessionInv, ToldInv, NEW c \in Clients, NEW e \in Edits, Type(c, e)
  PROVE  ToldInv'
<1>1. /\ UNCHANGED <<provider, connection, down, rooms>> /\ e \notin typed
      /\ typed' = typed \cup {e}
      /\ \A x \in Edits : x # e => dep'[x] = dep[x]
      /\ \A d \in Clients : doc'[d] = IF d = c THEN doc[d] \cup {e} ELSE doc[d]
  BY DEF Type, TypeOK
<1>2. dep' \in [Edits -> SUBSET Edits]
  BY VisibleHeld DEF Type, TypeOK
<1> DEFINE frame == Update({e})
<1>3. frame \in Frames /\ frame.kind = "Update" /\ frame.edits = {e}
  BY DEF Update, Frame, Frames
<1>4. \A s \in Sockets :
        up'[s] = IF c \in online /\ s \in socket[c] /\ conn[s] # "none"
                 THEN Append(up[s], frame) ELSE up[s]
  BY DEF Type
<1> HIDE DEF frame
<1> USE DEF provider, connection, rooms
<1>5. ASSUME NEW s \in Sockets
      PROVE  /\ up[s] \in Seq(Frames)
             /\ \A v : Carries(up[s], v) /\ e \in v => Carries(up'[s], v)
             /\ \A x : Asked(up[s], x) => Asked(up'[s], x)
             /\ Len(up'[s]) >= Len(up[s]) /\ \A k \in 1 .. Len(up[s]) : up'[s][k] = up[s][k]
  <2>1. up[s] \in Seq(Frames)
    BY DEF TypeOK
  <2> DEFINE more == Append(up[s], frame)
  <2>2. /\ Len(more) = Len(up[s]) + 1 /\ Len(up[s]) \in Nat
        /\ \A k \in 1 .. Len(up[s]) : more[k] = up[s][k]
    BY <1>3, <2>1, AppendProperties
  <2>3. ASSUME NEW v, Carries(up[s], v), e \in v PROVE Carries(more, v)
    BY <1>3, <2>1, <2>3, CarriesAppend
  <2> HIDE DEF more
  <2>4. ASSUME NEW x, Asked(up[s], x) PROVE Asked(more, x)
    BY <2>2, <2>4 DEF Asked
  <2>5. up'[s] = more \/ up'[s] = up[s]
    BY <1>4 DEF more
  <2> QED
    BY <2>1, <2>2, <2>3, <2>4, <2>5
<1>6. EditsAreTyped'
  <2>1. typed \subseteq typed' /\ e \in typed'
    BY <1>1
  <2>2. \A s \in Sockets : /\ Carries(up[s], typed') /\ Carries(queued'[s], typed')
                           /\ Carries(down'[s], typed')
    BY <1>1, <2>1, CarriesMore DEF EditsAreTyped
  <2>3. \A s \in Sockets : Carries(up'[s], typed')
    BY <1>5, <2>1, <2>2
  <2>4. \A i \in Instances : Carries(bus'[i], typed') /\ room'[i] \cup unwritten'[i] \subseteq typed'
    BY <1>1, <2>1, CarriesMore DEF EditsAreTyped
  <2>5. stored' \subseteq typed' /\ \A d \in Clients : doc'[d] \subseteq typed'
    BY <1>1, <2>1 DEF EditsAreTyped
  <2> QED
    BY <2>2, <2>3, <2>4, <2>5 DEF EditsAreTyped
<1>7. ASSUME NEW i \in Instances PROVE Visible(room[i])' = Visible(room[i])
  <2>1. room[i] \in SUBSET Edits /\ e \notin room[i]
    BY <1>1 DEF TypeOK, EditsAreTyped
  <2>2. \A x \in room[i] : dep'[x] = dep[x]
    BY <1>1, <2>1
  <2>3. Shown(room[i], dep') = Visible(room[i])
    BY <1>2, <2>1, <2>2, SameShown
  <2> QED
    BY <1>1, <2>3 DEF Visible, Shown
<1>8. RestIsAhead'
  BY <1>1, <1>7 DEF RestIsAhead
<1>9. FramesAreOwn'
  <2>1. ASSUME NEW s \in Sockets, Listening(s), conn[s] # "none"
        PROVE  Carries(queued[s], doc'[s[1]]) /\ Carries(up'[s], doc'[s[1]])
    <3>1. s[1] \in Clients /\ Carries(queued[s], doc[s[1]]) /\ Carries(up[s], doc[s[1]])
      BY <2>1, SocketParts DEF FramesAreOwn
    <3>2. doc[s[1]] \subseteq doc'[s[1]]
      BY <1>1, <3>1
    <3>3. Carries(queued[s], doc'[s[1]]) /\ Carries(up[s], doc'[s[1]])
      BY <3>1, <3>2, CarriesMore
    <3>4. CASE s[1] = c
      BY <1>1, <1>5, <3>1, <3>3, <3>4
    <3>5. CASE s[1] # c
      <4>1. s \notin socket[c]
        BY <3>5, OwnSocket
      <4> QED
        BY <1>4, <3>3, <4>1
    <3> QED
      BY <3>3, <3>4, <3>5
  <2> QED
    BY <1>1, <2>1 DEF FramesAreOwn, Listening
<1>10. AsksFirst'
  <2>1. ASSUME NEW s \in Sockets, Len(up[s]) >= 2 PROVE Len(up'[s]) >= 2 /\ up'[s][2] = up[s][2]
    BY <1>5, <2>1
  <2>2. ASSUME NEW s \in Sockets, up[s] # <<>> PROVE up'[s] # <<>> /\ Head(up'[s]) = Head(up[s])
    <3>1. up'[s] = Append(up[s], frame) \/ up'[s] = up[s]
      BY <1>4
    <3>2. up[s] \in Seq(Frames)
      BY <1>5
    <3>3. Append(up[s], frame) # <<>> /\ Head(Append(up[s], frame)) = Head(up[s])
      BY <1>3, <2>2, <3>2
    <3> QED
      BY <2>2, <3>1, <3>3
  <2> QED
    BY <1>1, <2>1, <2>2 DEF AsksFirst
<1>11. ASSUME NEW s \in Sockets, Live(s), NEW i \in at[s],
              NEW x \in Visible(room[i])' \ (doc'[s[1]] \cup ahead)
       PROVE  InFlight(down[s], x) \/ Asked(up'[s], x)
  <2>1. i \in Instances /\ s[1] \in Clients
    BY <1>11, SocketParts DEF TypeOK
  <2>2. x \in Visible(room[i]) \ (doc[s[1]] \cup ahead)
    BY <1>1, <1>7, <1>11, <2>1
  <2> QED
    BY <1>5, <1>11, <2>2 DEF ClientIsToldInOrder, Told
<1>12. ClientIsToldInOrder'
  BY <1>1, <1>11 DEF ClientIsToldInOrder, Told, Live, Listening
<1> QED
  BY <1>6, <1>8, <1>9, <1>10, <1>12

LEMMA ReceiveSyncTells ==
  ASSUME SessionInv, ToldInv, NEW c \in Clients, ReceiveSync(c)
  PROVE  ToldInv'
<1> DEFINE f(s) == Head(down[s])
           Answer(s) == /\ f(s).kind = "Step1"
                        /\ up' = SentUp(s, NonEmpty(doc[c] \ f(s).edits))
                        /\ UNCHANGED doc
           Apply(s) == /\ f(s).kind = "Update"
                       /\ doc' = [doc EXCEPT ![c] = @ \cup f(s).edits]
                       /\ UNCHANGED up
<1>1. PICK s \in socket[c] :
        /\ down[s] # <<>> /\ down' = [down EXCEPT ![s] = Tail(@)]
        /\ Answer(s) \/ Apply(s)
        /\ UNCHANGED <<provider, connection, rooms, typing>>
  BY Zenon DEF ReceiveSync
<1>2. s \in Sockets /\ s[1] = c /\ socket[c] = {s} /\ Listening(s)
  BY OwnSocket
<1>3. down[s] \in Seq(Frames) /\ down[s] # <<>> /\ up[s] \in Seq(Frames)
  BY <1>1, <1>2 DEF TypeOK
<1>4. down'[s] = Tail(down[s]) /\ \A t \in Sockets : t # s => down'[t] = down[t]
  BY <1>1, <1>2 DEF TypeOK
<1>5. \A e : InFlight(down[s], e) =>
                 InFlight(Tail(down[s]), e) \/ (f(s).kind = "Update" /\ e \in f(s).edits)
  <2>1. ASSUME NEW e, InFlight(down[s], e)
        PROVE  InFlight(Tail(down[s]), e) \/ (f(s).kind = "Update" /\ e \in f(s).edits)
    BY <1>3, <2>1, TailQueue
  <2> QED
    BY <2>1
<1>6. /\ \A t \in Sockets : Carries(down'[t], typed)
      /\ f(s).edits \subseteq typed
  <2>1. Carries(down[s], typed)
    BY <1>2 DEF EditsAreTyped
  <2>2. Carries(Tail(down[s]), typed) /\ f(s).edits \subseteq typed
    BY <1>3, <2>1, CarriesTail
  <2> QED
    BY <1>4, <2>2 DEF EditsAreTyped
<1>7. /\ \A d \in Clients : /\ doc[d] \subseteq doc'[d] /\ doc'[d] \subseteq typed
                            /\ d # c => doc'[d] = doc[d]
      /\ \A e \in f(s).edits : f(s).kind = "Update" => e \in doc'[c]
  <2>1. doc \in [Clients -> SUBSET Edits] /\ \A d \in Clients : doc[d] \subseteq typed
    BY DEF TypeOK, EditsAreTyped
  <2> DEFINE g == f(s)
  <2>2. \/ g.kind = "Step1" /\ doc' = doc
        \/ g.kind = "Update" /\ doc' = [doc EXCEPT ![c] = @ \cup g.edits]
    BY <1>1
  <2>3. g.edits \subseteq typed
    BY <1>6
  <2> HIDE DEF g
  <2>4. /\ \A d \in Clients : /\ doc[d] \subseteq doc'[d] /\ doc'[d] \subseteq typed
                              /\ d # c => doc'[d] = doc[d]
        /\ \A e \in g.edits : g.kind = "Update" => e \in doc'[c]
    BY <2>1, <2>2, <2>3
  <2> QED
    BY <2>4 DEF g
<1> HIDE DEF f
<1>8. \/ UNCHANGED up
      \/ \E x \in Seq(Frames) : /\ up' = [up EXCEPT ![s] = @ \o x]
                                /\ Carries(x, doc[c])
  <2>1. CASE Apply(s)
    BY <2>1
  <2>2. CASE Answer(s)
    <3> DEFINE u == doc[c] \ f(s).edits
               x == NonEmpty(u)
    <3>1. u \in SUBSET Edits /\ u \subseteq doc[c]
      BY DEF TypeOK
    <3>2. up' = IF conn[s] = "none" THEN up ELSE [up EXCEPT ![s] = @ \o x]
      BY <2>2 DEF SentUp
    <3> HIDE DEF u
    <3>3. x \in Seq(Frames) /\ Carries(x, doc[c])
      BY <3>1, NonEmptyQueue, CarriesUpdate
    <3> QED
      BY <3>2, <3>3
  <2> QED
    BY <1>1, <2>1, <2>2
<1>9. PICK x \in Seq(Frames) : Carries(x, doc[c]) /\ up'[s] = up[s] \o x
  <2>1. <<>> \in Seq(Frames) /\ Carries(<<>>, doc[c]) /\ up[s] = up[s] \o <<>>
    BY <1>3, CarriesNone
  <2>2. CASE UNCHANGED up
    BY <2>1, <2>2
  <2>3. CASE ~UNCHANGED up
    BY <1>2, <1>8, <2>3 DEF TypeOK
  <2> QED
    BY <2>2, <2>3
<1>10. \A t \in Sockets : t # s => up'[t] = up[t]
  BY <1>8 DEF TypeOK
<1>11. UNCHANGED <<socket, online, conn, at, closing, queued, rooms, typing>>
  BY <1>1 DEF provider, connection
<1> HIDE DEF Answer, Apply
<1> USE DEF rooms, typing
<1>12. EditsAreTyped'
  <2>1. Carries(up[s], typed) /\ Carries(x, typed)
    BY <1>2, <1>9, CarriesMore DEF EditsAreTyped
  <2>2. Carries(up'[s], typed)
    BY <1>3, <1>9, <2>1, CarriesBoth
  <2> QED
    BY <1>6, <1>7, <1>10, <1>11, <2>2 DEF EditsAreTyped
<1>13. RestIsAhead'
  BY <1>11 DEF RestIsAhead, Visible
<1>14. FramesAreOwn'
  <2>1. ASSUME NEW t \in Sockets, Listening(t), conn[t] # "none"
        PROVE  Carries(queued[t], doc'[t[1]]) /\ Carries(up'[t], doc'[t[1]])
    <3>1. t[1] \in Clients /\ Carries(queued[t], doc[t[1]]) /\ Carries(up[t], doc[t[1]])
      BY <2>1, SocketParts DEF FramesAreOwn
    <3>2. Carries(queued[t], doc'[t[1]]) /\ Carries(up[t], doc'[t[1]])
      BY <1>7, <3>1, CarriesMore
    <3>3. CASE t = s
      <4>1. Carries(x, doc'[c])
        BY <1>7, <1>9, CarriesMore
      <4>2. Carries(up[s], doc'[c])
        BY <1>2, <3>2, <3>3
      <4>3. Carries(up'[s], doc'[c])
        BY <1>3, <1>9, <4>1, <4>2, CarriesBoth
      <4> QED
        BY <1>2, <3>2, <3>3, <4>3
    <3> QED
      BY <1>10, <3>2, <3>3
  <2> QED
    BY <1>11, <2>1 DEF FramesAreOwn, Listening
<1>15. AsksFirst'
  <2>1. Len(up[s]) >= 2 => Len(up'[s]) >= 2 /\ up'[s][2] = up[s][2]
    BY <1>3, <1>9
  <2>2. up[s] # <<>> => up'[s] # <<>> /\ Head(up'[s]) = Head(up[s])
    BY <1>3, <1>9
  <2> QED
    BY <1>10, <1>11, <2>1, <2>2 DEF AsksFirst
<1>16. ASSUME NEW t \in Sockets, Live(t), NEW i \in at[t],
              NEW e \in Visible(room[i]) \ (doc'[t[1]] \cup ahead)
       PROVE  InFlight(down'[t], e) \/ Asked(up'[t], e)
  <2>1. t[1] \in Clients
    BY SocketParts
  <2>2. Told(t, e)
    BY <1>7, <1>16, <2>1 DEF ClientIsToldInOrder
  <2>3. CASE t = s
    <3>1. InFlight(down[s], e) => InFlight(down'[s], e)
      BY <1>2, <1>4, <1>5, <1>7, <1>16, <2>3
    <3>2. Asked(up[s], e) => Asked(up'[s], e)
      BY <1>3, <1>9, TwoQueues
    <3> QED
      BY <2>2, <2>3, <3>1, <3>2 DEF Told
  <2>4. CASE t # s
    BY <1>4, <1>10, <2>2, <2>4 DEF Told
  <2> QED
    BY <2>3, <2>4
<1>17. ClientIsToldInOrder'
  BY <1>11, <1>16 DEF ClientIsToldInOrder, Told, Live, Listening, Visible
<1> QED
  BY <1>12, <1>13, <1>14, <1>15, <1>17

(* The connection's steps: the frames of one socket move, or are taken, while it is
   not in use, or stops being so. *)
LEMMA FramesMove ==
  ASSUME SessionInv, ToldInv, NEW s \in Sockets, ~Live(s)',
         \A t \in Sockets : t # s => /\ conn'[t] = conn[t] /\ queued'[t] = queued[t]
                                     /\ up'[t] = up[t] /\ down'[t] = down[t]
                                     /\ t \in closing <=> t \in closing',
         UNCHANGED <<provider, doc, at, rooms, typing>>,
         conn'[s] # "joining" => queued'[s] = <<>>, conn[s] # "none",
         \A u : Carries(up[s], u) /\ Carries(queued[s], u) =>
                    Carries(up'[s], u) /\ Carries(queued'[s], u),
         Carries(down'[s], typed),
         s \notin closing' =>
            /\ conn'[s] = "new" => Len(up'[s]) >= 2 /\ up'[s][2].kind = "Step1"
            /\ conn'[s] = "joining" =>
               IF queued'[s] = <<>> THEN up'[s] # <<>> /\ Head(up'[s]).kind = "Step1"
               ELSE Head(queued'[s]).kind = "Step1"
  PROVE  ToldInv'
<1> USE DEF provider, rooms, typing
<1>1. EditsAreTyped'
  BY DEF EditsAreTyped
<1>2. RestIsAhead'
  BY DEF RestIsAhead, Visible
<1>3. FramesAreOwn'
  BY DEF FramesAreOwn, Listening
<1>4. AsksFirst'
  BY DEF AsksFirst
<1>5. \A t \in Sockets : Live(t)' => t # s /\ Live(t)
  BY DEF Live, Listening
<1>6. ClientIsToldInOrder'
  BY <1>5 DEF ClientIsToldInOrder, Told, Visible
<1> QED
  BY <1>1, <1>2, <1>3, <1>4, <1>6

LEMMA ServerCloseTells ==
  ASSUME SessionInv, ToldInv, NEW s \in Sockets, conn[s] # "none",
         NEW kind, kind \in {"Unauthorized", "Close"}, ServerClose(s, kind),
         \A t \in Sockets : t # s => up'[t] = up[t],
         \A u : Carries(up[s], u) => Carries(up'[s], u),
         UNCHANGED <<provider, doc, conn, at, queued, rooms, typing>>
  PROVE  ToldInv'
<1> DEFINE frame == Frame(kind, {})
           last == <<frame>>
<1>1. frame \in Frames /\ frame.edits = {}
  BY DEF Frame, Frames
<1>2. last \in Seq(Frames) /\ Carries(last, typed)
  BY <1>1, CarriesOne
<1>3. closing' = closing \cup {s} /\ down' = [down EXCEPT ![s] = Sent(s, last)]
  BY DEF ServerClose
<1> HIDE DEF last
<1>4. Carries(down[s], typed) /\ down[s] \in Seq(Frames)
  BY DEF EditsAreTyped, TypeOK
<1>5. Carries(Sent(s, last), typed)
  BY <1>2, <1>4, CarriesBoth DEF Sent
<1>6. Carries(down'[s], typed) /\ \A t \in Sockets : t # s => down'[t] = down[t]
  BY <1>3, <1>5 DEF TypeOK
<1>7. ~Live(s)'
  BY <1>3 DEF Live
<1>8. conn'[s] # "joining" => queued'[s] = <<>>
  BY DEF FramesAreOwn
<1> QED
  BY <1>3, <1>6, <1>7, <1>8, FramesMove

LEMMA ConnectionTells ==
  ASSUME SessionInv, ToldInv, NEW s \in Sockets,
         Authenticate(s) \/ QueueFrame(s) \/ OverLimit(s) \/ ServerCloses(s)
  PROVE  ToldInv'
<1>1. CASE ServerCloses(s)
  <2> DEFINE kind == IF conn[s] = "new" THEN "Unauthorized" ELSE "Close"
  <2>1. kind \in {"Unauthorized", "Close"} /\ ServerClose(s, kind)
    BY <1>1 DEF ServerCloses
  <2> HIDE DEF kind
  <2> QED
    BY <1>1, <2>1, ServerCloseTells DEF ServerCloses
<1>2. ASSUME NEW states, Arrives(s, states)
      PROVE  /\ conn[s] \in states /\ up[s] # <<>> /\ up[s] \in Seq(Frames)
             /\ up'[s] = Tail(up[s]) /\ \A t \in Sockets : t # s => up'[t] = up[t]
             /\ \A u : Carries(up[s], u) => Carries(up'[s], u) /\ Head(up[s]).edits \subseteq u
  BY <1>2, ArrivesTypes, CarriesTail
<1>3. CASE OverLimit(s)
  <2>1. /\ conn[s] # "none" /\ \A t \in Sockets : t # s => up'[t] = up[t]
        /\ \A u : Carries(up[s], u) => Carries(up'[s], u)
    BY <1>2, <1>3 DEF OverLimit
  <2> QED
    BY <1>3, <2>1, ServerCloseTells DEF OverLimit
<1>4. CASE Authenticate(s)
  <2>1. /\ conn[s] = "new" /\ up[s] # <<>> /\ up[s] \in Seq(Frames)
        /\ up'[s] = Tail(up[s]) /\ \A t \in Sockets : t # s => up'[t] = up[t]
        /\ \A u : Carries(up[s], u) => Carries(up'[s], u)
    BY <1>2, <1>4 DEF Authenticate
  <2>2. UNCHANGED <<provider, doc, at, queued, rooms, typing>>
    BY <1>4 DEF Authenticate
  <2>3. CASE ServerClose(s, "Unauthorized") /\ UNCHANGED conn
    BY <2>1, <2>2, <2>3, ServerCloseTells
  <2>4. CASE conn' = [conn EXCEPT ![s] = "joining"] /\ UNCHANGED <<closing, down>>
    <3>1. conn'[s] = "joining" /\ \A t \in Sockets : t # s => conn'[t] = conn[t]
      BY <2>4 DEF TypeOK
    <3>2. ~Live(s)'
      BY <3>1 DEF Live
    <3>3. Carries(down'[s], typed) /\ queued'[s] = <<>>
      BY <2>1, <2>2, <2>4 DEF EditsAreTyped, FramesAreOwn
    <3>4. s \notin closing' => up'[s] # <<>> /\ Head(up'[s]).kind = "Step1"
      <4>1. s \notin closing' => Len(up[s]) >= 2 /\ up[s][2].kind = "Step1"
        BY <2>1, <2>4 DEF AsksFirst
      <4>2. ASSUME Len(up[s]) >= 2 PROVE Tail(up[s]) # <<>> /\ Head(Tail(up[s])) = up[s][2]
        BY <2>1, <4>2, SecondFrame
      <4> QED
        BY <2>1, <4>1, <4>2
    <3> QED
      BY <2>1, <2>2, <2>4, <3>1, <3>2, <3>3, <3>4, FramesMove
  <2> QED
    BY <1>4, <2>3, <2>4 DEF Authenticate
<1>5. CASE QueueFrame(s)
  <2>1. /\ conn[s] = "joining" /\ up[s] # <<>> /\ up[s] \in Seq(Frames)
        /\ up'[s] = Tail(up[s]) /\ \A t \in Sockets : t # s => up'[t] = up[t]
        /\ \A u : Carries(up[s], u) => Carries(up'[s], u) /\ Head(up[s]).edits \subseteq u
    BY <1>2, <1>5 DEF QueueFrame
  <2>2. UNCHANGED <<provider, doc, conn, at, closing, down, rooms, typing>>
    BY <1>5 DEF QueueFrame
  <2> DEFINE more == Append(queued[s], Head(up[s]))
  <2>3. queued[s] \in Seq(Frames) /\ Head(up[s]) \in Frames
    BY <2>1 DEF TypeOK
  <2>4. \A t \in Sockets : t # s => queued'[t] = queued[t]
    BY <1>5 DEF QueueFrame, TypeOK
  <2>5. queued'[s] = IF Len(queued[s]) < MAX_QUEUED_FRAMES THEN more ELSE queued[s]
    BY <1>5 DEF QueueFrame, TypeOK
  <2>6. \A u : Carries(up[s], u) /\ Carries(queued[s], u) => Carries(queued'[s], u)
    BY <2>1, <2>3, <2>5, CarriesAppend
  <2>7. s \notin closing => queued'[s] # <<>> /\ Head(queued'[s]).kind = "Step1"
    <3>1. CASE queued[s] = <<>>
      <4>1. Len(queued[s]) < MAX_QUEUED_FRAMES
        BY <3>1, SessionAssumption
      <4>2. more # <<>> /\ Head(more) = Head(up[s])
        BY <2>3, <3>1
      <4> QED
        BY <2>1, <2>5, <3>1, <4>1, <4>2 DEF AsksFirst
    <3>2. CASE queued[s] # <<>>
      <4>1. more # <<>> /\ Head(more) = Head(queued[s])
        BY <2>3, <3>2
      <4> QED
        BY <2>1, <2>5, <3>2, <4>1 DEF AsksFirst
    <3> QED
      BY <3>1, <3>2
  <2> HIDE DEF more
  <2>8. ~Live(s)' /\ Carries(down'[s], typed)
    BY <2>1, <2>2 DEF Live, EditsAreTyped
  <2> QED
    BY <2>1, <2>2, <2>4, <2>6, <2>7, <2>8, FramesMove
<1> QED
  BY <1>1, <1>3, <1>4, <1>5

(* The server's ends in lost go, and with them rooms that no other socket has
   joined; what those wrote is stored. *)
LEMMA EndsGoTells ==
  ASSUME SessionInv, ToldInv, NEW lost \in SUBSET Sockets,
         \A t \in lost : conn'[t] = "none" /\ up'[t] = <<>> /\ queued'[t] = <<>>,
         \A t \in Sockets \ lost : /\ conn'[t] = conn[t] /\ at'[t] = at[t]
                                   /\ up'[t] = up[t] /\ queued'[t] = queued[t],
         closing' = closing \ lost, UNCHANGED <<provider, doc, down, ahead, typing>>,
         stored' \subseteq typed,
         \A j \in Instances : /\ room'[j] \in {room[j], {}}
                              /\ unwritten'[j] \in {unwritten[j], {}}
                              /\ bus'[j] \in {bus[j], <<>>},
         \A t \in Sockets \ lost : conn[t] = "joined" => \A j \in at[t] : room'[j] = room[j]
  PROVE  ToldInv'
<1> USE DEF provider, typing
<1>1. EditsAreTyped'
  BY CarriesNone DEF EditsAreTyped
<1>2. Visible({}) = {}
  BY VisibleHeld
<1>3. RestIsAhead'
  BY <1>2 DEF RestIsAhead, Visible
<1>4. FramesAreOwn'
  BY CarriesNone DEF FramesAreOwn, Listening
<1>5. AsksFirst'
  BY DEF AsksFirst
<1>6. ASSUME NEW t \in Sockets, Live(t)'
      PROVE  /\ Live(t) /\ at'[t] = at[t] /\ up'[t] = up[t]
             /\ \A j \in at[t] : room'[j] = room[j]
  BY <1>6 DEF Live, Listening
<1>7. ClientIsToldInOrder'
  BY <1>6 DEF ClientIsToldInOrder, Told, Visible
<1> QED
  BY <1>1, <1>3, <1>4, <1>5, <1>7

LEMMA SocketClosedTells ==
  ASSUME SessionInv, ToldInv, NEW s \in Sockets, SocketClosed(s)
  PROVE  ToldInv'
<1> DEFINE gone == {i \in at[s] : Joined(i) = {s}}
           lost == {s}
<1>1. /\ conn' = [conn EXCEPT ![s] = "none"] /\ at' = [at EXCEPT ![s] = {}]
      /\ queued' = [queued EXCEPT ![s] = <<>>] /\ up' = [up EXCEPT ![s] = <<>>]
      /\ closing' = closing \ lost
      /\ UNCHANGED <<provider, doc, down, ahead, typing>>
  BY DEF SocketClosed
<1>2. /\ stored' = stored \cup UNION {unwritten[i] : i \in gone}
      /\ room' = [i \in Instances |-> IF i \in gone THEN {} ELSE room[i]]
      /\ unwritten' = [i \in Instances |-> IF i \in gone THEN {} ELSE unwritten[i]]
      /\ bus' = [i \in Instances |-> IF i \in gone THEN <<>> ELSE bus[i]]
  BY DEF SocketClosed
<1>3. stored' \subseteq typed
  <2>1. \A i \in gone : unwritten[i] \subseteq typed
    BY DEF EditsAreTyped, TypeOK
  <2> QED
    BY <1>2, <2>1 DEF EditsAreTyped
<1>4. /\ \A t \in lost : conn'[t] = "none" /\ up'[t] = <<>> /\ queued'[t] = <<>>
      /\ \A t \in Sockets \ lost : /\ conn'[t] = conn[t] /\ at'[t] = at[t]
                                   /\ up'[t] = up[t] /\ queued'[t] = queued[t]
  BY <1>1 DEF TypeOK
<1>5. ASSUME NEW t \in Sockets \ lost, conn[t] = "joined", NEW j \in at[t]
      PROVE  room'[j] = room[j]
  <2>1. at[t] = {j} /\ j \in Instances
    BY <1>5 DEF ServerEnd
  <2>2. t \in Joined(j)
    BY <1>5, <2>1 DEF Joined
  <2> QED
    BY <1>2, <1>5, <2>1, <2>2
<1>6. \A j \in Instances : /\ room'[j] \in {room[j], {}}
                           /\ unwritten'[j] \in {unwritten[j], {}}
                           /\ bus'[j] \in {bus[j], <<>>}
  BY <1>2
<1>7. lost \in SUBSET Sockets
  OBVIOUS
<1> HIDE DEF gone, lost
<1> QED
  BY <1>1, <1>3, <1>4, <1>5, <1>6, <1>7, EndsGoTells

LEMMA CrashTells ==
  ASSUME SessionInv, ToldInv, NEW i \in Instances, Crash(i)
  PROVE  ToldInv'
<1> DEFINE lost == {s \in Sockets : at[s] = {i}}
<1>1. /\ conn' = [s \in Sockets |-> IF s \in lost THEN "none" ELSE conn[s]]
      /\ at' = [s \in Sockets |-> IF s \in lost THEN {} ELSE at[s]]
      /\ closing' = closing \ lost
      /\ queued' = [s \in Sockets |-> IF s \in lost THEN <<>> ELSE queued[s]]
      /\ up' = [s \in Sockets |-> IF s \in lost THEN <<>> ELSE up[s]]
  BY DEF Crash
<1>2. /\ room' = [room EXCEPT ![i] = {}] /\ bus' = [bus EXCEPT ![i] = <<>>]
      /\ unwritten' = [unwritten EXCEPT ![i] = {}]
      /\ UNCHANGED <<provider, doc, down, stored, ahead, typing>>
  BY DEF Crash
<1>3. /\ \A t \in lost : conn'[t] = "none" /\ up'[t] = <<>> /\ queued'[t] = <<>>
      /\ \A t \in Sockets \ lost : /\ conn'[t] = conn[t] /\ at'[t] = at[t]
                                   /\ up'[t] = up[t] /\ queued'[t] = queued[t]
      /\ lost \in SUBSET Sockets
  BY <1>1
<1>4. ASSUME NEW t \in Sockets \ lost, conn[t] = "joined", NEW j \in at[t]
      PROVE  room'[j] = room[j]
  <2>1. at[t] = {j} /\ j \in Instances
    BY <1>4 DEF ServerEnd
  <2> QED
    BY <1>2, <1>4, <2>1 DEF TypeOK
<1>5. \A j \in Instances : /\ room'[j] \in {room[j], {}}
                           /\ unwritten'[j] \in {unwritten[j], {}}
                           /\ bus'[j] \in {bus[j], <<>>}
  BY <1>2 DEF TypeOK
<1>6. stored' \subseteq typed
  BY <1>2 DEF EditsAreTyped
<1> HIDE DEF lost
<1> QED
  BY <1>1, <1>2, <1>3, <1>4, <1>5, <1>6, EndsGoTells

LEMMA WriteTells ==
  ASSUME SessionInv, ToldInv, NEW i \in Instances, Write(i)
  PROVE  ToldInv'
<1> DEFINE none == {}
<1>1. stored' \subseteq typed
  BY DEF Write, EditsAreTyped
<1>2. /\ \A t \in none : conn'[t] = "none" /\ up'[t] = <<>> /\ queued'[t] = <<>>
      /\ \A t \in Sockets \ none : /\ conn'[t] = conn[t] /\ at'[t] = at[t]
                                   /\ up'[t] = up[t] /\ queued'[t] = queued[t]
      /\ closing' = closing \ none /\ none \in SUBSET Sockets
      /\ \A t \in Sockets \ none : conn[t] = "joined" => \A j \in at[t] : room'[j] = room[j]
  BY DEF Write, connection
<1>3. \A j \in Instances : /\ room'[j] \in {room[j], {}}
                           /\ unwritten'[j] \in {unwritten[j], {}}
                           /\ bus'[j] \in {bus[j], <<>>}
  BY DEF Write, TypeOK
<1>4. UNCHANGED <<provider, doc, down, ahead, typing>>
  BY DEF Write
<1> HIDE DEF none
<1> QED
  BY <1>1, <1>2, <1>3, <1>4, EndsGoTells

(* The room's steps: the clients that have joined are sent what it newly shows, and
   those that brought it are told what they did not have. *)
LEMMA GrowingTells ==
  ASSUME SessionInv, ToldInv, NEW i \in Instances, NEW from \in SUBSET Sockets,
         NEW r \in SUBSET Edits, NEW u \in SUBSET Edits, NEW reply \in Seq(Frames),
         Hold(i, r \cup u), Broadcast(i, Shows(r, u), from, reply),
         UNCHANGED <<socket, doc, at, closing, dep>>,
         i \in open => r = room[i],
         \A t \in Sockets \ from : conn'[t] = conn[t] /\ up'[t] = up[t],
         \A t \in from : Live(t)' =>
             /\ at[t] = {i} /\ u \subseteq doc[t[1]]
             /\ \A e \in r \ (doc[t[1]] \cup ahead) :
                    InFlight(reply, e) \/ InFlight(down[t], e) \/ Asked(up'[t], e)
  PROVE  RestIsAhead' /\ ClientIsToldInOrder'
<1> DEFINE new == Shows(r, u)
           all == r \cup u
<1>1. /\ room' \in [Instances -> SUBSET Edits] /\ room'[i] = all
      /\ \A j \in Instances : j # i => room'[j] = room[j]
  BY Holding
<1>2. ahead' = ahead \cup (all \ Visible(all))
  BY DEF Hold
<1>3. new \in SUBSET Edits
  BY ShowsHeld
<1>4. Spreads(i, new, from, reply)
  BY <1>3, Broadcasting
<1>5. \A v : Visible(v)' = Shown(v', dep)
  BY DEF Visible, Shown
<1>6. RestIsAhead'
  <2>1. ASSUME NEW j \in Instances PROVE room'[j] \ Visible(room'[j]) \subseteq ahead'
    BY <1>1, <1>2, <2>1 DEF RestIsAhead
  <2> QED
    BY <2>1 DEF RestIsAhead, Visible
<1>7. new = Visible(all) \ Visible(r)
  BY DEF Shows
<1> HIDE DEF new
<1>8. ASSUME NEW t \in Sockets, Live(t)', NEW j \in at[t],
             NEW e \in Visible(room'[j]) \ (doc[t[1]] \cup ahead')
      PROVE  InFlight(down'[t], e) \/ Asked(up'[t], e)
  <2>1. t \notin closing /\ Listening(t) /\ j \in Instances
    BY <1>8 DEF Live, Listening, TypeOK
  <2>2. e \notin ahead
    BY <1>2, <1>8
  <2>3. CASE t \in from
    <3>1. j = i /\ e \in all /\ e \notin u
      BY <1>1, <1>8, <2>3, VisibleHeld
    <3>2. InFlight(reply, e) \/ InFlight(down[t], e) \/ Asked(up'[t], e)
      BY <1>8, <2>2, <2>3, <3>1
    <3> QED
      BY <1>4, <2>1, <2>3, <3>2 DEF Spreads
  <2>4. CASE t \notin from
    <3>1. Live(t) /\ up'[t] = up[t]
      BY <1>8, <2>1, <2>4 DEF Live
    <3>2. CASE e \in Visible(room[j])
      <4>1. Told(t, e)
        BY <1>8, <2>2, <3>1, <3>2 DEF ClientIsToldInOrder
      <4> QED
        BY <1>4, <3>1, <4>1 DEF Told, Spreads
    <3>3. CASE e \notin Visible(room[j])
      <4>1. j = i
        BY <1>1, <1>8, <2>1, <3>3
      <4>2. at[t] = {i} /\ i \in open /\ t \in Joined(i)
        BY <1>8, <3>1, <4>1 DEF ServerEnd, Live, Joined
      <4>3. e \in new
        BY <1>1, <1>7, <1>8, <3>3, <4>1, <4>2
      <4> QED
        BY <1>4, <2>1, <2>4, <4>2, <4>3 DEF Spreads
    <3> QED
      BY <3>2, <3>3
  <2> QED
    BY <2>3, <2>4
<1>9. ClientIsToldInOrder'
  <2>1. ASSUME NEW t \in Sockets, Live(t)', NEW j \in at'[t],
               NEW e \in Visible(room[j])' \ (doc'[t[1]] \cup ahead')
        PROVE  Told(t, e)'
    <3>1. e \in Visible(room'[j]) /\ j \in at[t] /\ e \notin doc[t[1]] \cup ahead'
      BY <2>1 DEF Visible, Shown
    <3> QED
      BY <1>8, <2>1, <3>1 DEF Told
  <2> QED
    BY <2>1 DEF ClientIsToldInOrder
<1> QED
  BY <1>6, <1>9

(* What a room's step puts on its way is typed if what it takes in is. *)
LEMMA GrowingTyped ==
  ASSUME SessionInv, EditsAreTyped, NEW i \in Instances, NEW from \in SUBSET Sockets,
         NEW new \in SUBSET Edits, new \subseteq typed,
         NEW reply \in Seq(Frames), Carries(reply, typed), Broadcast(i, new, from, reply)
  PROVE  \A t \in Sockets : Carries(down'[t], typed)
<1> DEFINE n == NonEmpty(new)
<1>1. n \in Seq(Frames) /\ Carries(n, typed)
  BY NonEmptyQueue, CarriesUpdate
<1>2. \A t \in Sockets : down'[t] = IF t \in from THEN Sent(t, reply)
                                    ELSE IF t \in Joined(i) THEN Sent(t, n) ELSE down[t]
  BY DEF Broadcast
<1> HIDE DEF n
<1>3. ASSUME NEW t \in Sockets PROVE Carries(down'[t], typed)
  <2>1. down[t] \in Seq(Frames) /\ Carries(down[t], typed)
    BY DEF TypeOK, EditsAreTyped
  <2>2. Carries(Sent(t, reply), typed) /\ Carries(Sent(t, n), typed)
    BY <1>1, <2>1, CarriesBoth DEF Sent
  <2> QED
    BY <1>2, <2>1, <2>2
<1> QED
  BY <1>3

(* Frames that are handled: what the room, the bus and the sockets then have is
   typed. *)
LEMMA HandlingTyped ==
  ASSUME SessionInv, EditsAreTyped, NEW s \in Sockets, NEW i \in Instances,
         NEW r \in SUBSET Edits, r \subseteq typed,
         NEW b \in [Instances -> Seq(Frames)], \A j \in Instances : Carries(b[j], typed),
         NEW greeting \in Seq(Frames), Carries(greeting, typed),
         NEW q, Carries(q, typed), NEW u \in SUBSET Edits, NEW reply \in Seq(Frames),
         Handled(s, i, r, b, greeting, q, u, reply)
  PROVE  /\ \A j \in Instances :
                room'[j] \cup unwritten'[j] \subseteq typed /\ Carries(bus'[j], typed)
         /\ \A t \in Sockets : Carries(down'[t], typed)
<1> DEFINE new == Shows(r, u)
           out == greeting \o reply
           from == {s}
<1>1. /\ Hold(i, r \cup u) /\ Record(i, new) /\ Publish(i, b, new)
      /\ Broadcast(i, new, from, out) /\ Carries(reply, r) /\ u \subseteq typed
  BY DEF Handled
<1>2. new \in SUBSET Edits /\ new \subseteq typed
  BY <1>1, ShowsHeld
<1>3. out \in Seq(Frames) /\ Carries(out, typed)
  BY <1>1, CarriesMore, CarriesBoth
<1>4. room'[i] = r \cup u /\ \A j \in Instances : j # i => room'[j] = room[j]
  BY <1>1, Holding
<1> HIDE DEF new, out
<1>5. from \in SUBSET Sockets
  OBVIOUS
<1> HIDE DEF from
<1>6. \A t \in Sockets : Carries(down'[t], typed)
  BY <1>1, <1>2, <1>3, <1>5, GrowingTyped
<1>7. ASSUME NEW j \in Instances PROVE Carries(bus'[j], typed)
  <2> DEFINE n == NonEmpty(new)
  <2>1. n \in Seq(Frames) /\ Carries(n, typed)
    BY <1>2, NonEmptyQueue, CarriesUpdate
  <2>2. bus'[j] = b[j] \o n \/ bus'[j] = b[j]
    BY <1>1 DEF Publish
  <2> HIDE DEF n
  <2> QED
    BY <2>1, <2>2, CarriesBoth
<1>8. \A j \in Instances : room'[j] \cup unwritten'[j] \subseteq typed
  BY <1>1, <1>2, <1>4 DEF Record, TypeOK, EditsAreTyped
<1> QED
  BY <1>6, <1>7, <1>8

LEMMA DispatchTells ==
  ASSUME SessionInv, ToldInv, NEW s \in Sockets, Dispatch(s)
  PROVE  ToldInv'
<1>1. /\ conn[s] = "joined" /\ up[s] \in Seq(Frames) /\ up[s] # <<>>
      /\ Head(up[s]) \in Frames /\ up'[s] = Tail(up[s])
      /\ \A t \in Sockets : t # s => up'[t] = up[t]
  BY ArrivesTypes DEF Dispatch
<1>2. /\ UNCHANGED <<provider, doc, connection, open, stored, dep, typed>>
  BY DEF Dispatch, typing
<1> DEFINE q == <<Head(up[s])>>
           none == <<>>
<1>3. PICK i \in at[s] : HandleSync(s, i, room[i], bus, none, q)
  BY DEF Dispatch
<1>4. at[s] = {i} /\ i \in Instances /\ i \in open
  BY <1>1 DEF ServerEnd, TypeOK
<1>5. /\ q \in Seq(Frames) /\ none \in Seq(Frames) /\ Carries(none, typed)
      /\ \A x \in Seq(Frames) : none \o x = x
  BY <1>1, CarriesNone
<1>6. \A v : Carries(up[s], v) => Carries(q, v) /\ Carries(up'[s], v)
  BY <1>1, CarriesTail, CarriesOne
<1>7. ASSUME NEW e, Asked(up[s], e), ~Asked(up'[s], e)
      PROVE  /\ \E k \in 1 .. Len(q) : q[k].kind = "Step1"
             /\ \E v : Carries(q, v) /\ e \notin v
  <2>1. Head(up[s]).kind = "Step1" /\ e \notin Head(up[s]).edits
    BY <1>1, <1>7, TailQueue
  <2>2. Carries(q, Head(up[s]).edits)
    BY CarriesOne
  <2>3. 1 \in 1 .. Len(q) /\ q[1].kind = "Step1"
    BY <2>1
  <2> QED
    BY <2>1, <2>2, <2>3
<1> HIDE DEF q, none
<1>8. room[i] \in SUBSET Edits /\ bus \in [Instances -> Seq(Frames)]
  BY <1>4 DEF TypeOK
<1>9. PICK u \in SUBSET Edits, reply \in Seq(Frames) :
        Handled(s, i, room[i], bus, none, q, u, reply)
  BY <1>3, <1>4, <1>5, <1>8, Handling
<1>10. EditsAreTyped'
  <2>1. /\ Carries(up[s], typed) /\ room[i] \subseteq typed
        /\ \A j \in Instances : Carries(bus[j], typed)
    BY <1>4 DEF EditsAreTyped
  <2>2. Carries(q, typed) /\ Carries(up'[s], typed)
    BY <1>6, <2>1
  <2>3. /\ \A j \in Instances :
               room'[j] \cup unwritten'[j] \subseteq typed /\ Carries(bus'[j], typed)
        /\ \A t \in Sockets : Carries(down'[t], typed)
    BY <1>4, <1>5, <1>8, <1>9, <2>1, <2>2, HandlingTyped
  <2> QED
    BY <1>1, <1>2, <2>2, <2>3 DEF EditsAreTyped, connection
<1>11. FramesAreOwn'
  BY <1>1, <1>2, <1>6 DEF FramesAreOwn, Listening, provider, connection
<1>12. AsksFirst'
  BY <1>1, <1>2 DEF AsksFirst, connection
<1>13. RestIsAhead' /\ ClientIsToldInOrder'
  <2> DEFINE from == {s}
             r == room[i]
  <2>1. Hold(i, r \cup u) /\ Broadcast(i, Shows(r, u), from, reply)
    BY <1>5, <1>9 DEF Handled
  <2>2. \A t \in Sockets \ from : conn'[t] = conn[t] /\ up'[t] = up[t]
    BY <1>1, <1>2 DEF connection
  <2>3. ASSUME NEW t \in from, Live(t)'
        PROVE  /\ at[t] = {i} /\ u \subseteq doc[t[1]]
               /\ \A e \in r \ (doc[t[1]] \cup ahead) :
                      InFlight(reply, e) \/ InFlight(down[t], e) \/ Asked(up'[t], e)
    <3>1. t = s /\ Live(s)
      BY <1>2, <2>3 DEF Live, Listening, provider, connection
    <3>2. Carries(q, doc[s[1]])
      BY <1>6, <3>1 DEF FramesAreOwn, Live
    <3>3. u \subseteq doc[s[1]]
      BY <1>9, <3>2 DEF Handled
    <3>4. ASSUME NEW e \in r \ (doc[s[1]] \cup ahead)
          PROVE  InFlight(reply, e) \/ InFlight(down[s], e) \/ Asked(up'[s], e)
      <4>1. e \in Visible(r)
        BY <1>4, <3>4 DEF RestIsAhead
      <4>2. Told(s, e)
        BY <1>4, <3>1, <3>4, <4>1 DEF ClientIsToldInOrder
      <4>3. CASE Asked(up[s], e) /\ ~Asked(up'[s], e)
        <5>1. PICK v : Carries(q, v) /\ e \notin v
          BY <1>7, <4>3
        <5>2. \E k \in 1 .. Len(q) : q[k].kind = "Step1"
          BY <1>7, <4>3
        <5>3. InFlight(reply, e)
          BY <1>9, <3>4, <5>1, <5>2 DEF Handled
        <5> QED
          BY <5>3
      <4> QED
        BY <4>2, <4>3 DEF Told
    <3> QED
      BY <1>4, <3>1, <3>3, <3>4
  <2>4. from \in SUBSET Sockets /\ UNCHANGED <<socket, doc, at, closing, dep>>
    BY <1>2 DEF provider, connection
  <2> HIDE DEF from
  <2>5. r \in SUBSET Edits /\ (i \in open => r = room[i])
    BY <1>8
  <2> HIDE DEF r
  <2> QED
    BY <1>4, <2>1, <2>2, <2>3, <2>4, <2>5, GrowingTells
<1> QED
  BY <1>10, <1>11, <1>12, <1>13

LEMMA JoinTells ==
  ASSUME SessionInv, ToldInv, NEW s \in Sockets, Join(s)
  PROVE  ToldInv'
<1>1. /\ conn[s] = "joining" /\ s \notin closing
      /\ conn' = [conn EXCEPT ![s] = "joined"] /\ queued' = [queued EXCEPT ![s] = <<>>]
      /\ UNCHANGED <<provider, doc, at, closing, up, stored, dep, typed>>
  BY DEF Join, typing
<1>2. PICK i \in at[s] :
        \E answers \in IF i \in open THEN {bus[i]} ELSE {NonEmpty(UNION {room[j] : j \in open})} :
           LET r == IF i \in open THEN room[i] ELSE stored IN
           HandleSync(s, i, r, [bus EXCEPT ![i] = answers], Greeting(r), queued[s])
  BY DEF Join
<1> DEFINE r == IF i \in open THEN room[i] ELSE stored
           others == UNION {room[j] : j \in open}
           q == queued[s]
<1>3. PICK answers \in IF i \in open THEN {bus[i]} ELSE {NonEmpty(others)} :
        HandleSync(s, i, r, [bus EXCEPT ![i] = answers], Greeting(r), q)
  BY <1>2
<1>4. at[s] = {i} /\ i \in Instances /\ q \in Seq(Frames) /\ up[s] \in Seq(Frames)
  BY <1>1 DEF ServerEnd, TypeOK
<1>5. r \in SUBSET Edits /\ r \subseteq typed
  BY <1>4 DEF TypeOK, EditsAreTyped
<1> DEFINE b == [bus EXCEPT ![i] = answers]
           greeting == Greeting(r)
<1>6. b \in [Instances -> Seq(Frames)] /\ \A j \in Instances : Carries(b[j], typed)
  <2>1. others \in SUBSET Edits /\ others \subseteq typed
    BY DEF TypeOK, EditsAreTyped
  <2> HIDE DEF others
  <2>2. NonEmpty(others) \in Seq(Frames) /\ Carries(NonEmpty(others), typed)
    BY <2>1, NonEmptyQueue, CarriesUpdate
  <2>3. answers \in Seq(Frames) /\ Carries(answers, typed)
    BY <1>4, <2>2 DEF TypeOK, EditsAreTyped
  <2> QED
    BY <2>3 DEF TypeOK, EditsAreTyped
<1>7. greeting \in Seq(Frames) /\ Carries(greeting, typed)
  <2>1. Step1(Visible(r)).edits \subseteq typed
    BY <1>5, VisibleHeld DEF Step1, Frame
  <2> QED
    BY <1>5, <2>1, GreetingAsks, CarriesOne DEF Greeting
<1>8. HandleSync(s, i, r, b, greeting, q)
  BY <1>3
<1> HIDE DEF b, greeting, q
<1>9. i \in open => r = room[i]
  OBVIOUS
<1> HIDE DEF r
<1>10. PICK u \in SUBSET Edits, rest \in Seq(Frames) : Handled(s, i, r, b, greeting, q, u, rest)
  BY <1>4, <1>5, <1>8, Handling
<1>11. /\ conn'[s] = "joined" /\ queued'[s] = <<>>
       /\ \A t \in Sockets : t # s => conn'[t] = conn[t] /\ queued'[t] = queued[t]
  BY <1>1 DEF TypeOK
<1>12. EditsAreTyped'
  <2>1. Carries(q, typed)
    BY DEF EditsAreTyped, q
  <2>2. /\ \A j \in Instances :
               room'[j] \cup unwritten'[j] \subseteq typed /\ Carries(bus'[j], typed)
        /\ \A t \in Sockets : Carries(down'[t], typed)
    BY <1>4, <1>5, <1>6, <1>7, <1>10, <2>1, HandlingTyped
  <2> QED
    BY <1>1, <1>11, <2>2, CarriesNone DEF EditsAreTyped
<1>13. FramesAreOwn'
  BY <1>1, <1>11, CarriesNone DEF FramesAreOwn, Listening, provider
<1>14. AsksFirst'
  BY <1>1, <1>11 DEF AsksFirst
<1>15. RestIsAhead' /\ ClientIsToldInOrder'
  <2> DEFINE from == {s}
             reply == greeting \o rest
  <2>1. Hold(i, r \cup u) /\ Broadcast(i, Shows(r, u), from, reply)
    BY <1>10 DEF Handled
  <2>2. reply \in Seq(Frames) /\ \A e : InFlight(rest, e) => InFlight(reply, e)
    BY <1>7, TwoQueues
  <2>3. \A t \in Sockets \ from : conn'[t] = conn[t] /\ up'[t] = up[t]
    BY <1>1, <1>11
  <2> HIDE DEF reply
  <2>4. ASSUME NEW t \in from, Live(t)'
        PROVE  /\ at[t] = {i} /\ u \subseteq doc[t[1]]
               /\ \A e \in r \ (doc[t[1]] \cup ahead) :
                      InFlight(reply, e) \/ InFlight(down[t], e) \/ Asked(up'[t], e)
    <3>1. t = s /\ Listening(s)
      BY <1>1, <2>4 DEF Live, Listening, provider
    <3>2. Carries(q, doc[s[1]]) /\ Carries(up[s], doc[s[1]])
      BY <1>1, <3>1 DEF FramesAreOwn, q
    <3>3. u \subseteq doc[s[1]]
      BY <1>10, <3>2 DEF Handled
    <3>4. ASSUME NEW e \in r \ doc[s[1]] PROVE InFlight(reply, e) \/ Asked(up[s], e)
      <4>1. CASE q = <<>>
        <5>1. up[s] # <<>> /\ Head(up[s]).kind = "Step1"
          BY <1>1, <4>1 DEF AsksFirst, q
        <5>2. Head(up[s]).edits \subseteq doc[s[1]]
          BY <1>4, <3>2, <5>1, CarriesTail
        <5> QED
          BY <1>4, <3>4, <5>1, <5>2, TailQueue
      <4>2. CASE q # <<>>
        <5>1. Head(q).kind = "Step1"
          BY <1>1, <4>2 DEF AsksFirst, q
        <5>2. 1 \in 1 .. Len(q) /\ q[1].kind = "Step1"
          BY <1>4, <4>2, <5>1
        <5>3. InFlight(rest, e)
          BY <1>10, <3>2, <3>4, <5>2 DEF Handled
        <5> QED
          BY <2>2, <5>3
      <4> QED
        BY <4>1, <4>2
    <3> QED
      BY <1>1, <1>4, <3>1, <3>3, <3>4
  <2>5. from \in SUBSET Sockets /\ UNCHANGED <<socket, doc, at, closing, dep>>
    BY <1>1 DEF provider
  <2> HIDE DEF from
  <2> QED
    BY <1>4, <1>5, <1>9, <2>1, <2>2, <2>3, <2>4, <2>5, GrowingTells
<1> QED
  BY <1>12, <1>13, <1>14, <1>15

LEMMA ReceiveTells ==
  ASSUME SessionInv, ToldInv, NEW i \in Instances, Receive(i)
  PROVE  ToldInv'
<1> DEFINE u == Head(bus[i]).edits
           r == room[i]
           from == {}
           reply == <<>>
<1>1. /\ bus[i] # <<>> /\ bus' = [bus EXCEPT ![i] = Tail(@)]
      /\ Hold(i, r \cup u) /\ Broadcast(i, Shows(r, u), from, reply)
      /\ UNCHANGED <<provider, doc, connection, up, open, unwritten, stored, typing>>
  BY DEF Receive
<1>2. bus[i] \in Seq(Frames) /\ Carries(bus[i], typed) /\ r \subseteq typed /\ r \in SUBSET Edits
  BY DEF TypeOK, EditsAreTyped
<1>3. Head(bus[i]) \in Frames /\ Carries(Tail(bus[i]), typed) /\ u \subseteq typed
  BY <1>1, <1>2, CarriesTail
<1>4. u \in SUBSET Edits
  BY <1>3 DEF Frames
<1> HIDE DEF u
<1>5. from \in SUBSET Sockets /\ reply \in Seq(Frames) /\ Carries(reply, typed)
  BY CarriesNone
<1>6. \A t \in from : Live(t)' =>
         /\ at[t] = {i} /\ u \subseteq doc[t[1]]
         /\ \A e \in r \ (doc[t[1]] \cup ahead) :
                InFlight(reply, e) \/ InFlight(down[t], e) \/ Asked(up'[t], e)
  OBVIOUS
<1>7. (i \in open => r = room[i])
      /\ \A t \in Sockets \ from : conn'[t] = conn[t] /\ up'[t] = up[t]
  BY <1>1 DEF connection
<1> HIDE DEF r, from, reply
<1> USE DEF provider, connection, typing
<1>8. RestIsAhead' /\ ClientIsToldInOrder'
  BY <1>1, <1>2, <1>4, <1>5, <1>6, <1>7, GrowingTells
<1>9. EditsAreTyped'
  <2> DEFINE new == Shows(r, u)
  <2>1. new \in SUBSET Edits /\ new \subseteq typed /\ Broadcast(i, new, from, reply)
    BY <1>1, <1>2, <1>3, <1>4, ShowsHeld
  <2> HIDE DEF new
  <2>2. \A t \in Sockets : Carries(down'[t], typed)
    BY <1>5, <2>1, GrowingTyped
  <2>3. room'[i] = r \cup u /\ \A j \in Instances : j # i => room'[j] = room[j]
    BY <1>1, <1>2, <1>4, Holding
  <2>4. \A j \in Instances : room'[j] \subseteq typed /\ Carries(bus'[j], typed)
    BY <1>1, <1>2, <1>3, <2>3 DEF EditsAreTyped, TypeOK
  <2> QED
    BY <1>1, <2>2, <2>4 DEF EditsAreTyped
<1>10. FramesAreOwn' /\ AsksFirst'
  BY <1>1 DEF FramesAreOwn, AsksFirst, Listening
<1> QED
  BY <1>8, <1>9, <1>10

LEMMA StepTells == SessionInv /\ ToldInv /\ [Next]_vars => ToldInv'
<1> SUFFICES ASSUME SessionInv, ToldInv, [Next]_vars PROVE ToldInv'
  OBVIOUS
<1>1. ASSUME NEW c \in Clients, ProviderStep(c) PROVE ToldInv'
  BY <1>1, QuietSteps, QuietTells, OpensTells, ReceiveSyncTells DEF ProviderStep
<1>2. ASSUME NEW c \in Clients, NEW e \in Edits, Type(c, e) PROVE ToldInv'
  BY <1>2, TypeTells
<1>3. ASSUME NEW s \in Sockets, ServerStep(s) PROVE ToldInv'
  BY <1>3, ConnectionTells, JoinTells, DispatchTells, SocketClosedTells DEF ServerStep
<1>4. ASSUME NEW i \in Instances, RoomStep(i) PROVE ToldInv'
  BY <1>4, ReceiveTells, WriteTells DEF RoomStep
<1>5. CASE Trouble
  <2>1. ASSUME NEW c \in Clients, TokenFails(c) \/ SocketLost(c) \/ Expire(c) \/ Destroy(c)
        PROVE  ToldInv'
    BY <2>1, QuietSteps, QuietTells
  <2>2. ASSUME NEW s \in Sockets, OverLimit(s) \/ ServerCloses(s) \/ Terminate(s)
        PROVE  ToldInv'
    BY <2>2, ConnectionTells, SocketClosedTells DEF Terminate
  <2>3. ASSUME NEW i \in Instances, Crash(i) PROVE ToldInv'
    BY <2>3, CrashTells
  <2> QED
    BY <1>5, <2>1, <2>2, <2>3 DEF Trouble
<1>6. CASE UNCHANGED vars
  <2>1. Quietly
    BY <1>6 DEF vars, provider, Quietly, Listening
  <2> QED
    BY <2>1, QuietTells
<1> QED
  BY <1>1, <1>2, <1>3, <1>4, <1>5, <1>6 DEF Next

LEMMA InitTells == Init => ToldInv
<1> SUFFICES ASSUME Init PROVE ToldInv
  OBVIOUS
<1>1. EditsAreTyped
  BY CarriesNone DEF Init, EditsAreTyped
<1>2. RestIsAhead
  BY DEF Init, RestIsAhead
<1>3. FramesAreOwn /\ AsksFirst
  BY CarriesNone DEF Init, FramesAreOwn, AsksFirst
<1>4. ClientIsToldInOrder
  BY DEF Init, ClientIsToldInOrder, Live
<1> QED
  BY <1>1, <1>2, <1>3, <1>4

(* On a socket in use, every edit that its room shows, and that no room has had to
   keep aside, is the client's, or on its way to it, or will be sent in answer to the
   step 1 the client has sent: through joins with frames in the queue, broadcasts that
   skip the sender, and closing sockets. *)
THEOREM ClientsAreTold == Spec => []ClientIsToldInOrder
<1>1. Init => ToldInv
  BY InitTells
<1>2. SessionInv /\ ToldInv /\ [Next]_vars => ToldInv'
  BY StepTells
<1>3. ToldInv => ClientIsToldInOrder
  OBVIOUS
<1> QED
  BY <1>1, <1>2, <1>3, SessionInvariant, PTL DEF Spec

=============================================================================
