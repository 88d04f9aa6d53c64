-------------------------- MODULE ClientLinkProofs --------------------------
(***************************************************************************)
(* Proofs about ClientLink for any intervals, limits, rates and sizes: what *)
(* the rate limit lets through, who is cut off when, and what a client is   *)
(* never sent.                                                             *)
(***************************************************************************)
EXTENDS ClientLink, FiniteSetTheorems, TLAPS

Frames == {"document", "late", "presence", "ping"}

----------------------------------------------------------------------------
(* Arithmetic of the budget *)

(* The rate times a span of time, which the solver should not multiply out. *)
LEMMA RateTimes ==
  ASSUME NEW m \in Nat, NEW n \in Nat
  PROVE  RATE * m \in Nat /\ RATE * (m + n) = RATE * m + RATE * n
BY LinkAssumption

(* Two spans that meet. *)
LEMMA RateSplit ==
  ASSUME NEW s \in Nat, NEW u \in Nat, NEW t \in Nat, s <= u, u <= t
  PROVE  /\ RATE * (t - u) \in Nat /\ RATE * (u - s) \in Nat /\ RATE * (t - s) \in Nat
         /\ RATE * (t - s) = RATE * (u - s) + RATE * (t - u)
<1>1. t - u \in Nat /\ u - s \in Nat /\ t - s \in Nat /\ (u - s) + (t - u) = t - s
  OBVIOUS
<1> QED
  BY <1>1, RateTimes

(* The refill stays within the burst and is the refilled sum unless that is
   more. *)
LEMMA RefillBound ==
  ASSUME LinkTypeOK
  PROVE  /\ CAP \in Nat /\ Refilled \in 0 .. CAP
         /\ RATE * (now - updatedAt) \in Nat
         /\ Refilled <= tokens + RATE * (now - updatedAt)
         /\ \/ Refilled = tokens + RATE * (now - updatedAt)
            \/ Refilled = CAP /\ now > updatedAt
<1>1. CAP \in Nat
  BY LinkAssumption DEF CAP
<1>2. updatedAt \in Nat /\ now \in Nat /\ updatedAt <= now /\ tokens \in 0 .. CAP
  BY LinkAssumption DEF LinkTypeOK
<1>3. RATE * (now - updatedAt) \in Nat
  BY <1>2, RateSplit
<1>4. now = updatedAt => RATE * (now - updatedAt) = 0
  BY <1>2, LinkAssumption
<1> QED
  BY <1>1, <1>2, <1>3, <1>4 DEF Refilled

LEMMA CostType ==
  ASSUME NEW size \in Sizes
  PROVE  Cost(size) \in Nat
BY LinkAssumption DEF Cost

(* What the budget left of a window is known at the last refill; a window that
   ends now and began by then has that and what was refilled since. *)
LEMMA WindowNow ==
  ASSUME LinkTypeOK, NEW s \in Nat, s <= updatedAt
  PROVE  /\ Window(s) \in Int /\ before[s] \in Nat /\ Spent \in Nat
         /\ RATE * (now - s) \in Nat
         /\ CAP + RATE * (now - s) - (Spent - before[s]) = Window(s) + RATE * (now - updatedAt)
<1>1. updatedAt \in Nat /\ now \in Nat /\ updatedAt <= now /\ now <= MaxTime /\ MaxTime \in Nat
  BY LinkAssumption DEF LinkTypeOK
<1>2. before[s] \in Nat /\ Spent \in Nat
  BY <1>1 DEF LinkTypeOK, Spent
<1>3. CAP \in Nat
  BY LinkAssumption DEF CAP
<1>4. /\ RATE * (now - updatedAt) \in Nat /\ RATE * (updatedAt - s) \in Nat /\ RATE * (now - s) \in Nat
      /\ RATE * (now - s) = RATE * (updatedAt - s) + RATE * (now - updatedAt)
  BY <1>1, RateSplit
<1> QED
  BY <1>2, <1>3, <1>4 DEF Window

(* The invariant says exactly what the property asks. *)
LEMMA TightestIsExact ==
  ASSUME LinkTypeOK, BucketIsTightest, NEW cost \in Nat
  PROVE  Refilled >= cost <=> Allowed(cost)
<1>1. updatedAt \in Nat /\ now \in Nat /\ updatedAt <= now /\ now <= MaxTime /\ MaxTime \in Nat
      /\ tokens \in Nat
  BY LinkAssumption DEF LinkTypeOK
<1>2. /\ CAP \in Nat /\ Refilled \in 0 .. CAP
      /\ RATE * (now - updatedAt) \in Nat
      /\ Refilled <= tokens + RATE * (now - updatedAt)
      /\ \/ Refilled = tokens + RATE * (now - updatedAt)
         \/ Refilled = CAP /\ now > updatedAt
  BY RefillBound
<1>3. ASSUME Refilled >= cost, NEW s \in 0 .. now
      PROVE  Spent - before[s] + cost <= CAP + RATE * (now - s)
  <2>1. CASE s <= updatedAt
    <3>1. tokens <= Window(s)
      BY <1>1, <2>1 DEF BucketIsTightest
    <3> QED
      BY <1>1, <1>2, <1>3, <2>1, <3>1, WindowNow
  <2>2. CASE s > updatedAt
    <3>1. before[s] = Spent /\ Spent \in Nat
      BY <1>1, <2>2 DEF BucketIsTightest, LinkTypeOK, Spent
    <3>2. RATE * (now - s) \in Nat
      BY <1>1, RateSplit
    <3> QED
      BY <1>2, <1>3, <3>1, <3>2
  <2> QED
    BY <1>1, <2>1, <2>2
<1>4. ASSUME Allowed(cost)
      PROVE  Refilled >= cost
  <2>1. CASE Refilled = tokens + RATE * (now - updatedAt)
    <3>1. PICK s \in 0 .. updatedAt : tokens = Window(s)
      BY DEF BucketIsTightest
    <3>2. Spent - before[s] + cost <= CAP + RATE * (now - s)
      BY <1>1, <1>4 DEF Allowed
    <3> QED
      BY <1>1, <1>2, <2>1, <3>1, <3>2, WindowNow
  <2>2. CASE Refilled = CAP
    <3>1. Spent - before[now] + cost <= CAP + RATE * (now - now)
      BY <1>1, <1>4 DEF Allowed
    <3>2. RATE * (now - now) = 0
      BY <1>1, LinkAssumption
    <3>3. before[now] <= Spent /\ before[now] \in Nat /\ Spent \in Nat
      BY <1>1 DEF BucketIsTightest, LinkTypeOK, Spent
    <3> QED
      BY <1>2, <2>2, <3>1, <3>2, <3>3
  <2> QED
    BY <1>2, <2>1, <2>2
<1> QED
  BY <1>3, <1>4 DEF Allowed

----------------------------------------------------------------------------
(* Steps *)

(* Only a document frame changes the budget. *)
LEMMA TakeType ==
  ASSUME LinkTypeOK, NEW cost \in Nat, Take(cost)
  PROVE  /\ tokens' \in 0 .. CAP /\ updatedAt' = now
         /\ before' \in [0 .. MaxTime + 1 -> Nat]
<1>1. Refilled \in 0 .. CAP /\ CAP \in Nat
  BY RefillBound
<1> QED
  BY <1>1 DEF Take, LinkTypeOK

(* A kind of frame added at the end, or the first taken, leaves frames. *)
LEMMA PipeType ==
  ASSUME NEW p \in Seq(Frames), NEW f \in Frames
  PROVE  Append(p, f) \in Seq(Frames) /\ (p # <<>> => Tail(p) \in Seq(Frames))
OBVIOUS

(* The type invariant in parts, so that a step names those it changes. *)
EndsOK == /\ socket \in {"open", "closing", "closed"} /\ user \in BOOLEAN /\ alive \in BOOLEAN
          /\ peer \in {"reading", "silent"} /\ read \in BOOLEAN
          /\ skipped \in BOOLEAN /\ cut \in BOOLEAN
TimersOK == /\ authIn \in 0 .. HANDSHAKE \cup {Off} /\ sweepIn \in 0 .. INTERVAL
            /\ pongs \subseteq 0 .. LATENCY
            /\ silentFor \in Nat /\ idleFor \in Nat
PipeOK == pipe \in Seq(Frames)
BucketOK == /\ tokens \in 0 .. CAP /\ updatedAt \in Nat /\ now \in updatedAt .. MaxTime
            /\ before \in [0 .. MaxTime + 1 -> Nat]

LEMMA TypeParts ==
  /\ LinkTypeOK <=> EndsOK /\ TimersOK /\ PipeOK /\ BucketOK
  /\ LinkTypeOK' <=> EndsOK' /\ TimersOK' /\ PipeOK' /\ BucketOK'
BY DEF LinkTypeOK, EndsOK, TimersOK, PipeOK, BucketOK, Frames

LEMMA Limits == /\ INTERVAL \in Nat /\ INTERVAL > 0 /\ HANDSHAKE \in Nat /\ HANDSHAKE > 0
                /\ MaxTime \in Nat /\ LATENCY \in Nat /\ RATE \in Nat /\ CAP \in Nat
                /\ LATENCY < INTERVAL
BY LinkAssumption DEF CAP

(* The variables a step leaves alone, part by part. *)
LEMMA EndsStep ==
  ASSUME EndsOK, [Next]_vars
  PROVE  EndsOK'
<1>1. CASE \E valid \in BOOLEAN : Authenticate(valid)
  BY <1>1 DEF Authenticate, EndsOK, heartbeat, remote, history, Closed, IsOpen
<1>2. CASE \E size \in Sizes : DocumentFrame(size)
  BY <1>2 DEF DocumentFrame, EndsOK, heartbeat, remote, history, Closed, IsOpen
<1>3. CASE Read
  BY <1>3 DEF Read, EndsOK, connection, heartbeat, history
<1>4. CASE Send \/ SendPresence
  BY <1>4 DEF Send, SendPresence, EndsOK, connection, heartbeat, remote, history, Closed, IsOpen
<1>5. CASE Sweep
  BY <1>5 DEF Sweep, EndsOK, remote, IsOpen
<1>6. CASE PongArrives \/ Vanish \/ SocketCloses
  BY <1>6 DEF PongArrives, Vanish, SocketCloses, EndsOK, connection, heartbeat, remote, history
<1>7. CASE ServerCloses \/ AuthTimeout
  BY <1>7 DEF ServerCloses, AuthTimeout, EndsOK, heartbeat, remote, history, Closed, IsOpen
<1>8. CASE Tick
  BY <1>8 DEF Tick, EndsOK
<1>9. CASE UNCHANGED vars
  BY <1>9 DEF vars, EndsOK, connection, heartbeat, remote, history
<1> QED
  BY <1>1, <1>2, <1>3, <1>4, <1>5, <1>6, <1>7, <1>8, <1>9 DEF Next

LEMMA TimersStep ==
  ASSUME TimersOK, [Next]_vars
  PROVE  TimersOK'
<1>1. CASE \E valid \in BOOLEAN : Authenticate(valid)
  BY <1>1 DEF Authenticate, TimersOK, heartbeat, remote, history
<1>2. CASE \E size \in Sizes : DocumentFrame(size)
  BY <1>2 DEF DocumentFrame, TimersOK, heartbeat, remote, history
<1>3. CASE Read
  BY <1>3, Limits DEF Read, TimersOK, connection, heartbeat, history
<1>4. CASE Send \/ SendPresence
  BY <1>4 DEF Send, SendPresence, TimersOK, connection, heartbeat, remote, history
<1>5. CASE Sweep
  BY <1>5, Limits DEF Sweep, TimersOK, remote
<1>6. CASE PongArrives \/ Vanish \/ SocketCloses
  BY <1>6 DEF PongArrives, Vanish, SocketCloses, TimersOK, connection, heartbeat, remote, history
<1>7. CASE ServerCloses \/ AuthTimeout
  BY <1>7 DEF ServerCloses, AuthTimeout, TimersOK, heartbeat, remote, history
<1>8. CASE Tick
  <2>1. /\ sweepIn > 0 /\ sweepIn' = sweepIn - 1 /\ authIn # 0
        /\ authIn' = IF authIn = Off THEN Off ELSE authIn - 1
        /\ 0 \notin pongs /\ pongs' = {p - 1 : p \in pongs}
        /\ silentFor' = IF peer = "silent" THEN silentFor + 1 ELSE 0
        /\ idleFor' = IF user THEN 0 ELSE idleFor + 1
    BY <1>8 DEF Tick
  <2>2. authIn' \in 0 .. HANDSHAKE \cup {Off} /\ sweepIn' \in 0 .. INTERVAL
    BY <2>1, Limits DEF TimersOK, Off
  <2>3. pongs' \subseteq 0 .. LATENCY
    BY <2>1, Limits DEF TimersOK
  <2>4. silentFor' \in Nat /\ idleFor' \in Nat
    BY <2>1 DEF TimersOK
  <2> QED
    BY <2>2, <2>3, <2>4 DEF TimersOK
<1>9. CASE UNCHANGED vars
  BY <1>9 DEF vars, TimersOK, connection, heartbeat, remote, history
<1> QED
  BY <1>1, <1>2, <1>3, <1>4, <1>5, <1>6, <1>7, <1>8, <1>9 DEF Next

LEMMA PipeStep ==
  ASSUME PipeOK, [Next]_vars
  PROVE  PipeOK'
<1>1. CASE Read \/ Send \/ SendPresence \/ Sweep
  BY <1>1, PipeType DEF Read, Send, SendPresence, Sweep, PipeOK, Frames
<1>2. CASE UNCHANGED pipe
  BY <1>2 DEF PipeOK
<1> QED
  BY <1>1, <1>2 DEF Next, Authenticate, DocumentFrame, PongArrives, Vanish, SocketCloses, ServerCloses,
                    AuthTimeout, Tick, vars

(* Only a document frame changes the budget. *)
LEMMA BucketSteps ==
  ASSUME [Next]_vars
  PROVE  \/ \E size \in Sizes : DocumentFrame(size)
         \/ Tick
         \/ UNCHANGED <<bucket, now>>
BY DEF Next, Authenticate, Read, PongArrives, Vanish, SocketCloses, Send, SendPresence, ServerCloses,
       AuthTimeout, Sweep, vars

LEMMA TypeStep ==
  ASSUME LinkTypeOK, [Next]_vars
  PROVE  LinkTypeOK'
<1>0. EndsOK /\ TimersOK /\ PipeOK /\ BucketOK
  BY TypeParts
<1>1. ASSUME NEW size \in Sizes, DocumentFrame(size)
      PROVE  BucketOK'
  <2>1. /\ tokens' \in 0 .. CAP /\ updatedAt' = now
        /\ before' \in [0 .. MaxTime + 1 -> Nat]
    BY <1>1, CostType, TakeType DEF DocumentFrame
  <2>2. now' = now /\ now \in Nat /\ now <= MaxTime
    BY <1>0, <1>1, Limits DEF DocumentFrame, BucketOK
  <2> QED
    BY <2>1, <2>2, Limits DEF BucketOK
<1>2. ASSUME Tick
      PROVE  BucketOK'
  <2>1. now' = (IF now < MaxTime THEN now + 1 ELSE now) /\ UNCHANGED bucket
    BY <1>2 DEF Tick
  <2>2. now' \in updatedAt .. MaxTime
    BY <1>0, <2>1, Limits DEF BucketOK
  <2> QED
    BY <1>0, <2>1, <2>2, Limits DEF BucketOK, bucket, CAP
<1>3. ASSUME UNCHANGED <<bucket, now>>
      PROVE  BucketOK'
  BY <1>0, <1>3 DEF BucketOK, bucket, CAP
<1>4. (\E size \in Sizes : DocumentFrame(size)) \/ Tick \/ UNCHANGED <<bucket, now>>
  BY BucketSteps
<1>5. BucketOK'
  BY <1>1, <1>2, <1>3, <1>4
<1>6. EndsOK' /\ TimersOK' /\ PipeOK'
  BY <1>0, EndsStep, TimersStep, PipeStep
<1> QED
  BY <1>5, <1>6, TypeParts

(* The budget stays what the tightest window left. *)
LEMMA BucketStep ==
  ASSUME LinkTypeOK, BucketIsTightest, [Next]_vars
  PROVE  BucketIsTightest'
<1>0. /\ updatedAt \in Nat /\ now \in Nat /\ updatedAt <= now /\ now <= MaxTime
      /\ tokens \in 0 .. CAP /\ before \in [0 .. MaxTime + 1 -> Nat]
  BY TypeParts, Limits DEF BucketOK
<1>1. ASSUME NEW size \in Sizes, DocumentFrame(size)
      PROVE  BucketIsTightest'
  <2> DEFINE cost == Cost(size)
  <2>1. cost \in Nat /\ Take(cost)
    BY <1>1, CostType DEF DocumentFrame
  <2> HIDE DEF cost
  <2> DEFINE gain == RATE * (now - updatedAt)
             left(s) == CAP + RATE * (now - s) - (Spent - before[s])
  <2>2. /\ Refilled \in 0 .. CAP
        /\ gain \in Nat
        /\ Refilled <= tokens + gain
        /\ \/ Refilled = tokens + gain
           \/ Refilled = CAP /\ now > updatedAt
    BY RefillBound
  <2>3. updatedAt' = now
    BY <2>1 DEF Take
  <2> DEFINE paid == IF Refilled < cost THEN 0 ELSE cost
  <2>4. /\ tokens' = Refilled - paid /\ paid \in Nat /\ tokens' \in Int
        /\ \A s \in 0 .. MaxTime + 1 : before'[s] = before[s] + (IF s > now THEN paid ELSE 0)
    BY <1>0, <2>1, <2>2, Limits DEF Take
  <2> HIDE DEF paid
  <2>5. Spent' = Spent + paid /\ Spent \in Nat
    BY <1>0, <2>4, Limits DEF Spent
  <2>6. ASSUME NEW s \in 0 .. now
        PROVE  /\ Window(s)' = left(s) - paid /\ left(s) \in Int
               /\ before[s] = Spent => left(s) >= CAP
               /\ before[s] = Spent /\ s = now => left(s) = CAP
               /\ s <= updatedAt => Window(s) \in Int /\ left(s) = Window(s) + gain
    <3>1. before'[s] = before[s] /\ before[s] \in Nat
      BY <1>0, <2>4, Limits
    <3>2. RATE * (now - s) \in Nat
      <4>1. now - s \in Nat
        BY <1>0
      <4> QED
        BY <4>1, RateTimes
    <3>3. Window(s)' = CAP + RATE * (now - s) - ((Spent + paid) - before[s])
      BY <2>3, <2>5, <3>1 DEF Window, CAP
    <3>4. s = now => RATE * (now - s) = 0
      BY <1>0, Limits
    <3>5. s <= updatedAt => Window(s) \in Int /\ left(s) = Window(s) + gain
      BY <1>0, WindowNow
    <3> QED
      BY <2>4, <2>5, <3>1, <3>2, <3>3, <3>4, <3>5, Limits
  <2> HIDE DEF gain, left
  <2>7. ASSUME NEW s \in 0 .. now
        PROVE  tokens' <= Window(s)'
    <3>1. CASE s <= updatedAt
      <4>1. tokens <= Window(s)
        BY <1>0, <3>1, Limits DEF BucketIsTightest
      <4> QED
        BY <1>0, <2>2, <2>4, <2>6, <3>1, <4>1, Limits
    <3>2. CASE s > updatedAt
      <4>1. before[s] = Spent
        BY <1>0, <3>2, Limits DEF BucketIsTightest
      <4> QED
        BY <2>2, <2>4, <2>6, <4>1, Limits
    <3> QED
      BY <1>0, <3>1, <3>2
  <2>8. \E s \in 0 .. now : tokens' = Window(s)'
    <3>1. CASE Refilled = tokens + gain
      <4>1. PICK s \in 0 .. updatedAt : tokens = Window(s)
        BY DEF BucketIsTightest
      <4>2. s \in 0 .. now
        BY <1>0
      <4>3. tokens' = Window(s)'
        BY <1>0, <2>2, <2>4, <2>6, <3>1, <4>1, <4>2, Limits
      <4> QED
        BY <4>2, <4>3
    <3>2. CASE Refilled = CAP /\ now > updatedAt
      <4>1. PICK s \in 0 .. now : s = now
        BY <1>0
      <4>2. before[s] = Spent
        BY <1>0, <3>2, <4>1, Limits DEF BucketIsTightest
      <4>3. tokens' = Window(s)'
        BY <2>4, <2>6, <3>2, <4>1, <4>2, Limits
      <4> QED
        BY <4>3
    <3> QED
      BY <2>2, <3>1, <3>2
  <2>9. ASSUME NEW s \in 0 .. MaxTime + 1
        PROVE  before'[s] <= Spent' /\ (s > now => before'[s] = Spent')
    <3>1. before[s] <= Spent /\ (s > updatedAt => before[s] = Spent)
      BY <1>0 DEF BucketIsTightest
    <3> QED
      BY <1>0, <2>4, <2>5, <3>1
  <2>10. ASSUME NEW s \in 0 .. MaxTime + 1, s <= now
         PROVE  tokens' <= Window(s)'
    BY <1>0, <2>7, <2>10
  <2> QED
    BY <2>3, <2>8, <2>9, <2>10 DEF BucketIsTightest
<1>2. ASSUME UNCHANGED bucket
      PROVE  BucketIsTightest'
  BY <1>2 DEF BucketIsTightest, Window, Spent, bucket, CAP
<1>3. (\E size \in Sizes : DocumentFrame(size)) \/ UNCHANGED bucket
  BY BucketSteps DEF Tick
<1> QED
  BY <1>1, <1>2, <1>3

(* What a silent peer may still have shrinks with every tick. *)
LEMMA SweepsStep ==
  ASSUME LinkTypeOK, SweepsToCome, [Next]_vars
  PROVE  SweepsToCome'
<1>0. TimersOK /\ EndsOK
  BY TypeParts
<1> USE Limits DEF MaxSilence
<1>1. CASE PongArrives
  <2>1. PICK p \in pongs : pongs' = pongs \ {p}
    BY <1>1 DEF PongArrives
  <2>2. /\ alive' = TRUE
        /\ UNCHANGED <<socket, sweepIn, peer, silentFor>>
    BY <1>1 DEF PongArrives, connection, history
  <2>3. p \in Nat /\ sweepIn \in Nat /\ sweepIn <= INTERVAL /\ silentFor \in Nat
    BY <1>0 DEF TimersOK
  <2>4. peer = "silent" /\ socket # "closed" => p + silentFor <= LATENCY
    BY <2>1 DEF SweepsToCome
  <2>5. peer = "silent" /\ socket # "closed" => silentFor + sweepIn + INTERVAL <= MaxSilence
    BY <2>3, <2>4
  <2> QED
    BY <2>1, <2>2, <2>5 DEF SweepsToCome
<1>2. CASE Vanish
  <2>1. /\ peer = "reading" /\ peer' = "silent"
        /\ UNCHANGED <<socket, alive, sweepIn, pongs, silentFor>>
    BY <1>2 DEF Vanish, connection, heartbeat, history
  <2>2. silentFor = 0 /\ sweepIn \in Nat /\ sweepIn <= INTERVAL
        /\ \A p \in pongs : p \in Nat /\ p <= LATENCY
    BY <1>0, <2>1 DEF SweepsToCome, TimersOK
  <2> QED
    BY <2>1, <2>2 DEF SweepsToCome
<1>3. CASE Sweep
  <2>1. sweepIn = 0 /\ sweepIn' = INTERVAL /\ UNCHANGED <<peer, pongs, silentFor>>
        /\ ((alive /\ ~alive' /\ UNCHANGED socket) \/ socket' = "closed")
    BY <1>0, <1>3 DEF Sweep, remote, EndsOK
  <2>2. silentFor \in Nat
    BY <1>0 DEF TimersOK
  <2> QED
    BY <2>1, <2>2 DEF SweepsToCome
<1>4. CASE Tick
  <2>1. /\ socket # "closed" /\ sweepIn > 0 /\ sweepIn' = sweepIn - 1
        /\ pongs' = {p - 1 : p \in pongs}
        /\ silentFor' = IF peer = "silent" THEN silentFor + 1 ELSE 0
        /\ UNCHANGED <<socket, alive, peer>>
    BY <1>4 DEF Tick
  <2>2. /\ sweepIn \in Nat /\ silentFor \in Nat
        /\ \A p \in pongs : p \in Nat
    BY <1>0 DEF TimersOK
  <2>3. peer = "silent" => silentFor + sweepIn <= MaxSilence
    BY <2>1, <2>2 DEF SweepsToCome
  <2> QED
    BY <1>0, <2>1, <2>2, <2>3 DEF SweepsToCome, EndsOK
<1>5. CASE Read
  <2>1. /\ peer = "reading" /\ UNCHANGED <<socket, alive, sweepIn, peer, silentFor>>
    BY <1>5 DEF Read, connection, heartbeat, history
  <2> QED
    BY <2>1 DEF SweepsToCome
<1>6. ASSUME socket' = socket \/ socket = "open" \/ socket' = "closed",
             UNCHANGED <<heartbeat, remote, silentFor>>
      PROVE  SweepsToCome'
  BY <1>6 DEF SweepsToCome, heartbeat, remote
<1>7. CASE \E valid \in BOOLEAN : Authenticate(valid)
  BY <1>6, <1>7 DEF Authenticate, history, Closed, IsOpen
<1>8. CASE \E size \in Sizes : DocumentFrame(size)
  BY <1>6, <1>8 DEF DocumentFrame, history, Closed, IsOpen
<1>9. CASE Send \/ SendPresence \/ ServerCloses \/ AuthTimeout \/ SocketCloses
  BY <1>6, <1>9 DEF Send, SendPresence, ServerCloses, AuthTimeout, SocketCloses, connection, history, Closed, IsOpen
<1>10. CASE UNCHANGED vars
  BY <1>6, <1>10 DEF vars, connection, history
<1> QED
  BY <1>1, <1>2, <1>3, <1>4, <1>5, <1>7, <1>8, <1>9, <1>10 DEF Next

(* An open socket without a token has a timer running. *)
LEMMA HandshakeStep ==
  ASSUME LinkTypeOK, HandshakeIsTimed, [Next]_vars
  PROVE  HandshakeIsTimed'
<1>0. TimersOK /\ EndsOK
  BY TypeParts
<1> USE Limits DEF Off, IsOpen, Closed
<1>1. CASE \E valid \in BOOLEAN : Authenticate(valid)
  <2>1. PICK valid \in BOOLEAN : Authenticate(valid)
    BY <1>1
  <2>2. ~user /\ UNCHANGED idleFor
    BY <2>1 DEF Authenticate, history
  <2>3. authIn \in Int /\ idleFor \in Nat /\ (authIn # -1 => authIn >= 0)
    BY <1>0 DEF TimersOK
  <2> QED
    BY <2>1, <2>2, <2>3 DEF Authenticate, HandshakeIsTimed
<1>2. CASE Tick
  <2>1. /\ authIn # 0 /\ authIn' = (IF authIn = Off THEN Off ELSE authIn - 1)
        /\ idleFor' = (IF user THEN 0 ELSE idleFor + 1)
        /\ UNCHANGED <<socket, user>>
    BY <1>2 DEF Tick
  <2>2. authIn \in Int /\ idleFor \in Nat /\ (authIn # -1 => authIn >= 0)
    BY <1>0 DEF TimersOK
  <2> QED
    BY <2>1, <2>2 DEF HandshakeIsTimed
<1>3. ASSUME socket' # "open", authIn' = Off, UNCHANGED <<user, idleFor>>
      PROVE  HandshakeIsTimed'
  BY <1>3 DEF HandshakeIsTimed
<1>4. ASSUME socket' = "open" => socket = "open", UNCHANGED <<user, authIn, idleFor>>
      PROVE  HandshakeIsTimed'
  BY <1>4 DEF HandshakeIsTimed
<1>5. CASE AuthTimeout
  BY <1>0, <1>3, <1>5 DEF AuthTimeout, history, EndsOK
<1>6. CASE SocketCloses
  BY <1>3, <1>6 DEF SocketCloses, history
<1>7. CASE \E size \in Sizes : DocumentFrame(size)
  BY <1>4, <1>7 DEF DocumentFrame, history
<1>8. CASE Read \/ PongArrives \/ Vanish \/ Send \/ SendPresence \/ ServerCloses \/ Sweep
  BY <1>4, <1>8 DEF Read, PongArrives, Vanish, Send, SendPresence, ServerCloses, Sweep, connection, history
<1>9. CASE UNCHANGED vars
  BY <1>4, <1>9 DEF vars, connection, history
<1> QED
  BY <1>1, <1>2, <1>5, <1>6, <1>7, <1>8, <1>9 DEF Next

NoneLate(p) == \A i \in 1 .. Len(p) : p[i] # "late"

LEMMA NoneLateKept ==
  ASSUME NEW p \in Seq(Frames), NoneLate(p)
  PROVE  /\ \A f \in Frames \ {"late"} : NoneLate(Append(p, f))
         /\ p # <<>> => NoneLate(Tail(p))
<1>1. ASSUME NEW f \in Frames \ {"late"}
      PROVE  NoneLate(Append(p, f))
  BY DEF NoneLate
<1>2. ASSUME p # <<>>
      PROVE  NoneLate(Tail(p))
  <2>1. Len(p) \in Nat /\ Len(Tail(p)) = Len(p) - 1 /\ \A i \in 1 .. Len(Tail(p)) : Tail(p)[i] = p[i + 1]
    BY <1>2
  <2> QED
    BY <2>1 DEF NoneLate
<1> QED
  BY <1>1, <1>2

(* A frame is late only if one before it was skipped, and then none is sent. *)
NeverLate == skipped => ~IsOpen
LEMMA SkippedStep ==
  ASSUME LinkTypeOK, NeverLate, NoneLate(pipe), [Next]_vars
  PROVE  NeverLate' /\ NoneLate(pipe)'
<1>0. PipeOK /\ EndsOK
  BY TypeParts
<1> USE DEF IsOpen, Closed
<1>1. CASE Send
  <2>1. CASE socket = "open" /\ ~(Buffered > HARD)
    <3>1. ~skipped /\ pipe' = Append(pipe, "document") /\ skipped' = skipped /\ socket' = socket
      BY <1>1, <2>1 DEF Send, NeverLate
    <3> QED
      BY <1>0, <3>1, NoneLateKept DEF NeverLate, NoneLate, PipeOK, Frames
  <2>2. CASE ~(socket = "open" /\ ~(Buffered > HARD))
    <3>1. pipe' = pipe /\ socket' # "open"
      BY <1>1, <2>2 DEF Send
    <3> QED
      BY <3>1 DEF NeverLate, NoneLate
  <2> QED
    BY <2>1, <2>2
<1>2. ASSUME socket' = "open" => socket = "open", skipped' = skipped,
             \/ pipe' = pipe
             \/ pipe # <<>> /\ pipe' = Tail(pipe)
             \/ \E f \in Frames \ {"late"} : pipe' = Append(pipe, f)
      PROVE  NeverLate' /\ NoneLate(pipe)'
  <2>1. NeverLate'
    BY <1>2 DEF NeverLate
  <2>2. NoneLate(pipe')
    BY <1>0, <1>2, NoneLateKept DEF PipeOK
  <2> QED
    BY <2>1, <2>2 DEF NoneLate
<1>3. CASE Read \/ SendPresence \/ Sweep
  <2>1. /\ socket' = "open" => socket = "open"
        /\ skipped' = skipped
        /\ \/ pipe' = pipe
           \/ pipe # <<>> /\ pipe' = Tail(pipe)
           \/ \E f \in Frames \ {"late"} : pipe' = Append(pipe, f)
    BY <1>3 DEF Read, SendPresence, Sweep, Frames, connection, history
  <2> QED
    BY <1>2, <2>1
<1>4. CASE \/ \E valid \in BOOLEAN : Authenticate(valid)
           \/ \E size \in Sizes : DocumentFrame(size)
           \/ PongArrives \/ Vanish \/ SocketCloses \/ ServerCloses \/ AuthTimeout \/ Tick
           \/ UNCHANGED vars
  <2>1. (socket' = "open" => socket = "open") /\ skipped' = skipped /\ pipe' = pipe
    BY <1>4 DEF Authenticate, DocumentFrame, PongArrives, Vanish, SocketCloses, ServerCloses, AuthTimeout, Tick,
                connection, history, vars
  <2> QED
    BY <1>2, <2>1
<1> QED
  BY <1>1, <1>3, <1>4 DEF Next

(* Where pings are after a frame more, or one less. *)
LEMMA PingsAppend ==
  ASSUME pipe \in Seq(Frames), NEW f \in Frames, pipe' = Append(pipe, f)
  PROVE  /\ Len(pipe') = Len(pipe) + 1
         /\ Pings' = IF f = "ping" THEN Pings \cup {Len(pipe) + 1} ELSE Pings
<1>1. Len(pipe) \in Nat /\ Len(pipe') = Len(pipe) + 1
  OBVIOUS
<1>2. pipe'[Len(pipe) + 1] = f /\ \A k \in 1 .. Len(pipe) : pipe'[k] = pipe[k]
  OBVIOUS
<1> QED
  BY <1>1, <1>2 DEF Pings

LEMMA PingsTail ==
  ASSUME pipe \in Seq(Frames), pipe # <<>>, pipe' = Tail(pipe)
  PROVE  /\ Len(pipe') = Len(pipe) - 1
         /\ Head(pipe) = "ping" <=> 1 \in Pings
         /\ Pings' = {k - 1 : k \in Pings \ {1}}
<1>1. Len(pipe) \in Nat /\ Len(pipe) >= 1 /\ Len(pipe') = Len(pipe) - 1 /\ Head(pipe) = pipe[1]
  OBVIOUS
<1>2. \A k \in 1 .. Len(pipe') : pipe'[k] = pipe[k + 1]
  OBVIOUS
<1>3. ASSUME NEW k \in Pings'
      PROVE  k + 1 \in Pings \ {1} /\ k = (k + 1) - 1
  BY <1>1, <1>2 DEF Pings
<1>4. ASSUME NEW k \in Pings \ {1}
      PROVE  k - 1 \in Pings'
  BY <1>1, <1>2 DEF Pings
<1>5. Head(pipe) = "ping" <=> 1 \in Pings
  BY <1>1 DEF Pings
<1> QED
  BY <1>1, <1>3, <1>4, <1>5

(* What is buffered, while there is at most one ping. *)
OnePing == \E k : Pings = {k}

LEMMA BufferedLen ==
  /\ PipeOK =>
       /\ Pings = {} => Buffered = Len(pipe)
       /\ OnePing => Buffered = Len(pipe) - 1
       /\ Len(pipe) \in Nat /\ \A k \in Pings : k \in Nat /\ 1 <= k
  /\ PipeOK' =>
       /\ Pings' = {} => Buffered' = Len(pipe')
       /\ OnePing' => Buffered' = Len(pipe') - 1
       /\ Len(pipe') \in Nat
<1>1. /\ PipeOK => Len(pipe) \in Nat /\ \A k \in Pings : k \in Nat /\ 1 <= k
      /\ PipeOK' => Len(pipe') \in Nat
  BY DEF PipeOK, Pings
<1>2. Cardinality({}) = 0 /\ \A k : Cardinality({k}) = 1
  BY FS_EmptySet, FS_Singleton
<1>3. /\ Pings = {} => Cardinality(Pings) = 0
      /\ Pings' = {} => Cardinality(Pings') = 0
      /\ OnePing => Cardinality(Pings) = 1
      /\ OnePing' => Cardinality(Pings') = 1
  BY <1>2 DEF OnePing
<1>4. Buffered = Len(pipe) - Cardinality(Pings) /\ Buffered' = Len(pipe') - Cardinality(Pings')
  BY DEF Buffered
<1> QED
  BY <1>1, <1>3, <1>4

----------------------------------------------------------------------------
LEMMA LinkInit == Init => LinkInv
<1> SUFFICES ASSUME Init PROVE LinkInv
  OBVIOUS
<1> USE Limits
<1>1. LinkTypeOK
  <2>1. EndsOK
    BY DEF Init, EndsOK
  <2>2. TimersOK
    BY DEF Init, TimersOK
  <2>3. PipeOK
    BY DEF Init, PipeOK
  <2>4. BucketOK
    BY DEF Init, BucketOK
  <2> QED
    BY <2>1, <2>2, <2>3, <2>4, TypeParts
<1>2. BucketIsTightest
  <2>1. updatedAt = 0 /\ tokens = CAP /\ Spent = 0 /\ \A s \in 0 .. MaxTime + 1 : before[s] = 0
    BY DEF Init, Spent
  <2>2. RATE * (0 - 0) = 0
    OBVIOUS
  <2>3. Window(0) = CAP
    BY <2>1, <2>2 DEF Window
  <2>4. 0 \in 0 .. updatedAt
    BY <2>1
  <2>5. \E s \in 0 .. updatedAt : tokens = Window(s)
    BY <2>1, <2>3, <2>4
  <2>6. ASSUME NEW s \in 0 .. MaxTime + 1
        PROVE  /\ before[s] <= Spent
               /\ s <= updatedAt => tokens <= Window(s)
               /\ s > updatedAt => before[s] = Spent
    BY <2>1, <2>3
  <2> QED
    BY <2>5, <2>6 DEF BucketIsTightest
<1>3. SweepsToCome /\ HandshakeIsTimed
  BY DEF Init, SweepsToCome, HandshakeIsTimed, MaxSilence, Off
<1>4. NothingSkipped
  BY DEF Init, NothingSkipped
<1>5. ReaderHasTime /\ ReaderIsKept
  <2>1. Pings = {}
    BY DEF Init, Pings
  <2>2. Buffered = 0
    BY <1>1, <2>1, TypeParts, BufferedLen DEF Init
  <2> QED
    BY <2>1, <2>2, LinkAssumption DEF Init, ReaderHasTime, ReaderIsKept
<1> QED
  BY <1>1, <1>2, <1>3, <1>4, <1>5 DEF LinkInv

(* A reader still has the time it needs after every step, so no sweep finds one
   that has not answered. *)
LEMMA ReaderStep ==
  ASSUME LinkTypeOK, ReaderHasTime, ReaderIsKept, [Next]_vars
  PROVE  ReaderHasTime' /\ ReaderIsKept'
<1>0. PipeOK /\ EndsOK /\ TimersOK /\ PipeOK' /\ EndsOK' /\ TimersOK'
  BY TypeParts, TypeStep
<1>1. /\ HARD \in Nat /\ SOFT \in Nat /\ LATENCY \in Nat /\ INTERVAL \in Nat
      /\ \A limit \in {SOFT, HARD} : limit + 2 + LATENCY < INTERVAL
  BY LinkAssumption
<1>2. sweepIn \in Nat /\ \A p \in pongs : p \in Nat /\ p <= LATENCY
  BY <1>0, <1>1 DEF TimersOK
<1> DEFINE slack == IF read THEN 1 ELSE 0
(* A frame is added that is no ping. *)
<1>3. CASE Send \/ SendPresence
  <2>1. CASE UNCHANGED pipe
    <3>1. /\ socket' = "open" => socket = "open"
          /\ UNCHANGED <<alive, sweepIn, peer, read, pongs, cut>>
      BY <1>3, <2>1 DEF Send, SendPresence, heartbeat, remote, connection, history, Closed, IsOpen
    <3>2. Pings' = Pings /\ Buffered' = Buffered
      BY <2>1 DEF Pings, Buffered
    <3> QED
      BY <3>1, <3>2 DEF ReaderHasTime, ReaderIsKept, IsOpen
  <2>2. CASE ~UNCHANGED pipe
    <3>1. IsOpen /\ UNCHANGED <<socket, alive, sweepIn, peer, read, pongs, cut>>
      BY <1>3, <2>2 DEF Send, SendPresence, heartbeat, remote, connection, history
    <3>2. Pings = {} \/ OnePing
      BY <1>0, <3>1 DEF ReaderHasTime, EndsOK, OnePing
    <3>3. Buffered \in Int
      BY <1>0, <3>2, BufferedLen
    <3>4. PICK f \in Frames \ {"ping"}, limit \in {SOFT, HARD} :
              pipe' = Append(pipe, f) /\ Buffered <= limit
      BY <1>1, <1>3, <2>2, <3>3 DEF Send, SendPresence, Frames
    <3>5. Pings' = Pings /\ Buffered' = Buffered + 1
      <4>1. Pings' = Pings /\ Len(pipe') = Len(pipe) + 1
        BY <1>0, <3>4, PingsAppend DEF PipeOK
      <4>2. OnePing => OnePing'
        BY <4>1 DEF OnePing
      <4> QED
        BY <1>0, <3>2, <4>1, <4>2, BufferedLen
    <3>6. Buffered' <= limit + 1
      BY <1>1, <3>3, <3>4, <3>5
    <3> QED
      BY <3>1, <3>5, <3>6 DEF ReaderHasTime, ReaderIsKept, IsOpen
  <2> QED
    BY <2>1, <2>2
(* The next ping is queued, or the socket was not open or its peer silent. *)
<1>4. CASE Sweep
  <2>1. CASE alive /\ IsOpen
    <3>1. /\ alive' = FALSE /\ sweepIn' = INTERVAL /\ pipe' = Append(pipe, "ping")
          /\ UNCHANGED <<socket, peer, read, pongs, cut>>
      BY <1>4, <2>1 DEF Sweep, remote
    <3>2. Pings = {} /\ pongs = {}
      BY <2>1 DEF ReaderHasTime
    <3>3. Pings' = {Len(pipe) + 1} /\ Len(pipe') = Len(pipe) + 1
      BY <1>0, <3>1, <3>2, PingsAppend DEF PipeOK, Frames
    <3>4. Buffered = Len(pipe) /\ Buffered' = Len(pipe) /\ Len(pipe) \in Nat
      <4>1. OnePing'
        BY <3>3 DEF OnePing
      <4> QED
        BY <1>0, <3>2, <3>3, <4>1, BufferedLen
    <3>5. PICK limit \in {SOFT, HARD} : Buffered <= limit + 1
      BY <2>1 DEF ReaderHasTime
    <3>6. Len(pipe) + 1 + LATENCY < INTERVAL
      BY <1>1, <3>4, <3>5
    <3>7. \A k \in Pings' : k - 1 + (IF read' THEN 1 ELSE 0) + LATENCY < sweepIn'
      BY <1>1, <3>1, <3>3, <3>4, <3>6
    <3> QED
      BY <3>1, <3>2, <3>3, <3>4, <3>5, <3>7 DEF ReaderHasTime, ReaderIsKept
  <2>2. CASE alive /\ ~IsOpen
    <3>1. UNCHANGED <<socket, peer, cut>>
      BY <1>4, <2>2 DEF Sweep, remote
    <3> QED
      BY <2>2, <3>1 DEF ReaderHasTime, ReaderIsKept, IsOpen
  <2>3. CASE ~alive
    <3>1. socket' = "closed" /\ cut' = IsOpen /\ sweepIn = 0 /\ UNCHANGED peer
      BY <1>4, <2>3 DEF Sweep, remote
    <3>2. IsOpen => peer = "silent"
      <4> SUFFICES ASSUME IsOpen, peer = "reading" PROVE FALSE
        BY <1>0 DEF EndsOK
      <4>1. (\A k \in Pings : k - 1 + slack + LATENCY < 0) /\ (\A p \in pongs : p < 0)
        BY <3>1 DEF ReaderHasTime
      <4>2. Pings = {} /\ pongs = {}
        BY <1>0, <1>1, <1>2, <4>1, BufferedLen
      <4> QED
        BY <2>3, <4>2 DEF ReaderHasTime
    <3> QED
      BY <3>1, <3>2 DEF ReaderHasTime, ReaderIsKept, IsOpen
  <2> QED
    BY <2>1, <2>2, <2>3
(* The peer takes the next frame: the ping moves up, or becomes a pong. *)
<1>5. CASE Read
  <2>1. /\ pipe # <<>> /\ pipe' = Tail(pipe) /\ read' = TRUE /\ peer = "reading"
        /\ pongs' = IF Head(pipe) = "ping" THEN pongs \cup {LATENCY} ELSE pongs
        /\ UNCHANGED <<socket, alive, sweepIn, peer, cut>>
    BY <1>5 DEF Read, connection, heartbeat, history
  <2>2. /\ Len(pipe') = Len(pipe) - 1 /\ Len(pipe) \in Nat
        /\ Head(pipe) = "ping" <=> 1 \in Pings
        /\ Pings' = {k - 1 : k \in Pings \ {1}}
        /\ \A k \in Pings : k \in Nat /\ 1 <= k
    BY <1>0, <2>1, PingsTail, BufferedLen DEF PipeOK
  <2>3. CASE ~IsOpen
    BY <2>1, <2>3 DEF ReaderHasTime, ReaderIsKept, IsOpen
  <2>4. CASE IsOpen /\ Pings = {}
    <3>1. Pings' = {} /\ pongs' = pongs
      BY <2>1, <2>2, <2>4
    <3>2. Buffered' = Buffered - 1 /\ Buffered \in Int
      BY <1>0, <2>2, <2>4, <3>1, BufferedLen
    <3> QED
      BY <1>1, <2>1, <2>4, <3>1, <3>2 DEF ReaderHasTime, ReaderIsKept, IsOpen
  <2>5. CASE IsOpen /\ Pings # {}
    <3>1. ~alive /\ pongs = {}
      BY <1>0, <2>5 DEF ReaderHasTime, EndsOK
    <3>2. PICK k \in Pings : Pings = {k}
      BY <2>5, <3>1 DEF ReaderHasTime
    <3>3. k \in Nat /\ 1 <= k /\ k - 1 + slack + LATENCY < sweepIn
      BY <2>1, <2>2, <2>5, <3>2 DEF ReaderHasTime
    <3>4. PICK limit \in {SOFT, HARD} : Buffered <= limit + 1
      BY <2>5 DEF ReaderHasTime
    <3>5. CASE k = 1
      <4>1. Pings' = {} /\ pongs' = {LATENCY}
        BY <2>1, <2>2, <3>1, <3>2, <3>5
      <4>2. Buffered' = Buffered /\ LATENCY < sweepIn
        <5>1. Buffered = Len(pipe) - 1 /\ Buffered' = Len(pipe')
          BY <1>0, <3>2, <4>1, BufferedLen DEF OnePing
        <5> QED
          BY <1>1, <1>2, <2>2, <3>3, <3>5, <5>1
      <4> QED
        BY <2>1, <3>1, <3>4, <4>1, <4>2 DEF ReaderHasTime, ReaderIsKept, IsOpen
    <3>6. CASE k # 1
      <4>1. Pings' = {k - 1} /\ pongs' = {}
        BY <2>1, <2>2, <3>1, <3>2, <3>6
      <4>2. Buffered' <= limit + 1
        <5>1. Buffered = Len(pipe) - 1 /\ Buffered' = Len(pipe') - 1
          BY <1>0, <3>2, <4>1, BufferedLen DEF OnePing
        <5> QED
          BY <1>1, <2>2, <3>4, <5>1
      <4>3. (k - 1) - 1 + 1 + LATENCY < sweepIn
        BY <1>1, <1>2, <3>3
      <4> QED
        BY <2>1, <3>1, <4>1, <4>2, <4>3 DEF ReaderHasTime, ReaderIsKept, IsOpen
    <3> QED
      BY <3>5, <3>6
  <2> QED
    BY <2>3, <2>4, <2>5
<1>6. CASE PongArrives
  <2>1. PICK p \in pongs : pongs' = pongs \ {p}
    BY <1>6 DEF PongArrives
  <2>2. alive' = TRUE /\ UNCHANGED <<socket, pipe, sweepIn, peer, read, cut>>
    BY <1>6 DEF PongArrives, connection, history
  <2>3. Pings' = Pings /\ Buffered' = Buffered
    BY <2>2 DEF Pings, Buffered
  <2>4. IsOpen => Pings = {} /\ pongs' = {}
    BY <1>0, <2>1 DEF ReaderHasTime, EndsOK
  <2> QED
    BY <2>1, <2>2, <2>3, <2>4 DEF ReaderHasTime, ReaderIsKept, IsOpen
(* A tick takes one from the time left, and a reader has used it. *)
<1>7. CASE Tick
  <2>1. /\ sweepIn' = sweepIn - 1 /\ 0 \notin pongs /\ pongs' = {p - 1 : p \in pongs}
        /\ read' = FALSE /\ (peer = "reading" /\ pipe # <<>> => read)
        /\ UNCHANGED <<socket, pipe, alive, peer, cut>>
    BY <1>7 DEF Tick
  <2>2. Pings' = Pings /\ Buffered' = Buffered
    BY <2>1 DEF Pings, Buffered
  <2>3. ASSUME IsOpen, peer = "reading", NEW k \in Pings
        PROVE  k - 1 + 0 + LATENCY < sweepIn'
    <3>1. read /\ k \in Nat
      BY <1>0, <2>1, <2>3, BufferedLen DEF Pings
    <3>2. k - 1 + 1 + LATENCY < sweepIn
      BY <2>3, <3>1 DEF ReaderHasTime
    <3> QED
      BY <1>1, <1>2, <2>1, <3>1, <3>2
  <2>4. ASSUME IsOpen, peer = "reading", NEW p \in pongs'
        PROVE  p < sweepIn'
    <3>1. PICK r \in pongs : p = r - 1
      BY <2>1
    <3>2. r < sweepIn
      BY <2>4 DEF ReaderHasTime
    <3> QED
      BY <1>2, <2>1, <3>1, <3>2
  <2>5. /\ pongs = {} => pongs' = {}
        /\ \A p \in pongs : pongs = {p} => p - 1 \in pongs' /\ pongs' = {p - 1}
    BY <2>1
  <2> QED
    BY <2>1, <2>2, <2>3, <2>4, <2>5 DEF ReaderHasTime, ReaderIsKept, IsOpen
(* The rest leave the pipe, the heartbeat and the pongs alone. *)
<1>8. ASSUME socket' = "open" => socket = "open", peer' = peer \/ peer' = "silent",
             UNCHANGED <<pipe, alive, sweepIn, read, pongs, cut>>
      PROVE  ReaderHasTime' /\ ReaderIsKept'
  <2>1. Pings' = Pings /\ Buffered' = Buffered
    BY <1>8 DEF Pings, Buffered
  <2> QED
    BY <1>8, <2>1 DEF ReaderHasTime, ReaderIsKept, IsOpen
<1>9. CASE \/ \E valid \in BOOLEAN : Authenticate(valid)
           \/ \E size \in Sizes : DocumentFrame(size)
           \/ Vanish \/ SocketCloses \/ ServerCloses \/ AuthTimeout
           \/ UNCHANGED vars
  <2>1. /\ socket' = "open" => socket = "open"
        /\ peer' = peer \/ peer' = "silent"
        /\ UNCHANGED <<pipe, alive, sweepIn, read, pongs, cut>>
    BY <1>9 DEF Authenticate, DocumentFrame, Vanish, SocketCloses, ServerCloses, AuthTimeout,
                connection, heartbeat, remote, history, vars, Closed, IsOpen
  <2> QED
    BY <1>8, <2>1
<1> QED
  BY <1>3, <1>4, <1>5, <1>6, <1>7, <1>9 DEF Next

(* With that no late frame is in the pipe, before any frame was skipped or after. *)
Inv == LinkInv /\ NoneLate(pipe)

LEMMA LinkStep == Inv /\ [Next]_vars => Inv'
<1> SUFFICES ASSUME Inv, [Next]_vars PROVE Inv'
  OBVIOUS
<1>1. LinkTypeOK /\ NeverLate /\ NoneLate(pipe)
  BY DEF Inv, LinkInv, NothingSkipped, NeverLate
<1>2. NeverLate' /\ NoneLate(pipe)'
  BY <1>1, SkippedStep
<1>3. NothingSkipped'
  BY <1>2 DEF NeverLate, NoneLate, NothingSkipped
<1>4. LinkTypeOK'
  BY <1>1, TypeStep
<1>5. BucketIsTightest'
  BY BucketStep DEF Inv, LinkInv
<1>6. SweepsToCome' /\ HandshakeIsTimed'
  BY SweepsStep, HandshakeStep DEF Inv, LinkInv
<1>7. ReaderHasTime' /\ ReaderIsKept'
  BY ReaderStep DEF Inv, LinkInv
<1> QED
  BY <1>2, <1>3, <1>4, <1>5, <1>6, <1>7 DEF Inv, LinkInv

(* The inductive invariant: budget, heartbeat, handshake timer and pipe of one
   connection (rate-limit.ts, heartbeat.ts, connection.ts, client.ts). *)
THEOREM LinkInvariant == Spec => []LinkInv
<1>1. Init => Inv
  BY LinkInit DEF Init, Inv, NoneLate
<1>2. Inv => LinkInv
  BY DEF Inv
<1> QED
  BY <1>1, <1>2, LinkStep, PTL DEF Spec

(* The rate limit lets a frame through exactly when every window that ends with
   it stays within the burst and the rate (rate-limit.ts). *)
THEOREM BudgetIsExact == Spec => []TakeIsExact
<1>1. LinkInv => TakeIsExact
  BY TightestIsExact, CostType DEF LinkInv, TakeIsExact, Costs
<1> QED
  BY <1>1, LinkInvariant, PTL

(* A vanished peer and a socket without a token are given up in time
   (heartbeat.ts, connection.ts). *)
THEOREM LingerersGo == Spec => []NobodyLingers
<1>1. LinkInv => NobodyLingers
  <2> SUFFICES ASSUME LinkInv PROVE NobodyLingers
    OBVIOUS
  <2>1. authIn \in Int /\ idleFor \in Nat /\ user \in BOOLEAN /\ (authIn # -1 => authIn >= 0)
    BY TypeParts, Limits DEF LinkInv, TimersOK, EndsOK, Off
  <2> QED
    BY <2>1, Limits DEF LinkInv, SweepsToCome, HandshakeIsTimed, NobodyLingers, Off
<1> QED
  BY <1>1, LinkInvariant, PTL

(* No sweep terminates a socket whose peer reads and answers, whatever the limits
   on what is buffered in front of the ping (heartbeat.ts, client.ts). *)
THEOREM ReadersAreKept == Spec => []ReaderIsKept
<1>1. LinkInv => ReaderIsKept
  BY DEF LinkInv
<1> QED
  BY <1>1, LinkInvariant, PTL

(* No document frame follows one that was not sent (client.ts). *)
THEOREM NoGapInFrames == Spec => []NothingSkipped
<1>1. LinkInv => NothingSkipped
  BY DEF LinkInv
<1> QED
  BY <1>1, LinkInvariant, PTL

=============================================================================
