---------------------------- MODULE PlatformProofs ----------------------------
(* Proofs about the parts beside the matches.  Rooms stay whole and every    *)
(* broadcast reaches who is connected, for any number of viewers and changes. *)
(* The rate limiter's lazily emptied deques implement the sliding window.  A *)
(* call to Zoho carries a lapsed token only if more than the skew went by on *)
(* the wire, for any number of mails and calls that last any time.  However  *)
(* many instances boot, crash and boot again, of whatever releases: they     *)
(* implement the atomic history of the schema, and agree about it.           *)
EXTENDS LiveRoom, RateLimiter, Mailer, Migrator, Induction, SequenceTheorems

-------------------------------------------------------------------------------
(* The live feed *)

\* Without repetitions, removing the first occurrence removes the socket.
LEMMA Disconnected ==
  ASSUME NEW q \in Seq(Sockets), IsInjective(q), NEW s
  PROVE  /\ disconnect(q, s) \in Seq(Sockets)
         /\ IsInjective(disconnect(q, s))
         /\ \A x : Contains(disconnect(q, s), x) <=> Contains(q, x) /\ x # s
<1> DEFINE places == {i \in 1..Len(q) : q[i] = s}
           at == Min(places)
           rest == SubSeq(q, 1, at - 1) \o SubSeq(q, at + 1, Len(q))
<1>1. CASE places = {}
  <2>1. disconnect(q, s) = q
    BY <1>1 DEF disconnect, RemoveFirst
  <2> QED BY <1>1, <2>1 DEF Contains
<1>2. CASE places # {}
  <2>1. disconnect(q, s) = rest
    BY <1>2 DEF disconnect, RemoveFirst, RemoveAt, SelectInSeq
  <2>2. PICK i \in 1..Len(q) : q[i] = s /\ places = {i}
    BY <1>2 DEF IsInjective
  <2>3. at = i
    BY <2>2 DEF Min
  <2> DEFINE n == Len(q)
  <2>4. n \in Nat /\ i \in 1..n /\ DOMAIN q = 1..n /\ \A j \in 1..n : q[j] \in Sockets
    OBVIOUS
  <2> DEFINE before == SubSeq(q, 1, i - 1)
             after == SubSeq(q, i + 1, n)
  <2> HIDE DEF n
  <2>5. /\ before \in Seq(Sockets) /\ Len(before) = i - 1
        /\ \A j \in 1..(i - 1) : before[j] = q[j]
    <3>1. 1 \in Int /\ i - 1 \in Int /\ \A j \in 1..(i - 1) : q[j] \in Sockets
      BY <2>4
    <3> QED BY <2>4, <3>1, SubSeqProperties
  <2>6. /\ after \in Seq(Sockets) /\ Len(after) = n - i
        /\ \A j \in 1..(n - i) : after[j] = q[i + j]
    <3>1. i + 1 \in Int /\ n \in Int /\ \A j \in (i + 1)..n : q[j] \in Sockets
      BY <2>4
    <3>2. /\ after \in Seq(Sockets)
          /\ Len(after) = IF i + 1 <= n THEN n - (i + 1) + 1 ELSE 0
          /\ \A j \in 1..(n - (i + 1) + 1) : after[j] = q[(i + 1) + j - 1]
      BY <3>1, SubSeqProperties
    <3> HIDE DEF after
    <3>3. \A j \in 1..(n - i) : (i + 1) + j - 1 = i + j
      BY <2>4
    <3> QED BY <2>4, <3>2, <3>3
  <2> HIDE DEF before, after
  <2>7. /\ before \o after \in Seq(Sockets) /\ Len(before \o after) = n - 1
        /\ \A j \in 1..(n - 1) : (before \o after)[j] = IF j < i THEN q[j] ELSE q[j + 1]
    <3>1. /\ before \o after \in Seq(Sockets)
          /\ Len(before \o after) = (i - 1) + (n - i)
          /\ \A j \in 1..((i - 1) + (n - i)) : (before \o after)[j] =
               IF j <= i - 1 THEN before[j] ELSE after[j - (i - 1)]
      <4>1. /\ before \o after \in Seq(Sockets)
            /\ Len(before \o after) = Len(before) + Len(after)
            /\ \A j \in 1..(Len(before) + Len(after)) : (before \o after)[j] =
                 IF j <= Len(before) THEN before[j] ELSE after[j - Len(before)]
        BY <2>5, <2>6, ConcatProperties
      <4> QED BY <2>5, <2>6, <4>1
    <3>2. ASSUME NEW j \in 1..(n - 1)
          PROVE  (before \o after)[j] = IF j < i THEN q[j] ELSE q[j + 1]
      <4>1. CASE j < i
        BY <2>4, <2>5, <3>1, <4>1
      <4>2. CASE ~(j < i)
        <5>1. /\ j \in 1..((i - 1) + (n - i)) /\ ~(j <= i - 1)
              /\ j - (i - 1) \in 1..(n - i) /\ i + (j - (i - 1)) = j + 1
          BY <2>4, <4>2
        <5> QED BY <2>6, <3>1, <4>2, <5>1
      <4> QED BY <4>1, <4>2
    <3> QED BY <2>4, <3>1, <3>2
  <2>8. rest = before \o after
    BY <2>3 DEF before, after, n
  <2> HIDE DEF rest, places, at
  <2>9. rest \in Seq(Sockets) /\ DOMAIN rest = 1..(n - 1) /\ Len(rest) = n - 1
    BY <2>4, <2>7, <2>8
  <2>10. \A j \in 1..(n - 1) : rest[j] = IF j < i THEN q[j] ELSE q[j + 1]
    BY <2>7, <2>8
  <2>11. \A j, k \in 1..n : q[j] = q[k] => j = k
    BY <2>4 DEF IsInjective
  <2>12. IsInjective(rest)
    <3>1. ASSUME NEW j \in 1..(n - 1), NEW k \in 1..(n - 1), rest[j] = rest[k]
          PROVE  j = k
      <4> DEFINE From(m) == IF m < i THEN m ELSE m + 1
      <4>1. From(j) \in 1..n /\ From(k) \in 1..n
        BY <2>4
      <4>2. q[From(j)] = rest[j] /\ q[From(k)] = rest[k]
        BY <2>10
      <4>3. From(j) = From(k)
        BY <2>11, <3>1, <4>1, <4>2
      <4> QED BY <2>4, <4>3
    <3> QED BY <2>9, <3>1 DEF IsInjective
  <2>13. ASSUME NEW x PROVE Contains(rest, x) <=> Contains(q, x) /\ x # s
    <3>1. ASSUME NEW j \in 1..(n - 1), rest[j] = x PROVE Contains(q, x) /\ x # s
      BY <2>2, <2>4, <2>10, <2>11, <3>1 DEF Contains, n
    <3>2. ASSUME NEW j \in 1..n, q[j] = x, x # s PROVE Contains(rest, x)
      <4>1. CASE j < i
        BY <2>4, <2>9, <2>10, <3>2, <4>1 DEF Contains
      <4>2. CASE j > i
        <5>1. j - 1 \in 1..(n - 1) /\ ~(j - 1 < i) /\ (j - 1) + 1 = j
          BY <2>4, <4>2
        <5> QED BY <2>9, <2>10, <3>2, <5>1 DEF Contains
      <4> QED BY <2>2, <2>4, <3>2, <4>1, <4>2
    <3> QED BY <2>9, <3>1, <3>2 DEF Contains, n
  <2> QED BY <2>1, <2>9, <2>12, <2>13
<1> QED BY <1>1, <1>2

-------------------------------------------------------------------------------
\* What broadcast's last loop leaves after it took the sets s of positions of the
\* dead: the recursive function of FoldLeft, on the subsets of D.
Loop(f, q, dead, D) ==
  f = [s \in SUBSET D |->
         IF s = {} THEN q ELSE disconnect(f[s \ {Max(s)}], dead[Max(s)])]

LEMMA MaxOfPositions ==
  ASSUME NEW n \in Nat, NEW s \in SUBSET (1..n), s # {}
  PROVE  Max(s) \in s /\ \A i \in s : i <= Max(s)
<1>1. PICK m \in s : \A i \in s : i <= m
  BY GreatestBelow
<1>2. \A i \in s : m >= i
  BY <1>1
<1>3. Max(s) \in s /\ \A i \in s : Max(s) >= i
  BY <1>1, <1>2 DEF Max
<1> QED BY <1>3

LEMMA LessTheLast ==
  ASSUME NEW n \in Nat, NEW s \in SUBSET (1..(n + 1)), s # {}
  PROVE  s \ {Max(s)} \in SUBSET (1..n)
<1> DEFINE m == Max(s)
<1>1. n + 1 \in Nat
  OBVIOUS
<1>2. m \in s /\ \A i \in s : i <= m
  BY <1>1, MaxOfPositions
<1> HIDE DEF m
<1>3. ASSUME NEW i \in s, i # m PROVE i \in 1..n
  <2>1. i \in 1..(n + 1) /\ m \in 1..(n + 1)
    BY <1>2
  <2> QED BY <1>2, <1>3, <2>1
<1> QED BY <1>3 DEF m

LEMMA LoopsExist ==
  ASSUME NEW q, NEW dead
  PROVE  \A n \in Nat : \E f : Loop(f, q, dead, 1..n)
<1> DEFINE T == {n \in Nat : \E f : Loop(f, q, dead, 1..n)}
<1>1. 0 \in T
  <2> DEFINE f == [s \in SUBSET (1..0) |-> q]
  <2>1. \A s \in SUBSET (1..0) : s = {}
    OBVIOUS
  <2>2. Loop(f, q, dead, 1..0)
    BY <2>1 DEF Loop
  <2> QED BY <2>2
<1>2. ASSUME NEW n \in Nat, n \in T PROVE n + 1 \in T
  <2>1. PICK f : Loop(f, q, dead, 1..n)
    BY <1>2
  <2> DEFINE g == [s \in SUBSET (1..(n + 1)) |->
                     IF s = {} THEN q ELSE disconnect(f[s \ {Max(s)}], dead[Max(s)])]
  <2>2. \A s \in SUBSET (1..n) : g[s] = f[s]
    <3>1. SUBSET (1..n) \subseteq SUBSET (1..(n + 1))
      OBVIOUS
    <3> QED BY <2>1, <3>1 DEF Loop
  <2>3. \A s \in SUBSET (1..(n + 1)) : s # {} => s \ {Max(s)} \in SUBSET (1..n)
    BY LessTheLast
  <2>4. \A s \in SUBSET (1..(n + 1)) :
          g[s] = IF s = {} THEN q ELSE disconnect(g[s \ {Max(s)}], dead[Max(s)])
    BY <2>2, <2>3
  <2>5. Loop(g, q, dead, 1..(n + 1))
    <3>1. g = [s \in SUBSET (1..(n + 1)) |-> g[s]]
      OBVIOUS
    <3> HIDE DEF g
    <3> QED BY <2>4, <3>1 DEF Loop
  <2> QED BY <2>5
<1> HIDE DEF T
<1>3. Nat \subseteq T
  BY <1>1, <1>2, AllNaturals
<1> QED BY <1>3 DEF T

\* After its loop over the dead, broadcast leaves in the room who was there and
\* is not among them.
LEMMA DisconnectedAll ==
  ASSUME NEW q \in Seq(Sockets), IsInjective(q), NEW dead \in Seq(Sockets)
  PROVE  LET after == FoldLeft(disconnect, q, dead)
         IN  /\ after \in Seq(Sockets) /\ IsInjective(after)
             /\ \A x : Contains(after, x) <=> Contains(q, x) /\ ~Contains(dead, x)
<1> DEFINE n == Len(dead)
           F == CHOOSE f : Loop(f, q, dead, DOMAIN dead)
<1>1. FoldLeft(disconnect, q, dead) = F[DOMAIN dead]
  BY DEF FoldLeft, MapThenFoldSet, Loop
<1>2. n \in Nat /\ DOMAIN dead = 1..n /\ \A i \in 1..n : dead[i] \in Sockets
  OBVIOUS
<1> HIDE DEF n
<1>3. Loop(F, q, dead, 1..n)
  BY <1>2, LoopsExist
<1> HIDE DEF F
<1>4. /\ F[{}] = q
      /\ \A s \in SUBSET (1..n) :
           s # {} => F[s] = disconnect(F[s \ {Max(s)}], dead[Max(s)])
  BY <1>3 DEF Loop
<1> DEFINE Left(k) == F[1..k]
           Good(k) == /\ Left(k) \in Seq(Sockets) /\ IsInjective(Left(k))
                      /\ \A x : Contains(Left(k), x) <=>
                                  Contains(q, x) /\ \A i \in 1..k : dead[i] # x
           T == {k \in Nat : k <= n => Good(k)}
<1>5. 0 \in T
  <2>1. 1..0 = {}
    OBVIOUS
  <2> QED BY <1>4, <2>1
<1>6. ASSUME NEW k \in Nat, k \in T PROVE k + 1 \in T
  <2> SUFFICES ASSUME k + 1 <= n PROVE Good(k + 1)
    OBVIOUS
  <2>1. Good(k)
    BY <1>2, <1>6
  <2> HIDE DEF Good
  <2>2. 1..(k + 1) \in SUBSET (1..n) /\ 1..(k + 1) # {} /\ k + 1 \in 1..n
    <3>1. \A i \in 1..(k + 1) : i \in 1..n
      BY <1>2
    <3>2. k + 1 \in 1..(k + 1) /\ k + 1 \in 1..n
      BY <1>2
    <3> QED BY <3>1, <3>2
  <2>3. Max(1..(k + 1)) = k + 1
    <3>1. k + 1 \in Nat /\ k + 1 \in 1..(k + 1)
      OBVIOUS
    <3>2. Max(1..(k + 1)) \in 1..(k + 1) /\ \A i \in 1..(k + 1) : i <= Max(1..(k + 1))
      BY <2>2, <3>1, MaxOfPositions
    <3> QED BY <3>1, <3>2
  <2>4. (1..(k + 1)) \ {k + 1} = 1..k
    OBVIOUS
  <2>5. Left(k + 1) = disconnect(Left(k), dead[k + 1])
    BY <1>4, <2>2, <2>3, <2>4
  <2>6. /\ Left(k + 1) \in Seq(Sockets) /\ IsInjective(Left(k + 1))
        /\ \A x : Contains(Left(k + 1), x) <=> Contains(Left(k), x) /\ x # dead[k + 1]
    <3> DEFINE now == Left(k)
    <3>1. now \in Seq(Sockets) /\ IsInjective(now)
      BY <2>1 DEF Good
    <3> HIDE DEF now
    <3>2. LET next == disconnect(now, dead[k + 1])
          IN  /\ next \in Seq(Sockets) /\ IsInjective(next)
              /\ \A x : Contains(next, x) <=> Contains(now, x) /\ x # dead[k + 1]
      BY <3>1, Disconnected
    <3> QED BY <2>5, <3>2 DEF now
  <2>7. \A x : (\A i \in 1..(k + 1) : dead[i] # x) <=>
                 (\A i \in 1..k : dead[i] # x) /\ dead[k + 1] # x
    BY <2>4
  <2> QED BY <2>1, <2>6, <2>7 DEF Good
<1> HIDE DEF T
<1>7. n \in T
  BY <1>2, <1>5, <1>6, AllNaturals
<1>8. Good(n)
  BY <1>2, <1>7 DEF T
<1>9. \A x : Contains(dead, x) <=> \E i \in 1..n : dead[i] = x
  BY DEF Contains, n
<1>10. FoldLeft(disconnect, q, dead) = Left(n)
  BY <1>1, <1>2
<1> HIDE DEF Left
<1>11. /\ Left(n) \in Seq(Sockets) /\ IsInjective(Left(n))
       /\ \A x : Contains(Left(n), x) <=> Contains(q, x) /\ ~Contains(dead, x)
  BY <1>8, <1>9 DEF Good
<1> QED BY <1>10, <1>11

-------------------------------------------------------------------------------
Was(s, stages) == socket[s] \in stages

\* A room holds each of its sockets once: those that joined, still connected or
\* not, and have not left.
RoomWhole ==
  /\ IsInjective(room)
  /\ \A s \in Sockets : Contains(room, s) => Was(s, {"open", "closed"})
  /\ \A s \in Sockets : Was(s, {"open"}) => Contains(room, s)

\* A broadcast was for sockets that had joined, gives up those that are gone for
\* good, and has reached the others it has been to.
Reaching(h) ==
  LET b == handler[h]
  IN  b.stage = "sending" =>
        /\ b.next \in 1..(Len(b.to) + 1)
        /\ \A i \in 1..Len(b.to) : ~Was(b.to[i], {"new", "read"})
        /\ \A s \in Sockets : Contains(b.dead, s) => Was(s, {"closed", "over"})
        /\ \A i \in 1..(b.next - 1) :
             Was(b.to[i], {"open"}) =>
               Contains(inbox[b.to[i]], stamp_payload(b.version, b.server_time))

RoomInv ==
  /\ RoomTypeOK
  /\ RoomWhole
  /\ \A h \in Handlers : Reaching(h)

LEMMA RoomInitInv == RoomInit => RoomInv
BY DEF RoomInit, RoomInv, RoomTypeOK, RoomWhole, Reaching, NotSending, Handler, Versions,
       Was, Contains, IsInjective

\* What a broadcast relies on stays so while others come, go and are sent to.
LEMMA OthersReach ==
  ASSUME NEW h \in Handlers, RoomTypeOK, RoomTypeOK', Reaching(h), handler'[h] = handler[h],
         \A s \in Sockets :
           /\ ~Was(s, {"new", "read"}) => ~Was(s, {"new", "read"})'
           /\ Was(s, {"closed", "over"}) => Was(s, {"closed", "over"})'
           /\ \A m : Contains(inbox[s], m) => Contains(inbox'[s], m)
  PROVE  Reaching(h)'
<1> DEFINE b == handler[h]
<1>1. SUFFICES ASSUME b.stage = "sending" PROVE Reaching(h)'
  BY DEF Reaching
<1>2. b \in Handler
  BY DEF RoomTypeOK
<1>3. /\ b.to \in Seq(Sockets) /\ b.next \in 1..(Len(b.to) + 1)
      /\ \A i \in 1..Len(b.to) : b.to[i] \in Sockets
  BY <1>1, <1>2 DEF Reaching, Handler
<1>4. \A s \in Sockets : Was(s, {"open"})' /\ ~Was(s, {"new", "read"}) => Was(s, {"open"})
  BY DEF RoomTypeOK, Was
<1>5. \A i \in 1..(b.next - 1) : i \in 1..Len(b.to)
  BY <1>3
<1> QED BY <1>1, <1>3, <1>4, <1>5 DEF Reaching

\* A message that was sent stays in the inbox.
LEMMA SentStays ==
  ASSUME RoomTypeOK, NEW s \in Sockets, NEW message \in Message, Send(s, message)
  PROVE  /\ inbox' \in [Sockets -> Seq(Message)]
         /\ Contains(inbox'[s], message)
         /\ \A q \in Sockets : \A m : Contains(inbox[q], m) => Contains(inbox'[q], m)
<1>1. inbox \in [Sockets -> Seq(Message)]
  BY DEF RoomTypeOK
<1>2. inbox' \in [Sockets -> Seq(Message)]
  BY <1>1 DEF Send
<1>3. inbox'[s] = Append(inbox[s], message) /\ \A q \in Sockets \ {s} : inbox'[q] = inbox[q]
  BY <1>1 DEF Send
<1>4. /\ Len(inbox'[s]) = Len(inbox[s]) + 1 /\ inbox'[s][Len(inbox[s]) + 1] = message
      /\ \A i \in 1..Len(inbox[s]) : inbox'[s][i] = inbox[s][i]
      /\ Len(inbox[s]) \in Nat
  BY <1>1, <1>3
<1>5. Contains(inbox'[s], message)
  BY <1>4 DEF Contains
<1>6. ASSUME NEW m, Contains(inbox[s], m) PROVE Contains(inbox'[s], m)
  <2>1. PICK i \in 1..Len(inbox[s]) : inbox[s][i] = m
    BY <1>6 DEF Contains
  <2>2. i \in 1..Len(inbox'[s])
    BY <1>4
  <2> QED BY <1>4, <2>1, <2>2 DEF Contains
<1> QED BY <1>2, <1>3, <1>5, <1>6

\* The loop of a broadcast moves on, and nobody else's does.
LEMMA LoopMoves ==
  ASSUME RoomTypeOK, NEW h \in Handlers, NEW b \in Handler,
         handler' = [handler EXCEPT ![h] = b]
  PROVE  /\ handler' \in [Handlers -> Handler] /\ handler'[h] = b
         /\ \A g \in Handlers \ {h} : handler'[g] = handler[g]
BY DEF RoomTypeOK

LEMMA RoomKeptByCommit ==
  ASSUME RoomInv, NEW h \in Handlers, CommitChange(h)
  PROVE  RoomInv'
<1> USE DEF RoomInv
<1>1. RoomTypeOK'
  BY DEF CommitChange, RoomTypeOK, NotSending, Handler, Versions
<1>2. RoomWhole'
  BY DEF CommitChange, RoomWhole, Was
<1>3. ASSUME NEW g \in Handlers PROVE Reaching(g)'
  <2>1. CASE g = h
    BY <2>1 DEF CommitChange, Reaching, NotSending, RoomTypeOK
  <2>2. CASE g # h
    BY <1>1, <2>2, OthersReach DEF CommitChange, RoomTypeOK, Was
  <2> QED BY <2>1, <2>2
<1> QED BY <1>1, <1>2, <1>3

LEMMA RoomKeptByStart ==
  ASSUME RoomInv, NEW h \in Handlers, StartBroadcast(h)
  PROVE  RoomInv'
<1> USE DEF RoomInv
<1>1. RoomTypeOK'
  <2>1. handler[h] \in Handler /\ handler[h].left \in 1..2
    BY DEF RoomTypeOK, Handler, StartBroadcast, Due
  <2>2. CASE room = << >>
    <3> DEFINE b == [handler[h] EXCEPT !.left = @ - 1]
    <3>1. b \in Handler
      BY <2>1 DEF Handler
    <3>2. handler' = [handler EXCEPT ![h] = b]
      BY <2>2 DEF StartBroadcast, RoomTypeOK
    <3> HIDE DEF b
    <3> QED BY <2>2, <3>1, <3>2, LoopMoves DEF StartBroadcast, RoomTypeOK
  <2>3. CASE room # << >>
    <3> DEFINE b == [handler[h] EXCEPT !.stage = "sending", !.left = @ - 1, !.to = room,
                                       !.next = 1, !.dead = << >>, !.server_time = clock']
    <3>1. clock' \in Nat /\ room \in Seq(Sockets) /\ << >> \in Seq(Sockets)
      BY <2>3 DEF StartBroadcast, RoomTypeOK
    <3> DEFINE earlier == handler[h]
               copied == room
               time == clock'
    <3>2. b \in Handler
      <4>1. earlier \in Handler /\ earlier.left - 1 \in 0..2
        BY <2>1 DEF Handler
      <4>2. copied \in Seq(Sockets) /\ time \in Nat /\ << >> \in Seq(Sockets)
        BY <3>1
      <4> HIDE DEF earlier, copied, time
      <4>3. [earlier EXCEPT !.stage = "sending", !.left = @ - 1, !.to = copied, !.next = 1,
                            !.dead = << >>, !.server_time = time] \in Handler
        BY <4>1, <4>2 DEF Handler
      <4> QED BY <4>3 DEF earlier, copied, time
    <3>3. handler' = [handler EXCEPT ![h] = b]
      BY <2>3 DEF StartBroadcast, RoomTypeOK
    <3> HIDE DEF b
    <3> QED BY <3>1, <3>2, <3>3, LoopMoves DEF StartBroadcast, RoomTypeOK
  <2> QED BY <2>2, <2>3
<1>2. RoomWhole'
  BY DEF StartBroadcast, RoomWhole, Was
<1>3. ASSUME NEW g \in Handlers PROVE Reaching(g)'
  <2>1. CASE g = h
    <3>1. CASE room = << >>
      BY <2>1, <3>1, ZenonT(30) DEF StartBroadcast, Due, Reaching, RoomTypeOK, Handler
    <3>2. CASE room # << >>
      <4>1. /\ socket' = socket /\ Len(room) \in Nat
            /\ \A i \in 1..Len(room) : room[i] \in Sockets
        BY DEF StartBroadcast, RoomTypeOK
      <4>2. handler'[h].next = 1 /\ handler'[h].to = room /\ handler'[h].dead = << >>
        BY <3>2 DEF StartBroadcast, RoomTypeOK, Handler
      <4>3. \A i \in 1..Len(room) : ~Was(room[i], {"new", "read"})
        BY <4>1 DEF RoomWhole, Was, Contains
      <4> QED BY <2>1, <4>1, <4>2, <4>3 DEF Reaching, Was, Contains
    <3> QED BY <3>1, <3>2
  <2>2. CASE g # h
    BY <1>1, <2>2, OthersReach DEF StartBroadcast, RoomTypeOK, Was
  <2> QED BY <2>1, <2>2
<1> QED BY <1>1, <1>2, <1>3

LEMMA RoomKeptBySend ==
  ASSUME RoomInv, NEW h \in Handlers, SendNext(h)
  PROVE  RoomInv'
<1> DEFINE b == handler[h]
           s == b.to[b.next]
           message == stamp_payload(b.version, b.server_time)
<1>1. /\ RoomTypeOK /\ Reaching(h) /\ b \in Handler /\ b.stage = "sending"
      /\ b.next \in 1..Len(b.to) /\ s \in Sockets /\ message \in Message
      /\ \A i \in 1..Len(b.to) : b.to[i] \in Sockets
  <2>1. /\ RoomTypeOK /\ Reaching(h) /\ b \in Handler /\ b.stage = "sending"
        /\ b.next \in 1..(Len(b.to) + 1) /\ b.next <= Len(b.to)
    BY DEF RoomInv, RoomTypeOK, Reaching, SendNext
  <2>2. b.to \in Seq(Sockets) /\ b.version \in Versions /\ b.server_time \in Nat
    BY <2>1 DEF Handler
  <2>3. b.next \in 1..Len(b.to) /\ \A i \in 1..Len(b.to) : b.to[i] \in Sockets
    BY <2>1, <2>2
  <2> QED BY <2>1, <2>2, <2>3 DEF stamp_payload, Message
<1>2. \/ /\ socket[s] = "open" /\ Send(s, message)
         /\ handler' = [handler EXCEPT ![h].next = @ + 1]
      \/ /\ socket[s] # "open" /\ UNCHANGED inbox
         /\ handler' = [handler EXCEPT ![h].next = b.next + 1, ![h].dead = Append(@, s)]
  BY DEF SendNext, AfterFailure
<1>3. /\ inbox' \in [Sockets -> Seq(Message)]
      /\ \A q \in Sockets : \A m : Contains(inbox[q], m) => Contains(inbox'[q], m)
  BY <1>1, <1>2, SentStays DEF RoomTypeOK
<1>4. UNCHANGED <<version, clock, room, socket, seen>>
  BY DEF SendNext
<1>5. /\ handler' \in [Handlers -> Handler]
      /\ \A g \in Handlers \ {h} : handler'[g] = handler[g]
      /\ handler'[h].stage = "sending" /\ handler'[h].next = b.next + 1
      /\ handler'[h].to = b.to /\ handler'[h].version = b.version
      /\ handler'[h].server_time = b.server_time
      /\ handler'[h].dead \in {b.dead, Append(b.dead, s)}
      /\ handler'[h].dead = b.dead \/ socket[s] # "open"
  <2>1. b.dead \in Seq(Sockets) /\ b.next + 1 \in Nat
    BY <1>1 DEF Handler
  <2> DEFINE onward == [b EXCEPT !.next = b.next + 1]
             over == [b EXCEPT !.next = b.next + 1, !.dead = Append(@, s)]
  <2>2. onward \in Handler /\ over \in Handler
    <3>1. Append(b.dead, s) \in Seq(Sockets)
      BY <1>1, <2>1
    <3> QED BY <1>1, <2>1, <3>1 DEF Handler
  <2>3. \/ handler' = [handler EXCEPT ![h] = onward]
        \/ handler' = [handler EXCEPT ![h] = over] /\ socket[s] # "open"
    BY <1>1, <1>2 DEF RoomTypeOK
  <2>4. /\ handler' \in [Handlers -> Handler]
        /\ \A g \in Handlers \ {h} : handler'[g] = handler[g]
        /\ \/ handler'[h] = onward
           \/ handler'[h] = over /\ socket[s] # "open"
    <3>1. RoomTypeOK
      BY <1>1
    <3> HIDE DEF onward, over, s
    <3>2. CASE handler' = [handler EXCEPT ![h] = onward]
      BY <2>2, <3>1, <3>2, LoopMoves
    <3>3. CASE handler' = [handler EXCEPT ![h] = over] /\ socket[s] # "open"
      BY <2>2, <3>1, <3>3, LoopMoves
    <3> QED BY <2>3, <3>2, <3>3
  <2> QED BY <1>1, <2>4 DEF Handler
<1>6. RoomTypeOK'
  BY <1>1, <1>3, <1>4, <1>5 DEF RoomTypeOK
<1>7. RoomWhole'
  BY <1>4 DEF RoomInv, RoomWhole, Was
<1>8. Reaching(h)'
  <2>1. \A q \in Sockets : Contains(handler'[h].dead, q) => Was(q, {"closed", "over"})
    <3>1. ASSUME NEW q, Contains(Append(b.dead, s), q) PROVE Contains(b.dead, q) \/ q = s
      BY <1>1, <3>1 DEF Contains, Handler
    <3>2. ~Was(s, {"new", "read"})
      BY <1>1 DEF Reaching
    <3>3. socket[s] # "open" => Was(s, {"closed", "over"})
      BY <1>1, <3>2 DEF Was, RoomTypeOK
    <3> QED BY <1>1, <1>5, <3>1, <3>3 DEF Reaching
  <2>2. socket[s] = "open" => Contains(inbox'[s], message)
    BY <1>1, <1>2, SentStays
  <2>3. ASSUME NEW i \in 1..b.next, Was(b.to[i], {"open"}) PROVE Contains(inbox'[b.to[i]], message)
    <3>1. CASE i = b.next
      BY <2>2, <2>3, <3>1 DEF Was
    <3>2. CASE i # b.next
      <4>1. i \in 1..(b.next - 1) /\ i \in 1..Len(b.to)
        BY <1>1, <3>2
      <4> QED BY <1>1, <1>3, <2>3, <4>1 DEF Reaching
    <3> QED BY <3>1, <3>2
  <2>4. b.next + 1 \in 1..(Len(b.to) + 1) /\ (b.next + 1) - 1 = b.next
    BY <1>1 DEF Handler
  <2> QED BY <1>1, <1>4, <1>5, <2>1, <2>3, <2>4 DEF Reaching, Was
<1>9. ASSUME NEW g \in Handlers, g # h PROVE Reaching(g)'
  BY <1>1, <1>3, <1>4, <1>5, <1>6, <1>9, OthersReach DEF RoomInv, Was
<1> QED BY <1>6, <1>7, <1>8, <1>9 DEF RoomInv

\* The dead are not connected, so nobody who is loses their place.
LEMMA RoomKeptByEnd ==
  ASSUME RoomInv, NEW h \in Handlers, EndBroadcast(h)
  PROVE  RoomInv'
<1> DEFINE b == handler[h]
<1>1. b \in Handler /\ b.stage = "sending" /\ Reaching(h) /\ RoomTypeOK /\ RoomWhole
  BY DEF RoomInv, RoomTypeOK, EndBroadcast
<1>2. /\ room' \in Seq(Sockets) /\ IsInjective(room')
      /\ \A x : Contains(room', x) <=> Contains(room, x) /\ ~Contains(b.dead, x)
  <2>1. room \in Seq(Sockets) /\ IsInjective(room) /\ b.dead \in Seq(Sockets)
    BY <1>1 DEF RoomTypeOK, RoomWhole, Handler
  <2> QED BY <2>1, DisconnectedAll DEF EndBroadcast
<1>3. RoomTypeOK'
  BY <1>1, <1>2 DEF EndBroadcast, RoomTypeOK, Handler, NotSending
<1>4. RoomWhole'
  BY <1>1, <1>2 DEF EndBroadcast, RoomWhole, Reaching, Was
<1>5. ASSUME NEW g \in Handlers PROVE Reaching(g)'
  <2>1. CASE g = h
    BY <1>1, <2>1 DEF EndBroadcast, Reaching, NotSending, RoomTypeOK
  <2>2. CASE g # h
    BY <1>1, <1>3, <2>2, OthersReach DEF EndBroadcast, RoomInv, RoomTypeOK, Was
  <2> QED BY <2>1, <2>2
<1> QED BY <1>3, <1>4, <1>5 DEF RoomInv

LEMMA RoomKeptByViewer ==
  ASSUME RoomInv, NEW s \in Sockets, ReadMatch(s) \/ PeerGone(s)
  PROVE  RoomInv'
<1>1. RoomTypeOK'
  BY DEF RoomInv, RoomTypeOK, ReadMatch, PeerGone, Versions
<1>2. RoomWhole'
  BY DEF RoomInv, RoomTypeOK, RoomWhole, ReadMatch, PeerGone, Was
<1>3. ASSUME NEW g \in Handlers PROVE Reaching(g)'
  <2>1. /\ handler' = handler /\ inbox' = inbox
        /\ \A q \in Sockets : /\ ~Was(q, {"new", "read"}) => ~Was(q, {"new", "read"})'
                              /\ Was(q, {"closed", "over"}) => Was(q, {"closed", "over"})'
    BY DEF RoomInv, RoomTypeOK, ReadMatch, PeerGone, Was
  <2> QED BY <1>1, <2>1, OthersReach DEF RoomInv
<1> QED BY <1>1, <1>2, <1>3 DEF RoomInv

LEMMA RoomKeptByConnect ==
  ASSUME RoomInv, NEW s \in Sockets, Connect(s)
  PROVE  RoomInv'
<1> DEFINE message == stamp_payload(seen[s], clock')
<1>1. RoomTypeOK /\ RoomWhole /\ socket[s] = "read" /\ room' = Append(room, s)
  BY DEF RoomInv, Connect
<1>2. message \in Message /\ clock' \in Nat
  BY <1>1 DEF RoomTypeOK, Connect, stamp_payload, Message
<1>3. /\ inbox' \in [Sockets -> Seq(Message)]
      /\ \A q \in Sockets : \A m : Contains(inbox[q], m) => Contains(inbox'[q], m)
  <2>1. Send(s, message)
    BY DEF Connect
  <2> HIDE DEF message
  <2> QED BY <1>1, <1>2, <2>1, SentStays
<1>4. RoomTypeOK'
  BY <1>1, <1>2, <1>3 DEF Connect, RoomTypeOK
<1>5. /\ IsInjective(room')
      /\ \A x : Contains(room', x) <=> Contains(room, x) \/ x = s
  <2>1. ~Contains(room, s)
    BY <1>1 DEF RoomWhole, Was
  <2>2. /\ Len(room) \in Nat /\ DOMAIN room = 1..Len(room)
        /\ Len(room') = Len(room) + 1 /\ DOMAIN room' = 1..(Len(room) + 1)
        /\ room'[Len(room) + 1] = s /\ \A i \in 1..Len(room) : room'[i] = room[i]
    BY <1>1 DEF RoomTypeOK
  <2>3. \A i, j \in 1..Len(room) : room[i] = room[j] => i = j
    BY <1>1, <2>2 DEF RoomWhole, IsInjective
  <2> QED BY <2>1, <2>2, <2>3 DEF Contains, IsInjective
<1>6. RoomWhole'
  BY <1>1, <1>5 DEF Connect, RoomTypeOK, RoomWhole, Was
<1>7. ASSUME NEW g \in Handlers PROVE Reaching(g)'
  <2>1. /\ handler' = handler
        /\ \A q \in Sockets : /\ ~Was(q, {"new", "read"}) => ~Was(q, {"new", "read"})'
                              /\ Was(q, {"closed", "over"}) => Was(q, {"closed", "over"})'
    BY <1>1 DEF Connect, RoomTypeOK, Was
  <2> QED BY <1>1, <1>3, <1>4, <2>1, OthersReach DEF RoomInv
<1> QED BY <1>4, <1>6, <1>7 DEF RoomInv

LEMMA RoomKeptByLeave ==
  ASSUME RoomInv, NEW s \in Sockets, LeaveRoom(s)
  PROVE  RoomInv'
<1>1. RoomTypeOK /\ RoomWhole /\ socket[s] = "closed" /\ room' = disconnect(room, s)
  BY DEF RoomInv, LeaveRoom
<1>2. /\ room' \in Seq(Sockets) /\ IsInjective(room')
      /\ \A x : Contains(room', x) <=> Contains(room, x) /\ x # s
  BY <1>1, Disconnected DEF RoomTypeOK, RoomWhole
<1>3. RoomTypeOK'
  BY <1>1, <1>2 DEF LeaveRoom, RoomTypeOK
<1>4. RoomWhole'
  BY <1>1, <1>2 DEF LeaveRoom, RoomTypeOK, RoomWhole, Was
<1>5. ASSUME NEW g \in Handlers PROVE Reaching(g)'
  <2>1. /\ handler' = handler /\ inbox' = inbox
        /\ \A q \in Sockets : /\ ~Was(q, {"new", "read"}) => ~Was(q, {"new", "read"})'
                              /\ Was(q, {"closed", "over"}) => Was(q, {"closed", "over"})'
    BY <1>1 DEF LeaveRoom, RoomTypeOK, Was
  <2> QED BY <1>1, <1>3, <2>1, OthersReach DEF RoomInv
<1> QED BY <1>3, <1>4, <1>5 DEF RoomInv

LEMMA RoomInvHolds == RoomSpec => []RoomInv
<1>1. RoomInv /\ UNCHANGED roomVars => RoomInv'
  BY DEF RoomInv, RoomTypeOK, RoomWhole, Reaching, Was, roomVars
<1>2. RoomInv /\ [RoomNext]_roomVars => RoomInv'
  BY <1>1, RoomKeptByCommit, RoomKeptByStart, RoomKeptBySend, RoomKeptByEnd,
     RoomKeptByViewer, RoomKeptByConnect, RoomKeptByLeave
  DEF RoomNext, Broadcast
<1> QED BY RoomInitInv, <1>2, PTL DEF RoomSpec

\* Who is connected is in the room once, who has left is not, at any number of
\* viewers and broadcasts (ConnectionManager).
THEOREM RoomsAreWhole == RoomSpec => []SubscribersInRoom
<1>1. RoomInv => SubscribersInRoom
  <2> SUFFICES ASSUME RoomInv, NEW s \in Sockets
               PROVE  LET places == {i \in DOMAIN room : room[i] = s}
                      IN  /\ socket[s] = "open" => \E i \in places : places = {i}
                          /\ socket[s] \in {"new", "read", "over"} => places = {}
    BY DEF SubscribersInRoom
  <2>1. DOMAIN room = 1..Len(room)
    BY DEF RoomInv, RoomTypeOK
  <2>2. CASE socket[s] = "open"
    <3>1. PICK i \in DOMAIN room : room[i] = s
      BY <2>1, <2>2 DEF RoomInv, RoomWhole, Was, Contains
    <3> QED BY <2>2, <3>1 DEF RoomInv, RoomWhole, IsInjective
  <2>3. CASE socket[s] # "open"
    BY <2>1, <2>3 DEF RoomInv, RoomWhole, Was, Contains
  <2> QED BY <2>2, <2>3
<1> QED BY <1>1, RoomInvHolds, PTL

\* A broadcast that ends has reached every socket of its copy of the room that is
\* still connected, whoever failed before it ("for ws in room").
THEOREM BroadcastsReach == RoomSpec => BroadcastReachesRoom
<1> DEFINE Reached(h) ==
      LET b == handler[h]
      IN  b.stage = "sending" /\ handler'[h].stage # "sending" =>
            \A i \in DOMAIN b.to :
              socket[b.to[i]] = "open" =>
                \E j \in DOMAIN inbox[b.to[i]] :
                  inbox[b.to[i]][j] = stamp_payload(b.version, b.server_time)
<1>1. ASSUME RoomInv, [RoomNext]_roomVars, NEW h \in Handlers PROVE Reached(h)
  <2> DEFINE b == handler[h]
  <2>1. SUFFICES ASSUME b.stage = "sending", handler'[h].stage # "sending" PROVE Reached(h)
    OBVIOUS
  <2>2. b \in Handler /\ RoomTypeOK /\ Reaching(h)
    BY <1>1 DEF RoomInv, RoomTypeOK
  <2>3. EndBroadcast(h)
    <3>1. handler' # handler
      BY <2>1
    <3>2. PICK g \in Handlers : CommitChange(g) \/ StartBroadcast(g) \/ SendNext(g) \/ EndBroadcast(g)
      BY <1>1, <3>1
      DEF RoomNext, Broadcast, roomVars, ReadMatch, Connect, PeerGone, LeaveRoom
    <3>3. ~CommitChange(g)
      BY <2>1, <2>2 DEF CommitChange, RoomTypeOK
    <3>4. ~StartBroadcast(g)
      BY <2>1, <2>2, ZenonT(30) DEF StartBroadcast, Due, RoomTypeOK, Handler
    <3>5. ~SendNext(g)
      <4>1. ASSUME NEW x, NEW y
            PROVE  [b EXCEPT !.next = x].stage = b.stage /\
                   [[b EXCEPT !.next = x] EXCEPT !.dead = y].stage = b.stage
        BY <2>2 DEF Handler
      <4>2. SendNext(g) => g = h
        BY <2>1, <2>2 DEF SendNext, RoomTypeOK
      <4>3. ASSUME SendNext(h) PROVE handler'[h].stage = b.stage
        <5> DEFINE s == b.to[b.next]
        <5>1. CASE handler' = [handler EXCEPT ![h].next = @ + 1]
          BY <2>2, <4>1, <5>1 DEF RoomTypeOK
        <5>2. CASE handler' = [handler EXCEPT ![h].next = AfterFailure(b),
                                              ![h].dead = Append(@, s)]
          <6>1. handler'[h] = [[b EXCEPT !.next = AfterFailure(b)]
                                 EXCEPT !.dead = Append(@, s)]
            BY <2>2, <5>2 DEF RoomTypeOK
          <6> QED BY <4>1, <6>1
        <5> QED BY <4>3, <5>1, <5>2 DEF SendNext
      <4> QED BY <2>1, <4>2, <4>3
    <3>6. EndBroadcast(g) => g = h
      BY <2>1, <2>2 DEF EndBroadcast, RoomTypeOK
    <3> QED BY <3>2, <3>3, <3>4, <3>5, <3>6
  <2>4. /\ b.next \in 1..(Len(b.to) + 1) /\ b.next > Len(b.to)
        /\ DOMAIN b.to = 1..Len(b.to) /\ Len(b.to) \in Nat
        /\ \A i \in 1..Len(b.to) : b.to[i] \in Sockets
    BY <2>1, <2>2, <2>3 DEF EndBroadcast, Reaching, Handler
  <2>5. b.next - 1 = Len(b.to)
    <3> DEFINE n == Len(b.to)
               k == b.next
    <3>1. n \in Nat /\ k \in 1..(n + 1) /\ k > n
      BY <2>4
    <3> HIDE DEF n, k
    <3>2. k - 1 = n
      BY <3>1
    <3> QED BY <3>2 DEF n, k
  <2>6. \A s \in Sockets : DOMAIN inbox[s] = 1..Len(inbox[s])
    BY <2>2 DEF RoomTypeOK
  <2> QED BY <2>1, <2>2, <2>4, <2>5, <2>6 DEF Reaching, Was, Contains
<1>2. RoomInv /\ [RoomNext]_roomVars => \A h \in Handlers : Reached(h)
  BY <1>1
<1> QED BY <1>2, RoomInvHolds, PTL DEF RoomSpec, BroadcastReachesRoom

-------------------------------------------------------------------------------
(* The rate limiter *)

InOrder(times) == \A i, j \in 1..Len(times) : i <= j => times[i] <= times[j]

\* A deque holds instants up to now, in the order of the hits.
LimiterInv ==
  /\ instant \in Nat
  /\ bucket \in [ClientKeys -> Seq(0..instant)]
  /\ \A k \in ClientKeys : InOrder(bucket[k])

\* The place in an ordered deque before which all is old.
Cut(times, cutoff, n) ==
  /\ n \in 0..Len(times)
  /\ \A i \in 1..n : times[i] < cutoff
  /\ \A i \in (n + 1)..Len(times) : times[i] >= cutoff

LEMMA CutExists ==
  ASSUME NEW times \in Seq(Nat), InOrder(times), NEW cutoff \in Int
  PROVE  \E n : Cut(times, cutoff, n)
<1> DEFINE m == Len(times)
           fresh == {i \in 1..m : times[i] >= cutoff}
<1>1. m \in Nat /\ \A i \in 1..m : times[i] \in Nat
  OBVIOUS
<1>2. CASE fresh = {}
  <2>1. \A i \in 1..m : times[i] < cutoff
    BY <1>1, <1>2
  <2>2. Cut(times, cutoff, m)
    BY <1>1, <2>1 DEF Cut
  <2> QED BY <2>2
<1>3. CASE fresh # {}
  <2>1. fresh \in SUBSET Nat
    OBVIOUS
  <2>2. PICK f \in fresh : \A i \in fresh : f <= i
    BY <1>3, <2>1, LeastNatural
  <2>3. f \in 1..m /\ times[f] >= cutoff
    OBVIOUS
  <2>4. \A i \in 1..(f - 1) : i \in 1..m /\ times[i] < cutoff
    BY <1>1, <2>2, <2>3
  <2>5. \A i \in f..m : i \in 1..m /\ times[f] <= times[i]
    BY <1>1, <2>3 DEF InOrder
  <2>6. f - 1 \in 0..m /\ (f - 1) + 1 = f
    BY <1>1, <2>3
  <2>7. Cut(times, cutoff, f - 1)
    BY <1>1, <2>3, <2>4, <2>5, <2>6 DEF Cut
  <2> QED BY <2>7
<1> QED BY <1>2, <1>3

\* What the loop leaves, and what the window keeps, is what follows the cut.
LEMMA EvictCuts ==
  ASSUME NEW times \in Seq(Nat), NEW cutoff \in Int, NEW n, Cut(times, cutoff, n)
  PROVE  Evict(times, cutoff) = SubSeq(times, n + 1, Len(times))
<1> DEFINE m == Len(times)
           fresh == {i \in DOMAIN times : ~Stale(times[i], cutoff)}
<1>1. m \in Nat /\ DOMAIN times = 1..m /\ n \in 0..m /\ \A i \in 1..m : times[i] \in Nat
  BY DEF Cut
<1>2. fresh = (n + 1)..m
  BY <1>1 DEF Cut, Stale
<1> HIDE DEF fresh, m
<1>3. CASE fresh = {}
  <2>1. n = m
    BY <1>1, <1>2, <1>3
  <2> QED BY <1>3, <2>1 DEF Evict, fresh, m
<1>4. CASE fresh # {}
  <2>1. n + 1 \in fresh /\ \A j \in fresh : n + 1 <= j
    BY <1>1, <1>2, <1>4
  <2>2. (CHOOSE i \in fresh : \A j \in fresh : i <= j) = n + 1
    <3> DEFINE i == CHOOSE i \in fresh : \A j \in fresh : i <= j
    <3>1. i \in fresh /\ \A j \in fresh : i <= j
      BY <2>1
    <3> HIDE DEF i
    <3>2. i \in Int /\ i <= n + 1 /\ n + 1 <= i
      BY <1>1, <1>2, <2>1, <3>1
    <3>3. i = n + 1
      BY <1>1, <3>2
    <3> QED BY <3>3 DEF i
  <2> QED BY <1>4, <2>2 DEF Evict, fresh, m
<1> QED BY <1>3, <1>4

LEMMA WindowCuts ==
  ASSUME NEW times \in Seq(Nat), NEW now \in Int, NEW n, Cut(times, now - Window, n)
  PROVE  Sliding!Within(times, now) = SubSeq(times, n + 1, Len(times))
<1> DEFINE Old(k) == \A i \in DOMAIN times : times[i] < now - Window <=> i <= k
           m == CHOOSE k \in 0..Len(times) : Old(k)
<1>1. /\ Len(times) \in Nat /\ DOMAIN times = 1..Len(times) /\ n \in 0..Len(times)
      /\ Window \in Nat /\ \A i \in 1..Len(times) : times[i] \in Nat
  BY WindowAssumption DEF Cut
<1>2. Old(n)
  BY <1>1 DEF Cut
<1>3. ASSUME NEW k \in 0..Len(times), Old(k) PROVE k = n
  <2>1. k < n => k + 1 \in DOMAIN times
    BY <1>1
  <2>2. n < k => n + 1 \in DOMAIN times
    BY <1>1
  <2>3. k \in Int /\ n \in Int
    BY <1>1
  <2>4. ~(k < n)
    <3> SUFFICES ASSUME k < n PROVE FALSE
      OBVIOUS
    <3>1. k + 1 \in DOMAIN times /\ k + 1 <= n /\ ~(k + 1 <= k)
      BY <2>1, <2>3
    <3> QED BY <1>2, <1>3, <3>1
  <2>5. ~(n < k)
    <3> SUFFICES ASSUME n < k PROVE FALSE
      OBVIOUS
    <3>1. n + 1 \in DOMAIN times /\ n + 1 <= k /\ ~(n + 1 <= n)
      BY <2>2, <2>3
    <3> QED BY <1>2, <1>3, <3>1
  <2> QED BY <2>3, <2>4, <2>5
<1>4. m = n
  BY <1>1, <1>2, <1>3
<1> QED BY <1>4 DEF Sliding!Within

\* What is left after a cut.
LEMMA RestOfDeque ==
  ASSUME NEW top \in Nat, NEW times \in Seq(0..top), InOrder(times), NEW n \in 0..Len(times)
  PROVE  LET rest == SubSeq(times, n + 1, Len(times))
         IN  /\ rest \in Seq(0..top) /\ Len(rest) = Len(times) - n /\ InOrder(rest)
             /\ \A i \in 1..(Len(times) - n) : rest[i] = times[i + n]
<1> DEFINE m == Len(times)
           rest == SubSeq(times, n + 1, m)
<1>1. m \in Nat /\ n \in Nat /\ n <= m /\ \A i \in 1..m : times[i] \in 0..top
  OBVIOUS
<1>2. rest = [i \in 1..(m - n) |-> times[i + n]]
  <2>1. \A i \in 1..(m - n) : i + (n + 1) - 1 = i + n
    BY <1>1
  <2>2. m - (n + 1) + 1 = m - n
    BY <1>1
  <2> QED BY <1>1, <2>1, <2>2
<1> HIDE DEF rest, m
<1>3. \A i \in 1..(m - n) : i + n \in 1..m
  BY <1>1
<1>4. rest \in Seq(0..top) /\ Len(rest) = m - n
  BY <1>1, <1>2, <1>3
<1>5. InOrder(rest)
  <2> SUFFICES ASSUME NEW i \in 1..(m - n), NEW j \in 1..(m - n), i <= j
               PROVE  rest[i] <= rest[j]
    BY <1>4 DEF InOrder
  <2>1. i + n \in 1..m /\ j + n \in 1..m /\ i + n <= j + n
    BY <1>1, <1>3
  <2>2. times[i + n] <= times[j + n]
    BY <2>1 DEF InOrder, m
  <2> QED BY <1>2, <2>2
<1> QED BY <1>2, <1>4, <1>5 DEF rest, m

\* Nothing goes from a deque of fresh hits.
LEMMA AllFresh ==
  ASSUME NEW times \in Seq(Nat), NEW cutoff \in Int,
         \A i \in 1..Len(times) : times[i] >= cutoff
  PROVE  Evict(times, cutoff) = times
<1>1. Cut(times, cutoff, 0)
  BY DEF Cut
<1>2. Evict(times, cutoff) = SubSeq(times, 0 + 1, Len(times))
  BY <1>1, EvictCuts
<1>3. SubSeq(times, 0 + 1, Len(times)) = times
  OBVIOUS
<1> QED BY <1>2, <1>3

\* The loop leaves an ordered deque of the hits that count.
LEMMA Evicted ==
  ASSUME NEW top \in Nat, NEW times \in Seq(0..top), InOrder(times), NEW cutoff \in Int
  PROVE  LET left == Evict(times, cutoff)
         IN  /\ left \in Seq(0..top) /\ InOrder(left)
             /\ \A i \in 1..Len(left) : left[i] >= cutoff
<1>1. times \in Seq(Nat)
  OBVIOUS
<1>2. PICK n : Cut(times, cutoff, n)
  BY <1>1, CutExists
<1> DEFINE left == SubSeq(times, n + 1, Len(times))
<1>3. Evict(times, cutoff) = left
  BY <1>1, <1>2, EvictCuts
<1>4. n \in 0..Len(times) /\ Len(times) \in Nat
  BY <1>2 DEF Cut
<1>5. /\ left \in Seq(0..top) /\ Len(left) = Len(times) - n /\ InOrder(left)
      /\ \A i \in 1..(Len(times) - n) : left[i] = times[i + n]
  BY <1>4, RestOfDeque
<1> HIDE DEF left
<1>6. ASSUME NEW i \in 1..Len(left) PROVE left[i] >= cutoff
  <2>1. i + n \in (n + 1)..Len(times)
    BY <1>4, <1>5
  <2> QED BY <1>2, <1>5, <2>1 DEF Cut
<1> QED BY <1>3, <1>5, <1>6

\* To empty a deque now and again later is to empty it later.
LEMMA EvictedTwice ==
  ASSUME NEW top \in Nat, NEW times \in Seq(0..top), InOrder(times),
         NEW early \in Int, NEW now \in Int, early <= now - Window
  PROVE  Evict(times, now - Window) = Sliding!Within(Evict(times, early), now)
<1> DEFINE late == now - Window
           m == Len(times)
<1>1. times \in Seq(Nat) /\ m \in Nat /\ late \in Int /\ \A i \in 1..m : times[i] \in Nat
  BY WindowAssumption
<1>2. PICK n : Cut(times, early, n)
  BY <1>1, CutExists
<1>3. PICK p : Cut(times, late, p)
  BY <1>1, CutExists
<1> DEFINE left == SubSeq(times, n + 1, m)
<1>4. Evict(times, early) = left /\ Evict(times, late) = SubSeq(times, p + 1, m)
  BY <1>1, <1>2, <1>3, EvictCuts
<1>5. n \in 0..m /\ p \in 0..m
  BY <1>2, <1>3 DEF Cut
<1>6. n <= p
  <2> SUFFICES ASSUME p < n PROVE FALSE
    BY <1>1, <1>5
  <2>1. n \in 1..m /\ n \in (p + 1)..m
    BY <1>1, <1>5
  <2>2. times[n] < early /\ times[n] >= late
    BY <1>2, <1>3, <2>1 DEF Cut
  <2> QED BY <1>1, <2>1, <2>2
<1>7. /\ left \in Seq(0..top) /\ Len(left) = m - n
      /\ \A i \in 1..(m - n) : left[i] = times[i + n]
  BY <1>5, RestOfDeque
<1> HIDE DEF left, m
<1>8. Cut(left, now - Window, p - n)
  <2>1. p - n \in 0..Len(left)
    BY <1>1, <1>5, <1>6, <1>7
  <2>2. ASSUME NEW i \in 1..(p - n) PROVE left[i] < late
    <3>1. i + n \in 1..p /\ i \in 1..(m - n)
      BY <1>1, <1>5, <1>6
    <3> QED BY <1>3, <1>7, <3>1 DEF Cut
  <2>3. ASSUME NEW i \in (p - n + 1)..Len(left) PROVE left[i] >= late
    <3>1. i + n \in (p + 1)..m /\ i \in 1..(m - n)
      BY <1>1, <1>5, <1>6, <1>7
    <3> QED BY <1>3, <1>7, <3>1 DEF Cut, m
  <2> QED BY <2>1, <2>2, <2>3 DEF Cut
<1>9. left \in Seq(Nat)
  BY <1>7
<1>10. Sliding!Within(left, now) = SubSeq(left, p - n + 1, Len(left))
  BY <1>8, <1>9, WindowCuts
<1>11. SubSeq(left, p - n + 1, m - n) = SubSeq(times, p + 1, m)
  <2>1. SubSeq(left, p - n + 1, m - n) = [i \in 1..(m - p) |-> left[i + (p - n)]]
    BY <1>1, <1>5, <1>6, <1>7, <1>9
  <2>2. SubSeq(times, p + 1, m) = [i \in 1..(m - p) |-> times[i + p]]
    BY <1>1, <1>5
  <2>3. ASSUME NEW i \in 1..(m - p) PROVE left[i + (p - n)] = times[i + p]
    <3>1. i + (p - n) \in 1..(m - n) /\ (i + (p - n)) + n = i + p
      BY <1>1, <1>5, <1>6
    <3> QED BY <1>7, <3>1
  <2> QED BY <2>1, <2>2, <2>3
<1> QED BY <1>4, <1>7, <1>10, <1>11

-------------------------------------------------------------------------------
LEMMA LimiterInitInv == LimiterInit => LimiterInv
  BY DEF LimiterInit, LimiterInv, InOrder

\* The new hit is the latest.
LEMMA HitStored ==
  ASSUME NEW top \in Nat, NEW times \in Seq(0..top), InOrder(times)
  PROVE  Append(times, top) \in Seq(0..top) /\ InOrder(Append(times, top))
<1> DEFINE m == Len(times)
           more == Append(times, top)
<1>1. m \in Nat /\ \A i \in 1..m : times[i] \in 0..top
  OBVIOUS
<1>2. /\ more \in Seq(0..top) /\ Len(more) = m + 1
      /\ more[m + 1] = top /\ \A i \in 1..m : more[i] = times[i]
  BY <1>1
<1> HIDE DEF more
<1>3. InOrder(more)
  <2> SUFFICES ASSUME NEW i \in 1..(m + 1), NEW j \in 1..(m + 1), i <= j
               PROVE  more[i] <= more[j]
    BY <1>2 DEF InOrder
  <2>1. CASE j = m + 1
    <3>1. i \in 1..m \/ i = m + 1
      BY <1>1
    <3>2. more[j] = top
      BY <1>2, <2>1
    <3>3. more[i] \in 0..top
      BY <1>1, <1>2, <3>1
    <3> QED BY <3>2, <3>3
  <2>2. CASE j \in 1..m
    <3>1. i \in 1..m /\ times[i] <= times[j]
      BY <1>1, <2>2 DEF InOrder
    <3> QED BY <1>2, <2>2, <3>1
  <2>3. j = m + 1 \/ j \in 1..m
    BY <1>1
  <2> QED BY <2>1, <2>2, <2>3
<1> QED BY <1>2, <1>3 DEF more

LEMMA LimiterKeptByHit ==
  ASSUME LimiterInv, NEW k \in ClientKeys, hit(k) PROVE LimiterInv'
<1> DEFINE left == Evict(bucket[k], instant - Window)
<1>1. instant \in Nat /\ bucket[k] \in Seq(0..instant) /\ InOrder(bucket[k]) /\ Window \in Nat
  BY WindowAssumption DEF LimiterInv
<1>2. left \in Seq(0..instant) /\ InOrder(left)
  BY <1>1, Evicted
<1>3. Append(left, instant) \in Seq(0..instant) /\ InOrder(Append(left, instant))
  BY <1>1, <1>2, HitStored
<1>4. /\ instant' = instant
      /\ \/ bucket' = [bucket EXCEPT ![k] = left]
         \/ bucket' = [bucket EXCEPT ![k] = Append(left, instant)]
  BY DEF hit
<1> HIDE DEF left
<1> QED BY <1>2, <1>3, <1>4 DEF LimiterInv

LEMMA LimiterKeptByTime == ASSUME LimiterInv, TimePasses PROVE LimiterInv'
<1>1. instant' \in Nat /\ instant <= instant' /\ bucket' = bucket
  BY WindowAssumption DEF LimiterInv, TimePasses
<1>2. ASSUME NEW k \in ClientKeys PROVE bucket[k] \in Seq(0..instant') /\ InOrder(bucket[k])
  <2>1. bucket[k] \in Seq(0..instant) /\ InOrder(bucket[k]) /\ instant \in Nat
    BY DEF LimiterInv
  <2>2. 0..instant \subseteq 0..instant'
    BY <1>1, <2>1
  <2>3. bucket[k] \in Seq(0..instant')
    BY <2>1, <2>2, SeqMonotonic
  <2> QED BY <2>1, <2>3
<1> QED BY <1>1, <1>2 DEF LimiterInv

LEMMA LimiterInvHolds == LimiterSpec => []LimiterInv
<1>1. LimiterInv /\ [LimiterNext]_limiterVars => LimiterInv'
  BY LimiterKeptByHit, LimiterKeptByTime DEF LimiterNext, limiterVars, LimiterInv
<1> QED BY LimiterInitInv, <1>1, PTL DEF LimiterSpec

-------------------------------------------------------------------------------
\* A hit empties its deque, by which the window does not change, and answers as
\* the window does.
LEMMA HitAnswers ==
  ASSUME LimiterInv, NEW k \in ClientKeys, hit(k)
  PROVE  Sliding!LetThrough(k) \/ Sliding!TurnAway(k)
<1> DEFINE cutoff == instant - Window
           left == Evict(bucket[k], cutoff)
           window == [c \in ClientKeys |-> Evict(bucket[c], cutoff)]
           next == [c \in ClientKeys |-> Evict(bucket'[c], instant' - Window)]
<1>1. /\ instant \in Nat /\ bucket[k] \in Seq(0..instant) /\ InOrder(bucket[k])
      /\ Window \in Nat /\ cutoff \in Int /\ cutoff <= instant /\ instant' = instant
      /\ DOMAIN bucket = ClientKeys
  <2>1. Window \in Nat
    BY WindowAssumption
  <2>2. instant' = instant
    BY DEF hit
  <2>3. instant \in Nat /\ bucket[k] \in Seq(0..instant) /\ InOrder(bucket[k])
        /\ DOMAIN bucket = ClientKeys
    BY DEF LimiterInv
  <2> QED BY <2>1, <2>2, <2>3
<1>2. left \in Seq(0..instant) /\ \A i \in 1..Len(left) : left[i] >= cutoff
  BY <1>1, Evicted
<1>3. CASE /\ Len(left) >= Limits[k]
           /\ bucket' = [bucket EXCEPT ![k] = left]
           /\ verdict' = [verdict EXCEPT ![k] = "too many requests"]
  <2>1. Evict(left, cutoff) = left
    <3> HIDE DEF left, cutoff
    <3> QED BY <1>1, <1>2, AllFresh
  <2>2. next = window
    BY <1>1, <1>3, <2>1
  <2> QED BY <1>1, <1>3, <2>2 DEF Sliding!TurnAway, Sliding!Answer
<1>4. CASE /\ Len(left) < Limits[k]
           /\ bucket' = [bucket EXCEPT ![k] = Append(left, instant)]
           /\ verdict' = [verdict EXCEPT ![k] = "ok"]
  <2> DEFINE more == Append(left, instant)
  <2>1. more \in Seq(Nat) /\ \A i \in 1..Len(more) : more[i] >= cutoff
    <3> HIDE DEF left, cutoff
    <3>1. \A i \in 1..(Len(left) + 1) : more[i] = IF i <= Len(left) THEN left[i] ELSE instant
      BY <1>1, <1>2
    <3>2. Len(more) = Len(left) + 1 /\ Len(left) \in Nat /\ more \in Seq(Nat)
      BY <1>1, <1>2
    <3>3. ASSUME NEW i \in 1..Len(more) PROVE more[i] >= cutoff
      <4>1. CASE i \in 1..Len(left)
        BY <1>2, <3>1, <3>2, <4>1
      <4>2. CASE i = Len(left) + 1
        BY <1>1, <3>1, <3>2, <4>2
      <4> QED BY <3>2, <4>1, <4>2
    <3> QED BY <3>2, <3>3
  <2>2. Evict(more, cutoff) = more
    BY <1>1, <2>1, AllFresh
  <2>3. next = [window EXCEPT ![k] = Append(@, instant)]
    BY <1>1, <1>4, <2>2
  <2> QED BY <1>1, <1>4, <2>3 DEF Sliding!LetThrough, Sliding!Answer
<1> QED BY <1>3, <1>4 DEF hit

\* What is past the window goes from it, whether or not its deque is emptied.
LEMMA TimePassesInWindow ==
  ASSUME LimiterInv, TimePasses PROVE Sliding!Pass
<1>1. /\ \E t \in (instant + 1)..LastInstant : instant' = t
      /\ bucket' = bucket /\ verdict' = verdict
  BY DEF TimePasses
<1>2. instant \in Nat /\ instant' \in Nat /\ instant <= instant' /\ Window \in Nat
  BY <1>1, WindowAssumption DEF LimiterInv
<1>3. ASSUME NEW k \in ClientKeys
      PROVE  Evict(bucket'[k], instant' - Window)
             = Sliding!Within(Evict(bucket[k], instant - Window), instant')
  BY <1>1, <1>2, EvictedTwice DEF LimiterInv
<1> QED BY <1>1, <1>3 DEF Sliding!Pass

\* Lazily emptied deques implement the sliding window: whatever was refused or
\* left lying between, a request passes exactly when fewer than its limit were
\* let through in the window that ends with it (RateLimiter.hit).
THEOREM LimiterSlides == LimiterSpec => LimitsByWindow
<1>1. LimiterInit => Sliding!WindowInit
  <2> SUFFICES ASSUME LimiterInit PROVE Sliding!WindowInit
    OBVIOUS
  <2>1. Evict(<< >>, instant - Window) = << >>
    <3> DEFINE empty == << >>
               cutoff == instant - Window
    <3>1. empty \in Seq(Nat) /\ Len(empty) = 0 /\ cutoff \in Int
      BY WindowAssumption DEF LimiterInit
    <3> HIDE DEF empty, cutoff
    <3>2. \A i \in 1..Len(empty) : empty[i] >= cutoff
      BY <3>1
    <3>3. Evict(empty, cutoff) = empty
      BY <3>1, <3>2, AllFresh
    <3> QED BY <3>3 DEF empty, cutoff
  <2> QED BY <2>1 DEF LimiterInit, Sliding!WindowInit
<1>2. LimiterInv /\ [LimiterNext]_limiterVars
        => [Sliding!Pass \/ \E k \in ClientKeys : Sliding!LetThrough(k) \/ Sliding!TurnAway(k)]_(Sliding!windowVars)
  <2>1. UNCHANGED limiterVars => UNCHANGED Sliding!windowVars
    BY DEF limiterVars, Sliding!windowVars
  <2> QED BY <2>1, HitAnswers, TimePassesInWindow DEF LimiterNext
<1> QED BY <1>1, <1>2, LimiterInvHolds, PTL DEF LimiterSpec, LimitsByWindow, Sliding!WindowSpec

-------------------------------------------------------------------------------
(* The mailer *)

\* The expiry in the cache stands before the end of the token's life by the
\* skew less the time its answer took to be stored.
CacheExpiresEarly ==
  access_token # NoToken =>
    access_token_expiry + Skew = access_token.lapses + access_token.late

\* What a send knows of its token: when it was issued, and from then on that
\* more than the skew, less the answer's delay, was left when it was taken.
TokenLasts(m) ==
  /\ mail[m] = "issued" => /\ taken[m] <= second
                           /\ token[m].lapses = taken[m] + Lifetime
  /\ mail[m] \in {"authorised", "resolving", "posting"} =>
       /\ taken[m] <= second
       /\ taken[m] + Skew < token[m].lapses + token[m].late

MailInv ==
  /\ MailTypeOK
  /\ CacheExpiresEarly
  /\ \A m \in Mails : TokenLasts(m)

LEMMA TimesTyped ==
  Lifetime \in Nat /\ Skew \in Nat /\ LastSecond \in Nat /\ Skew < Lifetime
BY MailTimes

LEMMA TokenTyped ==
  /\ NoToken \in Token
  /\ \A t \in Token : t.lapses \in Nat /\ t.late \in Nat
BY DEF NoToken, Token

USE DEF MailInv, MailTypeOK, CacheExpiresEarly, TokenLasts, InCall,
        MailStages, Outcomes, MailGoes, Take, Ends, cached

-------------------------------------------------------------------------------
LEMMA MailInitInv == MailInit => MailInv
  BY TokenTyped DEF MailInit

LEMMA KeptBySecond == ASSUME MailInv, SecondPasses PROVE MailInv'
  BY TimesTyped, TokenTyped DEF SecondPasses

LEMMA KeptByTakeToken ==
  ASSUME MailInv, NEW n \in Mails, TakeToken(n) PROVE MailInv'
<1>1. CASE Fresh /\ Take(n, access_token) /\ MailGoes(n, "authorised")
  <2>1. second + Skew < access_token.lapses + access_token.late
    BY <1>1, TimesTyped, TokenTyped DEF Fresh
  <2>2. MailTypeOK' /\ CacheExpiresEarly'
    BY <1>1 DEF TakeToken
  <2>3. ASSUME NEW m \in Mails PROVE TokenLasts(m)'
    BY <1>1, <2>1, TimesTyped, TokenTyped DEF TakeToken
  <2> QED BY <2>2, <2>3
<1>2. CASE ~Fresh /\ MailGoes(n, "refreshing") /\ UNCHANGED <<token, taken>>
  BY <1>2 DEF TakeToken
<1> QED BY <1>1, <1>2 DEF TakeToken

LEMMA KeptByIssue ==
  ASSUME MailInv, NEW n \in Mails, Issue(n) PROVE MailInv'
<1> DEFINE issued == [lapses |-> second + Lifetime, late |-> 0]
<1>1. issued \in Token /\ issued.lapses = second + Lifetime
  BY TimesTyped DEF Token
<1>2. token' = [token EXCEPT ![n] = issued]
  BY DEF Issue
<1> HIDE DEF issued
<1>3. MailTypeOK' /\ CacheExpiresEarly'
  BY <1>1, <1>2 DEF Issue
<1>4. ASSUME NEW m \in Mails PROVE TokenLasts(m)'
  BY <1>1, <1>2, TimesTyped, TokenTyped DEF Issue
<1> QED BY <1>3, <1>4

LEMMA KeptByStoreToken ==
  ASSUME MailInv, NEW n \in Mails, StoreToken(n) PROVE MailInv'
<1>1. /\ token[n] \in Token /\ taken[n] \in Nat /\ second \in Nat
      /\ taken[n] <= second /\ token[n].lapses = taken[n] + Lifetime
  BY DEF StoreToken
<1>2. /\ access_token' \in Token
      /\ access_token'.lapses = taken[n] + Lifetime
      /\ access_token'.late = second - taken[n]
  BY <1>1, TokenTyped DEF StoreToken, Token
<1>3. access_token_expiry' = second + (Lifetime - Skew)
  BY DEF StoreToken, Expiry
<1>4. /\ token' = [token EXCEPT ![n] = access_token']
      /\ taken' = [taken EXCEPT ![n] = second]
      /\ mail' = [mail EXCEPT ![n] = "authorised"]
      /\ UNCHANGED <<second, account_known, outcome>>
  BY DEF StoreToken
<1>5. MailTypeOK'
  BY <1>1, <1>2, <1>3, <1>4, TimesTyped
<1>6. CacheExpiresEarly'
  BY <1>1, <1>2, <1>3, TimesTyped
<1>7. ASSUME NEW m \in Mails PROVE TokenLasts(m)'
  BY <1>1, <1>2, <1>4, TimesTyped, TokenTyped
<1> QED BY <1>5, <1>6, <1>7

LEMMA KeptByAccount ==
  ASSUME MailInv, NEW n \in Mails, TakeAccount(n) \/ StoreAccount(n) PROVE MailInv'
  BY TokenTyped DEF TakeAccount, StoreAccount

LEMMA MailKeptByEnd ==
  ASSUME MailInv, NEW n \in Mails,
         Skip(n) \/ Accepted(n) \/ Refused(n) \/ ConnectionFails(n)
  PROVE  MailInv'
  BY DEF Skip, Accepted, Refused, ConnectionFails

LEMMA MailKeptByStuttering ==
  ASSUME MailInv, UNCHANGED mailVars PROVE MailInv'
  BY DEF mailVars

HIDE DEF MailInv

-------------------------------------------------------------------------------
\* The invariant of the token cache and the sends is inductive.
THEOREM MailInvHolds == MailSpec => []MailInv
<1>1. MailInv /\ [MailNext]_mailVars => MailInv'
  BY KeptBySecond, KeptByTakeToken, KeptByIssue, KeptByStoreToken, KeptByAccount,
     MailKeptByEnd, MailKeptByStuttering
  DEF MailNext, send
<1> QED BY MailInitInv, <1>1, PTL DEF MailSpec

\* A call carries a lapsed token only if more than the skew went by, while the
\* answer was on its way and since the token was taken: for any number of mails
\* whose calls last any time, an older answer stored over a newer one included.
THEOREM SkewCovers == MailSpec => []SkewCoversDelays
<1>1. MailInv => SkewCoversDelays
  BY TimesTyped, TokenTyped DEF SkewCoversDelays, MailInv
<1> QED BY MailInvHolds, <1>1, PTL

-------------------------------------------------------------------------------
(* The migrator *)

\* The records have no gap, and the tables they speak of are there.
HistoryWhole ==
  /\ recorded \subseteq schema
  /\ \A v \in recorded, w \in Migrations : w < v => w \in recorded
  /\ 0 \notin schema => schema = {}

\* What an instance read of the tables under the lock is still so, but for what
\* it wrote itself: the versions below its loop's.
LoopKnows(i) ==
  /\ boot[i] \in Locked => advisory_lock = i
  /\ boot[i] = "probing" => applied[i] = recorded
  /\ boot[i] \in {"migrating", "ran"} =>
       /\ \A v \in 0..Files[i] :
            v \in recorded <=> v \in applied[i] \/ v < next_version[i]
       /\ next_version[i] = 0 => (baseline_only[i] <=> 0 \in schema)
  /\ boot[i] = "ran" =>
       next_version[i] \in 0..Files[i] /\ next_version[i] \notin applied[i]
  /\ boot[i] \in {"done", "serving"} => 0..Files[i] \subseteq recorded

MigratorInv == MigratorTypeOK /\ HistoryWhole /\ \A i \in Instances : LoopKnows(i)

LEMMA ReleasesTyped ==
  /\ Latest \in Nat /\ MaxBoots \in Nat
  /\ Files \in [Instances -> 0..Latest] /\ NoInstance \notin Instances
BY LatestAssumption, FilesAssumption, InstanceAssumption, BootsAssumption

USE DEF MigratorInv, MigratorTypeOK, HistoryWhole, LoopKnows, Migrations, Locked,
        Stages, tables, loop, Goto

-------------------------------------------------------------------------------
LEMMA MigratorInitInv == MigratorInit => MigratorInv
  BY ReleasesTyped DEF MigratorInit, HistoryInit, Databases

LEMMA KeptByStart ==
  ASSUME MigratorInv, NEW i \in Instances, Start(i) PROVE MigratorInv'
  BY ReleasesTyped DEF Start

LEMMA KeptByLock ==
  ASSUME MigratorInv, NEW i \in Instances,
         pg_advisory_lock(i) \/ LockTimesOut(i)
  PROVE  MigratorInv'
  BY ReleasesTyped, ZenonT(30) DEF pg_advisory_lock, LockTimesOut, LockFree

LEMMA KeptByReads ==
  ASSUME MigratorInv, NEW i \in Instances,
         ReadApplied(i) \/ _has_existing_tables(i)
  PROVE  MigratorInv'
<1>1. CASE ReadApplied(i)
  BY <1>1, ReleasesTyped DEF ReadApplied
<1>2. CASE _has_existing_tables(i)
  <2>1. MigratorTypeOK' /\ HistoryWhole'
    BY <1>2, ReleasesTyped DEF _has_existing_tables
  <2>2. applied[i] = recorded /\ advisory_lock = i
    BY <1>2 DEF _has_existing_tables
  <2>3. ASSUME NEW j \in Instances, j # i PROVE LoopKnows(j)'
    BY <1>2, <2>3, ReleasesTyped DEF _has_existing_tables
  <2>4. boot'[i] = "migrating" /\ next_version'[i] = 0
    BY <1>2, ReleasesTyped DEF _has_existing_tables
  <2>5. baseline_only'[i] <=> 0 \in schema'
    BY <1>2, Zenon DEF _has_existing_tables
  <2>6. \A v \in 0..Files[i] : v \in recorded' <=> v \in applied'[i] \/ v < next_version'[i]
    BY <1>2, <2>2, <2>4, ReleasesTyped DEF _has_existing_tables
  <2>7. LoopKnows(i)'
    BY <1>2, <2>2, <2>4, <2>5, <2>6 DEF _has_existing_tables
  <2> QED BY <2>1, <2>3, <2>7
<1> QED BY <1>1, <1>2

\* The next file is the least that is not recorded.
LEMMA KeptByExecute ==
  ASSUME MigratorInv, NEW i \in Instances, Execute(i) PROVE MigratorInv'
<1>1. PICK v \in 0..Files[i] :
        /\ v >= next_version[i] /\ v \notin applied[i]
        /\ \A w \in 0..Files[i] : w >= next_version[i] /\ w \notin applied[i] => v <= w
        /\ next_version' = [next_version EXCEPT ![i] = v]
  BY ReleasesTyped DEF Execute, Pending, discover_migrations
<1>2. Files[i] \in 0..Latest /\ v \in 0..(Latest + 1) /\ next_version[i] \in Nat
  BY ReleasesTyped
<1>3. MigratorTypeOK' /\ HistoryWhole'
  BY <1>1, <1>2, ReleasesTyped DEF Execute
<1>4. ASSUME NEW j \in Instances, j # i PROVE LoopKnows(j)'
  BY <1>1, <1>4, ReleasesTyped DEF Execute
<1>5. boot[i] = "migrating" /\ boot'[i] = "ran" /\ next_version'[i] = v
  BY <1>1, ReleasesTyped DEF Execute
<1>6. \A w \in 0..Files[i] : w \in recorded <=> w \in applied[i] \/ w < v
  BY <1>1, <1>2, <1>5
<1>7. v = 0 => (baseline_only[i] <=> 0 \in schema)
  <2>1. v = 0 => next_version[i] = 0
    BY <1>1, <1>2
  <2> QED BY <1>5, <2>1
<1>8. LoopKnows(i)'
  BY <1>1, <1>5, <1>6, <1>7 DEF Execute
<1> QED BY <1>3, <1>4, <1>8

\* The step of the history that a committing transaction takes.
LEMMA RecordApplies ==
  ASSUME MigratorInv, NEW i \in Instances, Record(i)
  PROVE  next_version[i] \in Migrations /\ Apply(next_version[i])
<1> DEFINE v == next_version[i]
<1>1. boot[i] = "ran" /\ v \notin recorded /\ recorded' = recorded \cup {v}
  BY DEF Record
<1>2. /\ v \in 0..Files[i]
      /\ v = 0 => (baseline_only[i] <=> 0 \in schema)
      /\ \A w \in 0..Files[i] : w < v => w \in recorded
  BY <1>1
<1>3. Files[i] \in 0..Latest /\ v \in 0..Latest
  BY <1>2, ReleasesTyped
<1>4. \A w \in Migrations : w < v => w \in recorded
  BY <1>2, <1>3, ReleasesTyped
<1>5. schema' = schema \cup Effect(i)
  BY DEF Record
<1>6. \/ v = 0 /\ 0 \notin schema /\ \E n \in Migrations : schema' = 0..n
      \/ v = 0 /\ 0 \in schema /\ schema' = schema
      \/ v # 0 /\ schema' = schema \cup {v}
  BY <1>2, <1>3, <1>5 DEF Effect, Skipped
<1> QED BY <1>1, <1>3, <1>4, <1>6 DEF Apply

LEMMA KeptByRecord ==
  ASSUME MigratorInv, NEW i \in Instances, Record(i) PROVE MigratorInv'
<1> DEFINE v == next_version[i]
<1>1. Apply(v) /\ v \in Migrations
  BY RecordApplies
<1>2. /\ boot[i] = "ran" /\ v \in 0..Files[i] /\ advisory_lock = i
      /\ boot' = [boot EXCEPT ![i] = "migrating"]
      /\ next_version' = [next_version EXCEPT ![i] = v + 1]
      /\ UNCHANGED <<advisory_lock, boots, applied, baseline_only>>
  BY DEF Record
<1>3. recorded' \subseteq schema' /\ recorded' \subseteq Migrations
      /\ schema' \subseteq Migrations /\ 0 \in schema'
  <2>1. CASE v = 0 /\ 0 \notin schema
    <3>1. PICK n \in Migrations : schema' = 0..n
      BY <1>1, <2>1 DEF Apply
    <3>2. recorded = {} /\ recorded' = {0} /\ 0 \in Migrations
      BY <1>1, <2>1, ReleasesTyped DEF Apply
    <3> QED BY <3>1, <3>2, ReleasesTyped
  <2>2. CASE 0 \in schema
    BY <1>1, <2>2 DEF Apply
  <2>3. v # 0 => 0 \in recorded
    BY <1>1, ReleasesTyped DEF Apply
  <2> QED BY <2>1, <2>2, <2>3
<1>4. v + 1 \in 0..(Latest + 1) /\ v + 1 # 0
  BY <1>1, ReleasesTyped
<1>5. MigratorTypeOK'
  BY <1>2, <1>3, <1>4, ReleasesTyped
<1>6. recorded' = recorded \cup {v}
  BY <1>1 DEF Apply
<1>7. HistoryWhole'
  BY <1>1, <1>3, <1>6 DEF Apply
<1>8. ASSUME NEW j \in Instances, j # i PROVE LoopKnows(j)'
  BY <1>2, <1>6, <1>8
<1>9. boot'[i] = "migrating" /\ next_version'[i] = v + 1 /\ applied'[i] = applied[i]
  BY <1>2
<1>10. \A w \in 0..Files[i] : w \in recorded' <=> w \in applied[i] \/ w < v + 1
  BY <1>2, <1>6, <1>3, <1>1
<1>11. LoopKnows(i)'
  BY <1>2, <1>4, <1>9, <1>10
<1> QED BY <1>5, <1>8, <1>11, <1>7

LEMMA KeptByEnd ==
  ASSUME MigratorInv, NEW i \in Instances,
         Abort(i) \/ Finish(i) \/ pg_advisory_unlock(i) \/ Crash(i)
  PROVE  MigratorInv'
<1>1. CASE Abort(i)
  BY <1>1, ReleasesTyped DEF Abort
<1>2. CASE Finish(i)
  <2>1. \A v \in 0..Files[i] : v \in recorded
    BY <1>2, ReleasesTyped DEF Finish, Pending, discover_migrations
  <2> QED BY <1>2, <2>1, ReleasesTyped DEF Finish
<1>3. CASE pg_advisory_unlock(i)
  BY <1>3, ReleasesTyped DEF pg_advisory_unlock, Released
<1>4. CASE Crash(i)
  BY <1>4, ReleasesTyped DEF Crash
<1> QED BY <1>1, <1>2, <1>3, <1>4

LEMMA MigratorKeptByStuttering ==
  ASSUME MigratorInv, UNCHANGED migratorVars PROVE MigratorInv'
  BY DEF migratorVars

HIDE DEF MigratorInv

-------------------------------------------------------------------------------
\* The invariant of the lock and of what is known under it is inductive.
THEOREM MigratorInvHolds == MigratorSpec => []MigratorInv
<1>1. MigratorInv /\ [MigratorNext]_migratorVars => MigratorInv'
  BY KeptByStart, KeptByLock, KeptByReads, KeptByExecute, KeptByRecord, KeptByEnd,
     MigratorKeptByStuttering
  DEF MigratorNext, run_migrations
<1> QED BY MigratorInitInv, <1>1, PTL DEF MigratorSpec

\* No boot meets a record it did not expect, and who serves has all tables of
\* its release.
THEOREM BootsAgreeAlways == MigratorSpec => []BootsAgree
<1>1. MigratorInv => BootsAgree
  BY ReleasesTyped DEF MigratorInv, BootsAgree, discover_migrations
<1> QED BY MigratorInvHolds, <1>1, PTL

\* The boots implement SchemaHistory: a step is Apply of the version whose
\* transaction commits, or leaves the records and the schema alone.
THEOREM HistoryImplemented == MigratorSpec => MigratesInOrder
<1>1. MigratorInit => History!HistoryInit
  BY DEF MigratorInit, HistoryInit, Databases, History!HistoryInit,
         History!Databases, History!Migrations
<1>2. MigratorInv /\ [MigratorNext]_migratorVars
        => [\E v \in History!Migrations : History!Apply(v)]_(History!historyVars)
  <2> SUFFICES ASSUME MigratorInv, [MigratorNext]_migratorVars
               PROVE  \/ \E v \in Migrations : Apply(v)
                      \/ UNCHANGED <<recorded, schema>>
    BY DEF Apply, History!Migrations, History!Apply, History!historyVars
  <2>1. ASSUME NEW i \in Instances, Record(i)
        PROVE  \E v \in Migrations : Apply(v)
    BY <2>1, RecordApplies
  <2>2. ASSUME NEW i \in Instances,
               \/ Start(i) \/ pg_advisory_lock(i) \/ ReadApplied(i)
               \/ _has_existing_tables(i) \/ Execute(i) \/ Abort(i) \/ Finish(i)
               \/ pg_advisory_unlock(i) \/ LockTimesOut(i) \/ Crash(i)
        PROVE  UNCHANGED <<recorded, schema>>
    BY <2>2 DEF Start, pg_advisory_lock, ReadApplied, _has_existing_tables,
                Execute, Abort, Finish, pg_advisory_unlock, LockTimesOut, Crash
  <2> QED BY <2>1, <2>2 DEF MigratorNext, run_migrations, migratorVars
<1> QED BY <1>1, <1>2, MigratorInvHolds, PTL
        DEF MigratorSpec, MigratesInOrder, History!HistorySpec
===============================================================================
